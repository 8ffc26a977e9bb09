-------------------------- MODULE QuicFlight_proofs --------------------------
(***************************************************************************)
(* Theorems about QuicFlight for any datagrams, ranges, profiles and       *)
(* limits: what is kept back is one hello that still lacks something, and  *)
(* the handler implements PacketRelay.                                     *)
(***************************************************************************)
EXTENDS QuicFlight, WellFoundedInduction, TLAPS

------------------------------------------------------------------------------
(* Sequences. *)

Distinct(s) == \A i, j \in DOMAIN s : s[i] = s[j] => i = j

(* A datagram at the end of a queue. *)
LEMMA OneMore ==
  ASSUME NEW S, NEW q \in Seq(S), NEW x \in S
  PROVE  /\ Append(q, x) \in Seq(S) /\ Append(q, x) # <<>>
         /\ Elements(Append(q, x)) = Elements(q) \cup {x}
         /\ Distinct(q) /\ x \notin Elements(q) => Distinct(Append(q, x))
  <1> DEFINE t == Append(q, x)
  <1>1. /\ t \in Seq(S) /\ t # <<>>
        /\ DOMAIN t = 1 .. Len(q) + 1 /\ DOMAIN q = 1 .. Len(q) /\ Len(q) \in Nat
        /\ \A i \in 1 .. Len(q) : t[i] = q[i]
        /\ t[Len(q) + 1] = x
    OBVIOUS
  <1> HIDE DEF t
  <1>2. Elements(t) = Elements(q) \cup {x}
    BY <1>1 DEF Elements
  <1>3. Distinct(q) /\ x \notin Elements(q) => Distinct(t)
    BY <1>1 DEF Elements, Distinct
  <1> QED
    BY <1>1, <1>2, <1>3 DEF t

(* Two sequences in a row hold what both hold. *)
LEMMA Joined ==
  ASSUME NEW S, NEW p \in Seq(S), NEW q \in Seq(S)
  PROVE  p \o q \in Seq(S) /\ Elements(p \o q) = Elements(p) \cup Elements(q)
  <1> DEFINE t == p \o q
  <1>1. /\ t \in Seq(S)
        /\ DOMAIN t = 1 .. Len(p) + Len(q) /\ DOMAIN p = 1 .. Len(p) /\ DOMAIN q = 1 .. Len(q)
        /\ Len(p) \in Nat /\ Len(q) \in Nat
        /\ \A i \in 1 .. Len(p) : t[i] = p[i]
        /\ \A i \in Len(p) + 1 .. Len(p) + Len(q) : t[i] = q[i - Len(p)]
    OBVIOUS
  <1> HIDE DEF t
  <1>2. \A i \in DOMAIN q : i + Len(p) \in DOMAIN t /\ t[i + Len(p)] = q[i]
    BY <1>1
  <1>3. \A i \in DOMAIN p : i \in DOMAIN t /\ t[i] = p[i]
    BY <1>1
  <1>4. \A i \in DOMAIN t : \/ i \in DOMAIN p /\ t[i] = p[i]
                            \/ i - Len(p) \in DOMAIN q /\ t[i] = q[i - Len(p)]
    BY <1>1
  <1>5. Elements(t) = Elements(p) \cup Elements(q)
    BY <1>2, <1>3, <1>4 DEF Elements
  <1> QED
    BY <1>1, <1>5 DEF t

------------------------------------------------------------------------------
(* The CRYPTO stream. *)

(* A unit is held by a range around it. *)
LEMMA InUnits ==
  ASSUME NEW R \in SUBSET Ranges, NEW x \in Int
  PROVE  x \in Units(R) <=> \E r \in R : r.offset <= x /\ x < End(r)
  <1>1. x \in Units(R) <=> \E r \in R : x \in r.offset .. End(r) - 1
    BY DEF Units
  <1>2. \A r \in R : r.offset \in Nat /\ End(r) \in Nat
    BY DEF Ranges, End
  <1> QED
    BY <1>1, <1>2

(* Ranges that hold every unit of the hello, and none beyond it, come out  *)
(* as one range from its start to its end.                                 *)
LEMMA CoveredIsWhole ==
  ASSUME NEW R \in SUBSET Ranges,
         \A r \in R : End(r) <= HelloLen,
         0 .. HelloLen - 1 \subseteq Units(R)
  PROVE  Full(R) /\ IsQUICCryptoHello(R) /\ IsTLSHandshakeFull(R)
  <1>1. \A r \in R : r.offset \in Nat /\ r.len \in Nat \ {0} /\ End(r) = r.offset + r.len
    BY DEF Ranges, End
  <1>2. HelloLen \in Nat \ {0} /\ HelloHead \in Nat /\ HelloHead <= HelloLen
    BY LimitAssumption
  <1>3. \A x \in 0 .. HelloLen - 1 : \E r \in R : r.offset <= x /\ x < End(r)
    BY InUnits, <1>2
  <1>4. PICK first \in R : first.offset <= 0
    BY <1>2, <1>3
  <1>5. first.offset = 0
    BY <1>1, <1>4
  <1>6. ASSUME NEW r \in R, r.offset # 0
        PROVE  \E q \in R : q.offset < r.offset /\ r.offset <= End(q)
    <2>1. r.offset - 1 \in 0 .. HelloLen - 1
      BY <1>1, <1>2, <1>6
    <2>2. PICK q \in R : q.offset <= r.offset - 1 /\ r.offset - 1 < End(q)
      BY <1>3, <2>1
    <2> QED
      BY <1>1, <2>2
  <1>7. Full(R)
    BY <1>5, <1>6 DEF Full
  <1>8. PICK last \in R : HelloLen - 1 < End(last)
    BY <1>2, <1>3
  <1>9. HelloLen <= End(last) /\ HelloHead <= End(last)
    BY <1>1, <1>2, <1>8
  <1> QED
    BY <1>7, <1>9 DEF IsQUICCryptoHello, IsTLSHandshakeFull, Reaches

------------------------------------------------------------------------------
(* The inductive invariant. *)

TypeOK ==
  /\ delayed \in Seq(Datagram)
  /\ reasm \in [size : {0, UDP_MAX_REASM}, present : Nat, ranges : Seq(Ranges)]

IInv ==
  /\ TypeOK
  /\ Distinct(delayed)
  /\ ~ IsOpen => reasm = NoReasm
  /\ HeldIsPartOfHello

(* What a handler does to the queue and the buffer: it ends the session and *)
(* sends what was kept and then the datagram, or lets this one pass, or     *)
(* keeps it.                                                                *)
Ends(d) == reasm' = NoReasm /\ delayed' = <<>> /\ sent' = Append(delayed, d)

Passes(d) == UNCHANGED <<reasm, delayed>> /\ sent' = <<d>>

Kept(d) ==
  /\ IsDefragged(d) /\ Keeps(d) /\ ~ IsWhole(d)
  /\ reasm' = With(d) /\ delayed' = Append(delayed, d) /\ sent' = <<>>

(* Every path through the handler is one of these. *)
LEMMA Handled ==
  ASSUME NEW d \in Datagram, Handle(d)
  PROVE  d \notin Held /\ lost' = {} /\ (Ends(d) \/ Passes(d) \/ Kept(d))
  <1>1. ASSUME NEW c, NEW host, NEW any, Desync(d, c, host, any) PROVE Ends(d)
    BY <1>1 DEF Desync, Release, Ends
  <1>2. ASSUME NEW c, Unless(d, c) PROVE Ends(d)
    BY <1>1, <1>2 DEF Unless, Release, Ends
  <1>3. CASE OutOfInterval(d)
    BY <1>3 DEF OutOfInterval, Comes, Release, Ends
  <1>4. CASE PassEmpty(d)
    BY <1>4 DEF PassEmpty, Comes, Passes
  <1>5. CASE NotInitial(d)
    BY <1>1, <1>2, <1>5 DEF NotInitial, Comes
  <1>6. CASE NoRoom(d)
    BY <1>6 DEF NoRoom, Initial, Comes, Release, Ends
  <1>7. CASE Unreadable(d)
    BY <1>2, <1>7 DEF Unreadable, Initial, Comes
  <1>8. CASE HoldPart(d)
    BY <1>8 DEF HoldPart, Initial, Comes, Kept
  <1>9. CASE NoMemory(d)
    BY <1>9 DEF NoMemory, Initial, Comes, Release, Ends
  <1>10. CASE ReplayHello(d)
    BY <1>10 DEF ReplayHello, Initial, Comes, Ends
  <1>11. CASE PassHello(d)
    BY <1>1, <1>11 DEF PassHello, Initial, Comes, Release, Ends
  <1>12. CASE PassNoHello(d)
    BY <1>2, <1>12 DEF PassNoHello, Initial, Comes
  <1>13. CASE Untracked(d)
    BY <1>13 DEF Untracked, Comes, Passes
  <1> QED
    BY <1>3, <1>4, <1>5, <1>6, <1>7, <1>8, <1>9, <1>10, <1>11, <1>12, <1>13 DEF Handle

(* What is in the buffer of the conversation, and with the text of d too,  *)
(* is ranges of the hello.                                                 *)
LEMMA BufferWith ==
  ASSUME IInv, NEW d \in Datagram
  PROVE  /\ With(d) \in [size : {0, UDP_MAX_REASM}, present : Nat, ranges : Seq(Ranges)]
         /\ With(d).size = UDP_MAX_REASM
         /\ With(d).present = reasm.present + CleanLen[d]
         /\ InBuffer(d) = Elements(reasm.ranges) \cup Elements(Crypto[d])
         /\ InBuffer(d) \in SUBSET Ranges
         /\ \A r \in InBuffer(d) : End(r) <= HelloLen
  <1>1. /\ reasm.ranges \in Seq(Ranges) /\ Crypto[d] \in Seq(Ranges)
        /\ reasm.present + CleanLen[d] \in Nat
    BY DatagramAssumption DEF IInv, TypeOK
  <1>2. InBuffer(d) = Elements(reasm.ranges) \cup Elements(Crypto[d])
    BY <1>1, Joined DEF InBuffer, With
  <1>3. Held \subseteq Datagram
    BY DEF IInv, TypeOK, Held, Elements
  <1>4. \A x \in Datagram : \A r \in Elements(Crypto[x]) : r \in Ranges /\ End(r) <= HelloLen
    BY DatagramAssumption DEF Elements
  <1>5. \A r \in InBuffer(d) : \E x \in Datagram : r \in Elements(Crypto[x])
    BY <1>2, <1>3 DEF IInv, HeldIsPartOfHello
  <1>6. reasm.ranges \o Crypto[d] \in Seq(Ranges)
    BY <1>1, Joined
  <1>7. With(d) \in [size : {0, UDP_MAX_REASM}, present : Nat, ranges : Seq(Ranges)]
    BY <1>1, <1>6 DEF With
  <1> QED
    BY <1>2, <1>4, <1>5, <1>7 DEF With

(* The end of a session and the end of the entry leave nothing. *)
LEMMA EmptyInv ==
  ASSUME reasm' = NoReasm, delayed' = <<>>
  PROVE  IInv'
  <1>1. /\ reasm'.size = 0 /\ reasm'.ranges = <<>>
        /\ reasm' \in [size : {0, UDP_MAX_REASM}, present : Nat, ranges : Seq(Ranges)]
    BY DEF NoReasm
  <1>2. delayed' \in Seq(Datagram) /\ Held' = {} /\ Distinct(delayed')
    BY DEF Held, Elements, Distinct
  <1>3. Elements(reasm'.ranges) = {}
    BY <1>1 DEF Elements
  <1>4. 0 \in 0 .. HelloLen - 1 /\ 0 \notin Units({})
    BY LimitAssumption, InUnits
  <1>5. HeldIsPartOfHello'
    BY <1>1, <1>2, <1>3, <1>4 DEF HeldIsPartOfHello, IsOpen
  <1> QED
    BY <1>1, <1>2, <1>5 DEF IInv, TypeOK, IsOpen

(* A datagram that is kept goes into the buffer, and something still lacks. *)
LEMMA KeptInv ==
  ASSUME IInv, NEW d \in Datagram, d \notin Held, Kept(d)
  PROVE  IInv'
  <1>1. TypeOK'
    BY BufferWith, OneMore DEF IInv, TypeOK, Kept
  <1>2. delayed' # <<>> /\ Held' = Held \cup {d} /\ Distinct(delayed')
    BY OneMore DEF IInv, TypeOK, Kept, Held
  <1>3. IsOpen'
    BY BufferWith, LimitAssumption DEF IsOpen, Kept
  <1>4. reasm'.present <= reasm'.size
    <2>1. reasm'.present = reasm.present + CleanLen[d] /\ reasm'.size = UDP_MAX_REASM
      BY BufferWith DEF Kept
    <2>2. CASE IsOpen
      <3>1. reasm.present + CleanLen[d] <= reasm.size
        BY <2>2 DEF Kept, IsDefragged, ReasmHasSpace
      <3>2. reasm.size = UDP_MAX_REASM
        BY <2>2 DEF IInv, TypeOK, IsOpen
      <3> QED
        BY <2>1, <3>1, <3>2
    <2>3. CASE ~ IsOpen
      <3>1. reasm.present = 0 /\ CleanLen[d] \in Nat /\ CleanLen[d] <= UDP_MAX_REASM
        BY <2>3, DatagramAssumption DEF IInv, NoReasm
      <3> QED
        BY <2>1, <3>1
    <2> QED
      BY <2>2, <2>3
  <1>5. Elements(reasm'.ranges) = InBuffer(d)
    BY DEF Kept, InBuffer
  <1>6. Elements(reasm'.ranges) = UNION {Elements(Crypto[x]) : x \in Held'}
    BY <1>2, <1>5, BufferWith DEF IInv, HeldIsPartOfHello
  <1>7. ~ (0 .. HelloLen - 1 \subseteq Units(Elements(reasm'.ranges)))
    BY <1>5, BufferWith, CoveredIsWhole DEF Kept, IsWhole
  <1> QED
    BY <1>1, <1>2, <1>3, <1>4, <1>6, <1>7 DEF IInv, HeldIsPartOfHello

(* Every step keeps the invariant. *)
LEMMA StepInv ==
  ASSUME IInv, [Next]_vars
  PROVE  IInv'
  <1>1. ASSUME NEW d \in Datagram, Handle(d) PROVE IInv'
    <2>1. CASE Ends(d)
      BY <2>1, EmptyInv DEF Ends
    <2>2. CASE Passes(d)
      BY <2>2 DEF Passes, IInv, TypeOK, HeldIsPartOfHello, IsOpen, Held
    <2>3. CASE Kept(d)
      BY <1>1, <2>3, Handled, KeptInv
    <2> QED
      BY <1>1, <2>1, <2>2, <2>3, Handled
  <1>2. CASE Forget
    BY <1>2, EmptyInv DEF Forget
  <1>3. CASE UNCHANGED vars
    BY <1>3 DEF vars, IInv, TypeOK, HeldIsPartOfHello, IsOpen, Held
  <1> QED
    BY <1>1, <1>2, <1>3 DEF Next

LEMMA InitInv == Init => IInv
  <1> SUFFICES ASSUME Init PROVE IInv
    OBVIOUS
  <1>1. /\ reasm.size = 0 /\ reasm.ranges = <<>> /\ reasm = NoReasm
        /\ reasm \in [size : {0, UDP_MAX_REASM}, present : Nat, ranges : Seq(Ranges)]
    BY DEF Init, NoReasm
  <1>2. delayed = <<>> /\ delayed \in Seq(Datagram) /\ Held = {} /\ Distinct(delayed)
    BY DEF Init, Held, Elements, Distinct
  <1>3. Elements(reasm.ranges) = {}
    BY <1>1 DEF Elements
  <1>4. 0 \in 0 .. HelloLen - 1 /\ 0 \notin Units({})
    BY LimitAssumption, InUnits
  <1> QED
    BY <1>1, <1>2, <1>3, <1>4 DEF IInv, TypeOK, HeldIsPartOfHello, IsOpen

(* The invariant holds throughout. *)
THEOREM Invariant == Spec => []IInv
  BY InitInv, StepInv, PTL DEF Spec

(* What is kept back is one hello that still lacks something, and the      *)
(* buffer is made of it and of nothing else.                               *)
THEOREM HeldIsIncomplete == Spec => []HeldIsPartOfHello
  <1>1. IInv => HeldIsPartOfHello
    BY DEF IInv
  <1> QED
    BY <1>1, Invariant, PTL

------------------------------------------------------------------------------
(* The relay. *)

(* One step of the handler is one step of the relay. *)
LEMMA StepIsRelayed ==
  ASSUME IInv, [Next]_vars
  PROVE  [Relay!RelayNext]_(Relay!rvars)
  <1>1. ASSUME NEW d \in Datagram, Handle(d) PROVE Relay!Take(d)
    <2>1. d \notin Held /\ lost' = {} /\ (Ends(d) \/ Passes(d) \/ Kept(d))
      BY <1>1, Handled
    <2>2. CASE Ends(d)
      <3>1. /\ sent' \in Seq(Held \cup {d})
            /\ Elements(sent') = Held \cup {d} /\ Distinct(sent')
        <4>1. delayed \in Seq(Held \cup {d})
          BY DEF IInv, TypeOK, Held, Elements
        <4> QED
          BY <2>1, <2>2, <4>1, OneMore DEF Ends, Held, IInv
      <3>2. Relay!Lists(sent', Held \cup {d})
        BY <3>1 DEF Relay!Lists, Elements, Distinct
      <3>3. Held' = {}
        BY <2>2 DEF Ends, Held, Elements
      <3> QED
        BY <2>1, <3>2, <3>3 DEF Relay!Take, Relay!HandOn
    <2>3. CASE Passes(d)
      <3>1. Relay!Lists(sent', {d})
        BY <2>3 DEF Passes, Relay!Lists
      <3>2. Held' = (Held \cup {d}) \ {d}
        BY <2>1, <2>3 DEF Passes, Held
      <3> QED
        BY <2>1, <3>1, <3>2 DEF Relay!Take, Relay!HandOn
    <2>4. CASE Kept(d)
      <3>1. Relay!Lists(sent', {})
        BY <2>4 DEF Kept, Relay!Lists
      <3>2. Held' = (Held \cup {d}) \ {}
        BY <2>4, OneMore DEF Kept, Held, IInv, TypeOK
      <3> QED
        BY <2>1, <3>1, <3>2 DEF Relay!Take, Relay!HandOn
    <2> QED
      BY <2>1, <2>2, <2>3, <2>4
  <1>2. CASE Forget
    BY <1>2 DEF Forget, Relay!Forget, Relay!RelayNext, Held, Elements
  <1>3. CASE UNCHANGED vars
    BY <1>3 DEF vars, Held, Relay!rvars
  <1> QED
    BY <1>1, <1>2, <1>3 DEF Next, Relay!RelayNext

(* The handler implements PacketRelay: every datagram it takes it hands on *)
(* once, at once or later, or loses with the whole entry.                  *)
THEOREM ImplementsPacketRelay == Spec => ImplementsRelay
  <1>1. Init => Relay!RelayInit
    BY DEF Init, Relay!RelayInit, Held, Elements
  <1> QED
    BY <1>1, StepIsRelayed, Invariant, PTL DEF Spec, ImplementsRelay, Relay!RelaySpec

------------------------------------------------------------------------------
(* A hello is one request. *)

(* A set of naturals that is not empty has a least element. *)
LEMMA LeastNatural ==
  ASSUME NEW T \in SUBSET Nat, T # {}
  PROVE  \E x \in T : \A y \in T : x <= y
  <1> DEFINE B == OpToRel(<, Nat)
  <1>1. \A y, x \in Nat : <<y, x>> \in B <=> y < x
    BY DEF OpToRel
  <1>2. IsWellFoundedOn(B, Nat)
    BY NatLessThanWellFounded
  <1> HIDE DEF B
  <1>3. PICK x \in T : \A y \in T : ~ (<<y, x>> \in B)
    BY <1>2, WFMin
  <1>4. \A y \in T : x \in Nat /\ y \in Nat /\ ~ (y < x)
    BY <1>1, <1>3
  <1> QED
    BY <1>3, <1>4

(* Ranges that come out as one hold every unit up to where they reach: of   *)
(* those that end behind a unit, the one that begins first begins no later. *)
LEMMA FullIsCovered ==
  ASSUME NEW R \in SUBSET Ranges, NEW n \in Nat, Full(R), Reaches(R, n)
  PROVE  0 .. n - 1 \subseteq Units(R)
  <1> SUFFICES ASSUME NEW x \in 0 .. n - 1 PROVE x \in Units(R)
    OBVIOUS
  <1> DEFINE Behind == {r \in R : x < End(r)}
             Starts == {r.offset : r \in Behind}
  <1>1. \A r \in R : r.offset \in Nat /\ End(r) \in Nat
    BY DEF Ranges, End
  <1>2. Behind # {}
    BY <1>1 DEF Reaches
  <1>3. Starts \in SUBSET Nat /\ Starts # {}
    BY <1>1, <1>2
  <1>4. PICK o \in Starts : \A y \in Starts : o <= y
    BY <1>3, LeastNatural
  <1>5. PICK r \in Behind : r.offset = o
    BY <1>4
  <1>6. r.offset <= x
    <2>1. CASE r.offset = 0
      BY <2>1
    <2>2. CASE r.offset # 0
      <3>1. PICK q \in R : q.offset < r.offset /\ r.offset <= End(q)
        BY <2>2, <1>5 DEF Full
      <3>2. q \notin Behind
        BY <1>1, <1>4, <1>5, <3>1
      <3> QED
        BY <1>1, <1>5, <3>1, <3>2
    <2> QED
      BY <2>1, <2>2
  <1> QED
    BY <1>5, <1>6, InUnits

(* With the datagram in a whole buffer the hello is sent by the step that   *)
(* ends the session with it, and by one that hands on a hello of its own.   *)
LEMMA WholeIsSent ==
  ASSUME IInv, NEW d \in Datagram, Ends(d), NEW n \in Nat,
         Full(InBuffer(d)), Reaches(InBuffer(d), n)
  PROVE  HelloSent(n)
  <1>1. Elements(sent') = Held \cup {d}
    BY OneMore DEF IInv, TypeOK, Ends, Held
  <1>2. InBuffer(d) = UNION {Elements(Crypto[x]) : x \in Elements(sent')}
    BY <1>1, BufferWith DEF IInv, HeldIsPartOfHello
  <1>3. 0 .. n - 1 \subseteq Units(InBuffer(d))
    BY BufferWith, FullIsCovered
  <1> QED
    BY <1>2, <1>3 DEF HelloSent

LEMMA WholeHelloIsSent ==
  ASSUME IInv, NEW d \in Datagram, Ends(d), IsWhole(d)
  PROVE  HelloSent(HelloLen) /\ HelloSent(HelloHead)
  BY WholeIsSent, LimitAssumption DEF IsWhole, IsQUICCryptoHello, IsTLSHandshakeFull

(* The forms. *)

(* When a session ends only the datagram at hand has a form. *)
LEMMA ReleaseForms ==
  ASSUME delayed \in Seq(Datagram), NEW d \in Datagram, NEW form, Release(d, form)
  PROVE  /\ Ends(d)
         /\ DOMAIN sent' = 1 .. Len(delayed) + 1 /\ Len(delayed) \in Nat
         /\ sent'[Len(delayed) + 1] = d /\ forms'[Len(delayed) + 1] = form
         /\ \A i \in 1 .. Len(delayed) : forms'[i] = AsItIs
  <1>1. /\ sent' = Append(delayed, d) /\ Len(sent') = Len(delayed) + 1 /\ Len(delayed) \in Nat
        /\ DOMAIN sent' = 1 .. Len(delayed) + 1 /\ sent'[Len(delayed) + 1] = d
    BY DEF Release
  <1>2. forms' = [[i \in DOMAIN sent' |-> AsItIs] EXCEPT ![Len(sent')] = form]
    BY DEF Release, Untouched
  <1> HIDE DEF AsItIs
  <1>3. \A i \in DOMAIN sent' : forms'[i] = IF i = Len(sent') THEN form ELSE AsItIs
    BY <1>2
  <1> QED
    BY <1>1, <1>3 DEF Release, Ends

LEMMA Unaltered == ~ Touched(AsItIs) /\ ~ AsItIs.fake
  BY DEF Touched, AsItIs

LEMMA ReleaseFakes ==
  ASSUME delayed \in Seq(Datagram), NEW d \in Datagram, NEW form, Release(d, form)
  PROVE  FakesAheadOfFirst
  <1> SUFFICES ASSUME NEW i \in DOMAIN sent', forms'[i].fake, NEW j \in 1 .. i - 1
               PROVE  ~ Touched(forms'[j])
    BY DEF FakesAheadOfFirst
  <1>1. i \in 1 .. Len(delayed) + 1 /\ Len(delayed) \in Nat
    BY ReleaseForms
  <1>2. j \in 1 .. Len(delayed)
    BY <1>1
  <1> QED
    BY <1>2, ReleaseForms, Unaltered

LEMMA ReleaseWaits ==
  ASSUME delayed \in Seq(Datagram), NEW d \in Datagram, NEW form, Release(d, form),
         Kind[d] = "initial" /\ Touched(form) /\ ~ form.any =>
           HelloSent(HelloHead) /\ HelloSent(HelloLen)
  PROVE  WaitsForHello
  <1> SUFFICES ASSUME NEW i \in DOMAIN sent',
                      Kind[sent'[i]] = "initial" /\ Touched(forms'[i]) /\ ~ forms'[i].any
               PROVE  HelloSent(HelloHead) /\ HelloSent(HelloLen)
    BY DEF WaitsForHello
  <1>1. i \in 1 .. Len(delayed) + 1 /\ Len(delayed) \in Nat
    BY ReleaseForms
  <1>2. i \notin 1 .. Len(delayed)
    BY ReleaseForms, Unaltered
  <1>3. i = Len(delayed) + 1
    BY <1>1, <1>2
  <1> QED
    BY <1>3, ReleaseForms

(* A form says whether fakes go ahead, and only for the first of a request. *)
LEMMA FormsFake ==
  ASSUME NEW q, NEW kind, NEW f \in Forms(q, kind, FALSE)
  PROVE  ~ f.fake
  <1> DEFINE fakes == FALSE /\ (q \in Fakes \/ (q \in FakesKnown /\ kind # "unknown"))
             A == IF kind \in Alters[q] THEN BOOLEAN ELSE {FALSE}
  <1>1. f = AsItIs \/ f \in [fake : {fakes}, altered : A, any : {FALSE}]
    BY DEF Forms
  <1>2. fakes = FALSE
    OBVIOUS
  <1> HIDE DEF fakes, A
  <1>3. CASE f \in [fake : {fakes}, altered : A, any : {FALSE}]
    <2>1. f.fake = FALSE
      BY <1>2, <1>3
    <2> QED
      BY <2>1
  <1> QED
    BY <1>1, <1>3, Unaltered

(* What the desync does to a datagram it was let through to by any-proto    *)
(* says so.                                                                 *)
LEMMA AnySaysSo ==
  ASSUME NEW q, NEW kind, NEW f \in Forms(q, kind, TRUE), NEW any \in BOOLEAN
  PROVE  LET g == [f EXCEPT !.any = any /\ Touched(f)]
         IN  any => (Touched(g) => g.any)
  BY DEF Forms, AsItIs, Touched

------------------------------------------------------------------------------
(* The entry. *)

Fields == {"pcounter_orig", "req_retrans_counter", "hostname_discovered"}

IsTrack(c) ==
  Fields \subseteq DOMAIN c /\ c.pcounter_orig \in Nat /\ c.req_retrans_counter \in Nat

(* e counts as many packets as c, and perhaps the retransmission is stopped *)
(* or, if `may', counted.                                                   *)
Judges(c, e, may) ==
  /\ IsTrack(e)
  /\ e.pcounter_orig = c.pcounter_orig
  /\ \/ e.req_retrans_counter \in {c.req_retrans_counter, RetransThreshold}
     \/ may /\ e.req_retrans_counter = c.req_retrans_counter + 1

LEMMA CutoffKeeps ==
  ASSUME NEW c, IsTrack(c)
  PROVE  LET e == maybe_cutoff(c)
         IN  /\ IsTrack(e)
             /\ e.pcounter_orig = c.pcounter_orig
             /\ e.req_retrans_counter = c.req_retrans_counter
             /\ e.hostname_discovered = c.hostname_discovered
  BY DEF IsTrack, Fields, maybe_cutoff

(* A packet that is fed is counted. *)
LEMMA FedCounts ==
  ASSUME IsTrack(track), NEW d \in Datagram, NEW c \in Fed(d) \cup Looks(d)
  PROVE  /\ IsTrack(c)
         /\ c.pcounter_orig # 0
         /\ c.req_retrans_counter = track.req_retrans_counter
         /\ c.hostname_discovered = track.hostname_discovered
  <1>1. ASSUME NEW f \in Fed(d)
        PROVE  /\ IsTrack(f)
               /\ f.pcounter_orig # 0
               /\ f.req_retrans_counter = track.req_retrans_counter
               /\ f.hostname_discovered = track.hostname_discovered
    <2>1. PICK q : f = maybe_cutoff([track EXCEPT
                          !.pcounter_orig = Bump(@),
                          !.pdcounter_orig = IF Kind[d] = "empty" THEN @ ELSE Bump(@),
                          !.dp = q])
      BY DEF Fed
    <2> DEFINE n == IF Kind[d] = "empty" THEN track.pdcounter_orig ELSE Bump(track.pdcounter_orig)
               e == [track EXCEPT !.pcounter_orig = Bump(track.pcounter_orig),
                                  !.pdcounter_orig = n, !.dp = q]
    <2>2. f = maybe_cutoff(e)
      BY <2>1
    <2>3. Bump(track.pcounter_orig) \in Nat \ {0}
      BY LimitAssumption DEF Bump, IsTrack
    <2> HIDE DEF n
    <2>4. /\ IsTrack(e)
          /\ e.pcounter_orig # 0
          /\ e.req_retrans_counter = track.req_retrans_counter
          /\ e.hostname_discovered = track.hostname_discovered
      BY <2>3 DEF IsTrack, Fields
    <2> HIDE DEF e
    <2> QED
      BY <2>2, <2>4, CutoffKeeps
  <1>2. CASE c \in Looks(d)
    <2>1. PICK f \in Fed(d) : c = Recognised(f, d)
      BY <1>2 DEF Looks
    <2> QED
      BY <1>1, <2>1 DEF Recognised, IsTrack, Fields
  <1> QED
    BY <1>1, <1>2

LEMMA StoppedKeeps ==
  ASSUME NEW c, IsTrack(c), NEW may
  PROVE  Judges(c, Stopped(c), may) /\ Stopped(c).hostname_discovered = c.hostname_discovered
  BY LimitAssumption DEF Stopped, Judges, IsTrack, Fields

LEMMA CountedAdds ==
  ASSUME NEW c, IsTrack(c)
  PROVE  Judges(c, Counted(c), TRUE)
  BY DEF Counted, Judges, IsTrack, Fields

LEMMA SearchedKeeps ==
  ASSUME NEW c, IsTrack(c), NEW host \in BOOLEAN, NEW f \in Searched(c, host)
  PROVE  /\ IsTrack(f)
         /\ f.pcounter_orig = c.pcounter_orig
         /\ f.req_retrans_counter = c.req_retrans_counter
  BY DEF Searched, IsTrack, Fields

LEMMA HostlistCheckedJudges ==
  ASSUME NEW c, IsTrack(c), NEW host \in BOOLEAN, NEW again,
         NEW o \in HostlistChecked(c, host, again)
  PROVE  Judges(c, o.track, host /\ again)
  <1>1. CASE ~ host \/ c.dp \notin HasLists
    <2>1. o \in {[track |-> c, go |-> TRUE]}
      BY <1>1, Zenon DEF HostlistChecked
    <2>2. o.track = c
      BY <2>1
    <2> QED
      BY <2>2 DEF Judges
  <1>2. CASE host /\ c.dp \in HasLists /\ o = [track |-> Stopped(c), go |-> TRUE]
    BY <1>2, StoppedKeeps
  <1>3. ASSUME NEW a, host,
               o = [track |-> IF again THEN Counted([c EXCEPT !.hostname_ah_check = a])
                              ELSE [c EXCEPT !.hostname_ah_check = a], go |-> FALSE]
        PROVE  Judges(c, o.track, host /\ again)
    <2> DEFINE s == [c EXCEPT !.hostname_ah_check = a]
    <2>1. /\ IsTrack(s)
          /\ s.pcounter_orig = c.pcounter_orig /\ s.req_retrans_counter = c.req_retrans_counter
      BY DEF IsTrack, Fields
    <2>2. o.track = IF again THEN Counted(s) ELSE s
      BY <1>3
    <2> HIDE DEF s
    <2>3. CASE again
      BY <1>3, <2>1, <2>2, <2>3, CountedAdds DEF Judges
    <2>4. CASE ~ again
      BY <2>1, <2>2, <2>4 DEF Judges
    <2> QED
      BY <2>3, <2>4
  <1> QED
    BY <1>1, <1>2, <1>3 DEF HostlistChecked

LEMMA JudgedJudges ==
  ASSUME NEW c, IsTrack(c), NEW host \in BOOLEAN, NEW replay \in BOOLEAN,
         NEW o \in Judged(c, host, replay)
  PROVE  Judges(c, o.track, host /\ c.hostname_discovered)
  <1>1. PICK f \in Searched(c, host) :
          \/ o.track = maybe_cutoff(f)
          \/ o \in HostlistChecked(maybe_cutoff(f), host, c.hostname_discovered)
          \/ o \in HostlistChecked(f, host, c.hostname_discovered)
    BY DEF Judged
  <1>2. /\ IsTrack(f)
        /\ f.pcounter_orig = c.pcounter_orig /\ f.req_retrans_counter = c.req_retrans_counter
    BY SearchedKeeps
  <1>3. /\ IsTrack(maybe_cutoff(f))
        /\ maybe_cutoff(f).pcounter_orig = f.pcounter_orig
        /\ maybe_cutoff(f).req_retrans_counter = f.req_retrans_counter
    BY <1>2, CutoffKeeps
  <1> QED
    BY <1>1, <1>2, <1>3, HostlistCheckedJudges DEF Judges

------------------------------------------------------------------------------
(* The steps. *)

(* A session only runs with an entry that has counted a packet. *)
TrackInv == IsTrack(track) /\ (IsOpen => track.pcounter_orig # 0)

(* c has counted the datagram at hand, which is not counted as a            *)
(* retransmission yet.                                                      *)
Counts(c) ==
  /\ IsTrack(c) /\ c.pcounter_orig # 0
  /\ c.req_retrans_counter \in {track.req_retrans_counter, RetransThreshold}
  /\ c.hostname_discovered = track.hostname_discovered

LEMMA LooksCount ==
  ASSUME IsTrack(track), NEW d \in Datagram, NEW c \in Fed(d) \cup Looks(d)
  PROVE  Counts(c) /\ Counts(Stopped(c))
  BY FedCounts, StoppedKeeps DEF Counts, Judges

OneRequest == WaitsForHello /\ FakesAheadOfFirst /\ CountsOnce /\ TrackInv'

(* Nothing is done to the datagram. *)
LEMMA Untampered ==
  ASSUME IInv, NEW d \in Datagram, Counts(track'),
         \/ Release(d, AsItIs)
         \/ sent' = <<d>> /\ forms' = <<AsItIs>>
         \/ sent' = <<>> /\ forms' = <<>>
  PROVE  OneRequest
  <1>1. TrackInv'
    BY DEF Counts, TrackInv, IsTrack
  <1>2. CountsOnce
    BY DEF Counts, CountsOnce, IsTrack
  <1>3. CASE Release(d, AsItIs)
    BY <1>1, <1>2, <1>3, ReleaseWaits, ReleaseFakes, Unaltered DEF IInv, TypeOK, OneRequest
  <1>4. CASE sent' = <<d>> /\ forms' = <<AsItIs>>
    <2>1. \A i \in DOMAIN sent' : forms'[i] = AsItIs
      BY <1>4
    <2> QED
      BY <1>1, <1>2, <2>1, Unaltered DEF OneRequest, WaitsForHello, FakesAheadOfFirst
  <1>5. CASE sent' = <<>> /\ forms' = <<>>
    BY <1>1, <1>2, <1>5 DEF OneRequest, WaitsForHello, FakesAheadOfFirst
  <1> QED
    BY <1>3, <1>4, <1>5

(* A verdict counts at most one retransmission, of a hello that is sent. *)
LEMMA JudgedCountsOnce ==
  ASSUME IsTrack(track), NEW c, Counts(c), NEW may, Judges(c, track', may),
         may => track.hostname_discovered /\ HelloSent(HelloLen)
  PROVE  CountsOnce /\ IsTrack(track') /\ track'.pcounter_orig # 0
  <1>1. IsTrack(track') /\ track'.pcounter_orig # 0
    BY DEF Judges, Counts
  <1>2. CountsOnce
    <2> SUFFICES ASSUME track.req_retrans_counter < track'.req_retrans_counter,
                        track'.req_retrans_counter < RetransThreshold
                 PROVE  may /\ track'.req_retrans_counter = track.req_retrans_counter + 1
      BY DEF CountsOnce
    <2> QED
      BY LimitAssumption DEF Judges, Counts, IsTrack
  <1> QED
    BY <1>1, <1>2

(* The desync goes on with the datagram at hand. *)
LEMMA DesyncIsOneRequest ==
  ASSUME IInv, TrackInv, NEW d \in Datagram, NEW c, Counts(c),
         NEW host \in BOOLEAN, NEW any \in BOOLEAN, Desync(d, c, host, any),
         Kind[d] = "initial" /\ ~ any => HelloSent(HelloHead) /\ HelloSent(HelloLen),
         host => HelloSent(HelloLen)
  PROVE  OneRequest
  <1>1. PICK o \in Judged(c, host, FALSE) : 
          /\ track' = o.track
          /\ IF o.go
             THEN \E f \in Forms(o.track.dp, Kind[d], TRUE) :
                    Release(d, [f EXCEPT !.any = any /\ Touched(f)])
             ELSE Release(d, AsItIs)
    BY DEF Desync
  <1>2. Judges(c, track', host /\ c.hostname_discovered)
    BY <1>1, JudgedJudges DEF Counts
  <1>3. CountsOnce /\ IsTrack(track') /\ track'.pcounter_orig # 0
    BY <1>2, JudgedCountsOnce DEF TrackInv, Counts
  <1>4. PICK form : Release(d, form) /\ (any => (Touched(form) => form.any))
    <2>1. CASE o.go
      <3>1. PICK f \in Forms(o.track.dp, Kind[d], TRUE) :
              Release(d, [f EXCEPT !.any = any /\ Touched(f)])
        BY <1>1, <2>1
      <3> DEFINE form == [f EXCEPT !.any = any /\ Touched(f)]
      <3>2. any => (Touched(form) => form.any)
        BY AnySaysSo
      <3> QED
        BY <3>1, <3>2
    <2>2. CASE ~ o.go
      BY <1>1, <2>2, Unaltered
    <2> QED
      BY <2>1, <2>2
  <1>5. WaitsForHello
    BY <1>4, ReleaseWaits DEF IInv, TypeOK
  <1>6. FakesAheadOfFirst
    BY <1>4, ReleaseFakes DEF IInv, TypeOK
  <1> QED
    BY <1>3, <1>5, <1>6 DEF OneRequest, TrackInv

LEMMA UnlessIsOneRequest ==
  ASSUME IInv, TrackInv, NEW d \in Datagram, NEW c, Counts(c), Unless(d, c)
  PROVE  OneRequest
  <1>1. CASE Desync(d, c, FALSE, TRUE)
    BY <1>1, DesyncIsOneRequest
  <1>2. CASE track' = c /\ Release(d, AsItIs)
    BY <1>2, Untampered
  <1> QED
    BY <1>1, <1>2 DEF Unless

(* The desync goes on with the queue. *)
LEMMA ReplayIsOneRequest ==
  ASSUME IInv, TrackInv, NEW d \in Datagram, ReplayHello(d)
  PROVE  OneRequest
  <1> DEFINE q == Append(delayed, d)
  <1>1. Ends(d) /\ IsWhole(d) /\ sent' = q
    BY DEF ReplayHello, Ends
  <1>2. HelloSent(HelloLen) /\ HelloSent(HelloHead)
    BY <1>1, WholeHelloIsSent
  <1>3. PICK c \in Looks(d) : Replayed(q, c)
    BY DEF ReplayHello
  <1>4. Counts(c)
    BY LooksCount DEF TrackInv
  <1> HIDE DEF q
  <1>5. WaitsForHello
    BY <1>2 DEF WaitsForHello
  <1>6. CASE track' = c /\ forms' = Untouched(q)
    <2>1. \A i \in DOMAIN q : forms'[i] = AsItIs
      BY <1>6 DEF Untouched
    <2>2. FakesAheadOfFirst
      BY <1>1, <2>1, Unaltered DEF FakesAheadOfFirst
    <2>3. CountsOnce
      BY <1>4, <1>6 DEF Counts, CountsOnce, IsTrack
    <2> QED
      BY <1>4, <1>5, <1>6, <2>2, <2>3 DEF OneRequest, TrackInv, Counts
  <1>7. ASSUME NEW host \in BOOLEAN, NEW o \in Judged(c, host, TRUE), track' = o.track,
               \/ \A i \in DOMAIN q : forms'[i] \in Forms(o.track.dp, "initial", i = 1)
               \/ forms' = Untouched(q)
        PROVE  OneRequest
    <2>1. Judges(c, track', host /\ c.hostname_discovered)
      BY <1>4, <1>7, JudgedJudges DEF Counts
    <2>2. CountsOnce /\ IsTrack(track') /\ track'.pcounter_orig # 0
      BY <1>2, <1>4, <2>1, JudgedCountsOnce DEF TrackInv, Counts
    <2>3. FakesAheadOfFirst
      <3> SUFFICES ASSUME NEW i \in DOMAIN q, forms'[i].fake, NEW j \in 1 .. i - 1
                   PROVE  FALSE
        BY <1>1 DEF FakesAheadOfFirst
      <3>1. i # 1
        OBVIOUS
      <3>2. CASE forms'[i] \in Forms(o.track.dp, "initial", i = 1)
        BY <3>1, <3>2, FormsFake
      <3>3. CASE forms' = Untouched(q)
        <4>1. forms'[i] = AsItIs
          BY <3>3 DEF Untouched
        <4> QED
          BY <4>1, Unaltered
      <3> QED
        BY <1>7, <3>2, <3>3
    <2> QED
      BY <1>5, <2>2, <2>3 DEF OneRequest, TrackInv
  <1>8. HaveHost(InBuffer(Last(q))) \in BOOLEAN
    BY DEF HaveHost, Reaches
  <1> QED
    BY <1>3, <1>6, <1>7, <1>8 DEF Replayed

(* A whole hello in one datagram, with nothing kept before it. *)
LEMMA PassHelloIsOneRequest ==
  ASSUME IInv, TrackInv, NEW d \in Datagram, PassHello(d)
  PROVE  OneRequest
  <1>1. PICK c \in Looks(d) :
          \/ track' = c /\ Release(d, AsItIs)
          \/ Desync(d, c, HaveHost(InBuffer(d)), FALSE)
    BY DEF PassHello
  <1>2. Counts(c)
    BY LooksCount DEF TrackInv
  <1>3. CASE track' = c /\ Release(d, AsItIs)
    BY <1>2, <1>3, Untampered
  <1>4. CASE Desync(d, c, HaveHost(InBuffer(d)), FALSE)
    <2>1. Ends(d) /\ IsWhole(d)
      BY <1>4 DEF PassHello, Desync, Release, Ends
    <2>2. HelloSent(HelloLen) /\ HelloSent(HelloHead)
      BY <2>1, WholeHelloIsSent
    <2>3. HaveHost(InBuffer(d)) \in BOOLEAN
      BY DEF HaveHost, Reaches
    <2> QED
      BY <1>2, <1>4, <2>2, <2>3, DesyncIsOneRequest
  <1> QED
    BY <1>1, <1>3, <1>4

(* Without an entry no session runs. *)
LEMMA UntrackedIsOneRequest ==
  ASSUME IInv, TrackInv, NEW d \in Datagram, Untracked(d)
  PROVE  OneRequest
  <1>1. ~ IsOpen /\ track' = ConntrackInitTrack
    BY DEF Untracked, TrackInv, ConntrackInitTrack
  <1>2. Ends(d) /\ sent' = <<d>>
    <2>1. reasm = NoReasm /\ delayed = <<>>
      BY <1>1 DEF IInv, HeldIsPartOfHello
    <2> QED
      BY <2>1 DEF Untracked, Ends
  <1>3. TrackInv'
    BY DEF Untracked, TrackInv, IsTrack, IsOpen
  <1>4. CountsOnce
    BY DEF Untracked, CountsOnce, TrackInv, IsTrack
  <1>5. FakesAheadOfFirst
    BY <1>2 DEF FakesAheadOfFirst
  <1>6. WaitsForHello
    <2>1. CASE forms' = <<AsItIs>>
      BY <1>2, <2>1, Unaltered DEF WaitsForHello
    <2>2. CASE Kind[d] # "initial"
      BY <1>2, <2>2 DEF WaitsForHello
    <2>3. CASE Kind[d] = "initial" /\ forms' # <<AsItIs>>
      <3>1. PICK first \in Profile : Speaks(d, first)
        BY <2>3 DEF Untracked
      <3>2. Full(InBuffer(d)) /\ Reaches(InBuffer(d), HelloHead)
        BY <2>3, <3>1 DEF Speaks, IsQUICCryptoHello
      <3>3. HelloSent(HelloHead)
        BY <1>2, <3>2, WholeIsSent, LimitAssumption
      <3> QED
        BY <1>1, <3>3 DEF WaitsForHello
    <2> QED
      BY <2>1, <2>2, <2>3
  <1> QED
    BY <1>3, <1>4, <1>5, <1>6 DEF OneRequest

LEMMA StepIsOneRequest ==
  ASSUME IInv, TrackInv, Next
  PROVE  OneRequest
  <1>1. ASSUME NEW d \in Datagram, Handle(d) PROVE OneRequest
    <2>1. CASE OutOfInterval(d)
      BY <2>1, LooksCount, Untampered DEF OutOfInterval, TrackInv
    <2>2. CASE PassEmpty(d)
      BY <2>2, LooksCount, Untampered DEF PassEmpty, TrackInv
    <2>3. CASE NotInitial(d)
      <3>1. PICK c \in Looks(d) :
              Unless(d, Stopped(c)) \/ Desync(d, Stopped(c), FALSE, FALSE)
        BY <2>3 DEF NotInitial
      <3>2. Counts(Stopped(c)) /\ Kind[d] # "initial"
        BY <2>3, LooksCount DEF TrackInv, NotInitial
      <3> QED
        BY <3>1, <3>2, UnlessIsOneRequest, DesyncIsOneRequest
    <2>4. CASE NoRoom(d)
      BY <2>4, LooksCount, Untampered DEF NoRoom, TrackInv
    <2>5. CASE Unreadable(d)
      BY <2>5, LooksCount, UnlessIsOneRequest DEF Unreadable, TrackInv
    <2>6. CASE HoldPart(d)
      BY <2>6, LooksCount, Untampered DEF HoldPart, TrackInv
    <2>7. CASE NoMemory(d)
      BY <2>7, LooksCount, Untampered DEF NoMemory, TrackInv
    <2>8. CASE ReplayHello(d)
      BY <2>8, ReplayIsOneRequest
    <2>9. CASE PassHello(d)
      BY <2>9, PassHelloIsOneRequest
    <2>10. CASE PassNoHello(d)
      BY <2>10, LooksCount, UnlessIsOneRequest DEF PassNoHello, TrackInv
    <2>11. CASE Untracked(d)
      BY <2>11, UntrackedIsOneRequest
    <2> QED
      BY <1>1, <2>1, <2>2, <2>3, <2>4, <2>5, <2>6, <2>7, <2>8, <2>9, <2>10, <2>11 DEF Handle
  <1>2. CASE Forget
    <2>1. sent' = <<>> /\ track' = ConntrackInitTrack /\ reasm' = NoReasm
      BY <1>2 DEF Forget
    <2>2. TrackInv'
      BY <2>1 DEF TrackInv, IsTrack, Fields, IsOpen, ConntrackInitTrack, NoReasm
    <2>3. CountsOnce
      BY <2>1 DEF CountsOnce, ConntrackInitTrack, TrackInv, IsTrack
    <2>4. WaitsForHello /\ FakesAheadOfFirst
      BY <2>1 DEF WaitsForHello, FakesAheadOfFirst
    <2> QED
      BY <2>2, <2>3, <2>4 DEF OneRequest
  <1> QED
    BY <1>1, <1>2 DEF Next

(* Whatever the client cuts a hello into and in whatever order it comes, no *)
(* part of it is touched before all of it is there, fakes go ahead of its   *)
(* first datagram only, and it counts as retransmitted once.                *)
THEOREM HelloIsHandledAsOneRequest == Spec => HelloIsOneRequest
  <1>1. Init => TrackInv
    BY DEF Init, TrackInv, IsTrack, Fields, IsOpen, ConntrackInitTrack, NoReasm
  <1>2. IInv /\ TrackInv /\ [Next]_vars
          => TrackInv' /\ [WaitsForHello /\ FakesAheadOfFirst /\ CountsOnce]_vars
    <2>1. IInv /\ TrackInv /\ Next
            => TrackInv' /\ WaitsForHello /\ FakesAheadOfFirst /\ CountsOnce
      BY StepIsOneRequest DEF OneRequest
    <2>2. TrackInv /\ UNCHANGED vars => TrackInv'
      BY DEF vars, TrackInv, IsTrack, IsOpen
    <2> QED
      BY <2>1, <2>2
  <1> QED
    BY <1>1, <1>2, Invariant, PTL DEF Spec, HelloIsOneRequest
==============================================================================
