-------------------------- MODULE FirstFlight_proofs --------------------------
(***************************************************************************)
(* Theorems about FirstFlight for every stream, every segmentation of it   *)
(* and every setting of the profile's limits.                              *)
(***************************************************************************)
EXTENDS FirstFlight, SequenceTheorems, WellFoundedInduction, TLAPS

------------------------------------------------------------------------------
(* Lemmas on the reassembly buffer and the queue. *)

Elements(q) == {q[i] : i \in DOMAIN q}

(* A packet put at either end of a queue is one more element of it. *)
LEMMA OneMore ==
  ASSUME NEW q \in Seq(Packet), NEW p \in Packet, NEW t \in {Append(q, p), <<p>> \o q}
  PROVE  t \in Seq(Packet) /\ Elements(t) = Elements(q) \cup {p}
  <1>1. CASE t = Append(q, p)
    <2>1. /\ t \in Seq(Packet)
          /\ DOMAIN t = 1 .. Len(q) + 1 /\ DOMAIN q = 1 .. Len(q) /\ Len(q) \in Nat
          /\ \A i \in 1 .. Len(q) : t[i] = q[i]
          /\ t[Len(q) + 1] = p
      BY <1>1
    <2> QED
      BY <2>1 DEF Elements
  <1>2. CASE t = <<p>> \o q
    <2>1. /\ t \in Seq(Packet)
          /\ DOMAIN t = 1 .. Len(q) + 1 /\ DOMAIN q = 1 .. Len(q) /\ Len(q) \in Nat
          /\ \A i \in 2 .. Len(q) + 1 : t[i] = q[i - 1]
          /\ t[1] = p
      BY <1>2
    <2>2. \A i \in DOMAIN q : i + 1 \in DOMAIN t /\ t[i + 1] = q[i]
      BY <2>1
    <2>3. \A i \in 2 .. Len(q) + 1 : i - 1 \in DOMAIN q /\ t[i] = q[i - 1]
      BY <2>1
    <2>4. \A i \in 2 .. Len(q) + 1 : t[i] \in Elements(q)
      BY <2>3 DEF Elements
    <2>5. 1 \in DOMAIN t /\ \A i \in DOMAIN t : i = 1 \/ i \in 2 .. Len(q) + 1
      BY <2>1
    <2>6. Elements(t) \subseteq Elements(q) \cup {p}
      BY <2>1, <2>4, <2>5 DEF Elements
    <2>7. Elements(q) \cup {p} \subseteq Elements(t)
      BY <2>1, <2>2, <2>5 DEF Elements
    <2> QED
      BY <2>1, <2>6, <2>7
  <1> QED
    BY <1>1, <1>2

(* If the queue did not hold it, the queue still holds nothing twice. *)
LEMMA OneMoreDistinct ==
  ASSUME NEW q \in Seq(Packet), NEW p \in Packet, Distinct(q), p \notin Elements(q),
         NEW t \in {Append(q, p), <<p>> \o q}
  PROVE  Distinct(t)
  <1>1. CASE t = Append(q, p)
    <2>1. /\ DOMAIN t = 1 .. Len(q) + 1 /\ DOMAIN q = 1 .. Len(q) /\ Len(q) \in Nat
          /\ \A i \in 1 .. Len(q) : t[i] = q[i]
          /\ t[Len(q) + 1] = p
      BY <1>1
    <2> QED
      BY <2>1 DEF Distinct, Elements
  <1>2. CASE t = <<p>> \o q
    <2>1. /\ DOMAIN t = 1 .. Len(q) + 1 /\ DOMAIN q = 1 .. Len(q) /\ Len(q) \in Nat
          /\ \A i \in 2 .. Len(q) + 1 : t[i] = q[i - 1]
          /\ t[1] = p
      BY <1>2
    <2> SUFFICES ASSUME NEW i \in 1 .. Len(q) + 1, NEW j \in 1 .. Len(q) + 1, t[i] = t[j]
                 PROVE  i = j
      BY <2>1 DEF Distinct
    <2>2. \A k \in 2 .. Len(q) + 1 : k - 1 \in DOMAIN q /\ t[k] # p
      BY <2>1 DEF Elements
    <2>3. i = 1 <=> j = 1
      BY <2>1, <2>2
    <2>4. CASE i # 1 /\ j # 1
      <3>1. i - 1 \in DOMAIN q /\ j - 1 \in DOMAIN q /\ q[i - 1] = q[j - 1]
        BY <2>1, <2>4
      <3>2. i - 1 = j - 1
        BY <3>1, Zenon DEF Distinct
      <3> QED
        BY <2>1, <3>2
    <2> QED
      BY <2>3, <2>4
  <1> QED
    BY <1>1, <1>2

(* What an entry starts from is well-typed. *)
LEMMA BlankType ==
  NoReasm \in Reassemblies /\ NoRequest \in Requests /\ <<>> \in Seq(Packet)
  <1>1. NoReasm \in Reassemblies
    BY DEF NoReasm, Reassemblies
  <1>2. NoRequest \in Requests
    BY DEF NoRequest, Requests
  <1>3. <<>> \in Seq(Packet)
    OBVIOUS
  <1> QED
    BY <1>1, <1>2, <1>3

(* The counters of a new entry are within their bound. *)
LEMMA CountersStart == 0 \in 0 .. CountCap /\ 1 \in 0 .. CountCap
  BY LimitAssumption

(* Feeding a buffer keeps its size and yields a buffer. *)
LEMMA ReasmFeedType ==
  ASSUME NEW r \in Reassemblies, NEW len \in Nat
  PROVE  /\ ReasmFeed(r, len) \in Reassemblies
         /\ ReasmFeed(r, len).size = r.size
  <1> DEFINE szcopy == IF len < r.size - r.present THEN len ELSE r.size - r.present
  <1>1. r.size \in Nat /\ r.present \in Nat /\ r.seq \in Int
    BY DEF Reassemblies
  <1>2. szcopy \in Int /\ r.present + szcopy \in Nat
    BY <1>1
  <1>3. ReasmFeed(r, len) =
          [size |-> r.size, present |-> r.present + szcopy, seq |-> r.seq + szcopy]
    BY DEF ReasmFeed, Reassemblies
  <1> QED
    BY <1>1, <1>2, <1>3 DEF Reassemblies

(* So does the loop over the queue. *)
LEMMA FedDelayedType ==
  ASSUME NEW r \in Reassemblies, NEW q, NEW r2 \in FedDelayed(r, q)
  PROVE  r2 \in Reassemblies /\ r2.size = r.size
  <1>1. PICK s \in r.seq .. (r.seq + (r.size - r.present)) :
          r2 = [size |-> r.size, present |-> r.present + (s - r.seq), seq |-> s]
    BY DEF FedDelayed
  <1> QED
    BY <1>1 DEF Reassemblies

(* The queue with the packet at hand is a queue that is not empty. *)
LEMMA QueueWithType ==
  ASSUME TypeOK, NEW p \in Packet
  PROVE  /\ Spilled(p) \in Seq(Packet)
         /\ StillQueued(p) \in Seq(Packet)
         /\ QueueWith(p) \in Seq(Packet)
         /\ QueueWith(p) # <<>>
  <1>1. Spilled(p) \in Seq(Packet) /\ StillQueued(p) \in Seq(Packet)
    BY DEF TypeOK, Spilled, StillQueued
  <1>2. /\ <<p>> \o StillQueued(p) \in Seq(Packet)
        /\ Len(<<p>> \o StillQueued(p)) = 1 + Len(StillQueued(p))
    BY <1>1
  <1>3. /\ Append(StillQueued(p), p) \in Seq(Packet)
        /\ Len(Append(StillQueued(p), p)) = Len(StillQueued(p)) + 1
    BY <1>1
  <1>4. Len(QueueWith(p)) # 0 /\ QueueWith(p) \in Seq(Packet)
    BY <1>1, <1>2, <1>3 DEF QueueWith
  <1> QED
    BY <1>1, <1>4

(* The buffer with the packet at hand is a buffer, in use. *)
LEMMA ReasmWithType ==
  ASSUME TypeOK, NEW p \in Packet, Feeds(p) \/ Starts(p), NEW r \in ReasmWith(p)
  PROVE  r \in Reassemblies /\ r.size # 0
  <1>1. SeqOf[p] \in Int /\ LenOf[p] \in Nat /\ RecordLen[SeqOf[p]] \in Nat
    BY PacketAssumption DEF Position
  <1>2. CASE Feeds(p)
    <2>1. Reassembly(p) \in Reassemblies /\ Reassembly(p).size # 0
      BY <1>1, <1>2, ReasmFeedType DEF Reassembly, Feeds, TypeOK
    <2> QED
      BY <2>1, FedDelayedType DEF ReasmWith
  <1>3. CASE Starts(p) /\ ~ Feeds(p)
    <2>1. RecordLen[SeqOf[p]] # 0
      BY <1>1, <1>3 DEF Starts, WantsReasm, IsTLSClientHello, DataFrom
    <2>2. [size |-> RecordLen[SeqOf[p]], present |-> 0, seq |-> SeqOf[p]] \in Reassemblies
      BY <1>1 DEF Reassemblies
    <2>3. Reassembly(p) \in Reassemblies /\ Reassembly(p).size # 0
      BY <1>1, <1>3, <2>1, <2>2, ReasmFeedType DEF Reassembly
    <2> QED
      BY <2>3, FedDelayedType DEF ReasmWith
  <1> QED
    BY <1>2, <1>3

(* What the request's interval becomes is a request's interval. *)
LEMMA RequestType ==
  ASSUME TypeOK, NEW p \in Packet
  PROVE  /\ TrackRequest(p) \in Requests
         /\ TrackHttp(p) \in Requests
         /\ \A r \in Requests : Abandon(r, p) \in Requests
  <1>1. SeqOf[p] \in Int /\ LenOf[p] \in Int
    BY PacketAssumption
  <1>2. TrackRequest(p) \in Requests
    BY <1>1 DEF TrackRequest, Requests, TypeOK, IsTLSRecordFull
  <1>3. TrackHttp(p) \in Requests
    BY <1>1 DEF TrackHttp, Requests, TypeOK
  <1>4. \A r \in Requests : Abandon(r, p) \in Requests
    BY DEF Abandon, Requests
  <1> QED
    BY <1>2, <1>3, <1>4

------------------------------------------------------------------------------
(* Type correctness. *)

(* Conntrack keeps its part of the entry well-typed. *)
LEMMA ConntrackFeedType ==
  ASSUME TrackOK, NEW d, NEW f \in BOOLEAN, NEW s, ConntrackFeed(d, f, s)
  PROVE  TrackOK'
  <1>1. b_desync_cutoff' \in BOOLEAN
    BY DEF ConntrackFeed, Reached, TrackOK
  <1> QED
    BY <1>1, LimitAssumption DEF ConntrackFeed, TrackOK, Bump

(* What Release leaves is well-typed. *)
LEMMA ReleaseType ==
  ASSUME TypeOK, NEW p \in Packet, NEW off, Release(p, off)
  PROVE  /\ reasm' \in Reassemblies
         /\ delayed' \in Seq(Packet)
         /\ delayed_first_gap' \in BOOLEAN
         /\ sent' \in Seq(Packet)
         /\ DOMAIN reasm_offset' = DOMAIN sent'
  <1>1. Append(delayed, p) \in Seq(Packet)
    BY DEF TypeOK
  <1>2. DOMAIN reasm_offset' = DOMAIN sent'
    BY DEF Release, Untouched
  <1> QED
    BY <1>1, <1>2, BlankType DEF Release

(* So is what a new entry starts from. *)
LEMMA InitTrackType ==
  ASSUME TypeOK, InitTrack, TrackOK'
  PROVE  TypeOK'
  <1>1. Held \in SUBSET Packet
    BY DEF TypeOK, Held
  <1> QED
    BY <1>1, BlankType DEF TypeOK, InitTrack

(* A packet without data, in or out of the limits *)
LEMMA FreeUnlessType ==
  ASSUME TypeOK, NEW inside, FreeUnless(inside), TrackOK'
  PROVE  TypeOK'
  <1>1. DOMAIN reasm_offset' = DOMAIN sent'
    BY DEF FreeUnless, Untouched
  <1> QED
    BY <1>1, BlankType DEF TypeOK, FreeUnless

(* Every path of the handler of a data packet keeps the state well-typed. *)
LEMMA DataType ==
  ASSUME TypeOK, NEW p \in Packet, Data(p)
  PROVE  TypeOK'
  <1> USE DEF Arrives, LookedAt, Passes
  <1>1. ASSUME Arrives(p) PROVE TrackOK' /\ lost' \in SUBSET Packet
    BY <1>1, ConntrackFeedType DEF TypeOK
  <1>2. \A off : Release(p, off) /\ Arrives(p) /\ req' \in Requests => TypeOK'
    BY <1>1, ReleaseType DEF TypeOK
  <1>3. req \in Requests
    BY DEF TypeOK
  <1>4. CASE OutOfInterval(p)
    BY <1>2, <1>3, <1>4 DEF OutOfInterval
  <1>5. CASE HoldFirstGap(p)
    <2>1. Arrives(p)
      BY <1>5 DEF HoldFirstGap
    <2>2. Append(delayed, p) \in Seq(Packet)
      BY DEF TypeOK
    <2> QED
      BY <1>1, <1>3, <1>5, <2>1, <2>2, BlankType DEF HoldFirstGap, TypeOK
  <1>6. CASE HoldHello(p)
    BY <1>1, <1>6, QueueWithType, ReasmWithType, RequestType DEF HoldHello, TypeOK, Untouched
  <1>7. CASE ReplayHello(p)
    <2>1. sent' \in Seq(Packet) /\ DOMAIN reasm_offset' = DOMAIN sent'
      BY <1>7, QueueWithType DEF ReplayHello, Untouched
    <2> QED
      BY <1>1, <1>7, <2>1, RequestType, BlankType DEF ReplayHello, TypeOK
  <1>8. CASE PassTooLarge(p)
    BY <1>2, <1>3, <1>8 DEF PassTooLarge
  <1>9. CASE PassHello(p)
    BY <1>2, <1>9, RequestType DEF PassHello
  <1>10. CASE PassHttp(p)
    BY <1>2, <1>3, <1>10, RequestType DEF PassHttp
  <1>11. CASE PassUnknown(p)
    BY <1>2, <1>3, <1>11, RequestType DEF PassUnknown
  <1>12. CASE PassUntracked(p)
    <2>1. DOMAIN reasm_offset' = DOMAIN sent'
      BY <1>12 DEF PassUntracked, Tampered
    <2> QED
      BY <1>12, <2>1 DEF PassUntracked, track, TypeOK, TrackOK
  <1> QED
    BY <1>4, <1>5, <1>6, <1>7, <1>8, <1>9, <1>10, <1>11, <1>12 DEF Data

(* TypeOK holds for every stream and every setting of the limits. *)
THEOREM TypeCorrect == Spec => []TypeOK
  <1>1. Init => TypeOK
    <2>1. Init => TrackOK
      BY CountersStart DEF Init, TrackOK
    <2> QED
      BY <2>1, BlankType DEF Init, TypeOK
  <1>2. TypeOK /\ [Next]_vars => TypeOK'
    <2> SUFFICES ASSUME TypeOK, [Next]_vars PROVE TypeOK'
      OBVIOUS
    <2>1. ASSUME NEW p \in Packet, Data(p) PROVE TypeOK'
      BY <2>1, DataType
    <2>2. ASSUME NEW fin \in BOOLEAN, NEW s \in Position, Control(fin, s) PROVE TypeOK'
      BY <2>2, ConntrackFeedType, FreeUnlessType DEF Control, TypeOK
    <2>3. CASE SynNew
      <3>1. TrackOK'
        BY <2>3, CountersStart DEF SynNew, TrackOK, Reached
      <3> QED
        BY <2>3, <3>1, InitTrackType DEF SynNew
    <2>4. CASE SynAgain
      <3>1. TrackOK'
        BY <2>4, LimitAssumption DEF SynAgain, TypeOK, TrackOK, Bump, Reached
      <3> QED
        BY <2>4, <3>1, FreeUnlessType DEF SynAgain
    <2>5. CASE Forget
      <3>1. TrackOK'
        BY <2>5, CountersStart DEF Forget, TrackOK
      <3> QED
        BY <2>5, <3>1, InitTrackType DEF Forget
    <2>6. CASE UNCHANGED vars
      BY <2>6 DEF vars, track, TypeOK, TrackOK
    <2> QED
      BY <2>1, <2>2, <2>3, <2>4, <2>5, <2>6 DEF Next
  <1> QED
    BY <1>1, <1>2, PTL DEF Spec

------------------------------------------------------------------------------
(* Held packets. *)

(* An arriving data packet finds or makes the entry established. *)
LEMMA ArrivesState ==
  ASSUME NEW p, Arrives(p)
  PROVE  entry' /\ state' # "SYN"
  BY DEF Arrives, ConntrackFeed

(* Every path of the data handler leaves a queue that something will free. *)
LEMMA DataAccounted ==
  ASSUME TypeOK, HeldIsAccountedFor, NEW p \in Packet, Data(p)
  PROVE  HeldIsAccountedFor'
  <1> USE DEF LookedAt, Passes
  <1>1. CASE HoldFirstGap(p)
    BY <1>1, ArrivesState DEF HoldFirstGap, HeldIsAccountedFor, InInterval
  <1>2. CASE HoldHello(p)
    BY <1>2, ArrivesState, ReasmWithType DEF HoldHello, HeldIsAccountedFor, InInterval
  <1>3. CASE PassUntracked(p)
    BY <1>3 DEF PassUntracked, HeldIsAccountedFor, track
  <1>4. (\E off : Release(p, off)) => delayed' = <<>>
    BY DEF Release
  <1>5. ~ HoldFirstGap(p) /\ ~ HoldHello(p) /\ ~ PassUntracked(p) => delayed' = <<>>
    BY <1>4 DEF Data, OutOfInterval, ReplayHello, PassTooLarge, PassHello, PassHttp, PassUnknown
  <1> QED
    BY <1>1, <1>2, <1>3, <1>5 DEF HeldIsAccountedFor

(* No packet is held that no later packet will release: a held packet has  *)
(* an open session or the gap flag over it, an established entry, and a    *)
(* desync cutoff that is still to come.                                    *)
THEOREM HeldAccounted == Spec => []HeldIsAccountedFor
  <1>1. Init => HeldIsAccountedFor
    BY DEF Init, HeldIsAccountedFor
  <1>2. TypeOK /\ HeldIsAccountedFor /\ [Next]_vars => HeldIsAccountedFor'
    <2> SUFFICES ASSUME TypeOK, HeldIsAccountedFor, [Next]_vars PROVE HeldIsAccountedFor'
      OBVIOUS
    <2>1. ASSUME NEW p \in Packet, Data(p) PROVE HeldIsAccountedFor'
      BY <2>1, DataAccounted
    <2>2. ASSUME NEW fin \in BOOLEAN, NEW s \in Position, Control(fin, s)
          PROVE HeldIsAccountedFor'
      BY <2>2 DEF Control, ConntrackFeed, FreeUnless, InInterval, HeldIsAccountedFor
    <2>3. CASE SynNew
      BY <2>3 DEF SynNew, InitTrack, HeldIsAccountedFor
    <2>4. CASE SynAgain
      BY <2>4 DEF SynAgain, FreeUnless, HeldIsAccountedFor
    <2>5. CASE Forget
      BY <2>5 DEF Forget, InitTrack, HeldIsAccountedFor
    <2>6. CASE UNCHANGED vars
      BY <2>6 DEF vars, track, HeldIsAccountedFor
    <2> QED
      BY <2>1, <2>2, <2>3, <2>4, <2>5, <2>6 DEF Next
  <1> QED
    BY <1>1, <1>2, TypeCorrect, PTL DEF Spec

------------------------------------------------------------------------------
(* Order. *)

(* Putting the packet at hand at the head or the tail of the queue *)
LEMMA QueueWithOrder ==
  ASSUME TypeOK, NEW p \in Packet
  PROVE  /\ Spilled(p) \o QueueWith(p) \in {Append(delayed, p), <<p>> \o delayed}
         /\ ~ delayed_first_gap => Spilled(p) \o QueueWith(p) = Append(delayed, p)
  <1>1. delayed \in Seq(Packet) /\ <<p>> \in Seq(Packet) /\ <<>> \in Seq(Packet)
    BY DEF TypeOK
  <1>2. Append(delayed, p) = delayed \o <<p>> /\ Append(<<>>, p) = <<p>>
    BY <1>1, AppendIsConcat, ConcatEmptySeq
  <1>3. CASE Fails(p)
    <2>1. Spilled(p) = delayed /\ StillQueued(p) = <<>>
      BY <1>3 DEF Spilled, StillQueued
    <2>2. QueueWith(p) = <<p>>
      BY <1>1, <1>2, <2>1, ConcatEmptySeq DEF QueueWith
    <2> QED
      BY <1>2, <2>1, <2>2
  <1>4. CASE ~ Fails(p)
    <2>1. Spilled(p) = <<>> /\ StillQueued(p) = delayed
      BY <1>4 DEF Spilled, StillQueued
    <2>2. Spilled(p) \o QueueWith(p) = QueueWith(p)
      BY <2>1, QueueWithType, ConcatEmptySeq
    <2> QED
      BY <2>1, <2>2 DEF QueueWith
  <1> QED
    BY <1>3, <1>4

(* What a data packet's handler sends and what it then holds, one after    *)
(* the other, are the queue before with the packet at its tail or, once    *)
(* data has come ahead of the first byte, perhaps at its head.             *)
LEMMA DataOrder ==
  ASSUME TypeOK, HeldIsAccountedFor, NEW p \in Packet, Data(p)
  PROVE  /\ sent' \o delayed' \in {Append(delayed, p), <<p>> \o delayed}
         /\ ~ delayed_first_gap => sent' \o delayed' = Append(delayed, p)
  <1> USE DEF LookedAt, Passes
  <1>1. delayed \in Seq(Packet) /\ Append(delayed, p) \in Seq(Packet)
    BY DEF TypeOK
  <1>2. CASE HoldFirstGap(p)
    BY <1>1, <1>2, ConcatEmptySeq DEF HoldFirstGap
  <1>3. CASE HoldHello(p)
    BY <1>3, QueueWithOrder DEF HoldHello
  <1>4. CASE ReplayHello(p)
    <2>1. Spilled(p) \o QueueWith(p) \in Seq(Packet)
      BY QueueWithType, ConcatProperties
    <2> QED
      BY <1>4, <2>1, QueueWithOrder, ConcatEmptySeq DEF ReplayHello
  <1>5. CASE PassUntracked(p)
    <2>1. delayed = <<>> /\ delayed' = <<>> /\ sent' = <<p>>
      BY <1>5 DEF PassUntracked, HeldIsAccountedFor
    <2> QED
      BY <2>1, <1>1, ConcatEmptySeq, AppendIsConcat
  <1>6. (\E off : Release(p, off)) => sent' \o delayed' = Append(delayed, p)
    BY <1>1, ConcatEmptySeq DEF Release
  <1>7. ~ HoldFirstGap(p) /\ ~ HoldHello(p) /\ ~ ReplayHello(p) /\ ~ PassUntracked(p)
          => sent' \o delayed' = Append(delayed, p)
    BY <1>6 DEF Data, OutOfInterval, PassTooLarge, PassHello, PassHttp, PassUnknown
  <1> QED
    BY <1>2, <1>3, <1>4, <1>5, <1>7

(* A packet without data leaves the order alone. *)
LEMMA FreeOrder ==
  ASSUME TypeOK, NEW inside, FreeUnless(inside)
  PROVE  sent' \o delayed' = delayed
  <1>1. delayed \in Seq(Packet)
    BY DEF TypeOK
  <1> QED
    BY <1>1, ConcatEmptySeq DEF FreeUnless

(* An entry that goes had nothing to lose or lost it. *)
LEMMA ForgetOrder ==
  ASSUME TypeOK, InitTrack, lost' = {}
  PROVE  sent' \o delayed' = delayed
  <1>1. delayed \in Seq(Packet) /\ Held = {}
    BY DEF TypeOK, InitTrack
  <1>2. delayed = <<>>
    BY <1>1, EmptySeq DEF Held
  <1> QED
    BY <1>1, <1>2, ConcatEmptySeq DEF InitTrack

(* Unless data came ahead of the first byte, the engine never reorders. *)
THEOREM InOrder == Spec => InOrderUnlessGap
  <1>1. TypeOK /\ HeldIsAccountedFor /\ [Next]_vars
          => [~ delayed_first_gap /\ lost' = {} =>
                sent' \o delayed' \in {delayed} \cup {Append(delayed, p) : p \in Packet}]_vars
    <2> SUFFICES ASSUME TypeOK, HeldIsAccountedFor, Next, ~ delayed_first_gap, lost' = {}
                 PROVE  sent' \o delayed' \in {delayed} \cup {Append(delayed, p) : p \in Packet}
      OBVIOUS
    <2>1. ASSUME NEW p \in Packet, Data(p) PROVE sent' \o delayed' = Append(delayed, p)
      BY <2>1, DataOrder
    <2>2. (\E fin \in BOOLEAN, s \in Position : Control(fin, s)) \/ SynAgain
            => sent' \o delayed' = delayed
      BY FreeOrder DEF Control, SynAgain
    <2>3. SynNew \/ Forget => sent' \o delayed' = delayed
      BY ForgetOrder DEF SynNew, Forget
    <2> QED
      BY <2>1, <2>2, <2>3 DEF Next
  <1> QED
    BY <1>1, TypeCorrect, HeldAccounted, PTL DEF Spec, InOrderUnlessGap

------------------------------------------------------------------------------
(* The handler implements PacketRelay. *)

(* Cut in two, a sequence without repetitions leaves the first part listed *)
(* once and the rest in the second.                                        *)
LEMMA CutInTwo ==
  ASSUME NEW s \in Seq(Packet), NEW d \in Seq(Packet), Distinct(s \o d)
  PROVE  /\ Distinct(d)
         /\ Relay!Lists(s, Elements(s))
         /\ Elements(s) \subseteq Elements(s \o d)
         /\ Elements(d) = Elements(s \o d) \ Elements(s)
  <1> DEFINE t == s \o d
  <1>1. /\ DOMAIN t = 1 .. Len(s) + Len(d)
        /\ DOMAIN s = 1 .. Len(s) /\ DOMAIN d = 1 .. Len(d)
        /\ Len(s) \in Nat /\ Len(d) \in Nat
        /\ \A i \in 1 .. Len(s) : t[i] = s[i]
        /\ \A i \in Len(s) + 1 .. Len(s) + Len(d) : t[i] = d[i - Len(s)]
    OBVIOUS
  <1>2. \A i \in 1 .. Len(d) :
          Len(s) + i \in Len(s) + 1 .. Len(s) + Len(d) /\ t[Len(s) + i] = d[i]
    BY <1>1
  <1>3. Distinct(t)
    OBVIOUS
  <1> HIDE DEF t
  <1>4. Distinct(d) /\ Distinct(s)
    <2>1. \A i, j \in 1 .. Len(d) : d[i] = d[j] => Len(s) + i = Len(s) + j
      <3> SUFFICES ASSUME NEW i \in 1 .. Len(d), NEW j \in 1 .. Len(d), d[i] = d[j]
                   PROVE  Len(s) + i = Len(s) + j
        OBVIOUS
      <3>1. Len(s) + i \in DOMAIN t /\ Len(s) + j \in DOMAIN t
        BY <1>1
      <3>2. t[Len(s) + i] = t[Len(s) + j]
        BY <1>2
      <3> QED
        BY <1>3, <3>1, <3>2 DEF Distinct
    <2>2. \A i, j \in 1 .. Len(s) : i \in DOMAIN t /\ j \in DOMAIN t
      BY <1>1
    <2> QED
      BY <1>1, <1>3, <2>1, <2>2 DEF Distinct
  <1>5. s \in Seq(Elements(s))
    BY <1>1 DEF Elements
  <1>6. Relay!Lists(s, Elements(s))
    BY <1>4, <1>5 DEF Relay!Lists, Distinct, Elements
  <1>7. Elements(s) \subseteq Elements(t)
    BY <1>1 DEF Elements
  <1>8. Elements(d) = Elements(t) \ Elements(s)
    <2>1. \A i \in 1 .. Len(d), j \in 1 .. Len(s) : d[i] # s[j]
      <3> SUFFICES ASSUME NEW i \in 1 .. Len(d), NEW j \in 1 .. Len(s), d[i] = s[j]
                   PROVE  FALSE
        OBVIOUS
      <3>1. j \in DOMAIN t /\ Len(s) + i \in DOMAIN t /\ Len(s) + i # j
        BY <1>1
      <3>2. t[j] = t[Len(s) + i]
        BY <1>1, <1>2
      <3> QED
        BY <1>3, <3>1, <3>2 DEF Distinct
    <2>2. \A i \in DOMAIN t : t[i] \in Elements(s) \/ t[i] \in Elements(d)
      <3> SUFFICES ASSUME NEW i \in DOMAIN t PROVE t[i] \in Elements(s) \/ t[i] \in Elements(d)
        OBVIOUS
      <3>1. CASE i \in 1 .. Len(s)
        BY <1>1, <3>1 DEF Elements
      <3>2. CASE i \in Len(s) + 1 .. Len(s) + Len(d)
        <4>1. i - Len(s) \in 1 .. Len(d) /\ t[i] = d[i - Len(s)]
          BY <1>1, <3>2
        <4> QED
          BY <1>1, <4>1 DEF Elements
      <3> QED
        BY <1>1, <3>1, <3>2
    <2>3. \A i \in 1 .. Len(d) : d[i] \in Elements(t) /\ d[i] \notin Elements(s)
      <3> SUFFICES ASSUME NEW i \in 1 .. Len(d)
                   PROVE  d[i] \in Elements(t) /\ d[i] \notin Elements(s)
        OBVIOUS
      <3>1. Len(s) + i \in DOMAIN t
        BY <1>1
      <3>2. d[i] \in Elements(t)
        BY <1>2, <3>1 DEF Elements
      <3>3. d[i] \notin Elements(s)
        BY <1>1, <2>1 DEF Elements
      <3> QED
        BY <3>2, <3>3
    <2>4. Elements(d) \subseteq Elements(t) \ Elements(s)
      BY <1>1, <2>3 DEF Elements
    <2>5. Elements(t) \subseteq Elements(s) \cup Elements(d)
      BY <2>2 DEF Elements
    <2> QED
      BY <2>4, <2>5
  <1> QED
    BY <1>4, <1>6, <1>7, <1>8 DEF t

(* A packet in the queue does not arrive. *)
LEMMA DataIsNew ==
  ASSUME HeldIsAccountedFor, NEW p \in Packet, Data(p)
  PROVE  p \notin Held /\ lost' = {}
  <1>1. CASE PassUntracked(p)
    BY <1>1 DEF PassUntracked, HeldIsAccountedFor, Held
  <1>2. CASE Arrives(p)
    BY <1>2 DEF Arrives
  <1> QED
    BY <1>1, <1>2 DEF Data, OutOfInterval, HoldFirstGap, HoldHello, ReplayHello,
       PassTooLarge, PassHello, PassHttp, PassUnknown, Passes, LookedAt

(* So a data packet is taken, and the queue stays without repetitions. *)
LEMMA DataIsTaken ==
  ASSUME TypeOK, TypeOK', HeldIsAccountedFor, HeldOnce, NEW p \in Packet, Data(p)
  PROVE  Relay!Take(p) /\ HeldOnce'
  <1>1. sent' \o delayed' \in {Append(delayed, p), <<p>> \o delayed}
    BY DataOrder
  <1>2. p \notin Held /\ lost' = {}
    BY DataIsNew
  <1>3. /\ Held = Elements(delayed) /\ Held' = Elements(delayed')
    BY DEF Held, Elements
  <1>4. /\ delayed \in Seq(Packet) /\ delayed' \in Seq(Packet) /\ sent' \in Seq(Packet)
        /\ Distinct(delayed)
    BY DEF TypeOK, HeldOnce
  <1>5. Distinct(sent' \o delayed') /\ Elements(sent' \o delayed') = Held \cup {p}
    <2> DEFINE t == sent' \o delayed'
    <2>1. p \notin Elements(delayed)
      BY <1>2, <1>3
    <2>2. t \in {Append(delayed, p), <<p>> \o delayed}
      BY <1>1
    <2> HIDE DEF t
    <2>3. Distinct(t) /\ Elements(t) = Elements(delayed) \cup {p}
      <3>1. \A u \in {Append(delayed, p), <<p>> \o delayed} : Distinct(u)
        BY <1>4, <2>1, OneMoreDistinct
      <3>2. \A u \in {Append(delayed, p), <<p>> \o delayed} :
              Elements(u) = Elements(delayed) \cup {p}
        BY <1>4, OneMore
      <3> QED
        BY <2>2, <3>1, <3>2
    <2> QED
      BY <1>3, <2>3 DEF t
  <1>6. /\ Distinct(delayed')
        /\ Relay!Lists(sent', Elements(sent'))
        /\ Elements(sent') \in SUBSET (Held \cup {p})
        /\ Held' = (Held \cup {p}) \ Elements(sent')
    BY <1>3, <1>4, <1>5, CutInTwo
  <1> QED
    BY <1>2, <1>6 DEF Relay!Take, Relay!HandOn, HeldOnce, Distinct

(* A packet without data frees the queue whole or not at all. *)
LEMMA FreeIsFree ==
  ASSUME TypeOK, HeldOnce, NEW inside, FreeUnless(inside)
  PROVE  Relay!Free /\ HeldOnce'
  <1>1. CASE inside
    <2>1. Relay!Lists(<<>>, {}) /\ {} \in SUBSET Held
      BY DEF Relay!Lists
    <2> QED
      BY <1>1, <2>1 DEF FreeUnless, Relay!Free, Relay!HandOn, Held, HeldOnce, Distinct
  <1>2. CASE ~ inside
    <2>1. Relay!Lists(delayed, Held)
      BY DEF Relay!Lists, HeldOnce, Distinct, Held, TypeOK
    <2>2. sent' = delayed /\ Held' = Held \ Held /\ lost' = {} /\ Held \in SUBSET Held
      BY <1>2 DEF FreeUnless, Held
    <2>3. HeldOnce'
      BY <1>2 DEF FreeUnless, HeldOnce, Distinct
    <2> QED
      BY <2>1, <2>2, <2>3 DEF Relay!Free, Relay!HandOn
  <1> QED
    BY <1>1, <1>2

(* An entry that goes takes what it holds with it. *)
LEMMA InitTrackForgets ==
  ASSUME InitTrack
  PROVE  Relay!Forget /\ HeldOnce'
  BY DEF InitTrack, Relay!Forget, Held, HeldOnce, Distinct

(* One step of the handler is one step of the relay. *)
LEMMA StepIsRelayed ==
  ASSUME TypeOK, TypeOK', HeldIsAccountedFor, HeldOnce, [Next]_vars
  PROVE  HeldOnce' /\ [Relay!RelayNext]_(Relay!rvars)
  <1>1. ASSUME NEW p \in Packet, Data(p) PROVE HeldOnce' /\ Relay!RelayNext
    BY <1>1, DataIsTaken DEF Relay!RelayNext
  <1>2. ASSUME NEW fin \in BOOLEAN, NEW s \in Position, Control(fin, s)
        PROVE HeldOnce' /\ Relay!RelayNext
    BY <1>2, FreeIsFree DEF Control, Relay!RelayNext
  <1>3. CASE SynNew
    BY <1>3, InitTrackForgets DEF SynNew, Relay!RelayNext
  <1>4. CASE SynAgain
    BY <1>4, FreeIsFree DEF SynAgain, Relay!RelayNext
  <1>5. CASE Forget
    BY <1>5, InitTrackForgets DEF Forget, Relay!RelayNext
  <1>6. CASE UNCHANGED vars
    BY <1>6 DEF vars, Held, HeldOnce, Distinct, Relay!rvars
  <1> QED
    BY <1>1, <1>2, <1>3, <1>4, <1>5, <1>6 DEF Next

(* The handler implements PacketRelay: every packet it takes it hands on   *)
(* once, at once or later, or loses with the whole entry.                  *)
THEOREM ImplementsPacketRelay == Spec => ImplementsRelay
  <1>1. Init => Relay!RelayInit /\ HeldOnce
    BY DEF Init, Relay!RelayInit, Held, HeldOnce, Distinct
  <1>2. TypeOK /\ TypeOK' /\ HeldIsAccountedFor /\ HeldOnce /\ [Next]_vars
          => HeldOnce' /\ [Relay!RelayNext]_(Relay!rvars)
    BY StepIsRelayed
  <1> QED
    BY <1>1, <1>2, TypeCorrect, HeldAccounted, PTL
       DEF Spec, ImplementsRelay, Relay!RelaySpec

------------------------------------------------------------------------------
(* The reassembly session. *)

(* The positions from a to b are each in a packet of S. *)
CoveredBy(S, a, b) ==
  \A x \in a .. (b - 1) : \E p \in S : SeqOf[p] <= x /\ x < SeqOf[p] + LenOf[p]

(* A set of naturals that is not empty has a least element. *)
LEMMA LeastNatural ==
  ASSUME NEW T, T \subseteq Nat, T # {}
  PROVE  \E x \in T : \A y \in T : x <= y
  <1> DEFINE R == OpToRel(<, Nat)
  <1>1. \A y, x \in Nat : <<y, x>> \in R <=> y < x
    BY DEF OpToRel
  <1>2. IsWellFoundedOn(R, Nat)
    BY NatLessThanWellFounded
  <1> HIDE DEF R
  <1>3. PICK x \in T : \A y \in T : ~ (<<y, x>> \in R)
    BY <1>2, WFMin
  <1>4. \A y \in T : x \in Nat /\ y \in Nat /\ ~ (y < x)
    BY <1>1, <1>3
  <1>5. \A y \in T : x <= y
    BY <1>4
  <1> QED
    BY <1>5

(* A session that begins where it should and is within its buffer *)
Open(r) ==
  /\ r.present <= r.size
  /\ r.size <= TCP_MAX_REASM
  /\ RecordLen[r.seq - r.present] = r.size

(* Feeding moves the expected position by what was copied and the session  *)
(* goes on beginning where it did.                                         *)
LEMMA ReasmFeedMoves ==
  ASSUME NEW r \in Reassemblies, r.present <= r.size, NEW len \in Nat
  PROVE  LET f == ReasmFeed(r, len)
         IN  /\ f \in Reassemblies
             /\ f.size = r.size
             /\ f.present <= f.size
             /\ f.seq - f.present = r.seq - r.present
             /\ r.seq <= f.seq /\ f.seq <= r.seq + len
  <1> DEFINE szcopy == IF len < r.size - r.present THEN len ELSE r.size - r.present
  <1>1. r.size \in Nat /\ r.present \in Nat /\ r.seq \in Int
    BY DEF Reassemblies
  <1>2. szcopy \in Nat /\ szcopy <= len /\ r.present + szcopy <= r.size
    BY <1>1
  <1>3. ReasmFeed(r, len) =
          [size |-> r.size, present |-> r.present + szcopy, seq |-> r.seq + szcopy]
    BY DEF ReasmFeed
  <1> HIDE DEF szcopy
  <1> QED
    BY <1>1, <1>2, <1>3 DEF Reassemblies

(* The loop over the queue too, over positions the queue covers. *)
LEMMA FedDelayedMoves ==
  ASSUME NEW r \in Reassemblies, r.present <= r.size,
         NEW q \in Seq(Packet), NEW r2 \in FedDelayed(r, q)
  PROVE  /\ r2 \in Reassemblies
         /\ r2.size = r.size
         /\ r2.present <= r2.size
         /\ r2.seq - r2.present = r.seq - r.present
         /\ r.seq <= r2.seq
         /\ CoveredBy(Elements(q), r.seq, r2.seq)
  <1> DEFINE full == r.seq + (r.size - r.present)
             At(s) == {i \in DOMAIN q : SeqOf[q[i]] = s}
             First(s) == q[CHOOSE i \in At(s) : \A j \in At(s) : i <= j]
             Next1(s) == IF LenOf[First(s)] < full - s THEN s + LenOf[First(s)] ELSE full
             GoesOn(s) == s < full /\ At(s) # {}
             Closed(V) == \A s \in V : GoesOn(s) => Next1(s) \in V
             Visited == {s \in r.seq .. full :
                           \A V \in SUBSET (r.seq .. full) :
                             r.seq \in V /\ Closed(V) => s \in V}
             Reached1 == {v \in r.seq .. full : CoveredBy(Elements(q), r.seq, v)}
  <1>1. r.size \in Nat /\ r.present \in Nat /\ r.seq \in Int /\ full \in Int /\ r.seq <= full
    BY DEF Reassemblies
  <1>2. PICK s \in Visited :
          r2 = [size |-> r.size, present |-> r.present + (s - r.seq), seq |-> s]
    BY DEF FedDelayed
  <1>3. r.seq \in Reached1
    BY <1>1 DEF CoveredBy
  <1>4. Closed(Reached1)
    <2> SUFFICES ASSUME NEW v \in Reached1, GoesOn(v) PROVE Next1(v) \in Reached1
      OBVIOUS
    <2>1. PICK k \in At(v) : First(v) = q[k]
      <3>1. At(v) \subseteq Nat /\ At(v) # {}
        OBVIOUS
      <3>2. \E i \in At(v) : \A j \in At(v) : i <= j
        BY <3>1, LeastNatural, Zenon
      <3>3. (CHOOSE i \in At(v) : \A j \in At(v) : i <= j) \in At(v)
        BY <3>2, Zenon
      <3> QED
        BY <3>3
    <2>2. SeqOf[First(v)] = v /\ First(v) \in Elements(q) /\ First(v) \in Packet
      BY <2>1 DEF Elements
    <2>3. LenOf[First(v)] \in Nat
      BY <2>2, PacketAssumption
    <2> DEFINE p1 == First(v)
               n1 == Next1(v)
    <2>4. v \in Int /\ r.seq <= v /\ v < full /\ CoveredBy(Elements(q), r.seq, v)
      BY <1>1
    <2>5. n1 \in Int /\ v <= n1 /\ n1 <= full /\ n1 <= v + LenOf[p1]
      <3>1. n1 = IF LenOf[p1] < full - v THEN v + LenOf[p1] ELSE full
        OBVIOUS
      <3>2. LenOf[p1] \in Nat
        BY <2>3
      <3> HIDE DEF p1, n1, full, At, First, Next1, GoesOn, Closed, Visited, Reached1
      <3> QED
        BY <1>1, <2>4, <3>1, <3>2
    <2> HIDE DEF p1, n1, full, At, First, Next1
    <2>6. \A x \in r.seq .. (n1 - 1) :
            \E p \in Elements(q) : SeqOf[p] <= x /\ x < SeqOf[p] + LenOf[p]
      <3> TAKE x \in r.seq .. (n1 - 1)
      <3>1. CASE x < v
        <4>1. x \in r.seq .. (v - 1)
          BY <1>1, <2>4, <2>5, <3>1
        <4> QED
          BY <2>4, <4>1 DEF CoveredBy
      <3>2. CASE ~ (x < v)
        <4>1. SeqOf[p1] <= x /\ x < SeqOf[p1] + LenOf[p1]
          BY <1>1, <2>2, <2>3, <2>4, <2>5, <3>2 DEF p1
        <4> QED
          BY <2>2, <4>1 DEF p1
      <3> QED
        BY <3>1, <3>2
    <2> QED
      BY <1>1, <2>4, <2>5, <2>6 DEF CoveredBy, n1
  <1>5. s \in Reached1
    <2>1. Reached1 \in SUBSET (r.seq .. full)
      OBVIOUS
    <2> QED
      BY <1>2, <1>3, <1>4, <2>1
  <1>6. s \in Int /\ r.seq <= s /\ s <= full /\ CoveredBy(Elements(q), r.seq, s)
    BY <1>1, <1>5
  <1> HIDE DEF Visited, Reached1
  <1> QED
    BY <1>1, <1>2, <1>6 DEF Reassemblies

(* Positions covered by fewer packets are covered, and intervals add up. *)
LEMMA CoveredByMore ==
  ASSUME NEW S, NEW T, S \subseteq T, NEW a, NEW b, CoveredBy(S, a, b)
  PROVE  CoveredBy(T, a, b)
  BY DEF CoveredBy

LEMMA CoveredByBoth ==
  ASSUME NEW S, NEW a \in Int, NEW b \in Int, NEW c \in Int, b <= c,
         CoveredBy(S, a, b), CoveredBy(S, b, c)
  PROVE  CoveredBy(S, a, c)
  <1>1. \A x \in a .. (c - 1) : x \in a .. (b - 1) \/ x \in b .. (c - 1)
    OBVIOUS
  <1> QED
    BY <1>1 DEF CoveredBy

(* The buffer a held packet is fed to: it expects the packet's place, and  *)
(* the queue covers what it has.                                           *)
LEMMA BufferOfPacket ==
  ASSUME TypeOK, SessionIsOpen, ReassembledIsHeld, NEW p \in Packet, Feeds(p) \/ Starts(p)
  PROVE  \E B \in Reassemblies :
           /\ Reassembly(p) = ReasmFeed(B, LenOf[p])
           /\ B.seq = SeqOf[p]
           /\ Open(B)
           /\ CoveredBy(Elements(StillQueued(p)), B.seq - B.present, B.seq)
  <1>1. SeqOf[p] \in Int /\ LenOf[p] \in Nat /\ RecordLen[SeqOf[p]] \in Nat
    BY PacketAssumption DEF Position
  <1>2. CASE Feeds(p)
    <2>1. Reassembly(p) = ReasmFeed(reasm, LenOf[p]) /\ reasm.seq = SeqOf[p]
      BY <1>2 DEF Reassembly, Feeds
    <2>2. reasm \in Reassemblies
      BY DEF TypeOK
    <2>3. StillQueued(p) = delayed
      BY <1>2 DEF StillQueued, Fails, Feeds
    <2>4. Open(reasm)
      BY <1>2, <2>2 DEF Feeds, SessionIsOpen, Open, Reassemblies
    <2>5. CoveredBy(Elements(delayed), reasm.seq - reasm.present, reasm.seq)
      BY <1>2 DEF Feeds, ReassembledIsHeld, CoveredBy, Elements, Held
    <2> QED
      BY <2>1, <2>2, <2>3, <2>4, <2>5
  <1>3. CASE Starts(p) /\ ~ Feeds(p)
    <2> DEFINE B == [size |-> RecordLen[SeqOf[p]], present |-> 0, seq |-> SeqOf[p]]
    <2>1. B \in Reassemblies
      BY <1>1 DEF Reassemblies
    <2>2. Reassembly(p) = ReasmFeed(B, LenOf[p])
      BY <1>3 DEF Reassembly
    <2>3. B.size <= TCP_MAX_REASM
      BY <1>3 DEF Starts
    <2>4. B.seq - B.present = SeqOf[p] /\ B.present <= B.size
      BY <1>1
    <2>5. Open(B)
      BY <2>3, <2>4 DEF Open
    <2>6. CoveredBy(Elements(StillQueued(p)), B.seq - B.present, B.seq)
      BY <1>1 DEF CoveredBy
    <2> QED
      BY <2>1, <2>2, <2>5, <2>6
  <1> QED
    BY <1>2, <1>3

(* The buffer that a held packet leaves is covered by the queue. *)
LEMMA ReasmWithSession ==
  ASSUME TypeOK, SessionIsOpen, ReassembledIsHeld, NEW p \in Packet, Feeds(p) \/ Starts(p),
         NEW r \in ReasmWith(p)
  PROVE  /\ r \in Reassemblies
         /\ Open(r)
         /\ CoveredBy(Elements(QueueWith(p)), r.seq - r.present, r.seq)
  <1> DEFINE Q == Elements(QueueWith(p))
             f == Reassembly(p)
  <1>1. SeqOf[p] \in Int /\ LenOf[p] \in Nat
    BY PacketAssumption
  <1>2. PICK B \in Reassemblies :
          /\ f = ReasmFeed(B, LenOf[p])
          /\ B.seq = SeqOf[p]
          /\ Open(B)
          /\ CoveredBy(Elements(StillQueued(p)), B.seq - B.present, B.seq)
    BY BufferOfPacket
  <1>3. Q = Elements(StillQueued(p)) \cup {p} /\ QueueWith(p) \in Seq(Packet)
    BY OneMore, QueueWithType DEF QueueWith
  <1> HIDE DEF Q, f
  <1>4. /\ f \in Reassemblies
        /\ f.size = B.size
        /\ f.present <= f.size
        /\ f.seq - f.present = B.seq - B.present
        /\ B.seq <= f.seq /\ f.seq <= B.seq + LenOf[p]
    BY <1>1, <1>2, ReasmFeedMoves DEF Open
  <1>5. B.seq \in Int /\ B.present \in Int /\ f.seq \in Int /\ f.present \in Int
    BY <1>4 DEF Reassemblies
  <1>6. CoveredBy(Q, B.seq - B.present, B.seq)
    BY <1>2, <1>3, CoveredByMore
  <1>7. CoveredBy(Q, B.seq, f.seq)
    BY <1>1, <1>2, <1>3, <1>4, <1>5 DEF CoveredBy
  <1>8. CoveredBy(Q, f.seq - f.present, f.seq) /\ Open(f)
    <2>1. B.seq - B.present \in Int
      BY <1>5
    <2>2. CoveredBy(Q, B.seq - B.present, f.seq)
      BY <1>4, <1>5, <1>6, <1>7, <2>1, CoveredByBoth
    <2> QED
      BY <1>2, <1>4, <2>2 DEF Open
  <1>9. CASE ~ delayed_first_gap
    BY <1>4, <1>8, <1>9 DEF ReasmWith, f, Q
  <1>10. CASE delayed_first_gap
    <2>1. r \in FedDelayed(f, QueueWith(p))
      BY <1>10 DEF ReasmWith, f
    <2>2. /\ r \in Reassemblies
          /\ r.size = f.size
          /\ r.present <= r.size
          /\ r.seq - r.present = f.seq - f.present
          /\ f.seq <= r.seq
          /\ CoveredBy(Q, f.seq, r.seq)
      BY <1>3, <1>4, <2>1, FedDelayedMoves DEF Q
    <2>3. r.seq \in Int /\ f.seq - f.present \in Int
      BY <1>5, <2>2 DEF Reassemblies
    <2>4. CoveredBy(Q, f.seq - f.present, r.seq)
      BY <1>5, <1>8, <2>2, <2>3, CoveredByBoth
    <2> QED
      BY <1>8, <2>2, <2>4 DEF Open, Q
  <1> QED
    BY <1>9, <1>10

(* Only the packet that is held touches an open session. *)
LEMMA HoldHelloSession ==
  ASSUME TypeOK, SessionIsOpen, ReassembledIsHeld, NEW p \in Packet, HoldHello(p)
  PROVE  SessionIsOpen' /\ ReassembledIsHeld'
  <1>1. (Feeds(p) \/ Starts(p)) /\ delayed' = QueueWith(p)
    BY DEF HoldHello
  <1>2. PICK r \in ReasmWith(p) : ~ ReasmIsFull(r) /\ reasm' = r
    BY DEF HoldHello
  <1>3. /\ r \in Reassemblies
        /\ Open(r)
        /\ CoveredBy(Elements(QueueWith(p)), r.seq - r.present, r.seq)
    BY <1>1, ReasmWithSession
  <1>4. SessionIsOpen'
    <2>1. r.size \in Nat /\ r.present \in Nat
      BY <1>3 DEF Reassemblies
    <2> QED
      BY <1>2, <1>3, <2>1 DEF SessionIsOpen, Open, ReasmIsFull
  <1>5. ReassembledIsHeld'
    <2>1. Held' = Elements(QueueWith(p))
      BY <1>1 DEF Held, Elements
    <2> QED
      BY <1>2, <1>3, <2>1 DEF ReassembledIsHeld, CoveredBy
  <1> QED
    BY <1>4, <1>5

(* Every step leaves a session that is open and held. *)
LEMMA StepSession ==
  ASSUME TypeOK, SessionIsOpen, ReassembledIsHeld, HeldIsAccountedFor, [Next]_vars
  PROVE  SessionIsOpen' /\ ReassembledIsHeld'
  <1>1. reasm' = NoReasm => SessionIsOpen' /\ ReassembledIsHeld'
    BY DEF NoReasm, SessionIsOpen, ReassembledIsHeld
  <1>2. UNCHANGED <<reasm, delayed>> => SessionIsOpen' /\ ReassembledIsHeld'
    BY DEF SessionIsOpen, ReassembledIsHeld, Held
  <1>3. ASSUME NEW p \in Packet, Data(p) PROVE SessionIsOpen' /\ ReassembledIsHeld'
    <2>1. CASE HoldHello(p)
      BY <2>1, HoldHelloSession
    <2>2. CASE HoldFirstGap(p)
      BY <2>2 DEF HoldFirstGap, IsFirstGap, SessionIsOpen, ReassembledIsHeld
    <2>3. CASE PassUntracked(p)
      BY <1>2, <2>3 DEF PassUntracked
    <2>4. CASE ReplayHello(p)
      BY <1>1, <2>4 DEF ReplayHello
    <2>5. CASE \E off : Release(p, off)
      BY <1>1, <2>5 DEF Release
    <2> QED
      BY <1>3, <2>1, <2>2, <2>3, <2>4, <2>5
         DEF Data, OutOfInterval, PassTooLarge, PassHello, PassHttp, PassUnknown
  <1>4. ASSUME NEW inside, FreeUnless(inside) PROVE SessionIsOpen' /\ ReassembledIsHeld'
    BY <1>1, <1>2, <1>4 DEF FreeUnless
  <1>5. InitTrack => SessionIsOpen' /\ ReassembledIsHeld'
    BY <1>1 DEF InitTrack
  <1>6. CASE UNCHANGED vars
    BY <1>2, <1>6 DEF vars
  <1> QED
    BY <1>3, <1>4, <1>5, <1>6 DEF Next, Control, SynNew, SynAgain, Forget

(* The ClientHello is judged from bytes that the queue still holds, and a  *)
(* session that is complete never outlives the step that completed it.     *)
THEOREM SessionHeld == Spec => [](SessionIsOpen /\ ReassembledIsHeld)
  <1>1. Init => SessionIsOpen /\ ReassembledIsHeld
    BY DEF Init, NoReasm, SessionIsOpen, ReassembledIsHeld
  <1> QED
    BY <1>1, StepSession, TypeCorrect, HeldAccounted, PTL DEF Spec

(* A session that runs lacks something of a hello within the limit.        *)
THEOREM SessionStaysOpen == Spec => []SessionIsOpen
  BY SessionHeld, PTL

------------------------------------------------------------------------------
(* Offsets in a session no data came ahead of. *)

(* Each packet begins where the one before it ends. *)
Adjacent(q) ==
  \A k \in DOMAIN q : k # 1 => SeqOf[q[k]] = SeqOf[q[k - 1]] + LenOf[q[k - 1]]

(* ... and the last ends at position s. *)
LeadsTo(q, s) ==
  /\ Adjacent(q)
  /\ \A k \in DOMAIN q : SeqOf[q[k]] < s
  /\ q # <<>> => SeqOf[q[Len(q)]] + LenOf[q[Len(q)]] = s

(* Without a gap the queue is the part of the hello there is, cut into packets. *)
QueueLeads == ~ delayed_first_gap => LeadsTo(delayed, reasm.seq)

(* What replay_queue sums up is how far a packet lies behind the first. *)
LEMMA OffsetOfAdjacent ==
  ASSUME NEW q \in Seq(Packet), Adjacent(q), NEW i \in DOMAIN q
  PROVE  ReplayOffset(q, i) = SeqOf[q[i]] - SeqOf[q[1]]
  <1> DEFINE L == Len(q)
             f == [k \in DOMAIN q |-> SeqOf[q[k]] - SeqOf[q[1]]]
             offset == CHOOSE g : g = [k \in DOMAIN q |->
                                         IF k = 1 THEN 0 ELSE g[k - 1] + LenOf[q[k - 1]]]
  <1>1. L \in Nat /\ DOMAIN q = 1 .. L
    OBVIOUS
  <1>2. \A k \in DOMAIN q : q[k] \in Packet /\ SeqOf[q[k]] \in Int /\ LenOf[q[k]] \in Int
    BY <1>1, PacketAssumption
  <1>3. \A k \in DOMAIN q : f[k] = IF k = 1 THEN 0 ELSE f[k - 1] + LenOf[q[k - 1]]
    <2> SUFFICES ASSUME NEW k \in DOMAIN q
                 PROVE  f[k] = IF k = 1 THEN 0 ELSE f[k - 1] + LenOf[q[k - 1]]
      OBVIOUS
    <2>1. CASE k = 1
      BY <1>2, <2>1
    <2>2. CASE k # 1
      <3>1. k - 1 \in DOMAIN q /\ 1 \in DOMAIN q
        BY <1>1, <2>2
      <3>2. SeqOf[q[k]] = SeqOf[q[k - 1]] + LenOf[q[k - 1]]
        BY <2>2 DEF Adjacent
      <3> QED
        BY <1>2, <2>2, <3>1, <3>2
    <2> QED
      BY <2>1, <2>2
  <1>4. f = [k \in DOMAIN q |-> IF k = 1 THEN 0 ELSE f[k - 1] + LenOf[q[k - 1]]]
    BY <1>3
  <1>5. offset = [k \in DOMAIN q |-> IF k = 1 THEN 0 ELSE offset[k - 1] + LenOf[q[k - 1]]]
    BY <1>4, Zenon
  <1>6. ReplayOffset(q, i) = offset[i]
    BY DEF ReplayOffset
  <1> HIDE DEF offset
  <1>7. \A k \in DOMAIN q : offset[k] = IF k = 1 THEN 0 ELSE offset[k - 1] + LenOf[q[k - 1]]
    BY <1>5
  <1>8. \A k \in DOMAIN q : offset[k] = f[k]
    <2> DEFINE T == {k \in DOMAIN q : offset[k] # f[k]}
    <2> SUFFICES ASSUME T # {} PROVE FALSE
      OBVIOUS
    <2>1. T \subseteq Nat
      BY <1>1
    <2>2. PICK k \in T : \A j \in T : k <= j
      <3> HIDE DEF T
      <3> QED
        BY <2>1, LeastNatural
    <2>3. k # 1
      BY <1>3, <1>7
    <2>4. k - 1 \in DOMAIN q /\ k \in DOMAIN q
      BY <1>1, <2>3
    <2>5. offset[k - 1] = f[k - 1]
      BY <1>1, <2>2, <2>4
    <2> HIDE DEF f
    <2> QED
      BY <1>3, <1>7, <2>3, <2>4, <2>5
  <1> QED
    BY <1>6, <1>8

(* A packet at the place where the queue ends continues it. *)
LEMMA AppendLeads ==
  ASSUME NEW q \in Seq(Packet), NEW p \in Packet, LeadsTo(q, SeqOf[p])
  PROVE  LeadsTo(Append(q, p), SeqOf[p] + LenOf[p])
  <1> DEFINE t == Append(q, p)
             s == SeqOf[p] + LenOf[p]
  <1>1. /\ Len(q) \in Nat /\ Len(t) = Len(q) + 1
        /\ DOMAIN t = 1 .. Len(q) + 1 /\ DOMAIN q = 1 .. Len(q)
        /\ \A i \in 1 .. Len(q) : t[i] = q[i]
        /\ t[Len(q) + 1] = p
    OBVIOUS
  <1> HIDE DEF t
  <1>2. SeqOf[p] \in Int /\ LenOf[p] \in Nat \ {0}
    BY PacketAssumption
  <1>3. \A i \in DOMAIN q : SeqOf[q[i]] \in Int
    BY PacketAssumption
  <1>4. Adjacent(t)
    <2> SUFFICES ASSUME NEW k \in DOMAIN t, k # 1
                 PROVE  SeqOf[t[k]] = SeqOf[t[k - 1]] + LenOf[t[k - 1]]
      BY DEF Adjacent
    <2>1. CASE k = Len(q) + 1
      <3>1. q # <<>> /\ t[k] = p /\ t[k - 1] = q[Len(q)]
        BY <1>1, <2>1
      <3> QED
        BY <3>1 DEF LeadsTo
    <2>2. CASE k # Len(q) + 1
      <3>1. k \in DOMAIN q /\ t[k] = q[k] /\ t[k - 1] = q[k - 1]
        BY <1>1, <2>2
      <3> QED
        BY <3>1 DEF LeadsTo, Adjacent
    <2> QED
      BY <2>1, <2>2
  <1>5. \A k \in DOMAIN t : SeqOf[t[k]] < s
    <2> SUFFICES ASSUME NEW k \in DOMAIN t PROVE SeqOf[t[k]] < s
      OBVIOUS
    <2>1. CASE k = Len(q) + 1
      BY <1>1, <1>2, <2>1
    <2>2. CASE k # Len(q) + 1
      <3>1. k \in DOMAIN q /\ t[k] = q[k]
        BY <1>1, <2>2
      <3>2. SeqOf[q[k]] < SeqOf[p]
        BY <3>1 DEF LeadsTo
      <3> QED
        BY <1>2, <1>3, <3>1, <3>2
    <2> QED
      BY <2>1, <2>2
  <1>6. SeqOf[t[Len(t)]] + LenOf[t[Len(t)]] = s
    BY <1>1
  <1> QED
    BY <1>4, <1>5, <1>6 DEF LeadsTo, t

(* Nothing leads anywhere. *)
LEMMA NothingLeads == \A s : LeadsTo(<<>>, s)
  BY DEF LeadsTo, Adjacent

(* Without a gap the packet at hand continues the queue. *)
LEMMA QueueContinues ==
  ASSUME TypeOK, HeldIsAccountedFor, QueueLeads, ~ delayed_first_gap,
         NEW p \in Packet, Feeds(p) \/ Starts(p)
  PROVE  /\ LeadsTo(QueueWith(p), SeqOf[p] + LenOf[p])
         /\ QueueWith(p) \in Seq(Packet)
         /\ StillQueued(p) # <<>> => Feeds(p)
  <1>1. StillQueued(p) \in Seq(Packet)
    BY QueueWithType
  <1>2. LeadsTo(StillQueued(p), SeqOf[p]) /\ (StillQueued(p) # <<>> => Feeds(p))
    <2>1. CASE Fails(p)
      BY <2>1, NothingLeads DEF StillQueued
    <2>2. CASE Feeds(p)
      BY <2>2 DEF StillQueued, Fails, Feeds, QueueLeads
    <2>3. CASE reasm.size = 0
      BY <2>3, NothingLeads DEF StillQueued, Fails, HeldIsAccountedFor
    <2> QED
      BY <2>1, <2>2, <2>3 DEF Fails, Feeds
  <1> QED
    BY <1>1, <1>2, AppendLeads, QueueWithType DEF QueueWith

(* A feed that does not fill the buffer copies the packet whole. *)
LEMMA FeedCopies ==
  ASSUME NEW B \in Reassemblies, Open(B), NEW len \in Nat,
         NEW r, r = ReasmFeed(B, len), B.size # 0, ~ ReasmIsFull(r)
  PROVE  r.seq = B.seq + len
  <1> DEFINE szcopy == IF len < B.size - B.present THEN len ELSE B.size - B.present
  <1>1. B.size \in Nat /\ B.present \in Nat /\ B.seq \in Int
    BY DEF Reassemblies
  <1>2. r = [size |-> B.size, present |-> B.present + szcopy, seq |-> B.seq + szcopy]
    BY DEF ReasmFeed
  <1>3. B.present + szcopy # B.size
    BY <1>2 DEF ReasmIsFull
  <1>4. szcopy = len
    BY <1>1, <1>3
  <1> HIDE DEF szcopy
  <1> QED
    BY <1>2, <1>4

(* Every step leaves a queue that leads to where the session is. *)
LEMMA StepLeads ==
  ASSUME TypeOK, SessionIsOpen, ReassembledIsHeld, HeldIsAccountedFor, QueueLeads, [Next]_vars
  PROVE  QueueLeads'
  <1>1. delayed' = <<>> => QueueLeads'
    BY NothingLeads DEF QueueLeads
  <1>2. UNCHANGED <<reasm, delayed, delayed_first_gap>> => QueueLeads'
    BY DEF QueueLeads
  <1>3. ASSUME NEW p \in Packet, Data(p) PROVE QueueLeads'
    <2>1. CASE HoldHello(p)
      <3> SUFFICES ASSUME ~ delayed_first_gap PROVE LeadsTo(delayed', reasm'.seq)
        BY <2>1 DEF HoldHello, QueueLeads
      <3>1. (Feeds(p) \/ Starts(p)) /\ delayed' = QueueWith(p)
        BY <2>1 DEF HoldHello
      <3>2. reasm' = Reassembly(p) /\ ~ ReasmIsFull(Reassembly(p))
        BY <2>1 DEF HoldHello, ReasmWith
      <3>3. PICK B \in Reassemblies :
              /\ Reassembly(p) = ReasmFeed(B, LenOf[p])
              /\ B.seq = SeqOf[p]
              /\ Open(B)
        BY <3>1, BufferOfPacket
      <3>4. LenOf[p] \in Nat
        BY PacketAssumption
      <3>5. B.size # 0
        <4>1. Reassembly(p) \in ReasmWith(p)
          BY DEF ReasmWith
        <4> QED
          BY <3>1, <3>3, <3>4, <4>1, ReasmWithType, ReasmFeedType
      <3>6. reasm'.seq = SeqOf[p] + LenOf[p]
        BY <3>2, <3>3, <3>4, <3>5, FeedCopies
      <3> QED
        BY <3>1, <3>6, QueueContinues
    <2>2. CASE HoldFirstGap(p)
      BY <2>2 DEF HoldFirstGap, QueueLeads
    <2>3. CASE PassUntracked(p)
      BY <1>2, <2>3 DEF PassUntracked
    <2>4. CASE ReplayHello(p)
      BY <1>1, <2>4 DEF ReplayHello
    <2>5. CASE \E off : Release(p, off)
      BY <1>1, <2>5 DEF Release
    <2> QED
      BY <1>3, <2>1, <2>2, <2>3, <2>4, <2>5
         DEF Data, OutOfInterval, PassTooLarge, PassHello, PassHttp, PassUnknown
  <1>4. ASSUME NEW inside, FreeUnless(inside) PROVE QueueLeads'
    BY <1>1, <1>2, <1>4 DEF FreeUnless
  <1>5. InitTrack => QueueLeads'
    BY <1>1 DEF InitTrack
  <1>6. CASE UNCHANGED vars
    BY <1>2, <1>6 DEF vars
  <1> QED
    BY <1>3, <1>4, <1>5, <1>6 DEF Next, Control, SynNew, SynAgain, Forget

(* The places, in what a step sends, of the packets it tampers with *)
Marked == {k \in DOMAIN sent' : reasm_offset'[k] # AsItIs}

(* But for a replay, a step tampers with one packet at most, at offset 0. *)
LEMMA OneIsMarked ==
  ASSUME TypeOK, HeldIsAccountedFor, Next, ~ (\E p \in Packet : ReplayHello(p)),
         NEW i \in Marked, NEW j \in Marked
  PROVE  i = j /\ reasm_offset'[i] \in Int
  <1>1. ASSUME NEW p \in Packet, NEW off \in {0, AsItIs}, Release(p, off)
        PROVE  i = j /\ reasm_offset'[i] \in Int
    <2> DEFINE u == Untouched(sent')
    <2>1. reasm_offset' = [u EXCEPT ![Len(sent')] = off]
      BY <1>1 DEF Release
    <2>2. DOMAIN u = DOMAIN sent' /\ \A k \in DOMAIN sent' : u[k] = AsItIs
      BY DEF Untouched
    <2> HIDE DEF u
    <2>3. reasm_offset'[i] \in {off, AsItIs}
      BY <2>1, <2>2 DEF Marked
    <2>4. \A k \in DOMAIN sent' : k # Len(sent') => reasm_offset'[k] = AsItIs
      BY <2>1, <2>2
    <2> QED
      BY <2>3, <2>4 DEF Marked, AsItIs
  <1>2. CASE reasm_offset' = Untouched(sent')
    BY <1>2 DEF Marked, Untouched
  <1>3. ASSUME NEW p \in Packet, NEW off \in {0, AsItIs}, sent' = <<p>>, reasm_offset' = <<off>>
        PROVE  i = j /\ reasm_offset'[i] \in Int
    BY <1>3 DEF Marked, AsItIs
  <1>4. sent' = <<>> => i = j /\ reasm_offset'[i] \in Int
    BY DEF Marked
  <1>5. ASSUME NEW p \in Packet, Data(p) PROVE i = j /\ reasm_offset'[i] \in Int
    <2>1. CASE HoldHello(p)
      BY <1>2, <2>1 DEF HoldHello
    <2>2. CASE HoldFirstGap(p)
      BY <1>4, <2>2 DEF HoldFirstGap
    <2>3. CASE PassUntracked(p)
      BY <1>3, <2>3 DEF PassUntracked, Tampered
    <2>4. CASE \E off \in {0, AsItIs} : Release(p, off)
      BY <1>1, <2>4
    <2> QED
      BY <1>5, <2>1, <2>2, <2>3, <2>4
         DEF Data, OutOfInterval, PassTooLarge, PassHello, PassHttp, PassUnknown, Tampered
  <1>6. ASSUME NEW inside, FreeUnless(inside) PROVE i = j /\ reasm_offset'[i] \in Int
    BY <1>2, <1>6 DEF FreeUnless
  <1>7. InitTrack => i = j /\ reasm_offset'[i] \in Int
    BY <1>4 DEF InitTrack
  <1> QED
    BY <1>5, <1>6, <1>7 DEF Next, Control, SynNew, SynAgain, Forget

(* A replay tampers with packets of its queue, each at its own offset. *)
LEMMA ReplayedIsQueued ==
  ASSUME TypeOK, NEW p \in Packet, ReplayHello(p), NEW i \in Marked
  PROVE  \E k \in DOMAIN QueueWith(p) :
           /\ i = Len(Spilled(p)) + k
           /\ sent'[i] = QueueWith(p)[k]
           /\ reasm_offset'[i] = ReplayOffset(QueueWith(p), k)
  <1> DEFINE a == Spilled(p)
             q == QueueWith(p)
             t == a \o q
  <1>1. a \in Seq(Packet) /\ q \in Seq(Packet)
    BY QueueWithType
  <1>2. sent' = t
    BY DEF ReplayHello
  <1>3. /\ Len(a) \in Nat /\ Len(q) \in Nat
        /\ DOMAIN t = 1 .. Len(a) + Len(q) /\ DOMAIN q = 1 .. Len(q)
        /\ \A k \in Len(a) + 1 .. Len(a) + Len(q) : t[k] = q[k - Len(a)]
    <2> HIDE DEF a, q
    <2> QED
      BY <1>1
  <1>4. i \in DOMAIN t /\ reasm_offset'[i] # AsItIs
    BY <1>2 DEF Marked
  <1>5. reasm_offset' # Untouched(sent')
    BY <1>2, <1>4 DEF Untouched
  <1>6. reasm_offset' = [k \in DOMAIN sent' |->
           IF k <= Len(a) THEN AsItIs ELSE ReplayOffset(q, k - Len(a))]
    BY <1>5 DEF ReplayHello
  <1> HIDE DEF a, q, t
  <1>7. ~ (i <= Len(a)) /\ reasm_offset'[i] = ReplayOffset(q, i - Len(a))
    BY <1>2, <1>4, <1>6
  <1>8. i - Len(a) \in DOMAIN q /\ i = Len(a) + (i - Len(a)) /\ t[i] = q[i - Len(a)]
    BY <1>3, <1>4, <1>7
  <1> QED
    BY <1>2, <1>7, <1>8 DEF a, q

(* Without a gap the queue always leads to where the session is. *)
THEOREM QueueIsTheHello == Spec => []QueueLeads
  <1>1. Init => QueueLeads
    BY NothingLeads DEF Init, QueueLeads
  <1> QED
    BY <1>1, StepLeads, TypeCorrect, HeldAccounted, SessionHeld, PTL DEF Spec

(* In a session no data came ahead of, every packet is split and faked at  *)
(* its own place in the ClientHello (replay_queue, pos_normalize).         *)
THEOREM OffsetsRight == Spec => OffsetsRightUnlessGap
  <1>1. TypeOK /\ HeldIsAccountedFor /\ QueueLeads /\ TypeOK' /\ [Next]_vars
          => [~ delayed_first_gap => \A i, j \in DOMAIN sent' : OffsetsFollowTheStream(i, j)]_vars
    <2> SUFFICES ASSUME TypeOK, HeldIsAccountedFor, QueueLeads, TypeOK', Next, ~ delayed_first_gap,
                        NEW i \in Marked, NEW j \in Marked
                 PROVE  reasm_offset'[i] - reasm_offset'[j] = SeqOf[sent'[i]] - SeqOf[sent'[j]]
      BY DEF OffsetsFollowTheStream, Marked
    <2>1. CASE \E p \in Packet : ReplayHello(p)
      <3>1. PICK p \in Packet : ReplayHello(p)
        BY <2>1
      <3> DEFINE q == QueueWith(p)
      <3>2. q \in Seq(Packet) /\ Adjacent(q)
        BY <3>1, QueueContinues DEF ReplayHello, LeadsTo
      <3>3. PICK k \in DOMAIN q : sent'[i] = q[k] /\ reasm_offset'[i] = ReplayOffset(q, k)
        BY <3>1, ReplayedIsQueued
      <3>4. PICK l \in DOMAIN q : sent'[j] = q[l] /\ reasm_offset'[j] = ReplayOffset(q, l)
        BY <3>1, ReplayedIsQueued
      <3> HIDE DEF q
      <3>5. 1 \in DOMAIN q
        BY <3>2, <3>3
      <3>6. SeqOf[q[k]] \in Int /\ SeqOf[q[l]] \in Int /\ SeqOf[q[1]] \in Int
        BY <3>2, <3>3, <3>4, <3>5, PacketAssumption
      <3>7. /\ reasm_offset'[i] = SeqOf[q[k]] - SeqOf[q[1]]
            /\ reasm_offset'[j] = SeqOf[q[l]] - SeqOf[q[1]]
        BY <3>2, <3>3, <3>4, OffsetOfAdjacent
      <3> QED
        BY <3>3, <3>4, <3>6, <3>7
    <2>2. CASE ~ (\E p \in Packet : ReplayHello(p))
      <3>1. i = j /\ reasm_offset'[i] \in Int
        BY <2>2, OneIsMarked
      <3>2. SeqOf[sent'[i]] \in Int
        BY PacketAssumption DEF TypeOK, Marked
      <3> QED
        BY <3>1, <3>2
    <2> QED
      BY <2>1, <2>2
  <1> QED
    BY <1>1, QueueIsTheHello, TypeCorrect, HeldAccounted, PTL DEF Spec, OffsetsRightUnlessGap

(* Fed with the packet that completes it, the record is seen complete. *)
LEMMA FullIsSeen ==
  ASSUME TypeOK, SessionIsOpen, NEW p \in Packet, Feeds(p), ReasmIsFull(Reassembly(p))
  PROVE  IsTLSRecordFull(p)
  <1>1. Reassembly(p) = ReasmFeed(reasm, LenOf[p])
    BY DEF Reassembly
  <1>2. LenOf[p] \in Nat /\ reasm \in Reassemblies
    BY PacketAssumption DEF TypeOK
  <1>3. Reassembly(p).size = reasm.size /\ reasm.size \in Nat
    BY <1>1, <1>2, ReasmFeedType DEF Reassemblies
  <1>4. DataLen(p) = reasm.size
    BY <1>1, <1>3 DEF DataLen, ReasmIsFull
  <1>5. RecordLen[DataFrom(p)] = reasm.size
    BY DEF DataFrom, Feeds, SessionIsOpen
  <1> QED
    BY <1>3, <1>4, <1>5 DEF IsTLSRecordFull

(* "do not reasm retransmissions" (desync.c): in a session no data came    *)
(* ahead of, a replay finalizes the request, and no packet of it begins    *)
(* behind its interval.                                                    *)
THEOREM ReplayIsFinalized == Spec => ReplayIsFinalizedUnlessGap
  <1>1. TypeOK /\ HeldIsAccountedFor /\ QueueLeads /\ SessionIsOpen /\ [Next]_vars
          => [~ delayed_first_gap /\ ~ req.finalized =>
                \A i, j \in DOMAIN sent' :
                  i # j /\ reasm_offset'[i] # AsItIs /\ reasm_offset'[j] # AsItIs =>
                    req'.finalized /\ SeqOf[sent'[i]] <= req'.end]_vars
    <2> SUFFICES ASSUME TypeOK, HeldIsAccountedFor, QueueLeads, SessionIsOpen, Next,
                        ~ delayed_first_gap, ~ req.finalized,
                        NEW i \in Marked, NEW j \in Marked, i # j
                 PROVE  req'.finalized /\ SeqOf[sent'[i]] <= req'.end
      BY DEF Marked
    <2>1. PICK p \in Packet : ReplayHello(p)
      BY OneIsMarked
    <2> DEFINE q == QueueWith(p)
    <2>2. /\ q \in Seq(Packet) /\ LeadsTo(q, SeqOf[p] + LenOf[p])
          /\ StillQueued(p) # <<>> => Feeds(p)
      BY <2>1, QueueContinues DEF ReplayHello
    <2>3. PICK k \in DOMAIN q : i = Len(Spilled(p)) + k /\ sent'[i] = q[k]
      BY <2>1, ReplayedIsQueued
    <2>4. PICK l \in DOMAIN q : j = Len(Spilled(p)) + l
      BY <2>1, ReplayedIsQueued
    <2>5. StillQueued(p) # <<>>
      <3> SUFFICES ASSUME StillQueued(p) = <<>> PROVE FALSE
        OBVIOUS
      <3>1. q = Append(<<>>, p)
        BY DEF QueueWith
      <3>2. DOMAIN q = {1}
        BY <3>1
      <3> HIDE DEF q
      <3> QED
        BY <2>3, <2>4, <3>2
    <2>6. Feeds(p)
      BY <2>2, <2>5
    <2>7. ReasmIsFull(Reassembly(p)) /\ req' = TrackRequest(p)
      BY <2>1 DEF ReplayHello, ReasmWith
    <2>8. IsTLSRecordFull(p)
      BY <2>6, <2>7, FullIsSeen
    <2>9. req'.finalized /\ req'.end = SeqOf[p] + LenOf[p] - 1
      BY <2>7, <2>8 DEF TrackRequest
    <2>10. SeqOf[q[k]] < SeqOf[p] + LenOf[p]
      BY <2>2, <2>3 DEF LeadsTo
    <2> HIDE DEF q
    <2>11. SeqOf[q[k]] \in Int /\ SeqOf[p] \in Int /\ LenOf[p] \in Int
      BY <2>2, <2>3, PacketAssumption
    <2> QED
      BY <2>3, <2>9, <2>10, <2>11
  <1> QED
    BY <1>1, QueueIsTheHello, TypeCorrect, HeldAccounted, SessionStaysOpen, PTL
       DEF Spec, ReplayIsFinalizedUnlessGap
==============================================================================
