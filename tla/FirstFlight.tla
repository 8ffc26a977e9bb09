----------------------------- MODULE FirstFlight -----------------------------
(***************************************************************************)
(* The first flight of one outgoing TCP connection through the packet      *)
(* engine: dpi_desync_tcp_packet_play (nfq/desync.c) with the conntrack    *)
(* entry of the connection (nfq/conntrack.c) and its queue of delayed      *)
(* packets (nfq/packet_queue.c), as built for macOS.                       *)
(*                                                                         *)
(* The engine keeps back the packets of a TLS ClientHello that spans       *)
(* several packets until the record is complete, then replays them through *)
(* the desync.  On macOS it also keeps back data that arrives ahead of the *)
(* first byte of the stream (`delayed_first_gap').                         *)
(*                                                                         *)
(* Stream positions are relative to seq0 + 1: the code only compares       *)
(* sequence numbers or subtracts them modulo 2^32, so a packet behind the  *)
(* first byte has a negative position and a huge unsigned gap.  Packets    *)
(* are identities; a retransmission is another packet of the same place,   *)
(* and an identity may come again once the engine has let go of it.        *)
(***************************************************************************)
EXTENDS Integers, Sequences

CONSTANTS
  Packet,          \* the data packets the client may send
  SeqOf,           \* SeqOf[p]: position of the first byte of p
  LenOf,           \* LenOf[p]: payload length of p
  RecordLen,       \* RecordLen[s]: length of the ClientHello that begins at s, or 0
  HttpAt,          \* positions at which an HTTP request begins
  HostEnd,         \* length of a ClientHello up to the end of its server name
  TCP_MAX_REASM,   \* limit of a reassembly and of the gap before the first byte
  AbandonWindow,   \* distance past the request at which tracking it is abandoned
  DesyncStart,     \* dp->desync_start, 0 when not set
  DesyncCutoff,    \* dp->desync_cutoff, 0 when not set
  LimitMode,       \* dp->desync_start_mode and desync_cutoff_mode
  PartialFake,     \* the profile only sends fakes, which need no complete hello
  SkipNoSni,       \* dp->desync_skip_nosni
  HostlistsEmpty,  \* PROFILE_HOSTLISTS_EMPTY(dp): the profile has no hostlist
  AnyProto,        \* dp->desync_any_proto
  CountCap         \* bound of the packet counters, above both limits

Position == {SeqOf[p] : p \in Packet}

ASSUME PacketAssumption ==
  /\ SeqOf \in [Packet -> {s \in Int : s >= -1}]
  /\ LenOf \in [Packet -> Nat \ {0}]
  /\ RecordLen \in [Position -> Nat]
  /\ \A s \in Position : RecordLen[s] > 0 => s >= 0 /\ s \notin HttpAt

ASSUME LimitAssumption ==
  /\ HostEnd \in Nat
  /\ TCP_MAX_REASM \in Nat
  /\ AbandonWindow \in Nat \ {0}
  /\ DesyncStart \in Nat
  /\ DesyncCutoff \in Nat
  /\ LimitMode \in {"n", "d", "s"}
  /\ PartialFake \in BOOLEAN
  /\ SkipNoSni \in BOOLEAN
  /\ HostlistsEmpty \in BOOLEAN
  /\ AnyProto \in BOOLEAN
  /\ CountCap \in Nat
  /\ CountCap > 1
  /\ LimitMode # "s" => CountCap > DesyncStart /\ CountCap > DesyncCutoff

VARIABLES
  entry,               \* the connection has a conntrack entry
  state,               \* t_connstate
  pcounter_orig,       \* packets seen
  pdcounter_orig,      \* packets with data seen
  b_desync_cutoff,     \* the cutoff was reached once
  req,                 \* the request's interval: req_seq_*
  reasm,               \* reasm_orig, without its bytes
  delayed,             \* the queue of packets kept back
  delayed_first_gap,   \* the queue holds data ahead of the first byte
  sent,                \* packets the last step handed to the sender, in order
  reasm_offset,        \* for each of them the offset it was tampered with at
  lost                 \* packets the last step freed without sending them

track == <<entry, state, pcounter_orig, pdcounter_orig, b_desync_cutoff>>
vars == <<track, req, reasm, delayed, delayed_first_gap, sent, reasm_offset, lost>>

Held == {delayed[i] : i \in DOMAIN delayed}

NoRequest ==
  [present |-> FALSE, finalized |-> FALSE, abandoned |-> FALSE, start |-> 0, end |-> 0]
NoReasm == [size |-> 0, present |-> 0, seq |-> 0]

(* Marks, in reasm_offset, a packet that left without being tampered with. *)
AsItIs == -1
Untouched(q) == [i \in DOMAIN q |-> AsItIs]

------------------------------------------------------------------------------
(* Conntrack: counters, state and the limits on which packets are looked at. *)

Bump(n) == IF n < CountCap THEN n + 1 ELSE n

(* cutoff_test, on the counters after this packet; s is its position. *)
Reached(limit, s) ==
  /\ limit # 0
  /\ limit <= CASE LimitMode = "n" -> pcounter_orig'
                [] LimitMode = "d" -> pdcounter_orig'
                [] LimitMode = "s" -> s + 1

(* ConntrackFeedPacket for an outgoing packet that is not a SYN, then maybe_cutoff. *)
ConntrackFeed(hasData, fin, s) ==
  /\ entry
  /\ pcounter_orig' = Bump(pcounter_orig)
  /\ pdcounter_orig' = IF hasData THEN Bump(pdcounter_orig) ELSE pdcounter_orig
  /\ state' = IF fin THEN "FIN" ELSE IF state = "SYN" THEN "ESTABLISHED" ELSE state
  /\ b_desync_cutoff' = (b_desync_cutoff \/ Reached(DesyncCutoff, s))
  /\ entry' = entry

(* check_desync_interval *)
InInterval(s) ==
  /\ DesyncStart # 0 => Reached(DesyncStart, s)
  /\ ~ b_desync_cutoff'

(* Mutant of InitTrack: an overwritten entry keeps its open session. *)
InitTrackKeepsReasm ==
  /\ req' = NoRequest
  /\ UNCHANGED reasm
  /\ delayed' = <<>>
  /\ delayed_first_gap' = FALSE
  /\ sent' = <<>>
  /\ reasm_offset' = <<>>
  /\ lost' = Held

(* ConntrackInitTrack: what a new or overwritten entry starts from. *)
InitTrack ==
  /\ req' = NoRequest
  /\ reasm' = NoReasm
  /\ delayed' = <<>>
  /\ delayed_first_gap' = FALSE
  /\ sent' = <<>>
  /\ reasm_offset' = <<>>
  /\ lost' = Held

------------------------------------------------------------------------------
(* Reassembly. *)

(* Mutant of ReasmFeed: the room left is computed the wrong way round. *)
ReasmFeedNegativeRoom(r, len) ==
  LET szcopy == IF len < r.present - r.size THEN len ELSE r.present - r.size
  IN  [size |-> r.size, present |-> r.present + szcopy, seq |-> r.seq + szcopy]

(* ReasmFeed of len bytes at the expected position *)
ReasmFeed(r, len) ==
  LET szcopy == IF len < r.size - r.present THEN len ELSE r.size - r.present
  IN  [size |-> r.size, present |-> r.present + szcopy, seq |-> r.seq + szcopy]

ReasmIsFull(r) == r.size # 0 /\ r.present = r.size

(* reasm_orig_feed_delayed: scan the queue again and again for the first   *)
(* packet at the expected position, feed it, and stop when there is none   *)
(* or the buffer is full.  Visited is the least set of expected positions  *)
(* closed under feeding; the loop ends at the one from which it cannot go  *)
(* on, so this is a set of one reassembly.                                 *)
FedDelayed(r, q) ==
  LET full == r.seq + (r.size - r.present)
      At(s) == {i \in DOMAIN q : SeqOf[q[i]] = s}
      First(s) == q[CHOOSE i \in At(s) : \A j \in At(s) : i <= j]
      Next1(s) == IF LenOf[First(s)] < full - s THEN s + LenOf[First(s)] ELSE full
      GoesOn(s) == s < full /\ At(s) # {}
      Closed(V) == \A s \in V : GoesOn(s) => Next1(s) \in V
      Visited == {s \in r.seq .. full :
                    \A V \in SUBSET (r.seq .. full) : r.seq \in V /\ Closed(V) => s \in V}
  IN  {[size |-> r.size, present |-> r.present + (s - r.seq), seq |-> s] :
          s \in {v \in Visited : ~ GoesOn(v)}}

(* The unexpected packet p fails the session: reasm_feed clears the buffer *)
(* and sends the queue, and p is then looked at on its own.                *)
Fails(p) == reasm.size # 0 /\ SeqOf[p] # reasm.seq
Feeds(p) == reasm.size # 0 /\ SeqOf[p] = reasm.seq

Spilled(p) == IF Fails(p) THEN delayed ELSE <<>>
StillQueued(p) == IF Fails(p) THEN <<>> ELSE delayed

(* rdata_payload and rlen_payload: the data the packet is judged by. *)
DataFrom(p) == IF Feeds(p) THEN reasm.seq - reasm.present ELSE SeqOf[p]
DataLen(p) == IF Feeds(p) THEN ReasmFeed(reasm, LenOf[p]).present ELSE LenOf[p]

IsHttp(p) == DataFrom(p) \in HttpAt
IsTLSClientHello(p) == RecordLen[DataFrom(p)] > 0
IsTLSRecordFull(p) == RecordLen[DataFrom(p)] <= DataLen(p)
HaveHost(p) == HostEnd <= DataLen(p) /\ HostEnd <= RecordLen[DataFrom(p)]
FakeCanRunPartial(p) ==
  PartialFake /\ (HaveHost(p) \/ (~ SkipNoSni /\ HostlistsEmpty))

(* seq_within, for positions of one stream *)
SeqWithin(s, s1, s2) == s1 <= s /\ s <= s2

(* A partial ClientHello that is not a retransmission calls for reassembly. *)
WantsReasm(p) ==
  /\ ~ Feeds(p)
  /\ IsTLSClientHello(p)
  /\ ~ IsTLSRecordFull(p)
  /\ ~ FakeCanRunPartial(p)
  /\ ~ req.abandoned
  /\ ~ (req.finalized /\ SeqWithin(SeqOf[p], req.start, req.end))
(* Mutant of Starts: the limit of a reassembly is not looked at. *)
StartsUnlimited(p) == WantsReasm(p)
Starts(p) == WantsReasm(p) /\ RecordLen[SeqOf[p]] <= TCP_MAX_REASM
TooLarge(p) == WantsReasm(p) /\ RecordLen[SeqOf[p]] > TCP_MAX_REASM

Reassembly(p) ==
  ReasmFeed(IF Feeds(p) THEN reasm
            ELSE [size |-> RecordLen[SeqOf[p]], present |-> 0, seq |-> SeqOf[p]],
            LenOf[p])

(* Mutant of TrackRequest: the packet alone is looked at, not the buffer.   *)
TrackRequestOfPacket(p) ==
  IF req.finalized THEN req
  ELSE [present |-> TRUE, finalized |-> IsTLSRecordFull(p) /\ ~ Feeds(p), abandoned |-> req.abandoned,
        start |-> IF req.present THEN req.start ELSE SeqOf[p],
        end |-> SeqOf[p] + LenOf[p] - 1]

(* The request's interval grows with each packet of the hello until the    *)
(* record is seen complete.                                                *)
TrackRequest(p) ==
  IF req.finalized THEN req
  ELSE [present |-> TRUE, finalized |-> IsTLSRecordFull(p), abandoned |-> req.abandoned,
        start |-> IF req.present THEN req.start ELSE SeqOf[p],
        end |-> SeqOf[p] + LenOf[p] - 1]

(* An HTTP request with a Host is its own packet. *)
TrackHttp(p) ==
  IF req.present THEN req
  ELSE [present |-> TRUE, finalized |-> TRUE, abandoned |-> req.abandoned,
        start |-> SeqOf[p], end |-> SeqOf[p] + LenOf[p] - 1]

(* Far past a complete request the engine stops looking for another. *)
Abandon(r, p) ==
  IF r.finalized /\ SeqOf[p] - r.end >= AbandonWindow
  THEN [r EXCEPT !.abandoned = TRUE] ELSE r

------------------------------------------------------------------------------
(* The packet handler.  Each action is one path through it.                *)

(* A data packet the engine does not hold comes in, perhaps with a FIN.    *)
Arrives(p) ==
  /\ p \notin Held
  /\ \E fin \in BOOLEAN : ConntrackFeed(TRUE, fin, SeqOf[p])
  /\ lost' = {}

(* Mutant of Release: the session is dropped, its queue is not sent. *)
ReleaseKeepsQueue(p, off) ==
  /\ reasm' = NoReasm
  /\ delayed_first_gap' = FALSE
  /\ sent' = <<p>>
  /\ reasm_offset' = <<off>>
  /\ UNCHANGED delayed

(* reasm_orig_cancel, then the packet itself, tampered with at offset off  *)
Release(p, off) ==
  /\ reasm' = NoReasm
  /\ delayed' = <<>>
  /\ delayed_first_gap' = FALSE
  /\ sent' = Append(delayed, p)
  /\ reasm_offset' = [Untouched(sent') EXCEPT ![Len(sent')] = off]

(* Whether a single packet is tampered with is up to the profile that      *)
(* matches; only the offset is a matter of this module.                    *)
Tampered(known) == IF known \/ AnyProto THEN {0, AsItIs} ELSE {AsItIs}

(* Outside the profile's start and cutoff limits nothing is kept back. *)
OutOfInterval(p) ==
  /\ Arrives(p)
  /\ ~ InInterval(SeqOf[p])
  /\ Release(p, AsItIs)
  /\ UNCHANGED req

(* Data ahead of the first byte, while that has not been seen. *)
IsFirstGap(p) ==
  /\ ~ req.present
  /\ reasm.size = 0
  /\ pdcounter_orig' = 1 \/ delayed_first_gap
  /\ 0 < SeqOf[p] /\ SeqOf[p] < TCP_MAX_REASM

(* Mutant of HoldFirstGap: the flag that makes later packets look is not set. *)
HoldFirstGapUnflagged(p) ==
  /\ Arrives(p)
  /\ InInterval(SeqOf[p])
  /\ IsFirstGap(p)
  /\ delayed' = Append(delayed, p)
  /\ sent' = <<>>
  /\ reasm_offset' = <<>>
  /\ UNCHANGED <<req, reasm, delayed_first_gap>>

HoldFirstGap(p) ==
  /\ Arrives(p)
  /\ InInterval(SeqOf[p])
  /\ IsFirstGap(p)
  /\ delayed' = Append(delayed, p)
  /\ delayed_first_gap' = TRUE
  /\ sent' = <<>>
  /\ reasm_offset' = <<>>
  /\ UNCHANGED <<req, reasm>>

LookedAt(p) == Arrives(p) /\ InInterval(SeqOf[p]) /\ ~ IsFirstGap(p)

(* Mutant of QueueWith: every packet is put at the head of the queue. *)
QueueWithAtHead(p) == <<p>> \o StillQueued(p)

(* The queue with p put in it, and the buffer after that. *)
QueueWith(p) ==
  IF delayed_first_gap THEN <<p>> \o StillQueued(p) ELSE Append(StillQueued(p), p)
ReasmWith(p) ==
  IF delayed_first_gap THEN FedDelayed(Reassembly(p), QueueWith(p)) ELSE {Reassembly(p)}

(* A part of a ClientHello is kept until the rest has come. *)
HoldHello(p) ==
  /\ LookedAt(p)
  /\ Feeds(p) \/ Starts(p)
  /\ \E r \in ReasmWith(p) : ~ ReasmIsFull(r) /\ reasm' = r
  /\ req' = TrackRequest(p)
  /\ delayed' = QueueWith(p)
  /\ sent' = Spilled(p)
  /\ reasm_offset' = Untouched(Spilled(p))
  /\ UNCHANGED delayed_first_gap

(* Mutant of ReplayOffset: the packet's own payload is added as well. *)
ReplayOffsetPast(q, i) ==
  LET offset[k \in DOMAIN q] == LenOf[q[k]] + IF k = 1 THEN 0 ELSE offset[k - 1]
  IN  offset[i]

(* replay_queue: the offset of a packet is the payload replayed before it. *)
ReplayOffset(q, i) ==
  LET offset[k \in DOMAIN q] == IF k = 1 THEN 0 ELSE offset[k - 1] + LenOf[q[k - 1]]
  IN  offset[i]

(* Mutant of ReplayHello: the queue is replayed and not emptied. *)
ReplayHelloTwice(p) ==
  /\ LookedAt(p)
  /\ Feeds(p) \/ Starts(p)
  /\ \E r \in ReasmWith(p) : ReasmIsFull(r)
  /\ req' = TrackRequest(p)
  /\ reasm' = NoReasm
  /\ delayed' = QueueWith(p)
  /\ delayed_first_gap' = FALSE
  /\ sent' = Spilled(p) \o QueueWith(p)
  /\ reasm_offset' = Untouched(sent')

(* The part that completes the ClientHello: the queue is replayed, each    *)
(* packet judged by the whole record, and the reassembly is finished.      *)
ReplayHello(p) ==
  /\ LookedAt(p)
  /\ Feeds(p) \/ Starts(p)
  /\ \E r \in ReasmWith(p) : ReasmIsFull(r)
  /\ req' = TrackRequest(p)
  /\ reasm' = NoReasm
  /\ delayed' = <<>>
  /\ delayed_first_gap' = FALSE
  /\ sent' = Spilled(p) \o QueueWith(p)
  /\ reasm_offset' \in
       {Untouched(sent'),
        [i \in DOMAIN sent' |->
           IF i <= Len(Spilled(p)) THEN AsItIs
           ELSE ReplayOffset(QueueWith(p), i - Len(Spilled(p)))]}

Passes(p) == LookedAt(p) /\ ~ Feeds(p) /\ ~ Starts(p)

(* A ClientHello too large to reassemble is left alone. *)
PassTooLarge(p) ==
  /\ Passes(p)
  /\ TooLarge(p)
  /\ Release(p, AsItIs)
  /\ UNCHANGED req

(* A complete ClientHello, or a part that needs no reassembly. *)
PassHello(p) ==
  /\ Passes(p)
  /\ IsTLSClientHello(p)
  /\ ~ TooLarge(p)
  /\ \/ /\ SkipNoSni /\ ~ HaveHost(p)
        /\ Release(p, AsItIs)
        /\ req' = TrackRequest(p)
     \/ /\ HaveHost(p) \/ ~ SkipNoSni
        /\ \E off \in Tampered(TRUE) : Release(p, off)
        /\ req' = Abandon(TrackRequest(p), p)

(* HTTP is not reassembled; without a Host it is left alone. *)
PassHttp(p) ==
  /\ Passes(p)
  /\ IsHttp(p)
  /\ \/ Release(p, AsItIs) /\ UNCHANGED req
     \/ /\ \E off \in Tampered(TRUE) : Release(p, off)
        /\ req' = Abandon(TrackHttp(p), p)

PassUnknown(p) ==
  /\ Passes(p)
  /\ ~ IsHttp(p) /\ ~ IsTLSClientHello(p)
  /\ \E off \in Tampered(FALSE) : Release(p, off)
  /\ req' = Abandon(req, p)

(* Data of a connection the engine has not seen begin: no entry, nothing   *)
(* to keep it in; limits that need an entry leave the packet alone.        *)
PassUntracked(p) ==
  /\ ~ entry
  /\ sent' = <<p>>
  /\ reasm_offset' \in
       IF DesyncStart = 0 /\ DesyncCutoff = 0
       THEN {<<off>> : off \in Tampered(SeqOf[p] \in HttpAt \/ RecordLen[SeqOf[p]] > 0)}
       ELSE {<<AsItIs>>}
  /\ lost' = {}
  /\ UNCHANGED <<track, req, reasm, delayed, delayed_first_gap>>

Data(p) ==
  \/ OutOfInterval(p)
  \/ HoldFirstGap(p)
  \/ HoldHello(p)
  \/ ReplayHello(p)
  \/ PassTooLarge(p)
  \/ PassHello(p)
  \/ PassHttp(p)
  \/ PassUnknown(p)
  \/ PassUntracked(p)

------------------------------------------------------------------------------
(* Packets without data.  They pass; outside the limits they release the   *)
(* queue as any packet does.                                               *)

FreeUnless(inside) ==
  /\ IF inside
     THEN /\ UNCHANGED <<reasm, delayed, delayed_first_gap>>
          /\ sent' = <<>>
     ELSE /\ reasm' = NoReasm
          /\ delayed' = <<>>
          /\ delayed_first_gap' = FALSE
          /\ sent' = delayed
  /\ reasm_offset' = Untouched(sent')
  /\ lost' = {}
  /\ UNCHANGED req

(* An acknowledgement, a FIN or an RST at position s *)
Control(fin, s) ==
  /\ ConntrackFeed(FALSE, fin, s)
  /\ FreeUnless(InInterval(s))

(* A SYN opens an entry, and overwrites one that has moved on: what that   *)
(* one held is freed.  The counters it has just bumped are zeroed too.     *)
SynNew ==
  /\ ~ entry \/ state # "SYN"
  /\ entry' = TRUE
  /\ state' = "SYN"
  /\ pcounter_orig' = IF entry THEN 0 ELSE 1
  /\ pdcounter_orig' = 0
  /\ b_desync_cutoff' = Reached(DesyncCutoff, -1)
  /\ InitTrack

SynAgain ==
  /\ entry /\ state = "SYN"
  /\ UNCHANGED <<entry, state, pdcounter_orig>>
  /\ pcounter_orig' = Bump(pcounter_orig)
  /\ b_desync_cutoff' = (b_desync_cutoff \/ Reached(DesyncCutoff, -1))
  /\ FreeUnless(InInterval(-1))

(* The entry goes: purged after its idle time, while a packet of another   *)
(* connection is handled, or with the process that holds it.               *)
Forget ==
  /\ entry
  /\ entry' = FALSE
  /\ state' = "SYN"
  /\ pcounter_orig' = 0
  /\ pdcounter_orig' = 0
  /\ b_desync_cutoff' = FALSE
  /\ InitTrack

------------------------------------------------------------------------------
Init ==
  /\ entry = FALSE
  /\ state = "SYN"
  /\ pcounter_orig = 0
  /\ pdcounter_orig = 0
  /\ b_desync_cutoff = FALSE
  /\ req = NoRequest
  /\ reasm = NoReasm
  /\ delayed = <<>>
  /\ delayed_first_gap = FALSE
  /\ sent = <<>>
  /\ reasm_offset = <<>>
  /\ lost = {}

Next ==
  \/ \E p \in Packet : Data(p)
  \/ \E fin \in BOOLEAN, s \in Position : Control(fin, s)
  \/ SynNew
  \/ SynAgain
  \/ Forget

Spec == Init /\ [][Next]_vars

(* The client's TCP sends what is not acknowledged again: every segment of *)
(* a ClientHello comes again and again.  Nothing else has to come, as the  *)
(* client waits for the answer to its hello, and the engine has no timer.  *)
OfHello(s) == \E h \in Position : h <= s /\ s < h + RecordLen[h]
ClientRetransmits ==
  \A s \in Position : OfHello(s) => WF_vars(\E p \in Packet : SeqOf[p] = s /\ Data(p))

LiveSpec == Spec /\ ClientRetransmits

------------------------------------------------------------------------------
(* Properties. *)

Requests == [present : BOOLEAN, finalized : BOOLEAN, abandoned : BOOLEAN,
             start : Int, end : Int]
Reassemblies == [size : Nat, present : Nat, seq : Int]

TrackOK ==
  /\ entry \in BOOLEAN
  /\ state \in {"SYN", "ESTABLISHED", "FIN"}
  /\ pcounter_orig \in 0 .. CountCap
  /\ pdcounter_orig \in 0 .. CountCap
  /\ b_desync_cutoff \in BOOLEAN

TypeOK ==
  /\ TrackOK
  /\ req \in Requests
  /\ reasm \in Reassemblies
  /\ delayed \in Seq(Packet)
  /\ delayed_first_gap \in BOOLEAN
  /\ sent \in Seq(Packet)
  /\ DOMAIN reasm_offset = DOMAIN sent
  /\ lost \in SUBSET Packet

(* The code has no timer for held packets: only the handler of a later     *)
(* packet lets them go, and it looks at reasm_orig and delayed_first_gap   *)
(* to decide.  So no packet is in the queue unless one of the two says so, *)
(* and none at all once the desync cutoff has been reached.                *)
HeldIsAccountedFor ==
  delayed # <<>> => /\ entry /\ state # "SYN"
                    /\ reasm.size # 0 \/ delayed_first_gap
                    /\ ~ b_desync_cutoff

(* A packet is in the queue once. *)
Distinct(q) == \A i, j \in DOMAIN q : q[i] = q[j] => i = j
HeldOnce == Distinct(delayed)

(* What has been reassembled is what the queue holds: the ClientHello is   *)
(* judged from bytes that are still to be sent, each of them in a packet   *)
(* of the queue (reasm_orig against ctrack->delayed).                      *)
ReassembledIsHeld ==
  reasm.size # 0 =>
    \A b \in (reasm.seq - reasm.present) .. (reasm.seq - 1) :
      \E p \in Held : SeqOf[p] <= b /\ b < SeqOf[p] + LenOf[p]

(* A session always lacks something: one that is complete has been         *)
(* replayed in the same step.  It starts where a hello starts and keeps to *)
(* the limit.                                                              *)
SessionIsOpen ==
  reasm.size # 0 =>
    /\ reasm.present < reasm.size
    /\ reasm.size <= TCP_MAX_REASM
    /\ RecordLen[reasm.seq - reasm.present] = reasm.size

(* Unless data came ahead of the first byte, the engine never reorders:    *)
(* what it sends followed by what it still holds is what it held, followed *)
(* by the data packet that came if one came (the replay, the failure of a  *)
(* session and every cancellation send the queue before the packet).       *)
InOrderUnlessGap ==
  [][~ delayed_first_gap /\ lost' = {} =>
       sent' \o delayed' \in {delayed} \cup {Append(delayed, p) : p \in Packet}]_vars

(* The offsets packets of one step are tampered with at differ as their    *)
(* places in the stream do: replay_queue adds up payload lengths in the    *)
(* order of the queue, and the split and fake positions resolved in the    *)
(* whole record are moved by that offset (pos_normalize).                  *)
OffsetsFollowTheStream(i, j) ==
  reasm_offset'[i] # AsItIs /\ reasm_offset'[j] # AsItIs =>
    reasm_offset'[i] - reasm_offset'[j] = SeqOf[sent'[i]] - SeqOf[sent'[j]]

(* ... so in a session no data came ahead of, each packet is split and     *)
(* faked at its own place in the ClientHello.                              *)
OffsetsRightUnlessGap ==
  [][~ delayed_first_gap => \A i, j \in DOMAIN sent' : OffsetsFollowTheStream(i, j)]_vars

(* "do not reasm retransmissions" (desync.c): a request that is replayed is *)
(* finalized in the same step, and its interval ends with the last packet   *)
(* of it, so that none of them is kept back again when it comes once more.  *)
(* The flag is computed from the buffer as it was before packets held ahead *)
(* of its first byte were fed: with such packets this fails.                *)
ReplayIsFinalizedUnlessGap ==
  [][~ delayed_first_gap /\ ~ req.finalized =>
       \A i, j \in DOMAIN sent' :
         i # j /\ reasm_offset'[i] # AsItIs /\ reasm_offset'[j] # AsItIs =>
           req'.finalized /\ SeqOf[sent'[i]] <= req'.end]_vars

(* Every packet the engine keeps back it lets go of, as long as the client *)
(* goes on retransmitting.                                                 *)
HeldIsReleased == []<>(Held = {})

(* The handler does what PacketRelay promises: no packet twice, none left  *)
(* behind, none lost but with the whole entry.                             *)
Relay == INSTANCE PacketRelay WITH inside <- Held
ImplementsRelay == Relay!RelaySpec
==============================================================================
