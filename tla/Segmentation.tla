---------------------------- MODULE Segmentation ----------------------------
(***************************************************************************)
(* How a request leaves once the profile applies: the second half of       *)
(* dpi_desync_tcp_packet_play (nfq/desync.c), the segments it has          *)
(* nfq/darkmagic.c build and nfq/macsend.c write to BPF, and the server    *)
(* that puts them together again.                                          *)
(*                                                                         *)
(* The engine takes the SYN (packet 0) and the packets of one request.  A  *)
(* packet becomes a list of parts: fakes the server has to ignore, and     *)
(* genuine segments that are cut, sent out of order or preceded by junk    *)
(* that overlaps what was sent before (seqovl).  Any write may fail, and   *)
(* then the packet leaves whole after what already left.  The network      *)
(* delivers what was sent in any order and as often as it likes.           *)
(*                                                                         *)
(* A byte of the client is its position in the request; sequence numbers   *)
(* and IP ids keep a width, W and IdMod.  The server has everything that   *)
(* precedes the request: a client repeats nothing and sends the next       *)
(* request when the answer to this one came.                               *)
(***************************************************************************)
EXTENDS Integers, Sequences, SequencesExt, FiniteSetsExt

CONSTANTS
  Profile,         \* profiles to try: records, see ProfileType
  Request,         \* requests to try: records, see RequestType
  W,               \* sequence numbers are modulo W
  IdMod,           \* IP ids are modulo IdMod
  BufMax,          \* DPI_DESYNC_MAX_FAKE_LEN + 100: the longest segment built
  TcpHeader,       \* length of the TCP header
  DefaultFragPos,  \* where ipfrag2 cuts when the position asked for does not fit
  MaxFail          \* bound: how many writes to BPF fail

Mode == {"none", "fake", "fakeknown", "rst", "hopbyhop", "hostfakesplit", "multisplit",
         "multidisorder", "fakedsplit", "fakeddisorder", "ipfrag2"}
HostMarker == {"host", "endhost", "midsld"}   \* sld and endsld are like midsld
Marker == {"abs", "method", "sniext"} \cup HostMarker
Pos == [marker : Marker, pos : Int]

(* The fields of struct desync_profile these decisions read. *)
ProfileType ==
  [mode0 : {"none", "synack", "syndata"}, mode : Mode, mode2 : Mode, splits : Seq(Pos),
   seqovl : Pos, fakes : Seq(Nat), fooling : SUBSET {"ttl", "badseq", "md5sig", "ts"},
   tcpseq : BOOLEAN, ipid : {"seq", "seqgroup", "same", "zero"}, midhost : Pos,
   order : 0..2, order0 : 0..2, hostorder : 0..1, fragpos : Nat, dups : Nat, replace : BOOLEAN]

(* A request: its protocol, the lengths of its packets, their IP ids (0 in IPv6)  *)
(* and what random() returns for each, where its markers are (-1: not found),     *)
(* whether its packets carry timestamps, the id the connection's entry remembers  *)
(* from an earlier replay, the sequence number of its first byte.                 *)
RequestType ==
  [l7 : {"http", "tls", "unknown"}, lens : Seq(Nat \ {0}), ids : Seq(0..IdMod - 1),
   random : Seq(0..IdMod - 1), at : [Marker -> Int], ip6 : BOOLEAN, timestamps : BOOLEAN,
   ctid : 0..IdMod - 1, seq : Nat]

(* Where each of the pieces begins when they follow one another; beyond the   *)
(* last, where they end.                                                      *)
Offsets(lens) ==
  LET at[k \in 1..Len(lens) + 1] == IF k = 1 THEN 0 ELSE at[k - 1] + lens[k - 1] IN at

ASSUME ConstAssumption ==
  /\ W \in Nat /\ IdMod \in Nat \ {0, 1} /\ BufMax \in Nat /\ MaxFail \in Nat
  /\ TcpHeader \in Nat /\ DefaultFragPos \in Nat
ASSUME ProfileAssumption == \A d \in Profile : d \in ProfileType
ASSUME RequestAssumption ==
  \A r \in Request : r \in RequestType /\ r.lens # <<>> /\ Len(r.ids) = Len(r.lens)
                   /\ Len(r.random) = Len(r.lens)
(* Numbers are wide enough to tell what precedes a request from what follows it. *)
ASSUME WidthAssumption ==
  \A r \in Request : Offsets(r.lens)[Len(r.lens) + 1] + BufMax < W \div 2

VARIABLES
  dp, req,   \* the profile and the request, chosen at the start
  i,         \* the packet at hand: 0 is the SYN
  ctid,      \* ctrack_replay->ip_id
  stage,     \* "new"; "fakes", "desync": its two stages; "orig": tcp_orig_send;
             \* "main": the caller sends it; "exit": the engine ended
  pos,       \* the cuts, the cut of a faked split, the host name and the overlap in it
  todo,      \* the parts not sent yet
  ip_id,     \* the handler's ip_id: that of the next part
  wire,      \* what was written to BPF, in order
  fails,     \* writes that failed
  lost,      \* packets whose last write failed
  open,      \* the server has seen the SYN
  frags,     \* fragments the server keeps
  held,      \* segments the server keeps, ahead of what it expects
  stream     \* the bytes the server's application got

engine == <<i, ctid, stage, pos, todo, ip_id, wire, fails, lost>>
server == <<open, frags, held, stream>>
vars == <<dp, req, engine, server>>

------------------------------------------------------------------------------
(* Positions of the markers in the request and in the packet. *)

Offset(k) == Offsets(req.lens)[k]
Total == Offset(Len(req.lens) + 1)
PLen == IF i = 0 THEN 0 ELSE req.lens[i]   \* the SYN carries no data
Replay == Len(req.lens) > 1
ReasmOffset == IF Replay THEN Offset(i) ELSE 0

CheckPos(sz, offset) == IF offset >= 0 /\ offset < sz THEN offset ELSE 0

AnyProtoPos(p) ==
  IF p.marker = "abs" THEN CheckPos(Total, IF p.pos < 0 THEN Total + p.pos ELSE p.pos) ELSE 0
MarkerPos(p) ==
  IF req.at[p.marker] = -1 THEN 0 ELSE CheckPos(Total, req.at[p.marker] + p.pos)
HttpPos(p) == IF p.marker \in {"method"} \cup HostMarker THEN MarkerPos(p) ELSE AnyProtoPos(p)
TLSPos(p) == IF p.marker \in {"sniext"} \cup HostMarker THEN MarkerPos(p) ELSE AnyProtoPos(p)

ResolvePos(p) ==
  CASE req.l7 = "http" -> HttpPos(p)
    [] req.l7 = "tls" -> TLSPos(p)
    [] OTHER -> AnyProtoPos(p)

(* Mutant of pos_normalize: a position behind the packet is not dropped. *)
pos_normalize_unbounded(at) == IF at > ReasmOffset THEN at - ReasmOffset ELSE 0

pos_normalize(at) ==
  IF at > ReasmOffset /\ at - ReasmOffset < PLen THEN at - ReasmOffset ELSE 0

(* ResolveMultiPos: the cuts in ascending order, each once; then those in the packet. *)
InOrder(S, n) ==
  CHOOSE s \in UNION {[1..m -> S] : m \in 0..n} :
    ToSet(s) = S /\ \A j, k \in DOMAIN s : j < k => s[j] < s[k]
MultisplitPos ==
  InOrder({pos_normalize(ResolvePos(dp.splits[k])) : k \in DOMAIN dp.splits} \ {0}, PLen)

(* fakedsplit and fakeddisorder cut once: at the first relative marker that *)
(* resolves, or the first absolute one, or after the first byte.            *)
FirstResolved(abs) ==
  LET found == {k \in DOMAIN dp.splits :
                  (dp.splits[k].marker = "abs") = abs /\ ResolvePos(dp.splits[k]) # 0}
  IN  IF found = {} THEN 0 ELSE ResolvePos(dp.splits[Min(found)])
SplitPos ==
  LET p == IF FirstResolved(FALSE) # 0 THEN FirstResolved(FALSE) ELSE FirstResolved(TRUE)
  IN  pos_normalize(IF p = 0 THEN 1 ELSE p)

(* Start and end of the host name, and a cut inside it, if the packet has them. *)
HostPos ==
  LET ends == <<pos_normalize(ResolvePos([marker |-> "host", pos |-> 0])),
                pos_normalize(ResolvePos([marker |-> "endhost", pos |-> 0]))>>
      mid == pos_normalize(ResolvePos(dp.midhost))
  IN  IF 0 \in ToSet(ends) \/ ends[1] >= ends[2] THEN <<>>
      ELSE IF mid > ends[1] /\ mid < ends[2] THEN Append(ends, mid) ELSE ends

Uses(modes) == dp.mode \in modes \/ dp.mode2 \in modes
SeqovlPos ==
  IF Uses({"fakedsplit", "multisplit"})
  THEN IF dp.seqovl.marker = "abs" /\ dp.seqovl.pos > 0 THEN dp.seqovl.pos ELSE 0
  ELSE IF Uses({"fakeddisorder", "multidisorder"}) THEN pos_normalize(ResolvePos(dp.seqovl))
  ELSE 0

------------------------------------------------------------------------------
(* IP ids. *)

IP4_IP_ID_ADD(id, inc) ==
  IF dp.ipid \in {"seq", "seqgroup"} /\ id # 0
  THEN LET sum == (id + inc) % IdMod
       IN  IF sum # 0 THEN sum ELSE IF inc < 0 THEN IdMod - 1 ELSE 1
  ELSE IF dp.ipid = "same" THEN id ELSE 0

(* ... applied n times *)
IdSteps(id, inc, n) ==
  LET step[k \in 0..n] == IF k = 0 THEN id ELSE IP4_IP_ID_ADD(step[k - 1], inc) IN step[n]

(* The parts of a packet that has no id begin with a random one. *)
OwnId(r, k) == IF r.ids[k] # 0 THEN r.ids[k] ELSE r.random[k]
IP4_IP_ID_FIX ==
  IF dp.ipid = "zero" \/ req.ip6 \/ i = 0 THEN 0
  ELSE IF dp.ipid = "same" THEN req.ids[i] ELSE OwnId(req, i)
FirstId == IF Replay /\ ctid # 0 THEN ctid ELSE IP4_IP_ID_FIX

------------------------------------------------------------------------------
(* The parts of the packet at hand.  from and to are positions in it, ovl    *)
(* the bytes of junk put before from; n and g number the IP ids in the modes *)
(* seq and seqgroup: a fake shares the id of its group.                      *)

Part(real, from, to, ovl, n, g) ==
  [real |-> real, from |-> from, to |-> to, ovl |-> ovl, n |-> n, g |-> g,
   frag |-> 0, id |-> 0]

Number(p) == IF dp.ipid = "seqgroup" THEN p.g ELSE p.n
PartId(p, id) == IdSteps(id, 1, Number(p))

(* The genuine packet, as it came. *)
Whole == [Part(TRUE, 0, PLen, 0, 0, 0) EXCEPT !.id = IF i = 0 THEN 0 ELSE req.ids[i]]

(* First stage: the fakes, each at the sequence number of the packet or, with *)
(* tcp-mod seq, behind the fake before it.                                    *)
FirstStage ==
  IF ReasmOffset # 0 THEN <<>>
  ELSE CASE dp.mode = "fake" \/ (dp.mode = "fakeknown" /\ req.l7 # "unknown") ->
              [k \in DOMAIN dp.fakes |->
                 LET at == IF dp.tcpseq THEN Offsets(dp.fakes)[k] ELSE 0
                 IN  Part(FALSE, at, at + dp.fakes[k], 0, k - 1, k - 1)]
         [] dp.mode = "rst" -> <<Part(FALSE, 0, 0, 0, 0, 0)>>
         [] OTHER -> <<>>

(* Mutant of Multisplit: the overlap is not confined to the first packet of *)
(* a reassembled request.                                                   *)
MultisplitOverlapsAll ==
  LET cut == <<0>> \o pos.cuts \o <<PLen>>
  IN  [k \in 1..Len(cut) - 1 |->
         Part(TRUE, cut[k], cut[k + 1], IF k = 1 THEN pos.ovl ELSE 0, k - 1, k - 1)]

Multisplit ==
  LET cut == <<0>> \o pos.cuts \o <<PLen>>
  IN  [k \in 1..Len(cut) - 1 |->
         Part(TRUE, cut[k], cut[k + 1],
              IF k = 1 /\ ReasmOffset = 0 THEN pos.ovl ELSE 0, k - 1, k - 1)]

(* The last part leaves first; junk goes before the second part, if it fits  *)
(* into the first.                                                           *)
Multidisorder ==
  LET cut == <<0>> \o pos.cuts \o <<PLen>>
  IN  Reverse([k \in 1..Len(cut) - 1 |->
         Part(TRUE, cut[k], cut[k + 1],
              IF k = 2 /\ pos.ovl < cut[k] THEN pos.ovl ELSE 0, k - 1, k - 1)])

(* A genuine segment with the fake of its bytes before and behind it. *)
Faked(from, to, ovl, g, before, behind) ==
  LET fake == Part(FALSE, from, to, 0, 0, g)
  IN  (IF before THEN <<fake>> ELSE <<>>) \o <<Part(TRUE, from, to, ovl, 0, g)>>
        \o (IF behind THEN <<fake>> ELSE <<>>)
Numbered(parts) == [k \in DOMAIN parts |-> [parts[k] EXCEPT !.n = k - 1]]

Fakedsplit ==
  LET ovl == IF ReasmOffset = 0 THEN pos.ovl ELSE 0
  IN  Numbered(IF pos.split = 0
               THEN Faked(0, PLen, 0, 0, dp.order0 = 0, dp.order0 <= 1)
               ELSE Faked(0, pos.split, ovl, 0, dp.order = 0, dp.order <= 1)
                      \o Faked(pos.split, PLen, 0, 1, TRUE, dp.order <= 2))

Fakeddisorder ==
  LET ovl == IF pos.ovl < pos.split THEN pos.ovl ELSE 0
  IN  Numbered(IF pos.split = 0
               THEN Faked(0, PLen, 0, 0, dp.order0 = 0, dp.order0 <= 1)
               ELSE Faked(pos.split, PLen, ovl, 0, dp.order = 0, dp.order <= 1)
                      \o Faked(0, pos.split, 0, 1, TRUE, dp.order <= 2))

(* Before the name; a fake name; the name, in one or two parts; what follows *)
(* it goes last, behind the fake again, or ahead of the name.                *)
Hostfakesplit ==
  LET h == pos.host[1]
      e == pos.host[2]
      cut == IF Len(pos.host) = 3 THEN <<h, pos.host[3], e>> ELSE <<h, e>>
      names == Len(cut) - 1
      before == Part(TRUE, 0, h, 0, 0, 0)
      fake(n) == Part(FALSE, h, e, 0, n, 1)
      name == [k \in 1..names |-> Part(TRUE, cut[k], cut[k + 1], 0, k + 1, k)]
      after(n) == Part(TRUE, e, PLen, 0, n, names + 1)
  IN  IF dp.hostorder = 1
      THEN <<before, fake(1), after(names + 2)>> \o name
      ELSE <<before, fake(1)>> \o name \o <<fake(names + 2), after(names + 3)>>

(* Two IP fragments of the packet as it came. *)
FragPos == IF dp.fragpos # 0 /\ dp.fragpos < TcpHeader + PLen THEN dp.fragpos
           ELSE DefaultFragPos
Ipfrag2 == [k \in 1..2 |-> [Whole EXCEPT !.frag = k]]

StageMode == IF dp.mode2 = "none" THEN dp.mode ELSE dp.mode2

(* hopbyhop puts an extension header before the whole packet when nothing    *)
(* else is left to do with it; IPv6 only.                                    *)
FinalHeader ==
  /\ dp.mode = "hopbyhop" /\ req.ip6
  /\ \/ dp.mode2 = "none"
     \/ dp.mode2 \in {"fakedsplit", "fakeddisorder"} /\ pos.split = 0
     \/ dp.mode2 = "hostfakesplit" /\ pos.host = <<>>
     \/ dp.mode2 \in {"multisplit", "multidisorder"} /\ pos.cuts = <<>>

(* Second stage: the parts of the genuine packet, or none if the mode does   *)
(* not apply to this packet.                                                 *)
SecondStage ==
  IF FinalHeader THEN <<Whole>>
  ELSE CASE StageMode = "hostfakesplit" /\ pos.host # <<>> -> Hostfakesplit
         [] StageMode = "multisplit" /\ pos.cuts # <<>> -> Multisplit
         [] StageMode = "multidisorder" /\ pos.cuts # <<>> -> Multidisorder
         [] StageMode = "fakedsplit" -> Fakedsplit
         [] StageMode = "fakeddisorder" -> Fakeddisorder
         [] StageMode = "ipfrag2" /\ ReasmOffset = 0 -> Ipfrag2
         [] OTHER -> <<>>

(* A packet of a replay that is not cut takes the id the next part would have. *)
Unsplit ==
  /\ SecondStage = <<>>
  /\ StageMode \in {"hostfakesplit", "multisplit", "multidisorder", "ipfrag2"}
  /\ Replay /\ ctid # 0 /\ ~ req.ip6

(* The second stage goes on behind the fakes, or from what the entry remembers *)
(* when it remembers an id; ipfrag2 always goes on.                            *)
StageId == IF StageMode # "ipfrag2" /\ Replay /\ ctid # 0 THEN ctid ELSE ip_id

Ascending(parts, id) == [k \in DOMAIN parts |-> [parts[k] EXCEPT !.id = PartId(parts[k], id)]]
LastDisorderId == IP4_IP_ID_ADD(StageId, Len(pos.cuts))
SecondWithIds ==
  CASE StageMode = "multidisorder" ->
         [k \in DOMAIN SecondStage |->
            [SecondStage[k] EXCEPT !.id = IdSteps(LastDisorderId, -1, k - 1)]]
    [] StageMode = "ipfrag2" ->
         [k \in DOMAIN SecondStage |-> [SecondStage[k] EXCEPT !.id = StageId]]
    [] OTHER -> Ascending(SecondStage, StageId)

LastNumber == Max({0} \cup {Number(SecondStage[k]) : k \in DOMAIN SecondStage})
(* Mutant of NextId: disorder goes on behind the part it sent last, the first.  *)
NextIdOfLast ==
  IF StageMode = "multidisorder" THEN IP4_IP_ID_ADD(StageId, 1)
  ELSE IdSteps(StageId, 1, LastNumber + 1)

(* The id behind those of the second stage. *)
NextId ==
  IF StageMode = "multidisorder" THEN IP4_IP_ID_ADD(LastDisorderId, 1)
  ELSE IdSteps(StageId, 1, LastNumber + 1)

(* A SYN: a fake SYNACK ahead of it, or data inside it. *)
SynParts ==
  CASE dp.mode0 = "synack" -> <<Part(FALSE, 0, 0, 0, 0, 0)>>
    [] dp.mode0 = "syndata" -> <<Part(TRUE, 0, 0, 0, 0, 0)>>
    [] OTHER -> <<>>

(* tcp_orig_send, within the interval of dup: copies, and the original unless *)
(* they replace it; or the original alone, because fakes went before it.      *)
OrigParts(bFake) ==
  IF dp.dups > 0
  THEN [k \in 1..dp.dups |-> Whole] \o (IF dp.replace THEN <<>> ELSE <<Whole>>)
  ELSE IF bFake THEN <<Whole>> ELSE <<>>

------------------------------------------------------------------------------
(* The engine. *)

(* What prepare_tcp_segment builds of a part and rawsend writes. *)
Segment(p) ==
  LET base == IF i = 0 THEN 0 ELSE Offset(i)   \* of the packet in the request
  IN  [syn |-> i = 0, real |-> p.real, from |-> base + p.from, end |-> base + PLen, len |-> p.to - p.from + p.ovl,
       ovl |-> p.ovl, frag |-> p.frag, part |-> stage = "desync" \/ p.id # Whole.id, id |-> p.id, packet |-> i,
       seq |-> (req.seq + base + p.from - p.ovl) % W]

NoPos == [cuts |-> <<>>, split |-> 0, host |-> <<>>, ovl |-> 0]

(* The positions are resolved, and the first stage is due; a SYN has no other. *)
Resolve ==
  /\ stage = "new" /\ i <= Len(req.lens)
  /\ IF i = 0
     THEN stage' = "desync" /\ pos' = NoPos /\ todo' = SynParts /\ ip_id' = 0
     ELSE /\ stage' = "fakes"
          /\ pos' = [cuts |-> MultisplitPos, split |-> SplitPos, host |-> HostPos, ovl |-> SeqovlPos]
          /\ todo' = Ascending(FirstStage, FirstId)
          /\ ip_id' = IdSteps(FirstId, 1, Len(FirstStage))
  /\ UNCHANGED <<dp, req, i, ctid, wire, fails, lost, server>>

(* The fakes left: the parts of the second stage are due. *)
FakesWritten ==
  /\ stage = "fakes" /\ todo = <<>>
  /\ stage' = "desync" /\ todo' = SecondWithIds
  /\ UNCHANGED <<dp, req, i, ctid, pos, ip_id, wire, fails, lost, server>>

NextPacket == i' = i + 1 /\ stage' = "new" /\ todo' = <<>>

TooLong(p) == p.ovl # 0 /\ p.to - p.from + p.ovl > BufMax
NoFragment(p) == p.frag # 0 /\ (FragPos % 8 # 0 \/ FragPos >= TcpHeader + PLen)

Write ==
  /\ todo # <<>> /\ ~ TooLong(Head(todo)) /\ ~ NoFragment(Head(todo))
  /\ wire' = Append(wire, Segment(Head(todo)))
  /\ todo' = Tail(todo)
  /\ UNCHANGED <<dp, req, i, ctid, stage, pos, ip_id, fails, lost, server>>

(* send_orig: the caller sends the packet if tcp_orig_send has nothing to send. *)
SendOrig(bFake) ==
  IF OrigParts(bFake) # <<>> THEN stage' = "orig" /\ todo' = OrigParts(bFake)
  ELSE stage' = "main" /\ todo' = <<Whole>>

(* The second stage left; the entry remembers the id it came to. *)
PartsWritten ==
  /\ stage = "desync" /\ todo = <<>>
  /\ IF i = 0
     THEN /\ IF dp.mode0 = "syndata" THEN NextPacket ELSE SendOrig(FALSE) /\ i' = i
          /\ ctid' = ctid
     ELSE IF SecondStage # <<>>
     THEN NextPacket /\ ctid' = (IF Replay /\ ~ FinalHeader THEN NextId ELSE ctid)
     ELSE IF Unsplit
     THEN /\ stage' = "main" /\ todo' = <<[Whole EXCEPT !.id = ctid]>> /\ i' = i
          /\ ctid' = IP4_IP_ID_ADD(ctid, 1)
     ELSE SendOrig(FirstStage # <<>>) /\ i' = i /\ ctid' = ctid
  /\ UNCHANGED <<dp, req, pos, ip_id, wire, fails, lost, server>>

(* The packet left, by tcp_orig_send or by the caller. *)
OriginalWritten ==
  /\ stage \in {"orig", "main"} /\ todo = <<>>
  /\ NextPacket
  /\ UNCHANGED <<dp, req, ctid, pos, ip_id, wire, fails, lost, server>>

(* A segment that cannot be built or a failing write: what is left of the     *)
(* packet's parts is given up and the packet leaves whole.                    *)
Abandon ==
  /\ stage \in {"fakes", "desync"}
  /\ SendOrig(stage = "desync" /\ i # 0 /\ FirstStage # <<>>)
  /\ i' = i /\ lost' = lost

(* tcp_orig_send failed, maybe after some copies: the caller sends the packet. *)
CallerSends ==
  /\ stage = "orig" /\ stage' = "main" /\ todo' = <<Whole>>
  /\ i' = i /\ lost' = lost

(* The last attempt failed: the packet of a replay is lost, anything else     *)
(* ends the engine (utun_main).                                               *)
GiveUp ==
  /\ stage = "main" /\ todo' = <<>>
  /\ IF i # 0 /\ Replay THEN i' = i + 1 /\ stage' = "new" /\ lost' = lost \cup {i}
     ELSE i' = i /\ stage' = "exit" /\ lost' = lost \cup i..Len(req.lens)

(* Mutant of WriteFails: a packet some of whose parts left is taken as sent. *)
WriteFailsDrops ==
  /\ todo # <<>>
  /\ IF TooLong(Head(todo)) \/ NoFragment(Head(todo)) THEN fails' = fails
     ELSE fails < MaxFail /\ fails' = fails + 1
  /\ (stage \in {"fakes", "desync"} /\ NextPacket /\ lost' = lost) \/ CallerSends \/ GiveUp
  /\ UNCHANGED <<dp, req, ctid, pos, ip_id, wire, server>>

WriteFails ==
  /\ todo # <<>>
  /\ IF TooLong(Head(todo)) \/ NoFragment(Head(todo)) THEN fails' = fails
     ELSE fails < MaxFail /\ fails' = fails + 1
  /\ Abandon \/ CallerSends \/ GiveUp
  /\ UNCHANGED <<dp, req, ctid, pos, ip_id, wire, server>>

Engine == Resolve \/ FakesWritten \/ Write \/ PartsWritten \/ OriginalWritten \/ WriteFails

------------------------------------------------------------------------------
(* The server: a TCP that keeps what arrives early, trusts what arrives at    *)
(* the place it expects, and, where kept segments overlap, takes the one that *)
(* begins first.                                                              *)

(* What does not come from the packet: an overlap, a fake, what lies behind it.*)
Junk == -1

(* fill_tcphdr forges a timestamp only where the packet has one; a low TTL,   *)
(* a bad sequence or a signature always make the server ignore the fake.      *)
FakesIgnored ==
  dp.fooling \cap {"ttl", "badseq", "md5sig"} # {} \/ ("ts" \in dp.fooling /\ req.timestamps)

Expected == Len(stream)
Signed(d) == IF d >= W \div 2 THEN d - W ELSE d

(* Where the server puts the segment. *)
Placed(s) ==
  [start |-> Expected + Signed((s.seq - (req.seq + Expected)) % W), len |-> s.len,
   ovl |-> s.ovl, from |-> s.from, end |-> s.end, real |-> s.real]
Covers(p, x) == p.start <= x /\ x < p.start + p.len
ByteAt(p, x) ==
  LET at == p.from + (x - p.start - p.ovl)
  IN  IF p.real /\ at \in p.from..p.end - 1 THEN at ELSE Junk

(* The stream once p, at the expected place, and the segments kept are read. *)
Extended(p) ==
  LET reach == {p} \cup held
      end == CHOOSE e \in {q.start + q.len : q \in reach} :
               /\ \A x \in Expected..e - 1 : \E q \in reach : Covers(q, x)
               /\ ~ \E q \in reach : Covers(q, e)
      source(x) == IF Covers(p, x) THEN p
                   ELSE CHOOSE q \in held : /\ Covers(q, x)
                                            /\ \A r \in held : Covers(r, x) => q.start <= r.start
  IN  stream \o [k \in 1..end - Expected |-> ByteAt(source(Expected + k - 1), Expected + k - 1)]

Accept(s) ==
  LET p == Placed(s)
  IN  IF Covers(p, Expected)
      THEN /\ stream' = Extended(p)
           /\ held' = {q \in held : q.start + q.len > Len(stream')}
      ELSE /\ stream' = stream
           /\ held' = IF p.start > Expected /\ p.len > 0 THEN held \cup {p} ELSE held

Deliver(k) ==
  /\ k \in DOMAIN wire
  /\ LET s == wire[k]
     IN  CASE s.syn -> open' = (open \/ s.real) /\ UNCHANGED <<frags, held, stream>>
           [] ~ s.syn /\ ~ s.real /\ FakesIgnored -> UNCHANGED server
           [] ~ s.syn /\ ~ s.real /\ ~ FakesIgnored /\ open ->
                Accept(s) /\ UNCHANGED <<open, frags>>
           [] ~ s.syn /\ s.real /\ s.frag = 0 /\ open ->
                Accept(s) /\ UNCHANGED <<open, frags>>
           [] ~ s.syn /\ s.frag # 0 /\ open ->
                IF <<s.packet, 3 - s.frag>> \in frags
                THEN Accept(s) /\ UNCHANGED <<open, frags>>
                ELSE frags' = frags \cup {<<s.packet, s.frag>>} /\ UNCHANGED <<open, held, stream>>
           [] OTHER -> UNCHANGED server
  /\ UNCHANGED <<dp, req, engine>>

------------------------------------------------------------------------------
Init ==
  /\ dp \in Profile /\ req \in Request
  /\ i = 0 /\ ctid = req.ctid /\ stage = "new" /\ pos = NoPos /\ todo = <<>> /\ ip_id = 0
  /\ wire = <<>>
  /\ fails = 0 /\ lost = {}
  /\ open = FALSE /\ frags = {} /\ held = {} /\ stream = <<>>

Next == Engine \/ \E k \in DOMAIN wire : Deliver(k)

Spec == Init /\ [][Next]_vars
------------------------------------------------------------------------------
(* The fields hold what they are meant to hold. *)
TypeOK ==
  /\ dp \in Profile /\ req \in Request
  /\ i \in 0..Len(req.lens) + 1 /\ {ctid, ip_id} \subseteq 0..IdMod - 1
  /\ stage \in {"new", "fakes", "desync", "orig", "main", "exit"}
  /\ stage \in {"fakes", "desync"} => \A k \in DOMAIN pos.cuts : pos.cuts[k] \in 1..PLen - 1
  /\ \A k \in DOMAIN todo : todo[k].from <= todo[k].to /\ todo[k].id \in 0..IdMod - 1
  /\ \A k \in DOMAIN wire : wire[k].seq \in 0..W - 1 /\ wire[k].len \in Nat
  /\ fails \in 0..MaxFail /\ lost \subseteq 0..Len(req.lens)
  /\ open \in BOOLEAN /\ (FakesIgnored => Len(stream) \in 0..Total)

(* Whatever the server reads of the stream is what the client wrote: no junk *)
(* of an overlap, no byte of a fake, nothing twice or out of place, although *)
(* segments are cut, sent in disorder and overlapped across the wrap of the  *)
(* sequence number, a failed write sends bytes again, and the network        *)
(* reorders and repeats.  This is why the overlap is confined to the first   *)
(* packet, or to the second part and within the first (desync.c), and holds  *)
(* as far as the fakes are ignored at all.                                   *)
StreamIsClients ==
  FakesIgnored => stream = [k \in DOMAIN stream |-> k - 1]

(* Two segments that carry different bytes of the request never share an IP   *)
(* id in the modes that count ids, across all packets of a replay and although *)
(* disorder counts down and a later part may leave first; a failed write ends  *)
(* the promise, since the packet then leaves under the id it came with.        *)
IdsDiffer ==
  (dp.ipid \in {"seq", "seqgroup"} /\ ~ req.ip6 /\ fails = 0) =>
    \A j, k \in DOMAIN wire :
      (/\ wire[j].real /\ wire[k].real /\ ~ wire[j].syn /\ ~ wire[k].syn
       /\ wire[j].frag = 0 /\ wire[k].frag = 0
       /\ wire[j].part /\ wire[k].part /\ wire[j].id = wire[k].id)
      => wire[j].from = wire[k].from

(* The request leaves the ids room: none begins at zero and would stay zero, the *)
(* parts of all its packets do not take all ids there are, and where disorder    *)
(* counts down they do not wrap, nor is a part too long once others have left.   *)
LastMode(d) == IF d.mode2 = "none" THEN d.mode ELSE d.mode2
PartsOf(d) == IF LastMode(d) \in {"multisplit", "multidisorder"} THEN Len(d.splits) + 1 ELSE 6
FakesOf(d) == IF d.mode = "rst" THEN 1 ELSE Len(d.fakes)
IdsFit(d, r) ==
  /\ \A k \in DOMAIN r.lens : OwnId(r, k) # 0
  /\ PartsOf(d) * Len(r.lens) < IdMod - 1
  /\ LastMode(d) = "multidisorder" =>
       /\ \A k \in DOMAIN r.lens : r.lens[k] <= BufMax
       /\ \A id \in {r.ctid} \cup {OwnId(r, k) : k \in DOMAIN r.lens} :
            id + FakesOf(d) + PartsOf(d) * Len(r.lens) < IdMod

(* The bytes a write of the genuine packet or of a part of it put on the wire; *)
(* a fragment counts with its other half.                                      *)
Sent(k) ==
  IF wire[k].real /\ ~ wire[k].syn
     /\ \/ wire[k].frag = 0
        \/ \E j \in DOMAIN wire : wire[j].packet = wire[k].packet /\ wire[j].frag = 3 - wire[k].frag
  THEN wire[k].from..wire[k].from + wire[k].len - wire[k].ovl - 1
  ELSE {}

(* A packet the engine is done with has left in full, however its writes       *)
(* failed: the parts of a cut leave no gap, what left before a failure does    *)
(* not count as the packet, and no reply of a helper is taken for success.     *)
(* Only when the last attempt to send it whole fails too, it is lost.          *)
NothingLost ==
  \A p \in 0..i - 1 : p \notin lost =>
    IF p = 0 THEN \E k \in DOMAIN wire : wire[k].syn /\ wire[k].real
    ELSE \A x \in Offset(p)..Offset(p + 1) - 1 : \E k \in DOMAIN wire : x \in Sent(k)
==============================================================================
