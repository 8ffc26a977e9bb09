------------------------------ MODULE QuicFlight ------------------------------
(***************************************************************************)
(* The first datagrams of one outgoing UDP conversation through the packet *)
(* engine: dpi_desync_udp_packet_play (nfq/desync.c) with the conntrack    *)
(* entry of the conversation (nfq/conntrack.c), its queue of delayed       *)
(* packets and the QUIC half of nfq/protocol.c.                            *)
(*                                                                         *)
(* A QUIC client cuts its ClientHello into CRYPTO ranges, shuffles them    *)
(* and may spread them over several Initial datagrams.  The engine         *)
(* decrypts each, keeps them back until the ranges make a whole hello and  *)
(* replays them through the desync.  Unlike TCP there is no sequence: a    *)
(* datagram that comes again only adds its clear text to the buffer again. *)
(*                                                                         *)
(* Which profile a search ends with is ProfileSelect's matter; here it is  *)
(* any.  A datagram is an identity that may come again once the engine has *)
(* let go of it; a copy that comes earlier is another of the same ranges.  *)
(***************************************************************************)
EXTENDS Integers, Sequences, FiniteSets, SequencesExt

CONSTANTS
  Datagram,             \* the datagrams the client may send
  Kind,                 \* Kind[d]: what the parsers take d for
  Text,                 \* Text[d]: what an Initial is found to hold
  Crypto,               \* Crypto[d]: its CRYPTO ranges in order
  CleanLen,             \* CleanLen[d]: length of its clear text, padding included
  HelloHead,            \* stream length from which a ClientHello is recognised
  SniEnds,              \* the lengths that may hold the server name, past the end if none
  HelloLen,             \* length of the ClientHello
  UDP_MAX_REASM,        \* size of the buffer, which every clear text fits
  MAX_DEFRAG_PIECES,    \* different ranges one hello may be cut into
  Profile,              \* the profiles a search may end with
  AnyProto, SkipNoSni,  \* those with desync_any_proto, with desync_skip_nosni
  HasLists, AutoList,   \* those with host lists, with an automatic one
  Fakes, FakesKnown,    \* those whose first stage is fake, is fakeknown
  Alters,               \* Alters[q]: the payloads the second stage rewrites
  Start, Cutoff,        \* desync_start and desync_cutoff, 0 when not set
  LimitMode,            \* desync_start_mode and desync_cutoff_mode
  RetransThreshold,     \* hostlist_auto_retrans_threshold
  CountCap,             \* bound of the packet counters, above all limits
  NoProfile

Kinds == {"empty", "unknown", "known", "dht", "initial"}
Ranges == [offset : Nat, len : Nat \ {0}]
End(r) == r.offset + r.len

ASSUME DatagramAssumption ==
  /\ Kind \in [Datagram -> Kinds]
  /\ Text \in [Datagram -> {"sealed", "foreign", "crypto"}]
  /\ Crypto \in [Datagram -> Seq(Ranges)]
  /\ \A d \in Datagram : \A i \in DOMAIN Crypto[d] : End(Crypto[d][i]) <= HelloLen
  /\ CleanLen \in [Datagram -> Nat]
  /\ \A d \in Datagram : CleanLen[d] <= UDP_MAX_REASM

ASSUME LimitAssumption ==
  /\ HelloHead \in Nat \ {0} /\ HelloLen \in Nat /\ HelloHead <= HelloLen
  /\ SniEnds \subseteq Nat
  /\ UDP_MAX_REASM \in Nat \ {0} /\ MAX_DEFRAG_PIECES \in Nat
  /\ RetransThreshold \in Nat \ {0}
  /\ CountCap \in Nat \ {0}

ASSUME ProfileAssumption ==
  /\ NoProfile \notin Profile
  /\ {AnyProto, SkipNoSni, HasLists, AutoList, Fakes, FakesKnown} \subseteq SUBSET Profile
  /\ AutoList \subseteq HasLists
  /\ Alters \in [Profile -> SUBSET Kinds]
  /\ Start \in [Profile -> Nat] /\ Cutoff \in [Profile -> Nat]
  /\ LimitMode \in {"n", "d"}
  /\ \A q \in Profile : Start[q] <= CountCap /\ Cutoff[q] <= CountCap

VARIABLES
  sniEnd,    \* the stream length that holds the server name of this hello
  track,     \* the conntrack entry but for what follows
  reasm,     \* reasm_orig: its size, what is present, and the ranges in that
  delayed,   \* the queue of packets kept back
  sent,      \* datagrams the last step handed to the sender, in order
  forms,     \* what became of each of them
  lost       \* datagrams the last step freed without sending them

vars == <<sniEnd, track, reasm, delayed, sent, forms, lost>>

Elements(s) == {s[i] : i \in DOMAIN s}
Held == Elements(delayed)

(* A zeroed entry; it also stands for none, as an entry counts the packet  *)
(* it was made for.                                                        *)
ConntrackInitTrack ==
  [dp |-> NoProfile, pcounter_orig |-> 0, pdcounter_orig |-> 0,
   b_desync_cutoff |-> FALSE, l7proto |-> "unknown", l7proto_discovered |-> FALSE,
   hostname_discovered |-> FALSE, hostname_ah_check |-> FALSE, req_retrans_counter |-> 0]

NoReasm == [size |-> 0, present |-> 0, ranges |-> <<>>]

(* fake: fakes went ahead of it; altered: it left in another form; any: it *)
(* was let through to the desync by desync_any_proto, whatever it is.      *)
AsItIs == [fake |-> FALSE, altered |-> FALSE, any |-> FALSE]
Touched(f) == f.fake \/ f.altered
Untouched(q) == [i \in DOMAIN q |-> AsItIs]

------------------------------------------------------------------------------
(* Conntrack, limits and the search for a profile. *)

Bump(n) == IF n < CountCap THEN n + 1 ELSE n

Reached(c, limit) ==
  limit # 0 /\ limit <= IF LimitMode = "n" THEN c.pcounter_orig ELSE c.pdcounter_orig

maybe_cutoff(c) ==
  [c EXCEPT !.b_desync_cutoff = @ \/ Reached(c, Cutoff[c.dp])]

(* check_desync_interval *)
InInterval(c) ==
  /\ Start[c.dp] # 0 => Reached(c, Start[c.dp])
  /\ Cutoff[c.dp] # 0 => ~ c.b_desync_cutoff

(* The entry once it has counted d: ConntrackFeedPacket, a search if there *)
(* was none yet, maybe_cutoff and the protocol d is recognised as.         *)
Fed(d) ==
  {maybe_cutoff([track EXCEPT
     !.pcounter_orig = Bump(@),
     !.pdcounter_orig = IF Kind[d] = "empty" THEN @ ELSE Bump(@),
     !.dp = q]) : q \in IF track.dp = NoProfile THEN Profile ELSE {track.dp}}

Recognised(c, d) ==
  IF c.l7proto = "unknown" /\ Kind[d] # "empty" THEN [c EXCEPT !.l7proto = Kind[d]] ELSE c

------------------------------------------------------------------------------
(* The CRYPTO stream (QUICDefragCrypto and what is read in its result). *)

(* The units of the stream a set of ranges holds. *)
Units(R) == UNION {r.offset .. End(r) - 1 : r \in R}

(* Ranges come out as one that begins at 0 (bFull).  They are sorted by    *)
(* offset and each is merged with those before it if it begins no later    *)
(* than they end.                                                          *)
Full(R) ==
  /\ \E r \in R : r.offset = 0
  /\ \A r \in R : r.offset = 0 \/ \E q \in R : q.offset < r.offset /\ r.offset <= End(q)

(* szmax of a full stream reaches n. *)
Reaches(R, n) == \E r \in R : End(r) >= n

IsQUICCryptoHello(R) == Reaches(R, HelloHead)
IsTLSHandshakeFull(R) == Reaches(R, HelloLen)
HaveHost(R) == Reaches(R, sniEnd)

(* QUICDefragCrypto on s: false for a frame other than CRYPTO, no CRYPTO   *)
(* frame at all, or one that comes when the table of ranges is full.       *)
Defrags(d, s) ==
  /\ Text[d] = "crypto"
  /\ s # <<>>
  /\ Cardinality(Elements(Front(s))) < MAX_DEFRAG_PIECES

------------------------------------------------------------------------------
(* The buffer. *)

IsOpen == reasm.size # 0

ReasmHasSpace(d) == IsOpen => reasm.present + CleanLen[d] <= reasm.size

(* reasm_orig_feed, or reasm_orig_start if there is none: what the buffer  *)
(* would hold with the clear text of d                                     *)
With(d) ==
  [size |-> UDP_MAX_REASM,
   present |-> reasm.present + CleanLen[d],
   ranges |-> reasm.ranges \o Crypto[d]]

InBuffer(d) == Elements(With(d).ranges)

(* It was decrypted, fits and was defragmented. *)
IsDefragged(d) ==
  /\ Kind[d] = "initial"
  /\ Text[d] # "sealed"
  /\ ReasmHasSpace(d)
  /\ Defrags(d, With(d).ranges)

(* With an entry, parts are kept: always if ranges lack, and otherwise if  *)
(* the hello is not at its end or others are kept already.                 *)
Keeps(d) ==
  LET R == InBuffer(d)
  IN  \/ ~ Full(R)
      \/ IsOpen
      \/ IsQUICCryptoHello(R) /\ ~ IsTLSHandshakeFull(R)

IsWhole(d) ==
  LET R == InBuffer(d)
  IN  Full(R) /\ IsQUICCryptoHello(R) /\ IsTLSHandshakeFull(R)

------------------------------------------------------------------------------
(* What is decided about a payload once it is known (from bHaveHost on).   *)
(* Each operator gives the possible entries after it; `go' says whether    *)
(* the desync goes on.                                                     *)

Rediscovers(c, host) ==
  \/ ~ c.l7proto_discovered /\ c.l7proto # "unknown"
  \/ ~ c.hostname_discovered /\ host

(* A protocol or a host seen for the first time calls for a new search. *)
Searched(c, host) ==
  IF ~ Rediscovers(c, host) THEN {c}
  ELSE {[c EXCEPT !.l7proto_discovered = @ \/ c.l7proto # "unknown",
                  !.hostname_discovered = @ \/ host,
                  !.dp = q] : q \in Profile}

(* ctrack_stop_retrans_counter; the threshold stands for STOP, as the      *)
(* counter stops there.                                                    *)
Stopped(c) ==
  IF c.hostname_ah_check THEN [c EXCEPT !.req_retrans_counter = RetransThreshold] ELSE c

(* process_retrans_fail up to the counter; the failed host is counted and  *)
(* listed in ProfileSelect.                                                *)
Counted(c) ==
  IF c.hostname_ah_check /\ c.req_retrans_counter < RetransThreshold
  THEN [c EXCEPT !.req_retrans_counter = @ + 1] ELSE c

(* A host outside the lists is left alone, and counted if its hello has    *)
(* been seen before and this is the first datagram of it.                  *)
HostlistChecked(c, host, again) ==
  IF ~ host \/ c.dp \notin HasLists THEN {[track |-> c, go |-> TRUE]}
  ELSE {[track |-> Stopped(c), go |-> TRUE]}
       \cup {[track |-> IF again THEN Counted(s) ELSE s, go |-> FALSE] :
               s \in {[c EXCEPT !.hostname_ah_check = a] :
                        a \in IF c.dp \in AutoList THEN BOOLEAN ELSE {FALSE}}}

(* In a replay the limits are not looked at again. *)
Judged(c, host, replay) ==
  UNION {LET s == IF ~ replay /\ f.dp # c.dp THEN maybe_cutoff(f) ELSE f
         IN  IF ~ replay /\ f.dp # c.dp /\ ~ InInterval(s)
             THEN {[track |-> s, go |-> FALSE]}
             ELSE HostlistChecked(s, host, c.hostname_discovered)
         : f \in Searched(c, host)}

(* A mutant: fakes go ahead of every datagram of a replay. *)
FormsFakingAll(q, kind, offset0) ==
  LET fakes == q \in Fakes \/ (q \in FakesKnown /\ kind # "unknown")
  IN  {AsItIs} \cup
      [fake : {fakes}, altered : IF kind \in Alters[q] THEN BOOLEAN ELSE {FALSE},
       any : {FALSE}]

(* The ways a payload of this kind can leave by profile q.  Fakes go ahead *)
(* of the first datagram of a request only.  A fake that cannot be built   *)
(* or sent ends the desync, a rewritten datagram that cannot leaves the    *)
(* original.                                                               *)
Forms(q, kind, offset0) ==
  LET fakes == offset0 /\ (q \in Fakes \/ (q \in FakesKnown /\ kind # "unknown"))
  IN  {AsItIs} \cup
      [fake : {fakes}, altered : IF kind \in Alters[q] THEN BOOLEAN ELSE {FALSE},
       any : {FALSE}]

------------------------------------------------------------------------------
(* The packet handler.  Each action is one path through it.                *)

Comes(d) == d \notin Held /\ lost' = {} /\ UNCHANGED sniEnd

(* A mutant: the buffer is cleared, what it was made from is not sent. *)
ReleaseForgets(d, form) ==
  /\ reasm' = NoReasm
  /\ delayed' = <<>>
  /\ sent' = <<d>>
  /\ forms' = <<form>>

(* reasm_orig_cancel, which sends the queue as it is, then the datagram.   *)
Release(d, form) ==
  /\ reasm' = NoReasm
  /\ delayed' = <<>>
  /\ sent' = Append(delayed, d)
  /\ forms' = [Untouched(sent') EXCEPT ![Len(sent')] = form]

(* The desync decides on d alone; what was kept has been sent.             *)
Desync(d, c, host, any) ==
  \E o \in Judged(c, host, FALSE) :
    /\ track' = o.track
    /\ IF o.go
       THEN \E f \in Forms(o.track.dp, Kind[d], TRUE) :
              Release(d, [f EXCEPT !.any = any /\ Touched(f)])
       ELSE Release(d, AsItIs)

(* quic_reasm_cancel, and the end of the branch for other payloads: nothing *)
(* is known that the desync could go by.                                    *)
Unless(d, c) ==
  IF c.dp \in AnyProto THEN Desync(d, c, FALSE, TRUE) ELSE track' = c /\ Release(d, AsItIs)

OutOfInterval(d) ==
  /\ Comes(d)
  /\ \E c \in Fed(d) : ~ InInterval(c) /\ track' = c
  /\ Release(d, AsItIs)

(* Without a payload nothing is looked at, the queue neither. *)
PassEmpty(d) ==
  /\ Comes(d)
  /\ Kind[d] = "empty"
  /\ \E c \in Fed(d) : InInterval(c) /\ track' = c
  /\ sent' = <<d>>
  /\ forms' = <<AsItIs>>
  /\ UNCHANGED <<reasm, delayed>>

(* The entries with which the payload of d is looked at. *)
Looks(d) == {Recognised(c, d) : c \in {f \in Fed(d) : InInterval(f)}}

(* Anything but an Initial ends the request and its retransmissions. *)
NotInitial(d) ==
  /\ Comes(d)
  /\ Kind[d] \in {"unknown", "known", "dht"}
  /\ \E c \in Looks(d) :
       IF Kind[d] = "unknown" THEN Unless(d, Stopped(c)) ELSE Desync(d, Stopped(c), FALSE, FALSE)

Initial(d) == Comes(d) /\ Kind[d] = "initial"

NoRoom(d) ==
  /\ Initial(d)
  /\ Text[d] # "sealed"
  /\ ~ ReasmHasSpace(d)
  /\ track' \in Looks(d)
  /\ Release(d, AsItIs)

(* It does not decrypt, or the ranges cannot be made out. *)
Unreadable(d) ==
  /\ Initial(d)
  /\ Text[d] # "sealed" => ReasmHasSpace(d) /\ ~ IsDefragged(d)
  /\ \E c \in Looks(d) : Unless(d, c)

HoldPart(d) ==
  /\ Initial(d)
  /\ IsDefragged(d) /\ Keeps(d) /\ ~ IsWhole(d)
  /\ track' \in Looks(d)
  /\ reasm' = With(d)
  /\ delayed' = Append(delayed, d)
  /\ sent' = <<>>
  /\ forms' = <<>>

(* A mutant: the datagram goes on its way and the session stays open. *)
NoMemoryKeepsOpen(d) ==
  /\ Initial(d)
  /\ IsDefragged(d) /\ Keeps(d)
  /\ track' \in Looks(d)
  /\ reasm' = With(d)
  /\ UNCHANGED delayed
  /\ sent' = <<d>>
  /\ forms' = <<AsItIs>>

(* The buffer or the copy for the queue cannot be allocated. *)
NoMemory(d) ==
  /\ Initial(d)
  /\ IsDefragged(d) /\ Keeps(d)
  /\ track' \in Looks(d)
  /\ Release(d, AsItIs)

(* replay_queue on the whole hello, then reasm_orig_fin.  The first of the  *)
(* queue takes every decision; the others, judged by the same buffer, find  *)
(* the profile and the verdict on the host cached.                          *)
Replayed(q, c) ==
  IF ~ HaveHost(InBuffer(Last(q))) /\ c.dp \in SkipNoSni
  THEN track' = c /\ forms' = Untouched(q)
  ELSE \E o \in Judged(c, HaveHost(InBuffer(Last(q))), TRUE) :
         /\ track' = o.track
         /\ IF o.go
            THEN forms' \in [DOMAIN q -> Forms(o.track.dp, "initial", TRUE)
                                         \cup Forms(o.track.dp, "initial", FALSE)]
                 /\ \A i \in DOMAIN q : forms'[i] \in Forms(o.track.dp, "initial", i = 1)
            ELSE forms' = Untouched(q)

ReplayHello(d) ==
  /\ Initial(d)
  /\ IsDefragged(d) /\ Keeps(d) /\ IsWhole(d)
  /\ reasm' = NoReasm
  /\ delayed' = <<>>
  /\ sent' = Append(delayed, d)
  /\ \E c \in Looks(d) : Replayed(Append(delayed, d), c)

(* A whole ClientHello in one datagram. *)
PassHello(d) ==
  /\ Initial(d)
  /\ IsDefragged(d) /\ ~ Keeps(d) /\ IsWhole(d)
  /\ \E c \in Looks(d) :
       IF ~ HaveHost(InBuffer(d)) /\ c.dp \in SkipNoSni
       THEN track' = c /\ Release(d, AsItIs)
       ELSE Desync(d, c, HaveHost(InBuffer(d)), FALSE)

(* From the start of the stream, and too little or not a ClientHello. *)
PassNoHello(d) ==
  /\ Initial(d)
  /\ IsDefragged(d) /\ ~ Keeps(d) /\ ~ IsWhole(d)
  /\ \E c \in Looks(d) : Unless(d, c)

(* No entry could be made.  Nothing can be kept back: a part of a hello    *)
(* from its start is gone by alone, and profiles with limits do nothing.   *)
Speaks(d, q) ==
  \/ Kind[d] \in {"known", "dht"}
  \/ Kind[d] = "unknown" /\ q \in AnyProto
  \/ /\ IsDefragged(d) /\ Full(InBuffer(d)) /\ IsQUICCryptoHello(InBuffer(d))
     /\ HaveHost(InBuffer(d)) \/ q \notin SkipNoSni

Untracked(d) ==
  /\ Comes(d)
  /\ track = ConntrackInitTrack
  /\ sent' = <<d>>
  /\ \/ forms' = <<AsItIs>>
     \/ \E first \in Profile : \E q \in IF Kind[d] = "unknown" THEN {first} ELSE Profile :
          /\ {Start[first], Cutoff[first], Start[q], Cutoff[q]} = {0}
          /\ Speaks(d, first)
          /\ \E f \in Forms(q, Kind[d], TRUE) :
               forms' = <<[f EXCEPT !.any = Touched(f) /\ Kind[d] = "unknown"]>>
  /\ UNCHANGED <<track, reasm, delayed>>

(* The entry goes: purged when it is idle, at the next packet of any       *)
(* conversation, or with the process.                                      *)
Forget ==
  /\ track # ConntrackInitTrack
  /\ track' = ConntrackInitTrack
  /\ reasm' = NoReasm
  /\ delayed' = <<>>
  /\ sent' = <<>>
  /\ forms' = <<>>
  /\ lost' = Held
  /\ UNCHANGED sniEnd

------------------------------------------------------------------------------
Init ==
  /\ sniEnd \in SniEnds
  /\ track = ConntrackInitTrack
  /\ reasm = NoReasm
  /\ delayed = <<>>
  /\ sent = <<>>
  /\ forms = <<>>
  /\ lost = {}

Handle(d) ==
  \/ OutOfInterval(d)
  \/ PassEmpty(d)
  \/ NotInitial(d)
  \/ NoRoom(d)
  \/ Unreadable(d)
  \/ HoldPart(d)
  \/ NoMemory(d)
  \/ ReplayHello(d)
  \/ PassHello(d)
  \/ PassNoHello(d)
  \/ Untracked(d)

Next == (\E d \in Datagram : Handle(d)) \/ Forget

Spec == Init /\ [][Next]_vars

------------------------------------------------------------------------------
(* Properties. *)

(* What is kept back is one hello that still lacks something, and the      *)
(* buffer is made of it and of nothing else, copies included: the handler  *)
(* looks at the buffer to decide and sends the queue, and has no timer, so *)
(* a datagram in the queue of no session, a session whose datagrams have   *)
(* left, or a hello kept when it is complete would wait for nothing.       *)
HeldIsPartOfHello ==
  /\ IsOpen <=> delayed # <<>>
  /\ IsOpen => reasm.present <= reasm.size
  /\ Elements(reasm.ranges) = UNION {Elements(Crypto[d]) : d \in Held}
  /\ ~ (0 .. HelloLen - 1 \subseteq Units(Elements(reasm.ranges)))

(* The first n units of the stream are in what the step sends. *)
HelloSent(n) == 0 .. n - 1 \subseteq Units(UNION {Elements(Crypto[d]) : d \in Elements(sent')})

(* No part of a hello is touched before all of it is there.  Without an    *)
(* entry its start has to do.                                              *)
WaitsForHello ==
  \A i \in DOMAIN sent' :
    Kind[sent'[i]] = "initial" /\ Touched(forms'[i]) /\ ~ forms'[i].any =>
      IF track' = ConntrackInitTrack THEN HelloSent(HelloHead) ELSE HelloSent(HelloLen)

FakesAheadOfFirst ==
  \A i \in DOMAIN sent' : forms'[i].fake => \A j \in 1 .. i - 1 : ~ Touched(forms'[j])

CountsOnce ==
  track.req_retrans_counter < track'.req_retrans_counter
  /\ track'.req_retrans_counter < RetransThreshold =>
    /\ track'.req_retrans_counter = track.req_retrans_counter + 1
    /\ track.hostname_discovered
    /\ HelloSent(HelloLen)

(* A hello is one request however many datagrams it takes: unless the      *)
(* profile desyncs anything, no part of it is touched before all of it is  *)
(* there, fakes go ahead of its first datagram and of no other, and it     *)
(* counts as retransmitted once, if a host has been seen before.           *)
HelloIsOneRequest == [][WaitsForHello /\ FakesAheadOfFirst /\ CountsOnce]_vars

(* The handler does what PacketRelay promises: no datagram twice, none     *)
(* left behind, none lost but with the whole entry.                        *)
Relay == INSTANCE PacketRelay WITH Packet <- Datagram, inside <- Held
ImplementsRelay == Relay!RelaySpec
==============================================================================
