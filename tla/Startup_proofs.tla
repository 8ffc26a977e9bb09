------------------------- MODULE Startup_proofs -------------------------
(***************************************************************************)
(* Proofs about Startup, for any command lines, configuration files, lists *)
(* and users: its types, that an engine that serves is ready to, and that  *)
(* the profiles are the sections of the line, with their port filters and  *)
(* their fakes of TLS.  One inductive invariant in parts; the first        *)
(* section is about what the options of CommandLine leave alone.           *)
(***************************************************************************)
EXTENDS Startup, FiniteSetTheorems, TLAPS

-----------------------------------------------------------------------------
(* What an option changes of a profile *)

\* The number of a profile and its lists are not for an option of the profile.
Core == {"n", "hl", "hl_exclude", "ips", "ips_exclude", "auto"}
\* Nor are the port filters, and the fakes of TLS, for most of them.
PortFields == {"pf_tcp", "pf_udp"}
TlsFields == {"fake_tls", "tls_mod_last"}
Shared == Core \cup {"splits"} \cup PortFields \cup TlsFields

Keeps(p, q, fields) == DOMAIN q = DOMAIN p /\ \A f \in fields : q[f] = p[f]
Assigns(p, q, fields) == \E f \in fields : \E v : q = [p EXCEPT ![f] = v]

(* A field that is assigned is the only one that changes. *)
LEMMA AssignsOne ==
  ASSUME NEW p, NEW q, NEW fields, Assigns(p, q, fields), fields \cap Shared = {},
         Shared \subseteq DOMAIN p
  PROVE  Keeps(p, q, Shared)
BY DEF Assigns, Keeps

(* The options of windows set fields of their own. *)
LEMMA WindowKeeps ==
  ASSUME NEW x, NEW p, Shared \subseteq DOMAIN p, NEW q \in WindowOptions(x, p)
  PROVE  Keeps(p, q, Shared)
<1> DEFINE F == {"wsize", "wssize", "wssize_cutoff", "wssize_no_forced_cutoff", "synack_split"}
<1>1. Assigns(p, q, F)
  BY Zenon DEF WindowOptions, Assigns
<1>2. F \cap Shared = {}
  BY DEF Shared, Core, PortFields, TlsFields
<1> QED BY <1>1, <1>2, AssignsOne

(* So do the options of HTTP, and the mode. *)
LEMMA HttpKeeps ==
  ASSUME NEW x, NEW p, Shared \subseteq DOMAIN p, NEW q \in HttpOptions(x, p)
  PROVE  Keeps(p, q, Shared)
<1> DEFINE F == {"hostcase", "hostnospace", "domcase", "methodeol", "ip_id_mode"}
<1>1. \/ Assigns(p, q, F)
      \/ q = [p EXCEPT !.hostcase = TRUE, !.hostspell = x.arg[1].w]
      \/ q \in Modes(x.arg, p)
  <2>1. CASE x.opt = "hostspell"
    <3>1. q \in {[p EXCEPT !.hostcase = TRUE, !.hostspell = x.arg[1].w] : y \in {4} \cap Unsigned(x.arg)}
      BY <2>1, Zenon DEF HttpOptions
    <3> QED BY <3>1, Zenon
  <2>2. CASE x.opt = "hostnospace"
    <3>1. q \in IF p.methodeol THEN {} ELSE {[p EXCEPT !.hostnospace = TRUE]}
      BY <2>2, Zenon DEF HttpOptions
    <3> QED BY <3>1, Zenon DEF Assigns
  <2>3. CASE x.opt = "methodeol"
    <3>1. q \in IF p.hostnospace THEN {} ELSE {[p EXCEPT !.methodeol = TRUE]}
      BY <2>3, Zenon DEF HttpOptions
    <3> QED BY <3>1, Zenon DEF Assigns
  <2>4. CASE x.opt \notin {"hostspell", "hostnospace", "methodeol"}
    BY <2>4, Zenon DEF HttpOptions, Assigns
  <2> QED BY <2>1, <2>2, <2>3, <2>4
<1>2. F \cap Shared = {}
  BY DEF Shared, Core, PortFields, TlsFields
<1>3. CASE q = [p EXCEPT !.hostcase = TRUE, !.hostspell = x.arg[1].w]
  BY <1>3 DEF Keeps, Shared, Core, PortFields, TlsFields
<1>4. CASE q \in Modes(x.arg, p)
  <2> DEFINE words == [i \in DOMAIN x.arg |-> ModeOf(x.arg[i].w)]
             known == (ZeroStage \cup FirstStage \cup SecondStage) \ {"none"}
             zero == words[1] \in ZeroStage
             rest == (IF zero THEN Tail(words) ELSE words) \o <<"none", "none">>
             mode0 == IF zero THEN words[1] ELSE "none"
             legal == /\ \A i \in DOMAIN words : words[i] \in known
                      /\ Len(x.arg) <= IF zero THEN 3 ELSE 2
                      /\ rest[2] = "none" \/ (rest[1] \in FirstStage /\ rest[2] \in SecondStage)
             first == rest[1]
             second == rest[2]
  <2>0. q \in IF legal THEN {[p EXCEPT !.mode0 = mode0, !.mode = first, !.mode2 = second]} ELSE {}
    BY <1>4 DEF Modes
  <2> HIDE DEF legal, mode0, first, second
  <2>1. \E u, v, w : q = [p EXCEPT !.mode0 = u, !.mode = v, !.mode2 = w]
    BY <2>0, Zenon
  <2> QED BY <2>1, SMTT(40) DEF Keeps, Shared, Core, PortFields, TlsFields
<1> QED BY <1>1, <1>2, <1>3, <1>4, AssignsOne

(* So do the options of duplicates. *)
LEMMA DupKeeps ==
  ASSUME NEW x, NEW p, Shared \subseteq DOMAIN p, NEW q \in DupOptions(x, p)
  PROVE  Keeps(p, q, Shared)
<1> DEFINE F == {"dup_repeats", "dup_ttl", "dup_ttl6", "dup_autottl", "dup_autottl6", "dup_flags_set",
                 "dup_flags_unset", "dup_replace", "dup_fooling", "dup_ts", "dup_badseq", "dup_badack",
                 "dup_cutoff", "dup_start", "dup_ip_id"}
<1>1. Assigns(p, q, F)
  BY Zenon DEF DupOptions, Assigns
<1>2. F \cap Shared = {}
  BY DEF Shared, Core, PortFields, TlsFields
<1> QED BY <1>1, <1>2, AssignsOne

(* So do the options of the original packets. *)
LEMMA OrigKeeps ==
  ASSUME NEW x, NEW p, Shared \subseteq DOMAIN p, NEW q \in OrigOptions(x, p)
  PROVE  Keeps(p, q, Shared)
<1> DEFINE F == {"orig_ttl", "orig_ttl6", "orig_autottl", "orig_autottl6", "orig_flags_set",
                 "orig_flags_unset", "orig_cutoff", "orig_start"}
<1>1. Assigns(p, q, F)
  BY Zenon DEF OrigOptions, Assigns
<1>2. F \cap Shared = {}
  BY DEF Shared, Core, PortFields, TlsFields
<1> QED BY <1>1, <1>2, AssignsOne

(* So do the options of the packets that are made up. *)
LEMMA DesyncKeeps ==
  ASSUME NEW x, NEW p, Shared \subseteq DOMAIN p, NEW q \in DesyncOptions(x, p)
  PROVE  Keeps(p, q, Shared)
<1> DEFINE F == {"ttl", "ttl6", "autottl", "autottl6", "flags_set", "flags_unset", "fooling", "repeats",
                 "skip_nosni"}
<1>1. Assigns(p, q, F)
  BY Zenon DEF DesyncOptions, Assigns
<1>2. F \cap Shared = {}
  BY DEF Shared, Core, PortFields, TlsFields
<1> QED BY <1>1, <1>2, AssignsOne

(* So do the mods of the split modes. *)
LEMMA SplitModsKeeps ==
  ASSUME NEW x, NEW p, Shared \subseteq DOMAIN p, NEW q \in SplitMods(x, p)
  PROVE  Keeps(p, q, Shared)
<1> DEFINE F == {"fs_order", "midhost", "tcp_seq"}
<1>1. CASE x.opt = "dpi-desync-hostfakesplit-mod"
  <2>1. q \in HostfakesplitMod(x, p)
    BY <1>1, Zenon DEF SplitMods
  <2>2. \E u, v : q = [p EXCEPT !.hfs_order = u, !.hfs_host = v]
    BY <2>1, Zenon DEF HostfakesplitMod
  <2> QED BY <2>2 DEF Keeps, Shared, Core, PortFields, TlsFields
<1>2. CASE x.opt = "dpi-desync-fake-tcp-mod"
  <2>1. q \in IF Words(x.arg) \subseteq {"none", "seq"}
              THEN {[p EXCEPT !.tcp_seq = @ \/ "seq" \in Words(x.arg)]} ELSE {}
    BY <1>2, Zenon DEF SplitMods
  <2>2. Assigns(p, q, F)
    BY <2>1, Zenon DEF Assigns
  <2> QED BY <2>2, AssignsOne DEF Shared, Core, PortFields, TlsFields
<1>3. CASE x.opt \notin {"dpi-desync-hostfakesplit-mod", "dpi-desync-fake-tcp-mod"}
  <2>1. Assigns(p, q, F)
    BY <1>3, Zenon DEF SplitMods, Assigns
  <2> QED BY <2>1, AssignsOne DEF Shared, Core, PortFields, TlsFields
<1> QED BY <1>1, <1>2, <1>3

(* So do the positions of fragments and the increments. *)
LEMMA FragmentKeeps ==
  ASSUME NEW x, NEW p, Shared \subseteq DOMAIN p, NEW q \in FragmentOptions(x, p)
  PROVE  Keeps(p, q, Shared)
<1> DEFINE F == {"ipfrag_pos_tcp", "ipfrag_pos_udp", "ts", "badseq", "badack", "any_proto"}
<1>1. Assigns(p, q, F)
  BY Zenon DEF FragmentOptions, Assigns
<1>2. F \cap Shared = {}
  BY DEF Shared, Core, PortFields, TlsFields
<1> QED BY <1>1, <1>2, AssignsOne

\* The options of the fakes of TLS, and of the port filters
TlsOptions == {"dpi-desync-fake-tls", "dpi-desync-fake-tls-mod"}
PortOptions == {"filter-tcp", "filter-udp"}

(* So do the payloads of fakes, but for those of TLS and their mods. *)
LEMMA FakeKeeps ==
  ASSUME NEW x, NEW p, Shared \subseteq DOMAIN p, NEW q \in FakeOptions(x, p)
  PROVE  Keeps(p, q, Shared \ TlsFields) /\ (x.opt \notin TlsOptions => Keeps(p, q, Shared))
<1> DEFINE F == {"fake_http", "fake_unknown", "syndata", "fake_quic", "fake_wg", "fake_dht",
                 "fake_discord", "fake_stun", "fake_unknown_udp"}
<1>1. CASE x.opt = "dpi-desync-fake-tls-mod"
  <2>1. q \in FakeTlsMod(x, p)
    BY <1>1, Zenon DEF FakeOptions
  <2>2. \E u, v : q = [p EXCEPT !.tls_mod_last = u, !.fake_tls = v]
    BY <2>1, Zenon DEF FakeTlsMod
  <2> QED BY <1>1, <2>2 DEF Keeps, Shared, Core, PortFields, TlsFields, TlsOptions
<1>2. CASE x.opt = "dpi-desync-fake-tls"
  <2>1. q \in FakeTls(x, p)
    BY <1>2, Zenon DEF FakeOptions
  <2>2. \E u : q = [p EXCEPT !.fake_tls = u]
    BY <2>1, Zenon DEF FakeTls
  <2> QED BY <1>2, <2>2 DEF Keeps, Shared, Core, PortFields, TlsFields, TlsOptions
<1>3. CASE x.opt \notin {"dpi-desync-fake-tls-mod", "dpi-desync-fake-tls"}
  <2>1. Assigns(p, q, F)
    BY <1>3, Zenon DEF FakeOptions, Assigns
  <2>2. Keeps(p, q, Shared)
    BY <2>1, AssignsOne DEF Shared, Core, PortFields, TlsFields
  <2> QED BY <2>2 DEF Keeps
<1> QED BY <1>1, <1>2, <1>3

(* So do the limits. *)
LEMMA LimitKeeps ==
  ASSUME NEW x, NEW p, Shared \subseteq DOMAIN p, NEW q \in LimitOptions(x, p)
  PROVE  Keeps(p, q, Shared)
<1> DEFINE F == {"udplen_increment", "udplen_pattern", "cutoff", "start"}
<1>1. Assigns(p, q, F)
  BY Zenon DEF LimitOptions, Assigns
<1>2. F \cap Shared = {}
  BY DEF Shared, Core, PortFields, TlsFields
<1> QED BY <1>1, <1>2, AssignsOne

(* So do the thresholds of the automatic list. *)
LEMMA AutoKeeps ==
  ASSUME NEW x, NEW p, Shared \subseteq DOMAIN p, NEW q \in AutoOptions(x, p)
  PROVE  Keeps(p, q, Shared)
<1> DEFINE F == {"auto_fail_threshold", "auto_fail_time", "auto_retrans_threshold"}
<1>1. Assigns(p, q, F)
  BY Zenon DEF AutoOptions, Assigns
<1>2. F \cap Shared = {}
  BY DEF Shared, Core, PortFields, TlsFields
<1> QED BY <1>1, <1>2, AssignsOne

(* So do the filters, but for those of ports. *)
LEMMA FilterKeeps ==
  ASSUME NEW x, NEW p, Shared \subseteq DOMAIN p, NEW q \in FilterOptions(x, p)
  PROVE  Keeps(p, q, Shared \ PortFields) /\ (x.opt \notin PortOptions => Keeps(p, q, Shared))
<1> DEFINE F == {"filter_l3", "filter_l7"}
<1>1. CASE x.opt = "filter-tcp"
  <2>1. \E u, v : q = [p EXCEPT !.pf_tcp = u, !.pf_udp = v]
    BY <1>1, Zenon DEF FilterOptions
  <2> QED BY <1>1, <2>1 DEF Keeps, Shared, Core, PortFields, TlsFields, PortOptions
<1>2. CASE x.opt = "filter-udp"
  <2>1. \E u, v : q = [p EXCEPT !.pf_udp = u, !.pf_tcp = v]
    BY <1>2, Zenon DEF FilterOptions
  <2> QED BY <1>2, <2>1 DEF Keeps, Shared, Core, PortFields, TlsFields, PortOptions
<1>3. CASE x.opt \notin {"filter-tcp", "filter-udp"}
  <2>1. Assigns(p, q, F)
    BY <1>3, Zenon DEF FilterOptions, Assigns
  <2>2. Keeps(p, q, Shared)
    BY <2>1, AssignsOne DEF Shared, Core, PortFields, TlsFields
  <2> QED BY <2>2 DEF Keeps
<1> QED BY <1>1, <1>2, <1>3

-----------------------------------------------------------------------------
(* Positions of a split *)

Markers == {"abs", "host", "endhost", "sld", "midsld", "endsld", "method", "sniext"}
Position == [marker : Markers, pos : Int]
Item == [w : STRING, n : Seq(Int)]
Splits == {s \in Seq(Position) : Len(s) <= MaxSplits}

(* A position is a marker and a distance. *)
LEMMA PositionTyped ==
  ASSUME NEW m \in Markers, NEW d \in Int
  PROVE  At(m, d) \in Position /\ Abs(d) \in Position
BY DEF At, Abs, Position, Markers

(* What is read as a position is one. *)
LEMMA PositionRead ==
  ASSUME NEW i \in Item
  PROVE  parse_split_pos(i) \subseteq Position
<1> SUFFICES ASSUME NEW y \in parse_split_pos(i)
             PROVE  y \in Position
  OBVIOUS
<1>1. \A j \in DOMAIN i.n : i.n[j] \in Int
  BY DEF Item
<1>2. CASE i.w = ""
  <2>1. y \in {Abs(d) : d \in {d \in {i.n[j] : j \in DOMAIN i.n} : d \in int16 \ {0}}}
    BY <1>2 DEF parse_split_pos
  <2>2. PICK j \in DOMAIN i.n : y = Abs(i.n[j])
    BY <2>1, Zenon
  <2>3. "abs" \in Markers /\ i.n[j] \in Int
    BY <1>1 DEF Markers
  <2> QED BY <2>2, <2>3, PositionTyped
<1>3. CASE i.w # "" /\ i.w \notin Markers \ {"abs"}
  <2>1. parse_split_pos(i) = {}
    BY <1>3 DEF parse_split_pos, Markers
  <2> QED BY <2>1
<1>4. CASE i.w # "" /\ i.w \in Markers \ {"abs"}
  <2>1. y = At(i.w, 0) \/ \E d \in int16 : y = At(i.w, d)
    BY <1>4 DEF parse_split_pos
  <2>2. \A d \in int16 : d \in Int
    BY DEF int16
  <2>3. i.w \in Markers
    BY <1>4
  <2> QED BY <2>1, <2>2, <2>3, PositionTyped
<1> QED BY <1>2, <1>3, <1>4

(* A list of positions is taken as a whole, and only when there is room. *)
LEMMA PositionListRead ==
  ASSUME NEW arg \in Seq(Item), NEW s \in Splits, NEW t \in parse_split_pos_list(arg, s)
  PROVE  t \in Splits
<1> DEFINE more == [i \in DOMAIN arg |-> CHOOSE p \in parse_split_pos(arg[i]) : TRUE]
<1>1. /\ \A i \in Items(arg) : parse_split_pos(i) # {}
      /\ Len(s) + Len(arg) <= MaxSplits /\ t = s \o more
  BY DEF parse_split_pos_list
<1>2. ASSUME NEW i \in DOMAIN arg
      PROVE  more[i] \in Position
  <2>1. arg[i] \in Item /\ arg[i] \in Items(arg)
    BY <1>2 DEF Items
  <2>2. parse_split_pos(arg[i]) # {}
    BY <1>1, <2>1
  <2>3. (CHOOSE p \in parse_split_pos(arg[i]) : TRUE) \in parse_split_pos(arg[i])
    BY <2>2
  <2> QED BY <2>1, <2>3, PositionRead
<1>3. more \in [1 .. Len(arg) -> Position]
  BY <1>2
<1>4. more \in Seq(Position) /\ Len(more) = Len(arg)
  BY <1>3
<1> HIDE DEF more
<1>5. s \in Seq(Position) /\ Len(s) \in Nat
  BY DEF Splits
<1>6. s \o more \in Seq(Position) /\ Len(s \o more) = Len(s) + Len(more)
  BY <1>4, <1>5
<1> QED BY <1>1, <1>4, <1>6 DEF Splits

(* One more is taken when there is room. *)
LEMMA OneMoreRead ==
  ASSUME NEW s \in Splits, NEW positions \in SUBSET Position, NEW t \in OneMore(s, positions)
  PROVE  t \in Splits
BY MaxSplitsAssumption DEF OneMore, Splits

(* The markers of HTTP and TLS are positions. *)
LEMMA MarkersRead ==
  ASSUME NEW arg
  PROVE  parse_httpreqpos(arg) \subseteq Position /\ parse_tlspos(arg) \subseteq Position
<1>1. parse_httpreqpos(arg) \subseteq {At("method", 2), At("host", 1)}
  BY DEF parse_httpreqpos
<1>2. parse_tlspos(arg) \subseteq {At("host", 1), At("sniext", 1), At("midsld", 0)}
  BY DEF parse_tlspos
<1>3. {At("host", 1), At("sniext", 1), At("midsld", 0), At("method", 2)} \subseteq Position
  BY DEF At, Position, Markers
<1> QED BY <1>1, <1>2, <1>3

(* The options of splits keep the positions within their room. *)
LEMMA SplitKeeps ==
  ASSUME NEW x, x.arg \in Seq(Item), NEW p, Shared \subseteq DOMAIN p, p.splits \in Splits,
         NEW q \in SplitOptions(x, p)
  PROVE  Keeps(p, q, Shared \ {"splits"}) /\ q.splits \in Splits
<1> DEFINE F == {"seqovl", "seqovl_pattern", "fsplit_pattern"}
<1>1. \/ Assigns(p, q, F)
      \/ \E v \in parse_split_pos_list(x.arg, p.splits) : q = [p EXCEPT !.splits = v]
      \/ \E v \in OneMore(p.splits, parse_httpreqpos(x.arg)) : q = [p EXCEPT !.splits = v]
      \/ \E v \in OneMore(p.splits, parse_tlspos(x.arg)) : q = [p EXCEPT !.splits = v]
  <2>1. CASE x.opt = "dpi-desync-split-pos"
    <3>1. q \in {[p EXCEPT !.splits = v] : v \in parse_split_pos_list(x.arg, p.splits)}
      BY <2>1, Zenon DEF SplitOptions
    <3> QED BY <3>1, Zenon
  <2>2. CASE x.opt = "dpi-desync-split-http-req"
    <3>1. q \in {[p EXCEPT !.splits = v] : v \in OneMore(p.splits, parse_httpreqpos(x.arg))}
      BY <2>2, Zenon DEF SplitOptions
    <3> QED BY <3>1, Zenon
  <2>3. CASE x.opt = "dpi-desync-split-tls"
    <3>1. q \in {[p EXCEPT !.splits = v] : v \in OneMore(p.splits, parse_tlspos(x.arg))}
      BY <2>3, Zenon DEF SplitOptions
    <3> QED BY <3>1, Zenon
  <2>4. CASE x.opt \notin {"dpi-desync-split-pos", "dpi-desync-split-http-req", "dpi-desync-split-tls"}
    <3>1. Assigns(p, q, F)
      BY <2>4, Zenon DEF SplitOptions, Assigns
    <3> QED BY <3>1, Zenon
  <2> QED BY <2>1, <2>2, <2>3, <2>4, Zenon
<1>2. ASSUME NEW v \in Splits, q = [p EXCEPT !.splits = v]
      PROVE  Keeps(p, q, Shared \ {"splits"}) /\ q.splits \in Splits
  BY <1>2 DEF Keeps, Shared, Core, PortFields, TlsFields
<1>3. CASE Assigns(p, q, F)
  <2>1. Keeps(p, q, Shared)
    BY <1>3, AssignsOne DEF Shared, Core, PortFields, TlsFields
  <2> QED BY <2>1 DEF Keeps, Shared
<1>4. CASE \E v \in parse_split_pos_list(x.arg, p.splits) : q = [p EXCEPT !.splits = v]
  BY <1>2, <1>4, PositionListRead
<1>5. CASE \E v \in OneMore(p.splits, parse_httpreqpos(x.arg)) : q = [p EXCEPT !.splits = v]
  BY <1>2, <1>5, OneMoreRead, MarkersRead
<1>6. CASE \E v \in OneMore(p.splits, parse_tlspos(x.arg)) : q = [p EXCEPT !.splits = v]
  BY <1>2, <1>6, OneMoreRead, MarkersRead
<1> QED BY <1>1, <1>3, <1>4, <1>5, <1>6

(* No option of a profile touches its number or its lists, or overruns its positions; *)
(* the port filters, and the fakes of TLS, have their own.                             *)
LEMMA AssignedKeeps ==
  ASSUME NEW x, x.arg \in Seq(Item), NEW p, Shared \subseteq DOMAIN p, p.splits \in Splits,
         NEW q \in Assigned(x, p)
  PROVE  /\ Keeps(p, q, Core) /\ q.splits \in Splits
         /\ x.opt \notin PortOptions => Keeps(p, q, PortFields)
         /\ x.opt \notin TlsOptions => Keeps(p, q, TlsFields)
<1>1. \/ Keeps(p, q, Shared)
      \/ Keeps(p, q, Shared \ {"splits"}) /\ q.splits \in Splits
      \/ Keeps(p, q, Shared \ TlsFields) /\ (x.opt \notin TlsOptions => Keeps(p, q, Shared))
      \/ Keeps(p, q, Shared \ PortFields) /\ (x.opt \notin PortOptions => Keeps(p, q, Shared))
  <2>1. CASE q \in SplitOptions(x, p)
    BY <2>1, SplitKeeps
  <2>2. CASE q \in FakeOptions(x, p)
    BY <2>2, FakeKeeps
  <2>3. CASE q \in FilterOptions(x, p)
    BY <2>3, FilterKeeps
  <2>4. CASE q \notin SplitOptions(x, p) \cup FakeOptions(x, p) \cup FilterOptions(x, p)
    BY <2>4, WindowKeeps, HttpKeeps, DupKeeps, OrigKeeps, DesyncKeeps, SplitModsKeeps, FragmentKeeps,
       LimitKeeps, AutoKeeps DEF Assigned
  <2> QED BY <2>1, <2>2, <2>3, <2>4
<1> QED BY <1>1 DEF Keeps, Shared, Core, PortFields, TlsFields

(* What a profile begins with. *)
LEMMA InitFields ==
  /\ Shared \subseteq DOMAIN dp_init
  /\ dp_init.n = 0 /\ dp_init.hl = {} /\ dp_init.hl_exclude = {} /\ dp_init.ips = {}
  /\ dp_init.ips_exclude = {} /\ dp_init.auto = 0 /\ dp_init.splits = <<>>
BY DEF dp_init, Shared, Core, PortFields, TlsFields

\* The fakes of TLS that a profile sends
Sent(p) ==
  Or(p.fake_tls, <<[blob |-> DefaultHello, mod |-> p.tls_mod_last.mod, sni |-> p.tls_mod_last.sni]>>)

(* Nor does what is done to every profile in the end; a fake is put where there is none. *)
LEMMA FinishedKeeps ==
  ASSUME NEW p, Shared \subseteq DOMAIN p, p.splits \in Splits
  PROVE  /\ Keeps(p, Finished(p), Core) /\ Finished(p).splits \in Splits
         /\ Keeps(p, Finished(p), PortFields)
         /\ Finished(p).fake_tls = [i \in DOMAIN Sent(p) |-> Randomised(p, Sent(p)[i])]
<1>1. Keeps(p, TtlDefaults(p), Shared)
  BY DEF TtlDefaults, Keeps, Shared, Core, PortFields, TlsFields
<1> DEFINE t == TtlDefaults(p)
           m == [t EXCEPT !.fsplit_pattern = IF @.size = 0 THEN [file |-> "zeros", size |-> 64] ELSE @,
                          !.splits = IF @ = <<>> THEN <<Abs(2)>> ELSE @]
           d == dp_fake_defaults(m)
<1>2. Keeps(t, m, Shared \ {"splits"}) /\ m.splits \in Splits
  <2>1. t.splits = p.splits /\ Shared \subseteq DOMAIN t
    BY <1>1 DEF Keeps, Shared
  <2>2. <<Abs(2)>> \in Splits
    <3>1. Abs(2) \in Position
      BY DEF Abs, Position, Markers
    <3> QED BY <3>1, MaxSplitsAssumption DEF Splits
  <2> HIDE DEF t
  <2> DEFINE f == IF t.fsplit_pattern.size = 0 THEN [file |-> "zeros", size |-> 64] ELSE t.fsplit_pattern
             s == IF t.splits = <<>> THEN <<Abs(2)>> ELSE t.splits
  <2>3. m = [t EXCEPT !.fsplit_pattern = f, !.splits = s]
    OBVIOUS
  <2>4. s \in Splits
    BY <2>1, <2>2
  <2> HIDE DEF f, s, m
  <2> QED BY <2>1, <2>3, <2>4 DEF Keeps, Shared, Core, PortFields, TlsFields
<1>3. Shared \subseteq DOMAIN m
  BY <1>1, <1>2 DEF Keeps
<1> HIDE DEF m
<1>4. Keeps(m, d, Shared \ {"fake_tls"}) /\ d.fake_tls = Sent(m)
  <2> DEFINE h == Or(m.fake_http, <<[file |-> "iana", size |-> 203, offset |-> 0]>>)
             l == Or(m.fake_tls, <<[blob |-> DefaultHello, mod |-> m.tls_mod_last.mod,
                                    sni |-> m.tls_mod_last.sni]>>)
             u == Or(m.fake_unknown, Zeros(256))
             i == Or(m.fake_quic, Zeros(620))
             g == Or(m.fake_wg, Zeros(64))
             b == Or(m.fake_dht, Zeros(64))
             e == Or(m.fake_discord, Zeros(64))
             r == Or(m.fake_stun, Zeros(64))
             w == Or(m.fake_unknown_udp, Zeros(64))
  <2>1. d = [m EXCEPT !.fake_http = h, !.fake_tls = l, !.fake_unknown = u, !.fake_quic = i, !.fake_wg = g,
                        !.fake_dht = b, !.fake_discord = e, !.fake_stun = r, !.fake_unknown_udp = w]
    BY Zenon DEF dp_fake_defaults
  <2>2. l = Sent(m)
    BY DEF Sent
  <2> HIDE DEF d, h, l, u, i, g, b, e, r, w
  <2> QED BY <2>2, <1>3, <2>1 DEF Keeps, Shared, Core, PortFields, TlsFields
<1>5. Shared \subseteq DOMAIN d
  BY <1>3, <1>4 DEF Keeps
<1> HIDE DEF d
<1>6. /\ Keeps(d, CompatMods(d), Shared \ {"fake_tls"})
      /\ CompatMods(d).fake_tls = [i \in DOMAIN d.fake_tls |-> Randomised(d, d.fake_tls[i])]
  <2> DEFINE f == [i \in DOMAIN d.fake_tls |-> Randomised(d, d.fake_tls[i])]
  <2>1. CompatMods(d) = [d EXCEPT !.fake_tls = f]
    BY Zenon DEF CompatMods
  <2> HIDE DEF f
  <2>2. Keeps(d, CompatMods(d), Shared \ {"fake_tls"}) /\ CompatMods(d).fake_tls = f
    BY <1>5, <2>1 DEF Keeps, Shared, Core, PortFields, TlsFields
  <2> QED BY <2>2 DEF f
<1>7. Finished(p) = CompatMods(d)
  BY DEF Finished, d, m, t
<1>8. /\ Keeps(p, Finished(p), Core) /\ Keeps(p, Finished(p), PortFields)
      /\ Finished(p).splits \in Splits
  BY <1>1, <1>2, <1>4, <1>6, <1>7 DEF Keeps, Shared, Core, PortFields, TlsFields
<1>9. d.n = p.n /\ m.fake_tls = p.fake_tls /\ m.tls_mod_last = p.tls_mod_last
  <2>0. Keeps(p, t, Shared)
    BY <1>1
  <2> HIDE DEF t
  <2>1. t.n = p.n /\ t.fake_tls = p.fake_tls /\ t.tls_mod_last = p.tls_mod_last
    BY <2>0 DEF Keeps, Shared, Core, TlsFields
  <2>2. m.n = t.n /\ m.fake_tls = t.fake_tls /\ m.tls_mod_last = t.tls_mod_last
    BY <1>2 DEF Keeps, Shared, Core, TlsFields
  <2>3. d.n = m.n
    BY <1>4 DEF Keeps, Shared, Core
  <2> QED BY <2>1, <2>2, <2>3
<1>10. Sent(m) = Sent(p) /\ \A fake : Randomised(d, fake) = Randomised(p, fake)
  BY <1>9 DEF Sent, Randomised
<1> QED BY <1>4, <1>6, <1>7, <1>8, <1>10

-----------------------------------------------------------------------------
(* The inductive invariant *)

Entry == [name : DOMAIN disk \cup {None}, has : SUBSET STRING]
Kinds == {"host", "ip"}
KindOf(c) == IF c \in {"hl", "hl_exclude"} THEN "host" ELSE "ip"

\* The line is one of the lines or the words of a file; it is read from the first option on.
LineOK ==
  /\ line \in Lines \cup {Config[f] : f \in DOMAIN Config} \cup {<<>>}
  /\ CanBe(line)
  /\ k \in 1 .. Len(line) + 1
  /\ phase = "start" => k = 1

\* What is known of a list is that it is in a file of the disk, or in none.
FilesOK == files \in [Kinds -> Seq(Entry)]

DiskOK ==
  /\ disk \in [DOMAIN disk -> SUBSET {"root", "user"}]
  /\ \E d \in Disks : DOMAIN disk = DOMAIN d
  /\ loaded \subseteq DOMAIN disk

\* The collections of a profile name lists that are registered, in their kind.
Fits(p, fs, n) ==
  /\ DOMAIN p = DOMAIN dp_init
  /\ p.splits \in Splits
  /\ p.hl \subseteq DOMAIN fs["host"] /\ p.hl_exclude \subseteq DOMAIN fs["host"]
  /\ p.ips \subseteq DOMAIN fs["ip"] /\ p.ips_exclude \subseteq DOMAIN fs["ip"]
  /\ p.auto \in {0} \cup p.hl
  /\ p.n \in 0 .. n

IsSeq(s) == s \in Seq(ToSet(s))
ProfilesOK == IsSeq(profiles) /\ profiles # <<>> /\ \A p \in ToSet(profiles) : Fits(p, files, Len(profiles))

\* The list without a name of a collection is registered in the kind of the collection.
AnonOK == anon \in [Collections -> Nat] /\ \A c \in Collections : anon[c] <= Len(files[KindOf(c)])

ParamsOK == DOMAIN params = DOMAIN DefaultParams(TRUE) /\ params.daemon \in BOOLEAN

ProcessOK ==
  /\ skip \in BOOLEAN /\ dry \in BOOLEAN
  /\ me \in {"root", "user"} /\ fds \subseteq {"utun", "bpf"}
  /\ pidfile \in 0 .. 2 /\ pid \in {1, 2} /\ code \in 0 .. 2

ReadingPhase == {"start", "options", "finalise", "test"}
ClosedPhase == ReadingPhase \cup {"hostlists", "ipsets", "dry", "pidfile", "utun"}
OpenPhase == {"drop", "daemonize", "writepid", "serving"}
HostsRead == {"ipsets", "dry", "pidfile", "utun", "bpf"} \cup OpenPhase
AllRead == {"dry", "pidfile", "utun", "bpf"} \cup OpenPhase
Dropped == {"daemonize", "writepid", "serving"}

\* The lists of a kind that are there are read.
IsRead(kind) == \A f \in ListFiles(kind) : disk[f] # {} => f \in loaded

\* How far main has come: what is open, who the process is, what it has read and written.
ReadyOK ==
  /\ phase \in ClosedPhase \cup {"bpf", "exit"} \cup OpenPhase
  /\ phase \in ClosedPhase => fds = {}
  /\ phase = "bpf" => fds = {"utun"}
  /\ phase \in OpenPhase => fds = {"utun", "bpf"}
  /\ phase \notin {"writepid", "serving", "exit"} => pid = 1
  /\ phase \in {"writepid", "serving"} => (pid = 2) = params.daemon
  /\ phase \in HostsRead => IsRead("host")
  /\ phase \in AllRead => IsRead("ip")
  /\ phase \in Dropped => me = Who(params.uid) /\ test_list_files(me)
  /\ phase = "serving" /\ params.pidfile # None => pidfile = pid

IInv == LineOK /\ FilesOK /\ DiskOK /\ ProfilesOK /\ AnonOK /\ ParamsOK /\ ProcessOK /\ ReadyOK

-----------------------------------------------------------------------------
(* Sequences *)

(* A sequence is one of its own elements. *)
LEMMA OwnElements ==
  ASSUME NEW S, NEW s \in Seq(S)
  PROVE  IsSeq(s) /\ ToSet(s) \subseteq S
<1>1. \A i \in 1 .. Len(s) : s[i] \in ToSet(s) /\ s[i] \in S
  BY DEF ToSet
<1>2. s \in [1 .. Len(s) -> ToSet(s)]
  BY <1>1
<1>3. ToSet(s) \subseteq S
  BY <1>1 DEF ToSet
<1> QED BY <1>2, <1>3 DEF IsSeq

(* What Append adds *)
LEMMA Appended ==
  ASSUME NEW s, IsSeq(s), NEW e
  PROVE  /\ IsSeq(Append(s, e)) /\ Append(s, e) # <<>>
         /\ Len(Append(s, e)) = Len(s) + 1
         /\ ToSet(Append(s, e)) \subseteq ToSet(s) \cup {e}
<1> DEFINE S == ToSet(s) \cup {e}
           t == Append(s, e)
<1>1. s \in Seq(S)
  <2>1. \A i \in 1 .. Len(s) : s[i] \in S
    BY DEF IsSeq
  <2> QED BY <2>1 DEF IsSeq
<1>2. e \in S
  OBVIOUS
<1> HIDE DEF S
<1>3. t \in Seq(S) /\ Len(t) = Len(s) + 1
  BY <1>1, <1>2
<1>4. t # <<>> /\ Len(s) \in Nat
  BY <1>1, <1>3
<1> HIDE DEF t
<1>5. IsSeq(t) /\ ToSet(t) \subseteq S
  BY <1>3, OwnElements
<1> QED BY <1>3, <1>4, <1>5 DEF S, t

(* What a new last element replaces *)
LEMMA LastReplaced ==
  ASSUME NEW s, IsSeq(s), s # <<>>, NEW e
  PROVE  /\ IsSeq([s EXCEPT ![Len(s)] = e]) /\ [s EXCEPT ![Len(s)] = e] # <<>>
         /\ Len([s EXCEPT ![Len(s)] = e]) = Len(s)
         /\ ToSet([s EXCEPT ![Len(s)] = e]) \subseteq ToSet(s) \cup {e}
<1> DEFINE S == ToSet(s) \cup {e}
           t == [s EXCEPT ![Len(s)] = e]
<1>1. s \in Seq(S)
  <2>1. \A i \in 1 .. Len(s) : s[i] \in S
    BY DEF IsSeq
  <2> QED BY <2>1 DEF IsSeq
<1>2. e \in S
  OBVIOUS
<1> HIDE DEF S
<1>3. t \in Seq(S) /\ Len(t) = Len(s)
  BY <1>1, <1>2
<1>4. t # <<>>
  BY <1>1, <1>3
<1> HIDE DEF t
<1>5. IsSeq(t) /\ ToSet(t) \subseteq S
  BY <1>3, OwnElements
<1> QED BY <1>3, <1>4, <1>5 DEF S, t

(* The last element of a sequence is one of its elements. *)
LEMMA LastElement ==
  ASSUME NEW s, IsSeq(s), s # <<>>
  PROVE  Last(s) \in ToSet(s) /\ Len(s) \in Nat \ {0}
<1>1. Len(s) \in Nat /\ Len(s) # 0 /\ DOMAIN s = 1 .. Len(s)
  BY DEF IsSeq
<1> QED BY <1>1 DEF Last, ToSet

(* All but the last are elements too. *)
LEMMA FrontElements ==
  ASSUME NEW s, IsSeq(s), s # <<>>
  PROVE  IsSeq(Front(s)) /\ Len(Front(s)) = Len(s) - 1 /\ ToSet(Front(s)) \subseteq ToSet(s)
<1>1. s \in Seq(ToSet(s)) /\ Len(s) \in Nat \ {0}
  BY LastElement DEF IsSeq
<1>2. SubSeq(s, 1, Len(s) - 1) \in Seq(ToSet(s)) /\ Len(SubSeq(s, 1, Len(s) - 1)) = Len(s) - 1
  BY <1>1
<1>3. Front(s) = SubSeq(s, 1, Len(s) - 1)
  BY DEF Front
<1> QED BY <1>2, <1>3, OwnElements

-----------------------------------------------------------------------------
(* Frames *)

(* Reading the line leaves the process alone, and ends in its first phases. *)
LEMMA LineFrame ==
  ASSUME CommandLineStep
  PROVE  /\ phase \in {"start", "options", "finalise"}
         /\ phase' \in {"options", "finalise", "test", "exit"}
         /\ UNCHANGED <<me, loaded, fds, pidfile, pid>>
         /\ code' \in {code, 0, 1}
<1>1. CASE ReadConfig
  BY <1>1, Zenon DEF ReadConfig, Exit, Goto, processVars
<1>2. CASE Unknown
  BY <1>2, Zenon DEF Unknown, Exit, processVars
<1>3. CASE Version
  BY <1>3, Zenon DEF Version, Exit, processVars, Reading
<1>4. CASE DryRun \/ Skip \/ New
  BY <1>4, Zenon DEF DryRun, Skip, New, Next1, processVars, Reading
<1>5. CASE Assign \/ SetGlobal
  BY <1>5, Zenon DEF Assign, SetGlobal, Next1, processVars, Reading
<1>6. CASE AssignRefused \/ GlobalRefused \/ RegisterRefused
  BY <1>6, Zenon DEF AssignRefused, GlobalRefused, RegisterRefused, Exit, processVars, Reading
<1>7. CASE ListSkipped \/ RegisterItems
  BY <1>7, Zenon DEF ListSkipped, RegisterItems, Next1, processVars, Reading
<1>8. CASE RegisterFile
  BY <1>8, Zenon DEF RegisterFile, Next1, Reading
<1>9. CASE EndOfOptions
  BY <1>9, Zenon DEF EndOfOptions, Goto, processVars
<1>10. CASE Finalise
  BY <1>10, Zenon DEF Finalise, Goto
<1>11. CASE FinaliseRefused
  BY <1>11, Zenon DEF FinaliseRefused, Exit, processVars
<1> QED BY <1>1, <1>2, <1>3, <1>4, <1>5, <1>6, <1>7, <1>8, <1>9, <1>10, <1>11, Zenon DEF CommandLineStep

(* From the test of the lists on, nothing that was read of the line changes. *)
LEMMA ProcessFrame ==
  ASSUME ProcessStep
  PROVE  UNCHANGED <<lineVars, disk>> /\ phase # "start"
<1>1. CASE TestLists
  BY <1>1, Zenon DEF TestLists, processVars
<1>2. CASE LoadAllHostLists \/ LoadAllIpsets
  BY <1>2, Zenon DEF LoadAllHostLists, LoadAllIpsets
<1>3. CASE DryEnds \/ CreatePidfile
  BY <1>3, Zenon DEF DryEnds, CreatePidfile
<1>4. CASE macos_utun_open \/ rawsend_preinit
  BY <1>4, Zenon DEF macos_utun_open, rawsend_preinit, Open
<1>5. CASE DropRoot \/ Daemonize
  BY <1>5, Zenon DEF DropRoot, Daemonize
<1>6. CASE WritePid \/ LoopEnds
  BY <1>6, Zenon DEF WritePid, LoopEnds
<1> QED BY <1>1, <1>2, <1>3, <1>4, <1>5, <1>6, Zenon DEF ProcessStep

(* What the steps of the process do to the phase. *)
LEMMA ProcessPhase ==
  ASSUME ProcessStep
  PROVE  phase \notin {"start", "options", "finalise", "exit"} /\ phase' \notin {"start", "options", "finalise"}
<1>1. CASE TestLists
  BY <1>1, Zenon DEF TestLists, Goto, Exit
<1>2. CASE LoadAllHostLists \/ LoadAllIpsets
  BY <1>2, Zenon DEF LoadAllHostLists, LoadAllIpsets, LoadFails, Goto, Exit
<1>3. CASE DryEnds \/ CreatePidfile
  BY <1>3, Zenon DEF DryEnds, CreatePidfile, Goto, Exit
<1>4. CASE macos_utun_open \/ rawsend_preinit
  BY <1>4, Zenon DEF macos_utun_open, rawsend_preinit, Open, Goto, Exit
<1>5. CASE DropRoot \/ Daemonize
  BY <1>5, Zenon DEF DropRoot, Daemonize, Goto, Exit
<1>6. CASE WritePid \/ LoopEnds
  BY <1>6, Zenon DEF WritePid, LoopEnds, Goto, Exit
<1> QED BY <1>1, <1>2, <1>3, <1>4, <1>5, <1>6, Zenon DEF ProcessStep

-----------------------------------------------------------------------------
(* The line *)

(* An option of the line has a name and items. *)
LEMMA OptionHere ==
  ASSUME LineOK, k <= Len(line)
  PROVE  o \in Option /\ o.arg \in Seq(Item)
<1>1. line \in Seq(Option) /\ k \in 1 .. Len(line)
  BY DEF LineOK, CanBe
<1>2. o \in Option
  BY <1>1 DEF o
<1> QED BY <1>2 DEF Option, Item

(* A list in a file has a name, and it is known who can read it. *)
LEMMA ListKnown ==
  ASSUME LineOK, DiskOK, Reading(ListOption \ ItemOption)
  PROVE  o.arg # <<>> /\ o.arg[1].w \in DOMAIN disk
<1>1. k \in DOMAIN line /\ line \in Seq(Option) /\ CanBe(line)
  BY DEF Reading, LineOK, CanBe
<1>2. o.opt \in ListOption \ ItemOption
  BY DEF Reading, o
<1>3. o.opt \notin NoArgument \cup OptionalArgument
  BY <1>2 DEF ListOption, ItemOption, NoArgument, OptionalArgument
<1>4. o.arg # <<>>
  BY <1>3 DEF Reading, o, WellFormed
<1>5. PICK d \in Disks : DOMAIN disk = DOMAIN d
  BY DEF DiskOK
<1>6. o.arg[1].w \in DOMAIN d
  BY <1>1, <1>2, <1>4 DEF CanBe, o
<1> QED BY <1>4, <1>5, <1>6

(* Every option moves on by one, and the line stays within its ends. *)
LEMMA LineKept ==
  ASSUME LineOK, Next
  PROVE  LineOK'
<1>1. CASE ReadConfig
  <2>0. k = 1 /\ k' = k /\ k' = 1
    BY <1>1, Zenon DEF ReadConfig, LineOK
  <2>1. line' \in Lines \cup {Config[f] : f \in DOMAIN Config} \cup {<<>>}
    BY <1>1 DEF ReadConfig, LineOK
  <2>2. CanBe(<<>>)
    BY DEF CanBe
  <2>3. CanBe(line')
    BY <2>1, <2>2, LineAssumption
  <2>4. Len(line') \in Nat
    BY <2>3 DEF CanBe
  <2> QED BY <2>0, <2>1, <2>3, <2>4 DEF LineOK
<1>2. CASE CommandLineStep /\ ~ReadConfig
  <2>1. line' = line /\ phase # "start" /\ phase' # "start"
    <3>1. phase' # "start"
      BY <1>2, LineFrame
    <3>2. CASE Unknown \/ Version \/ DryRun \/ Skip \/ New
      BY <3>1, <3>2, Zenon DEF Unknown, Version, DryRun, Skip, New, Next1, lineVars, Reading
    <3>3. CASE Assign \/ AssignRefused \/ SetGlobal \/ GlobalRefused
      BY <3>1, <3>3, Zenon DEF Assign, AssignRefused, SetGlobal, GlobalRefused, Next1, lineVars, Reading
    <3>4. CASE ListSkipped \/ RegisterFile \/ RegisterRefused \/ RegisterItems
      BY <3>1, <3>4, Zenon DEF ListSkipped, RegisterFile, RegisterRefused, RegisterItems, Next1, lineVars, Reading
    <3>5. CASE EndOfOptions \/ Finalise \/ FinaliseRefused
      BY <3>1, <3>5, Zenon DEF EndOfOptions, Finalise, FinaliseRefused, lineVars
    <3> QED BY <1>2, <3>2, <3>3, <3>4, <3>5, Zenon DEF CommandLineStep
  <2>2. k' = k \/ (k <= Len(line) /\ k' = k + 1)
    <3>1. CASE Unknown \/ Version \/ DryRun \/ Skip \/ New
      BY <3>1, Zenon DEF Unknown, Version, DryRun, Skip, New, Next1, lineVars, Reading
    <3>2. CASE Assign \/ AssignRefused \/ SetGlobal \/ GlobalRefused
      BY <3>2, Zenon DEF Assign, AssignRefused, SetGlobal, GlobalRefused, Next1, lineVars, Reading
    <3>3. CASE ListSkipped \/ RegisterFile \/ RegisterRefused \/ RegisterItems
      BY <3>3, Zenon DEF ListSkipped, RegisterFile, RegisterRefused, RegisterItems, Next1, lineVars, Reading
    <3>4. CASE EndOfOptions \/ Finalise \/ FinaliseRefused
      BY <3>4, Zenon DEF EndOfOptions, Finalise, FinaliseRefused, lineVars
    <3> QED BY <1>2, <3>1, <3>2, <3>3, <3>4, Zenon DEF CommandLineStep
  <2>3. Len(line) \in Nat
    BY DEF LineOK, CanBe
  <2> QED BY <2>1, <2>2, <2>3 DEF LineOK
<1>3. CASE ProcessStep
  <2>1. line' = line /\ k' = k /\ phase' # "start"
    BY <1>3, ProcessFrame, ProcessPhase DEF lineVars
  <2> QED BY <2>1 DEF LineOK
<1> QED BY <1>1, <1>2, <1>3 DEF Next

-----------------------------------------------------------------------------
(* The disk *)

(* Only an automatic list appears, and its name was known before. *)
LEMMA DiskKeepsNames ==
  ASSUME DiskOK, Next
  PROVE  DOMAIN disk' = DOMAIN disk /\ disk' \in [DOMAIN disk -> SUBSET {"root", "user"}]
<1>1. CASE RegisterFile
  <2>1. disk' = disk \/ disk' = [disk EXCEPT ![o.arg[1].w] = {"root", "user"}]
    BY <1>1, Zenon DEF RegisterFile
  <2> QED BY <2>1 DEF DiskOK
<1>2. CASE Finalise
  <2>1. \/ disk' = disk
        \/ disk' = [f \in DOMAIN disk |-> disk[f] \cup IF f \in Autolists THEN {Who(params.uid)} ELSE {}]
    BY <1>2, Zenon DEF Finalise
  <2>2. Who(params.uid) \in {"root", "user"}
    BY DEF Who
  <2> HIDE DEF Autolists
  <2> QED BY <2>1, <2>2 DEF DiskOK
<1>3. CASE disk' = disk
  BY <1>3 DEF DiskOK
<1>4. CASE CommandLineStep
  BY <1>1, <1>2, <1>3, <1>4, Zenon DEF CommandLineStep, ReadConfig, Unknown, Version, DryRun, Skip, New, Assign,
     AssignRefused, SetGlobal, GlobalRefused, ListSkipped, RegisterRefused, RegisterItems, EndOfOptions,
     FinaliseRefused, processVars
<1>5. CASE ProcessStep
  BY <1>3, <1>5, ProcessFrame
<1> QED BY <1>4, <1>5 DEF Next

(* What is read is on the disk. *)
LEMMA DiskKept ==
  ASSUME DiskOK, FilesOK, Next
  PROVE  DiskOK'
<1>1. DOMAIN disk' = DOMAIN disk /\ disk' \in [DOMAIN disk -> SUBSET {"root", "user"}]
  BY DiskKeepsNames
<1>2. loaded' \subseteq DOMAIN disk
  <2>1. CASE CommandLineStep
    BY <2>1, LineFrame DEF DiskOK
  <2>2. \A kind \in Kinds : ListFiles(kind) \subseteq DOMAIN disk
    <3> SUFFICES ASSUME NEW kind \in Kinds, NEW f \in ListFiles(kind) PROVE f \in DOMAIN disk
      OBVIOUS
    <3>1. f # None /\ \E i \in DOMAIN files[kind] : f = files[kind][i].name
      BY DEF ListFiles, ToSet
    <3>2. \A i \in DOMAIN files[kind] : files[kind][i] \in Entry
      BY DEF FilesOK
    <3> QED BY <3>1, <3>2 DEF Entry
  <2>3. CASE LoadAllHostLists
    <3>1. loaded' \subseteq loaded \cup ListFiles("host")
      BY <2>3 DEF LoadAllHostLists, Load, LoadFails
    <3> QED BY <2>2, <3>1 DEF DiskOK, Kinds
  <2>4. CASE LoadAllIpsets
    <3>1. loaded' \subseteq loaded \cup ListFiles("ip")
      BY <2>4 DEF LoadAllIpsets, Load, LoadFails
    <3> QED BY <2>2, <3>1 DEF DiskOK, Kinds
  <2>5. CASE ProcessStep /\ ~LoadAllHostLists /\ ~LoadAllIpsets
    <3>1. loaded' = loaded
      BY <2>5, Zenon DEF ProcessStep, TestLists, DryEnds, CreatePidfile, macos_utun_open, rawsend_preinit, Open, DropRoot,
         Daemonize, WritePid, LoopEnds, processVars
    <3> QED BY <3>1 DEF DiskOK
  <2> QED BY <2>1, <2>3, <2>4, <2>5 DEF Next
<1> QED BY <1>1, <1>2 DEF DiskOK

-----------------------------------------------------------------------------
(* The lists *)

(* The kind of a list, and of the collection it goes to *)
LEMMA KindsAgree ==
  ASSUME NEW opt \in ListOption
  PROVE  /\ CollectionOf(opt) \in Collections /\ Kind(opt) \in Kinds
         /\ Kind(opt) = KindOf(CollectionOf(opt))
         /\ opt = "hostlist-auto" => CollectionOf(opt) = "hl"
<1>1. CASE opt \in {"hostlist", "hostlist-domains", "hostlist-auto"}
  <2>1. CollectionOf(opt) = "hl"
    BY <1>1, Zenon DEF CollectionOf
  <2> QED BY <1>1, <2>1 DEF Collections, Kind, Kinds, KindOf
<1>2. CASE opt \in {"hostlist-exclude", "hostlist-exclude-domains"}
  <2>1. CollectionOf(opt) = "hl_exclude"
    BY <1>2, Zenon DEF CollectionOf
  <2> QED BY <1>2, <2>1 DEF Collections, Kind, Kinds, KindOf
<1>3. CASE opt \in {"ipset", "ipset-ip"}
  <2>1. CollectionOf(opt) = "ips"
    BY <1>3, Zenon DEF CollectionOf
  <2> QED BY <1>3, <2>1 DEF Collections, Kind, Kinds, KindOf
<1>4. CASE opt \in {"ipset-exclude", "ipset-exclude-ip"}
  <2>1. CollectionOf(opt) = "ips_exclude"
    BY <1>4, Zenon DEF CollectionOf
  <2> QED BY <1>4, <2>1 DEF Collections, Kind, Kinds, KindOf
<1> QED BY <1>1, <1>2, <1>3, <1>4 DEF ListOption

(* A list of a file is registered at most once, and it is there afterwards. *)
LEMMA Registered ==
  ASSUME NEW S, NEW list \in Seq(S), NEW name, [name |-> name, has |-> {}] \in S
  PROVE  /\ Register(list, name) \in Seq(S)
         /\ Len(list) <= Len(Register(list, name))
         /\ (CHOOSE i \in DOMAIN Register(list, name) : Register(list, name)[i].name = name)
              \in DOMAIN Register(list, name)
<1> DEFINE e == [name |-> name, has |-> {}]
           l == Register(list, name)
<1>1. CASE \E i \in DOMAIN list : list[i].name = name
  <2>1. l = list
    BY <1>1 DEF Register
  <2>2. (CHOOSE i \in DOMAIN list : list[i].name = name) \in DOMAIN list
    BY <1>1
  <2> QED BY <2>1, <2>2
<1>2. CASE ~\E i \in DOMAIN list : list[i].name = name
  <2>1. l = Append(list, e)
    BY <1>2 DEF Register
  <2>2. l \in Seq(S) /\ Len(l) = Len(list) + 1 /\ l[Len(list) + 1] = e /\ Len(list) \in Nat
    BY <2>1
  <2>3. Len(list) + 1 \in DOMAIN l /\ l[Len(list) + 1].name = name
    BY <2>2
  <2> HIDE DEF l, e
  <2>4. (CHOOSE i \in DOMAIN l : l[i].name = name) \in DOMAIN l
    BY <2>3
  <2> QED BY <2>2, <2>4 DEF l
<1> QED BY <1>1, <1>2

(* What RegisterFile registers *)
LEMMA FileRegistered ==
  ASSUME LineOK, DiskOK, FilesOK, ProfilesOK, RegisterFile
  PROVE  \E c \in Collections, list \in Seq(Entry) : \E at \in DOMAIN list :
           /\ Len(files[KindOf(c)]) <= Len(list)
           /\ files' = [files EXCEPT ![KindOf(c)] = list]
           /\ \E a : profiles' = [profiles EXCEPT ![Len(profiles)] =
                                    [Last(profiles) EXCEPT ![c] = Last(profiles)[c] \cup {at}, !.auto = a]]
                     /\ (a = Last(profiles).auto \/ (a = at /\ c = "hl"))
           /\ UNCHANGED anon
<1> DEFINE name == o.arg[1].w
           list == Register(files[Kind(o.opt)], name)
           at == CHOOSE i \in DOMAIN list : list[i].name = name
           c == CollectionOf(o.opt)
           a == IF o.opt = "hostlist-auto" THEN at ELSE Last(profiles).auto
           e == [Last(profiles) EXCEPT ![c] = Last(profiles)[c] \cup {at}, !.auto = a]
<1>1. Reading(ListOption \ ItemOption)
  BY Zenon DEF RegisterFile
<1>2. o.opt \in ListOption
  BY <1>1 DEF Reading, o
<1>3. c \in Collections /\ Kind(o.opt) \in Kinds /\ Kind(o.opt) = KindOf(c)
      /\ (o.opt = "hostlist-auto" => c = "hl")
  BY <1>2, KindsAgree
<1>4. name \in DOMAIN disk
  BY <1>1, ListKnown
<1>5. [name |-> name, has |-> {}] \in Entry
  BY <1>4 DEF Entry
<1>6. files[Kind(o.opt)] \in Seq(Entry)
  BY <1>3 DEF FilesOK
<1>7. list \in Seq(Entry) /\ Len(files[Kind(o.opt)]) <= Len(list) /\ at \in DOMAIN list
  BY <1>5, <1>6, Registered
<1>8. files' = [files EXCEPT ![Kind(o.opt)] = list] /\ UNCHANGED anon
  BY Zenon DEF RegisterFile
<1>9. profiles' = [profiles EXCEPT ![Len(profiles)] = e]
  <2>0. profiles' = [profiles EXCEPT ![Len(profiles)] =
                           [dp EXCEPT ![c] = @ \cup {at},
                                      !.auto = IF o.opt = "hostlist-auto" THEN at ELSE @]]
    BY Zenon DEF RegisterFile
  <2> HIDE DEF at, list, name, c
  <2> QED BY <2>0 DEF dp
<1>10. a = Last(profiles).auto \/ (a = at /\ c = "hl")
  BY <1>3
<1> HIDE DEF name, list, at, c, a
<1> QED BY <1>3, <1>7, <1>8, <1>9, <1>10

(* What RegisterItems registers *)
LEMMA ItemsRegistered ==
  ASSUME LineOK, FilesOK, AnonOK, ProfilesOK, RegisterItems
  PROVE  \E c \in Collections, list \in Seq(Entry) : \E at \in DOMAIN list :
           /\ Len(files[KindOf(c)]) <= Len(list)
           /\ files' = [files EXCEPT ![KindOf(c)] = list]
           /\ profiles' = [profiles EXCEPT ![Len(profiles)] =
                             [Last(profiles) EXCEPT ![c] = Last(profiles)[c] \cup {at}]]
           /\ anon' = [anon EXCEPT ![c] = at]
<1> DEFINE c == CollectionOf(o.opt)
           old == files[Kind(o.opt)]
           at == IF anon[c] = 0 THEN Len(old) + 1 ELSE anon[c]
           words == IF Kind(o.opt) = "ip" THEN Words(o.arg) \cap Subnets ELSE Words(o.arg) \ {""}
           list == IF anon[c] = 0 THEN Append(old, [name |-> None, has |-> words])
                   ELSE [old EXCEPT ![at].has = @ \cup words]
<1>1. Reading(ItemOption) /\ k <= Len(line)
  BY Zenon DEF RegisterItems, Reading
<1>2. o.opt \in ListOption
  BY <1>1 DEF Reading, o, ListOption, ItemOption
<1>3. c \in Collections /\ Kind(o.opt) \in Kinds /\ Kind(o.opt) = KindOf(c)
  BY <1>2, KindsAgree
<1>4. words \subseteq STRING
  <2>1. o.arg \in Seq(Item)
    BY <1>1, OptionHere
  <2>2. \A i \in DOMAIN o.arg : o.arg[i] \in Item /\ o.arg[i].w \in STRING
    <3>1. \A i \in DOMAIN o.arg : o.arg[i] \in Item
      BY <2>1
    <3> QED BY <3>1 DEF Item
  <2>3. Words(o.arg) \subseteq STRING
    BY <2>2 DEF Words, Items
  <2> QED BY <2>3
<1>5. old \in Seq(Entry)
  BY <1>3 DEF FilesOK
<1>6. anon[c] \in Nat /\ anon[c] <= Len(old)
  BY <1>3 DEF AnonOK
<1> HIDE DEF words
<1>7. list \in Seq(Entry) /\ Len(old) <= Len(list) /\ at \in DOMAIN list
  <2>1. CASE anon[c] = 0
    <3>1. [name |-> None, has |-> words] \in Entry
      BY <1>4 DEF Entry
    <3> HIDE DEF old, c
    <3>2. list = Append(old, [name |-> None, has |-> words]) /\ at = Len(old) + 1
      BY <2>1
    <3>3. list \in Seq(Entry) /\ Len(list) = Len(old) + 1 /\ Len(old) \in Nat
      BY <1>5, <3>1, <3>2
    <3> QED BY <3>2, <3>3
  <2>2. CASE anon[c] # 0
    <3> HIDE DEF old, c
    <3> DEFINE e == [old[at] EXCEPT !.has = old[at].has \cup words]
    <3>1. at \in 1 .. Len(old) /\ Len(old) \in Nat
      BY <1>5, <1>6, <2>2
    <3>2. old[at] \in Entry
      BY <1>5, <3>1
    <3>3. e \in Entry
      BY <1>4, <3>2 DEF Entry
    <3>4. list = [old EXCEPT ![at] = e]
      BY <2>2
    <3> HIDE DEF e, list, at
    <3>5. list \in Seq(Entry) /\ Len(list) = Len(old)
      BY <1>5, <3>1, <3>3, <3>4
    <3> QED BY <3>1, <3>5
  <2> QED BY <2>1, <2>2
<1>8. /\ files' = [files EXCEPT ![Kind(o.opt)] = list]
      /\ profiles' = [profiles EXCEPT ![Len(profiles)][c] = @ \cup {at}]
      /\ anon' = [anon EXCEPT ![c] = at]
  BY Zenon DEF RegisterItems, words
<1> HIDE DEF list, at, c, old
<1>9. profiles' = [profiles EXCEPT ![Len(profiles)] = [Last(profiles) EXCEPT ![c] = Last(profiles)[c] \cup {at}]]
  BY <1>8 DEF Last
<1>10. Len(files[KindOf(c)]) <= Len(list)
  BY <1>3, <1>7 DEF old
<1> QED BY <1>3, <1>7, <1>8, <1>9, <1>10

(* The steps that leave the lists, the collections and the files alone *)
LEMMA ListFrame ==
  ASSUME Next, ~RegisterFile, ~RegisterItems
  PROVE  files' = files
<1>1. CASE CommandLineStep
  BY <1>1, Zenon DEF CommandLineStep, ReadConfig, Unknown, Version, DryRun, Skip, New, Assign, AssignRefused, SetGlobal,
     GlobalRefused, ListSkipped, RegisterRefused, EndOfOptions, Finalise, FinaliseRefused, lineVars
<1>2. CASE ProcessStep
  BY <1>2, ProcessFrame, Zenon DEF lineVars
<1> QED BY <1>1, <1>2 DEF Next

(* The lists of a kind only grow. *)
LEMMA FilesGrow ==
  ASSUME LineOK, DiskOK, FilesOK, AnonOK, ProfilesOK, Next
  PROVE  /\ files' \in [Kinds -> Seq(Entry)]
         /\ \A kind \in Kinds : Len(files[kind]) <= Len(files'[kind])
<1>1. ASSUME NEW c \in Collections, NEW list \in Seq(Entry), Len(files[KindOf(c)]) <= Len(list),
             files' = [files EXCEPT ![KindOf(c)] = list]
      PROVE  /\ files' \in [Kinds -> Seq(Entry)]
             /\ \A kind \in Kinds : Len(files[kind]) <= Len(files'[kind])
  <2>1. KindOf(c) \in Kinds
    BY DEF KindOf, Kinds
  <2>2. \A kind \in Kinds : Len(files[kind]) \in Nat
    BY DEF FilesOK
  <2> QED BY <1>1, <2>1, <2>2 DEF FilesOK
<1>2. CASE RegisterFile
  BY <1>1, <1>2, FileRegistered
<1>3. CASE RegisterItems
  BY <1>1, <1>3, ItemsRegistered
<1>4. CASE files' = files
  <2>1. \A kind \in Kinds : Len(files[kind]) \in Nat
    BY DEF FilesOK
  <2> QED BY <1>4, <2>1 DEF FilesOK
<1> QED BY <1>2, <1>3, <1>4, ListFrame

(* And their entries are of the disk. *)
LEMMA FilesKept ==
  ASSUME LineOK, DiskOK, FilesOK, AnonOK, ProfilesOK, ProcessOK, Next
  PROVE  FilesOK'
<1>1. files' \in [Kinds -> Seq(Entry)]
  BY FilesGrow
<1>2. DOMAIN disk' = DOMAIN disk
  BY DiskKeepsNames
<1>3. Entry' = Entry
  BY <1>2 DEF Entry
<1> QED BY <1>1, <1>3 DEF FilesOK

-----------------------------------------------------------------------------
(* The profiles *)

(* A profile that fits goes on to when there are more lists and more profiles. *)
LEMMA FitsLater ==
  ASSUME NEW p, NEW S, NEW fs \in [Kinds -> Seq(S)], NEW gs \in [Kinds -> Seq(S)],
         \A kind \in Kinds : Len(fs[kind]) <= Len(gs[kind]),
         NEW m \in Nat, NEW n \in Nat, m <= n, Fits(p, fs, m)
  PROVE  Fits(p, gs, n)
<1>1. \A kind \in Kinds : /\ DOMAIN fs[kind] = 1 .. Len(fs[kind]) /\ DOMAIN gs[kind] = 1 .. Len(gs[kind])
                          /\ Len(fs[kind]) \in Nat /\ Len(gs[kind]) \in Nat
  OBVIOUS
<1>2. \A kind \in Kinds : DOMAIN fs[kind] \subseteq DOMAIN gs[kind]
  BY <1>1
<1>3. DOMAIN fs["host"] \subseteq DOMAIN gs["host"] /\ DOMAIN fs["ip"] \subseteq DOMAIN gs["ip"]
  BY <1>2 DEF Kinds
<1>4. p.n \in 0 .. n
  BY DEF Fits
<1> QED BY <1>3, <1>4 DEF Fits

(* An option of a profile leaves it fitting. *)
LEMMA FitsAssigned ==
  ASSUME NEW x, x.arg \in Seq(Item), NEW p, NEW fs, NEW n, Fits(p, fs, n), NEW q \in Assigned(x, p)
  PROVE  Fits(q, fs, n)
<1>1. Shared \subseteq DOMAIN p /\ p.splits \in Splits
  BY InitFields DEF Fits
<1>2. Keeps(p, q, Core) /\ q.splits \in Splits
  BY <1>1, AssignedKeeps
<1>3. DOMAIN q = DOMAIN p /\ q.n = p.n /\ q.hl = p.hl /\ q.hl_exclude = p.hl_exclude /\ q.ips = p.ips
      /\ q.ips_exclude = p.ips_exclude /\ q.auto = p.auto
  BY <1>2 DEF Keeps, Core
<1> QED BY <1>2, <1>3 DEF Fits

(* So does what is done to every profile in the end. *)
LEMMA FitsFinished ==
  ASSUME NEW p, NEW fs, NEW n, Fits(p, fs, n)
  PROVE  Fits(Finished(p), fs, n)
<1>1. Shared \subseteq DOMAIN p /\ p.splits \in Splits
  BY InitFields DEF Fits
<1> DEFINE q == Finished(p)
<1>2. Keeps(p, q, Core) /\ q.splits \in Splits
  BY <1>1, FinishedKeeps
<1> HIDE DEF q
<1>3. DOMAIN q = DOMAIN p /\ q.n = p.n /\ q.hl = p.hl /\ q.hl_exclude = p.hl_exclude /\ q.ips = p.ips
      /\ q.ips_exclude = p.ips_exclude /\ q.auto = p.auto
  BY <1>2 DEF Keeps, Core
<1>4. Fits(q, fs, n)
  BY <1>2, <1>3 DEF Fits
<1> QED BY <1>4 DEF q

(* A new profile fits. *)
LEMMA FitsNew ==
  ASSUME NEW fs, NEW n \in Nat, NEW m \in 0 .. n
  PROVE  Fits([dp_init EXCEPT !.n = m], fs, n) /\ Fits(dp_init, fs, n)
<1>1. <<>> \in Splits
  BY MaxSplitsAssumption DEF Splits
<1> DEFINE q == [dp_init EXCEPT !.n = m]
<1>2. /\ DOMAIN q = DOMAIN dp_init /\ q.n = m /\ q.hl = {} /\ q.hl_exclude = {} /\ q.ips = {}
      /\ q.ips_exclude = {} /\ q.auto = 0 /\ q.splits = <<>>
  BY InitFields DEF Shared, Core, PortFields, TlsFields
<1> HIDE DEF q
<1>3. Fits(q, fs, n)
  BY <1>1, <1>2 DEF Fits
<1>4. Fits(dp_init, fs, n)
  BY <1>1, InitFields DEF Fits
<1> QED BY <1>3, <1>4 DEF q

(* A list that is registered can be put into a collection of its kind. *)
LEMMA FitsCollected ==
  ASSUME NEW p, NEW fs, NEW n, Fits(p, fs, n), NEW c \in Collections, NEW at \in DOMAIN fs[KindOf(c)],
         NEW a, a = p.auto \/ (a = at /\ c = "hl")
  PROVE  /\ Fits([p EXCEPT ![c] = p[c] \cup {at}, !.auto = a], fs, n)
         /\ Fits([p EXCEPT ![c] = p[c] \cup {at}], fs, n)
<1>0. {"n", "hl", "hl_exclude", "ips", "ips_exclude", "auto", "splits"} \subseteq DOMAIN p
  BY InitFields DEF Fits, Shared, Core, PortFields, TlsFields
<1>1. CASE c = "hl"
  <2>1. at \in DOMAIN fs["host"]
    BY <1>1 DEF KindOf
  <2> DEFINE q == [p EXCEPT !["hl"] = p["hl"] \cup {at}, !.auto = a]
             r == [p EXCEPT !["hl"] = p["hl"] \cup {at}]
  <2>2. /\ DOMAIN q = DOMAIN p /\ q.n = p.n /\ q.hl = p.hl \cup {at} /\ q.hl_exclude = p.hl_exclude
        /\ q.ips = p.ips /\ q.ips_exclude = p.ips_exclude /\ q.auto = a /\ q.splits = p.splits
    BY <1>0
  <2>3. /\ DOMAIN r = DOMAIN p /\ r.n = p.n /\ r.hl = p.hl \cup {at} /\ r.hl_exclude = p.hl_exclude
        /\ r.ips = p.ips /\ r.ips_exclude = p.ips_exclude /\ r.auto = p.auto /\ r.splits = p.splits
    BY <1>0
  <2> HIDE DEF q, r
  <2>4. Fits(q, fs, n)
    BY <2>1, <2>2 DEF Fits
  <2>5. Fits(r, fs, n)
    BY <2>1, <2>3 DEF Fits
  <2> QED BY <1>1, <2>4, <2>5 DEF q, r
<1>2. CASE c \in {"hl_exclude", "ips", "ips_exclude"}
  <2> DEFINE q == [p EXCEPT ![c] = p[c] \cup {at}, !.auto = a]
             r == [p EXCEPT ![c] = p[c] \cup {at}]
  <2>1. a = p.auto
    BY <1>2
  <2>2. q = r
    BY <1>0, <1>2, <2>1
  <2>3. /\ DOMAIN r = DOMAIN p /\ r.n = p.n /\ r.auto = p.auto /\ r.splits = p.splits /\ r.hl = p.hl
        /\ r.hl_exclude = IF c = "hl_exclude" THEN p.hl_exclude \cup {at} ELSE p.hl_exclude
        /\ r.ips = IF c = "ips" THEN p.ips \cup {at} ELSE p.ips
        /\ r.ips_exclude = IF c = "ips_exclude" THEN p.ips_exclude \cup {at} ELSE p.ips_exclude
    BY <1>0, <1>2
  <2>4. /\ c = "hl_exclude" => at \in DOMAIN fs["host"]
        /\ c \in {"ips", "ips_exclude"} => at \in DOMAIN fs["ip"]
    BY DEF KindOf
  <2> HIDE DEF r
  <2>5. Fits(r, fs, n)
    BY <1>2, <2>3, <2>4 DEF Fits
  <2> QED BY <2>2, <2>5 DEF r
<1> QED BY <1>1, <1>2 DEF Collections

(* What is put in the place of the last profile has to fit. *)
LEMMA LastProfile ==
  ASSUME LineOK, DiskOK, FilesOK, AnonOK, ProfilesOK, Next, NEW e, Fits(e, files', Len(profiles)),
         profiles' = [profiles EXCEPT ![Len(profiles)] = e]
  PROVE  ProfilesOK'
<1>1. /\ IsSeq(profiles') /\ profiles' # <<>> /\ Len(profiles') = Len(profiles)
      /\ ToSet(profiles') \subseteq ToSet(profiles) \cup {e} /\ Len(profiles) \in Nat
  BY LastReplaced, LastElement DEF ProfilesOK
<1>2. files \in [Kinds -> Seq(Entry)] /\ files' \in [Kinds -> Seq(Entry)]
      /\ \A kind \in Kinds : Len(files[kind]) <= Len(files'[kind])
  BY FilesGrow DEF FilesOK
<1>3. \A p \in ToSet(profiles) : Fits(p, files', Len(profiles))
  <2>1. Len(profiles) <= Len(profiles)
    BY <1>1
  <2> QED BY <1>1, <1>2, <2>1, FitsLater DEF ProfilesOK
<1> QED BY <1>1, <1>3 DEF ProfilesOK

(* The steps that leave the profiles alone *)
LEMMA ProfileFrame ==
  ASSUME Next, ~New, ~Assign, ~RegisterFile, ~RegisterItems, ~EndOfOptions, ~Finalise
  PROVE  profiles' = profiles
<1>1. CASE CommandLineStep
  BY <1>1, Zenon DEF CommandLineStep, ReadConfig, Unknown, Version, DryRun, Skip, AssignRefused, SetGlobal,
     GlobalRefused, ListSkipped, RegisterRefused, FinaliseRefused, lineVars
<1>2. CASE ProcessStep
  BY <1>2, ProcessFrame, Zenon DEF lineVars
<1> QED BY <1>1, <1>2 DEF Next

(* Every profile goes on to fit. *)
LEMMA ProfilesKept ==
  ASSUME LineOK, DiskOK, FilesOK, AnonOK, ProfilesOK, Next
  PROVE  ProfilesOK'
<1>1. /\ Len(profiles) \in Nat \ {0} /\ Last(profiles) \in ToSet(profiles)
      /\ Fits(Last(profiles), files, Len(profiles))
  BY LastElement DEF ProfilesOK
<1>2. /\ files' \in [Kinds -> Seq(Entry)]
      /\ \A kind \in Kinds : Len(files[kind]) <= Len(files'[kind])
  BY FilesGrow
<1>3. ASSUME NEW n \in Nat, Len(profiles) <= n
      PROVE  \A p \in ToSet(profiles) : Fits(p, files', n)
  BY <1>1, <1>2, <1>3, FitsLater DEF ProfilesOK, FilesOK
<1>4. Fits(Last(profiles), files', Len(profiles))
  BY <1>1, <1>3
<1>5. CASE New
  <2>1. CASE skip
    <3>1. profiles' = [profiles EXCEPT ![Len(profiles)] = [dp_init EXCEPT !.n = Len(profiles)]]
      BY <1>5, <2>1 DEF New
    <3>2. Fits([dp_init EXCEPT !.n = Len(profiles)], files', Len(profiles))
      <4>1. Len(profiles) \in 0 .. Len(profiles)
        BY <1>1
      <4> QED BY <1>1, <4>1, FitsNew
    <3> QED BY <3>1, <3>2, LastProfile
  <2>2. CASE ~skip
    <3> DEFINE e == [dp_init EXCEPT !.n = Len(profiles) + 1]
    <3>1. profiles' = Append(profiles, e)
      BY <1>5, <2>2 DEF New
    <3>2. Fits(e, files', Len(profiles) + 1)
      <4>1. Len(profiles) + 1 \in 0 .. Len(profiles) + 1 /\ Len(profiles) + 1 \in Nat
        BY <1>1
      <4> QED BY <4>1, FitsNew
    <3> HIDE DEF e
    <3>3. IsSeq(profiles') /\ profiles' # <<>> /\ Len(profiles') = Len(profiles) + 1
          /\ ToSet(profiles') \subseteq ToSet(profiles) \cup {e}
      BY <3>1, Appended DEF ProfilesOK
    <3>4. \A p \in ToSet(profiles) : Fits(p, files', Len(profiles) + 1)
      BY <1>1, <1>3
    <3> QED BY <3>2, <3>3, <3>4 DEF ProfilesOK
  <2> QED BY <2>1, <2>2
<1>6. CASE Assign
  <2>1. k <= Len(line) /\ \E p \in Assigned(o, dp) : profiles' = [profiles EXCEPT ![Len(profiles)] = p]
    BY <1>6, Zenon DEF Assign, Reading
  <2>2. PICK p \in Assigned(o, dp) : profiles' = [profiles EXCEPT ![Len(profiles)] = p]
    BY <2>1
  <2>3. o.arg \in Seq(Item)
    BY <2>1, OptionHere
  <2>4. Fits(p, files', Len(profiles))
    BY <1>4, <2>3, FitsAssigned DEF dp
  <2> QED BY <2>2, <2>4, LastProfile
<1>7. CASE RegisterFile
  <2>1. PICK c \in Collections, list \in Seq(Entry) : \E at \in DOMAIN list :
           /\ files' = [files EXCEPT ![KindOf(c)] = list]
           /\ \E a : profiles' = [profiles EXCEPT ![Len(profiles)] =
                                    [Last(profiles) EXCEPT ![c] = Last(profiles)[c] \cup {at}, !.auto = a]]
                     /\ (a = Last(profiles).auto \/ (a = at /\ c = "hl"))
    BY <1>7, FileRegistered
  <2>2. PICK at \in DOMAIN list :
           /\ files' = [files EXCEPT ![KindOf(c)] = list]
           /\ \E a : profiles' = [profiles EXCEPT ![Len(profiles)] =
                                    [Last(profiles) EXCEPT ![c] = Last(profiles)[c] \cup {at}, !.auto = a]]
                     /\ (a = Last(profiles).auto \/ (a = at /\ c = "hl"))
    BY <2>1
  <2>3. PICK a : profiles' = [profiles EXCEPT ![Len(profiles)] =
                                    [Last(profiles) EXCEPT ![c] = Last(profiles)[c] \cup {at}, !.auto = a]]
                 /\ (a = Last(profiles).auto \/ (a = at /\ c = "hl"))
    BY <2>2
  <2>4. files'[KindOf(c)] = list
    BY <2>2 DEF FilesOK, KindOf, Kinds
  <2> DEFINE e == [Last(profiles) EXCEPT ![c] = Last(profiles)[c] \cup {at}, !.auto = a]
  <2>5. Fits(e, files', Len(profiles))
    BY <1>4, <2>3, <2>4, FitsCollected
  <2> HIDE DEF e
  <2>6. profiles' = [profiles EXCEPT ![Len(profiles)] = e]
    BY <2>3 DEF e
  <2> QED BY <2>5, <2>6, LastProfile
<1>8. CASE RegisterItems
  <2>1. PICK c \in Collections, list \in Seq(Entry) : \E at \in DOMAIN list :
           /\ files' = [files EXCEPT ![KindOf(c)] = list]
           /\ profiles' = [profiles EXCEPT ![Len(profiles)] =
                             [Last(profiles) EXCEPT ![c] = Last(profiles)[c] \cup {at}]]
    BY <1>8, ItemsRegistered
  <2>2. PICK at \in DOMAIN list :
           /\ files' = [files EXCEPT ![KindOf(c)] = list]
           /\ profiles' = [profiles EXCEPT ![Len(profiles)] =
                             [Last(profiles) EXCEPT ![c] = Last(profiles)[c] \cup {at}]]
    BY <2>1
  <2>4. files'[KindOf(c)] = list
    BY <2>2 DEF FilesOK, KindOf, Kinds
  <2> DEFINE e == [Last(profiles) EXCEPT ![c] = Last(profiles)[c] \cup {at}]
  <2>5. Fits(e, files', Len(profiles))
    BY <1>4, <2>4, FitsCollected
  <2> HIDE DEF e
  <2>6. profiles' = [profiles EXCEPT ![Len(profiles)] = e]
    BY <2>2 DEF e
  <2> QED BY <2>5, <2>6, LastProfile
<1>9. CASE EndOfOptions
  <2> DEFINE s == IF skip THEN Front(profiles) ELSE profiles
  <2>1. profiles' = Append(s, dp_init)
    BY <1>9 DEF EndOfOptions
  <2>2. IsSeq(s) /\ ToSet(s) \subseteq ToSet(profiles) /\ Len(profiles) <= Len(s) + 1 /\ Len(s) \in Nat
    BY <1>1, FrontElements DEF ProfilesOK
  <2> HIDE DEF s
  <2>3. IsSeq(profiles') /\ profiles' # <<>> /\ Len(profiles') = Len(s) + 1
        /\ ToSet(profiles') \subseteq ToSet(s) \cup {dp_init}
    BY <2>1, <2>2, Appended
  <2>4. \A p \in ToSet(profiles) : Fits(p, files', Len(s) + 1)
    BY <1>3, <2>2
  <2>5. Fits(dp_init, files', Len(s) + 1)
    <3>1. Len(s) + 1 \in Nat /\ 0 \in 0 .. Len(s) + 1
      BY <2>2
    <3> QED BY <3>1, FitsNew
  <2> QED BY <2>2, <2>3, <2>4, <2>5 DEF ProfilesOK
<1>10. CASE Finalise
  <2>1. profiles' = [i \in DOMAIN profiles |-> Finished(profiles[i])]
    BY <1>10 DEF Finalise
  <2>2. DOMAIN profiles = 1 .. Len(profiles) /\ Len(profiles) \in Nat
    BY <1>1 DEF ProfilesOK, IsSeq
  <2>3. DOMAIN profiles' = 1 .. Len(profiles)
        /\ \A i \in 1 .. Len(profiles) : profiles'[i] = Finished(profiles[i])
    BY <2>1, <2>2
  <2>4. \A i \in 1 .. Len(profiles) : Fits(profiles'[i], files', Len(profiles))
    <3>1. \A i \in 1 .. Len(profiles) : profiles[i] \in ToSet(profiles)
      BY <2>2 DEF ToSet
    <3>2. \A i \in 1 .. Len(profiles) : Fits(profiles[i], files', Len(profiles))
      BY <1>3, <2>2, <3>1
    <3> QED BY <2>3, <3>2, FitsFinished
  <2>5. profiles' \in [1 .. Len(profiles) -> {Finished(p) : p \in ToSet(profiles)}]
    BY <2>1, <2>2 DEF ToSet
  <2>6. profiles' \in Seq({Finished(p) : p \in ToSet(profiles)}) /\ Len(profiles') = Len(profiles)
    BY <2>2, <2>5
  <2>7. IsSeq(profiles')
    BY <2>6, OwnElements
  <2>8. profiles' # <<>>
    BY <1>1, <2>6
  <2>9. \A p \in ToSet(profiles') : Fits(p, files', Len(profiles'))
    BY <2>3, <2>4, <2>6 DEF ToSet
  <2> QED BY <2>7, <2>8, <2>9 DEF ProfilesOK
<1>11. CASE profiles' = profiles
  <2>1. \A p \in ToSet(profiles) : Fits(p, files', Len(profiles))
    BY <1>1, <1>3
  <2> QED BY <1>11, <2>1 DEF ProfilesOK
<1> QED BY <1>5, <1>6, <1>7, <1>8, <1>9, <1>10, <1>11, ProfileFrame

-----------------------------------------------------------------------------
(* The collections without a name, the parameters, the process *)

(* The list without a name of a collection stays registered. *)
LEMMA AnonKept ==
  ASSUME LineOK, DiskOK, FilesOK, AnonOK, ProfilesOK, Next
  PROVE  AnonOK'
<1>1. /\ \A kind \in Kinds : Len(files[kind]) <= Len(files'[kind])
      /\ \A kind \in Kinds : Len(files[kind]) \in Nat /\ Len(files'[kind]) \in Nat
  BY FilesGrow DEF FilesOK
<1>2. \A c \in Collections : KindOf(c) \in Kinds
  BY DEF Kinds, KindOf
<1>3. CASE anon' = anon
  BY <1>1, <1>2, <1>3 DEF AnonOK
<1>4. CASE anon' = NoAnon
  BY <1>1, <1>2, <1>4 DEF AnonOK, NoAnon
<1>5. CASE RegisterItems
  <2>1. PICK c \in Collections, list \in Seq(Entry) : \E at \in DOMAIN list :
           files' = [files EXCEPT ![KindOf(c)] = list] /\ anon' = [anon EXCEPT ![c] = at]
    BY <1>5, ItemsRegistered
  <2>2. PICK at \in DOMAIN list :
           files' = [files EXCEPT ![KindOf(c)] = list] /\ anon' = [anon EXCEPT ![c] = at]
    BY <2>1
  <2>3. files'[KindOf(c)] = list
    BY <1>2, <2>2 DEF FilesOK
  <2>4. at \in Nat /\ at <= Len(files'[KindOf(c)])
    BY <2>3
  <2>5. \A b \in Collections : anon[b] <= Len(files'[KindOf(b)])
    BY <1>1, <1>2 DEF AnonOK
  <2> QED BY <2>2, <2>4, <2>5 DEF AnonOK
<1>6. CASE RegisterFile
  <2>1. anon' = anon
    BY <1>6, Zenon DEF RegisterFile
  <2> QED BY <1>3, <2>1
<1>7. CASE CommandLineStep /\ ~RegisterFile /\ ~RegisterItems
  <2>1. anon' = anon \/ anon' = NoAnon
    BY <1>7, Zenon DEF CommandLineStep, ReadConfig, Unknown, Version, DryRun, Skip, New, Assign, AssignRefused, SetGlobal,
       GlobalRefused, ListSkipped, RegisterRefused, EndOfOptions, Finalise, FinaliseRefused, lineVars
  <2> QED BY <1>3, <1>4, <2>1
<1>8. CASE ProcessStep
  BY <1>3, <1>8, ProcessFrame DEF lineVars
<1> QED BY <1>5, <1>6, <1>7, <1>8 DEF Next

(* An option of the process sets some of its parameters, and adds none. *)
LEMMA GlobalsKeep ==
  ASSUME ParamsOK, o.opt \in GlobalOption, NEW q \in Globals
  PROVE  DOMAIN q = DOMAIN params /\ q.daemon \in BOOLEAN
<1> DEFINE number == Unsigned(o.arg)
           w == o.arg[1].w
           A == \E a, b : q = [params EXCEPT !.debug = a, !.target = b]
           D == \E f \in {"pidfile", "timeouts", "ctrack_disable", "ipcache_lifetime", "cache_hostname",
                          "auto_debuglog"} : \E v : q = [params EXCEPT ![f] = v]
           U == \E a, b, c, d : q = [params EXCEPT !.user = a, !.uid = b, !.gids = c, !.droproot = d]
<1>1. CASE o.opt = "debug"
  <2>1. q \in IF o.arg = <<>> THEN {[params EXCEPT !.debug = TRUE, !.target = "console"]}
              ELSE IF w = "syslog" THEN {[params EXCEPT !.debug = TRUE, !.target = "syslog"]}
              ELSE IF w \in Creatable THEN {[params EXCEPT !.debug = TRUE, !.target = "file"]}
              ELSE {[params EXCEPT !.debug = (d = 1), !.target = "console"] : d \in number \cap {0, 1}}
    BY <1>1, Zenon DEF Globals
  <2>2. A
    BY <2>1, Zenon
  <2> QED BY <2>2 DEF ParamsOK, DefaultParams
<1>2. CASE o.opt \in {"comment", "port"}
  <2>1. q = params
    <3>1. CASE o.opt = "comment"
      BY <3>1, Zenon DEF Globals
    <3>2. CASE o.opt = "port"
      <4>1. q \in {params : p \in {Atoi(o.arg)} \cap 1 .. MaxPort}
        BY <3>2, Zenon DEF Globals
      <4> QED BY <4>1, Zenon
    <3> QED BY <1>2, <3>1, <3>2
  <2> QED BY <2>1 DEF ParamsOK
<1>3. CASE o.opt = "daemon"
  <2>1. q = [params EXCEPT !.daemon = TRUE]
    BY <1>3, Zenon DEF Globals
  <2> QED BY <2>1 DEF ParamsOK, DefaultParams
<1>4. CASE o.opt \in {"user", "uid"}
  <2>1. U
    <3>1. CASE o.opt = "user"
      BY <3>1, Zenon DEF Globals
    <3>2. CASE o.opt = "uid"
      BY <3>2, Zenon DEF Globals
    <3> QED BY <1>4, <3>1, <3>2
  <2> QED BY <2>1 DEF ParamsOK, DefaultParams
<1>5. CASE o.opt = "pidfile"
  <2>1. D
    BY <1>5, Zenon DEF Globals
  <2> QED BY <2>1 DEF ParamsOK, DefaultParams
<1>6. CASE o.opt = "ctrack-timeouts"
  <2>1. q \in {[params EXCEPT !.timeouts = t \o SubSeq(@, Len(t) + 1, 4)] :
                 t \in {t \in {o.arg[1].n} : Len(t) \in {3, 4}}}
    BY <1>6, Zenon DEF Globals
  <2>2. PICK t : q = [params EXCEPT !.timeouts = t \o SubSeq(params.timeouts, Len(t) + 1, 4)]
    BY <2>1, Zenon
  <2> QED BY <2>2 DEF ParamsOK, DefaultParams
<1>7. CASE o.opt \in {"ctrack-disable", "ipcache-lifetime", "ipcache-hostname", "hostlist-auto-debug"}
  <2>1. D
    BY <1>7, Zenon DEF Globals
  <2> QED BY <2>1 DEF ParamsOK, DefaultParams
<1> QED BY <1>1, <1>2, <1>3, <1>4, <1>5, <1>6, <1>7 DEF GlobalOption

(* The parameters keep their names. *)
LEMMA ParamsKept ==
  ASSUME ParamsOK, Next
  PROVE  ParamsOK'
<1>1. CASE Assign
  <2>1. params' = [params EXCEPT !.autottl_present = params.autottl_present \/ o.opt \in AutottlOption]
    BY <1>1, Zenon DEF Assign
  <2> QED BY <2>1 DEF ParamsOK, DefaultParams
<1>2. CASE SetGlobal
  <2>1. params' \in Globals /\ o.opt \in GlobalOption
    BY <1>2, Zenon DEF SetGlobal, Reading, o
  <2> QED BY <2>1, GlobalsKeep DEF ParamsOK
<1>3. CASE CommandLineStep /\ ~Assign /\ ~SetGlobal
  <2>1. params' = params
    BY <1>3, Zenon DEF CommandLineStep, ReadConfig, Unknown, Version, DryRun, Skip, New, AssignRefused, GlobalRefused,
       ListSkipped, RegisterFile, RegisterItems, RegisterRefused, EndOfOptions, Finalise, FinaliseRefused, lineVars
  <2> QED BY <2>1 DEF ParamsOK
<1>4. CASE ProcessStep
  BY <1>4, ProcessFrame DEF lineVars, ParamsOK
<1> QED BY <1>1, <1>2, <1>3, <1>4 DEF Next

(* The switches of the line and the state of the process stay in their ranges. *)
LEMMA ProcessKept ==
  ASSUME ProcessOK, Next
  PROVE  ProcessOK'
<1>1. CASE CommandLineStep
  <2>1. skip' \in {skip, TRUE, FALSE} /\ dry' \in {dry, TRUE}
    BY <1>1, Zenon DEF CommandLineStep, ReadConfig, Unknown, Version, DryRun, Skip, New, Assign, AssignRefused, SetGlobal,
       GlobalRefused, ListSkipped, RegisterFile, RegisterItems, RegisterRefused, EndOfOptions, Finalise,
       FinaliseRefused, lineVars
  <2>2. skip' \in BOOLEAN /\ dry' \in BOOLEAN
    BY <2>1 DEF ProcessOK
  <2>3. UNCHANGED <<me, fds, pidfile, pid>> /\ code' \in {code, 0, 1}
    BY <1>1, LineFrame
  <2> QED BY <2>2, <2>3 DEF ProcessOK
<1>2. CASE ProcessStep
  <2>1. skip' = skip /\ dry' = dry
    BY <1>2, ProcessFrame DEF lineVars
  <2>2. code' \in {code, 0, 1, 2}
    BY <1>2, Zenon DEF ProcessStep, TestLists, LoadAllHostLists, LoadAllIpsets, LoadFails, DryEnds, CreatePidfile,
       macos_utun_open, rawsend_preinit, Open, DropRoot, Daemonize, WritePid, LoopEnds, Goto, Exit
  <2>3. me' = me \/ me' = Who(params.uid)
    BY <1>2, Zenon DEF ProcessStep, TestLists, LoadAllHostLists, LoadAllIpsets, DryEnds, CreatePidfile, droproot,
       macos_utun_open, rawsend_preinit, Open, DropRoot, Daemonize, WritePid, LoopEnds, processVars
  <2>4. fds' \in {fds, {}, fds \cup {"utun"}, fds \cup {"bpf"}}
    BY <1>2, Zenon DEF ProcessStep, TestLists, LoadAllHostLists, LoadAllIpsets, DryEnds, CreatePidfile,
       macos_utun_open, rawsend_preinit, Open, DropRoot, Daemonize, WritePid, LoopEnds, processVars
  <2>5. pidfile' \in {pidfile, 0, pid} /\ pid' \in {pid, 2}
    BY <1>2, Zenon DEF ProcessStep, TestLists, LoadAllHostLists, LoadAllIpsets, DryEnds, CreatePidfile,
       macos_utun_open, rawsend_preinit, Open, DropRoot, Daemonize, WritePid, LoopEnds, processVars
  <2>6. Who(params.uid) \in {"root", "user"}
    BY DEF Who
  <2> QED BY <2>1, <2>2, <2>3, <2>4, <2>5, <2>6 DEF ProcessOK
<1> QED BY <1>1, <1>2 DEF Next

-----------------------------------------------------------------------------
(* How far main has come *)

(* What the disk and the lists do not change, they do not change of the tests. *)
LEMMA ListsFrame ==
  ASSUME ProcessStep
  PROVE  /\ files' = files /\ disk' = disk /\ params' = params
         /\ \A kind : ListFiles(kind)' = ListFiles(kind)
<1>1. files' = files /\ disk' = disk /\ params' = params
  BY ProcessFrame DEF lineVars
<1> QED BY <1>1 DEF ListFiles

(* Reading the line goes on with nothing open. *)
LEMMA LineReady ==
  ASSUME ReadyOK, CommandLineStep
  PROVE  ReadyOK'
<1>1. /\ phase \in {"start", "options", "finalise"}
      /\ phase' \in {"options", "finalise", "test", "exit"}
      /\ UNCHANGED <<me, loaded, fds, pidfile, pid>>
  BY LineFrame
<1>2. fds = {} /\ pid = 1
  BY <1>1 DEF ReadyOK, ClosedPhase, ReadingPhase
<1> QED BY <1>1, <1>2 DEF ReadyOK, ClosedPhase, ReadingPhase, OpenPhase, HostsRead, AllRead, Dropped

(* A step that stops the engine asks for nothing. *)
LEMMA ExitReady ==
  ASSUME phase' = "exit"
  PROVE  ReadyOK'
BY DEF ReadyOK, ClosedPhase, ReadingPhase, OpenPhase, HostsRead, AllRead, Dropped

(* The phases in turn: each does what the next one asks for. *)
LEMMA ProcessReady ==
  ASSUME ReadyOK, ParamsOK, ProcessStep
  PROVE  ReadyOK'
<1>0. /\ files' = files /\ disk' = disk /\ params' = params
      /\ \A kind : ListFiles(kind)' = ListFiles(kind)
  BY ListsFrame
<1>1. CASE TestLists
  <2>1. phase = "test" /\ phase' \in {"hostlists", "exit"} /\ UNCHANGED <<me, loaded, fds, pidfile, pid>>
    BY <1>1, Zenon DEF TestLists, Goto, Exit, processVars
  <2>2. fds = {} /\ pid = 1
    BY <2>1 DEF ReadyOK, ClosedPhase, ReadingPhase
  <2> QED BY <2>1, <2>2 DEF ReadyOK, ClosedPhase, ReadingPhase, OpenPhase, HostsRead, AllRead, Dropped
<1>2. CASE LoadAllHostLists
  <2>1. phase = "hostlists" /\ UNCHANGED <<me, fds, pidfile, pid>>
    BY <1>2, Zenon DEF LoadAllHostLists
  <2>2. phase' = "exit" \/ (Load("host") /\ phase' = "ipsets")
    BY <1>2, Zenon DEF LoadAllHostLists, LoadFails, Goto, Exit
  <2>3. fds = {} /\ pid = 1
    BY <2>1 DEF ReadyOK, ClosedPhase, ReadingPhase
  <2>4. Load("host") => IsRead("host")'
    BY <1>0 DEF Load, IsRead
  <2> HIDE DEF IsRead
  <2>5. CASE phase' = "ipsets"
    BY <2>1, <2>2, <2>3, <2>4, <2>5 DEF ReadyOK, ClosedPhase, ReadingPhase, OpenPhase, HostsRead, AllRead, Dropped
  <2> QED BY <2>2, <2>5, ExitReady
<1>3. CASE LoadAllIpsets
  <2>1. phase = "ipsets" /\ UNCHANGED <<me, fds, pidfile, pid>>
    BY <1>3, Zenon DEF LoadAllIpsets
  <2>2. phase' = "exit" \/ (Load("ip") /\ phase' \in {"dry", "pidfile"})
    BY <1>3, Zenon DEF LoadAllIpsets, LoadFails, Goto, Exit
  <2>3. fds = {} /\ pid = 1 /\ IsRead("host")
    BY <2>1 DEF ReadyOK, ClosedPhase, ReadingPhase, HostsRead
  <2>4. Load("ip") => IsRead("host")' /\ IsRead("ip")'
    BY <1>0, <2>3 DEF Load, IsRead
  <2>5. CASE phase' \in {"dry", "pidfile"}
    BY <2>1, <2>2, <2>3, <2>4, <2>5 DEF ReadyOK, ClosedPhase, ReadingPhase, OpenPhase, HostsRead, AllRead, Dropped
  <2> QED BY <2>2, <2>5, ExitReady
<1>4. CASE DryEnds
  <2>1. phase' = "exit"
    BY <1>4, Zenon DEF DryEnds, Exit
  <2> QED BY <2>1, ExitReady
<1>5. CASE CreatePidfile
  <2>1. phase = "pidfile" /\ UNCHANGED <<me, loaded, fds, pid>> /\ phase' \in {"utun", "exit"}
    BY <1>5, Zenon DEF CreatePidfile, Goto, Exit
  <2>2. IsRead("host")' = IsRead("host") /\ IsRead("ip")' = IsRead("ip")
    BY <1>0, <2>1 DEF IsRead
  <2>3. CASE phase' = "utun"
    BY <2>1, <2>2, <2>3 DEF ReadyOK, ClosedPhase, ReadingPhase, OpenPhase, HostsRead, AllRead, Dropped
  <2> QED BY <2>1, <2>3, ExitReady
<1>6. CASE macos_utun_open
  <2>1. phase = "utun" /\ UNCHANGED <<me, loaded, pidfile, pid>>
        /\ (phase' = "exit" \/ (fds' = fds \cup {"utun"} /\ phase' = "bpf"))
    BY <1>6, Zenon DEF macos_utun_open, Open, Goto, Exit
  <2>2. IsRead("host")' = IsRead("host") /\ IsRead("ip")' = IsRead("ip")
    BY <1>0, <2>1 DEF IsRead
  <2>3. CASE phase' = "bpf"
    BY <2>1, <2>2, <2>3 DEF ReadyOK, ClosedPhase, ReadingPhase, OpenPhase, HostsRead, AllRead, Dropped
  <2> QED BY <2>1, <2>3, ExitReady
<1>7. CASE rawsend_preinit
  <2>1. phase = "bpf" /\ UNCHANGED <<me, loaded, pidfile, pid>>
        /\ (phase' = "exit" \/ (fds' = fds \cup {"bpf"} /\ phase' = "drop"))
    BY <1>7, Zenon DEF rawsend_preinit, Open, Goto, Exit
  <2>2. IsRead("host")' = IsRead("host") /\ IsRead("ip")' = IsRead("ip")
    BY <1>0, <2>1 DEF IsRead
  <2>3. CASE phase' = "drop"
    BY <2>1, <2>2, <2>3 DEF ReadyOK, ClosedPhase, ReadingPhase, OpenPhase, HostsRead, AllRead, Dropped
  <2> QED BY <2>1, <2>3, ExitReady
<1>8. CASE DropRoot
  <2>1. /\ phase = "drop" /\ UNCHANGED <<loaded, pidfile, pid>>
        /\ phase' = "exit" \/ (me' = Who(params.uid) /\ test_list_files(me') /\ fds' = fds /\ phase' = "daemonize")
    BY <1>8, Zenon DEF DropRoot, droproot, Goto, Exit
  <2>2. IsRead("host")' = IsRead("host") /\ IsRead("ip")' = IsRead("ip")
    BY <1>0, <2>1 DEF IsRead
  <2>3. test_list_files(me') => test_list_files(me)'
    BY <1>0 DEF test_list_files
  <2>4. Who(params.uid)' = Who(params.uid)
    BY <1>0
  <2>5. CASE phase' = "daemonize"
    BY <2>1, <2>2, <2>3, <2>4, <2>5 DEF ReadyOK, ClosedPhase, ReadingPhase, OpenPhase, HostsRead, AllRead, Dropped
  <2> QED BY <2>1, <2>5, ExitReady
<1>9. CASE Daemonize
  <2>1. /\ phase = "daemonize" /\ UNCHANGED <<me, loaded, pidfile>>
        /\ \/ phase' = "exit"
           \/ ~params.daemon /\ UNCHANGED <<pid, fds>> /\ phase' = "writepid"
           \/ params.daemon /\ pid' = 2 /\ UNCHANGED fds /\ phase' = "writepid"
    BY <1>9, Zenon DEF Daemonize, Goto, Exit
  <2>2. IsRead("host")' = IsRead("host") /\ IsRead("ip")' = IsRead("ip")
    BY <1>0, <2>1 DEF IsRead
  <2>3. test_list_files(me)' = test_list_files(me) /\ Who(params.uid)' = Who(params.uid)
    BY <1>0, <2>1 DEF test_list_files
  <2>4. pid = 1 /\ params.daemon \in BOOLEAN
    BY <2>1 DEF ReadyOK, ParamsOK
  <2>5. phase' # "exit" => (pid' = 2) = params.daemon
    BY <2>1, <2>4
  <2>6. CASE phase' = "writepid"
    BY <1>0, <2>1, <2>2, <2>3, <2>5, <2>6 DEF ReadyOK, ClosedPhase, ReadingPhase, OpenPhase, HostsRead, AllRead, Dropped
  <2> QED BY <2>1, <2>6, ExitReady
<1>10. CASE WritePid
  <2>1. /\ phase = "writepid" /\ UNCHANGED <<me, loaded, pid>>
        /\ phase' = "exit" \/ (fds' = fds /\ phase' = "serving" /\ (params.pidfile # None => pidfile' = pid))
    BY <1>10, Zenon DEF WritePid, Goto, Exit
  <2>2. IsRead("host")' = IsRead("host") /\ IsRead("ip")' = IsRead("ip")
    BY <1>0, <2>1 DEF IsRead
  <2>3. test_list_files(me)' = test_list_files(me) /\ Who(params.uid)' = Who(params.uid)
    BY <1>0, <2>1 DEF test_list_files
  <2>4. CASE phase' = "serving"
    BY <1>0, <2>1, <2>2, <2>3, <2>4 DEF ReadyOK, ClosedPhase, ReadingPhase, OpenPhase, HostsRead, AllRead, Dropped
  <2> QED BY <2>1, <2>4, ExitReady
<1>11. CASE LoopEnds
  <2>1. phase' = "exit"
    BY <1>11, Zenon DEF LoopEnds, Exit
  <2> QED BY <2>1, ExitReady
<1> QED BY <1>1, <1>2, <1>3, <1>4, <1>5, <1>6, <1>7, <1>8, <1>9, <1>10, <1>11 DEF ProcessStep

-----------------------------------------------------------------------------
(* The invariant, and what follows from it *)

(* It holds at the start. *)
LEMMA InitInv ==
  ASSUME Init
  PROVE  IInv
<1>1. LineOK
  <2>1. line \in Lines /\ k = 1
    BY DEF Init
  <2>2. CanBe(line)
    BY <2>1, LineAssumption
  <2>3. Len(line) \in Nat
    BY <2>2 DEF CanBe
  <2> QED BY <2>1, <2>2, <2>3 DEF LineOK
<1>2. FilesOK
  <2>1. files = [host |-> <<>>, ip |-> <<>>]
    BY DEF Init
  <2>2. DOMAIN files = Kinds /\ files["host"] = <<>> /\ files["ip"] = <<>>
    BY <2>1 DEF Kinds
  <2>3. files = [kind \in Kinds |-> <<>>]
    BY <2>1 DEF Kinds
  <2>4. <<>> \in Seq(Entry)
    OBVIOUS
  <2> HIDE DEF Entry
  <2> QED BY <2>3, <2>4 DEF FilesOK
<1>3. DiskOK
  <2>1. disk \in Disks /\ loaded = {}
    BY DEF Init
  <2> QED BY <2>1, DiskAssumption DEF DiskOK
<1>4. ProfilesOK
  <2> DEFINE e == [dp_init EXCEPT !.n = 1]
  <2>1. profiles = <<e>>
    BY DEF Init
  <2>2. Fits(e, files, 1)
    <3>1. 1 \in 0 .. 1 /\ 1 \in Nat
      OBVIOUS
    <3> QED BY <3>1, FitsNew
  <2> HIDE DEF e
  <2>3. profiles \in Seq({e}) /\ Len(profiles) = 1 /\ profiles # <<>>
    BY <2>1
  <2>4. IsSeq(profiles) /\ ToSet(profiles) \subseteq {e}
    BY <2>3, OwnElements
  <2> QED BY <2>2, <2>3, <2>4 DEF ProfilesOK
<1>5. AnonOK
  <2>1. anon = [c \in Collections |-> 0] /\ files = [host |-> <<>>, ip |-> <<>>]
    BY DEF Init, NoAnon
  <2>2. Len(files["host"]) = 0 /\ Len(files["ip"]) = 0
    BY <2>1
  <2>3. \A c \in Collections : KindOf(c) \in {"host", "ip"}
    BY DEF KindOf
  <2> QED BY <2>1, <2>2, <2>3 DEF AnonOK
<1>6. ParamsOK
  BY DEF Init, ParamsOK, DefaultParams
<1>7. ProcessOK
  <2>1. skip \in BOOLEAN /\ dry \in BOOLEAN
    BY Zenon DEF Init
  <2>2. /\ me \in {"root", "user"} /\ fds = {}
        /\ pidfile = 0 /\ pid = 1 /\ code = 0
    BY Zenon DEF Init
  <2> QED BY <2>1, <2>2 DEF ProcessOK
<1>8. ReadyOK
  BY DEF Init, ReadyOK, ClosedPhase, ReadingPhase, OpenPhase, HostsRead, AllRead, Dropped
<1> QED BY <1>1, <1>2, <1>3, <1>4, <1>5, <1>6, <1>7, <1>8 DEF IInv

(* Every step keeps it. *)
LEMMA NextInv ==
  ASSUME IInv, Next
  PROVE  IInv'
<1>1. LineOK /\ FilesOK /\ DiskOK /\ ProfilesOK /\ AnonOK /\ ParamsOK /\ ProcessOK /\ ReadyOK
  BY DEF IInv
<1>2. LineOK'
  BY <1>1, LineKept
<1>3. FilesOK'
  BY <1>1, FilesKept
<1>4. DiskOK'
  BY <1>1, DiskKept
<1>5. ProfilesOK'
  BY <1>1, ProfilesKept
<1>6. AnonOK'
  BY <1>1, AnonKept
<1>7. ParamsOK'
  BY <1>1, ParamsKept
<1>8. ProcessOK'
  BY <1>1, ProcessKept
<1>9. ReadyOK'
  BY <1>1, LineReady, ProcessReady DEF Next
<1> QED BY <1>2, <1>3, <1>4, <1>5, <1>6, <1>7, <1>8, <1>9 DEF IInv

(* A step that changes nothing does too. *)
LEMMA StutterInv ==
  ASSUME IInv, UNCHANGED vars
  PROVE  IInv'
<1>1. /\ line' = line /\ k' = k /\ profiles' = profiles /\ skip' = skip /\ dry' = dry /\ anon' = anon
      /\ files' = files /\ params' = params /\ disk' = disk /\ me' = me /\ loaded' = loaded /\ fds' = fds
      /\ pidfile' = pidfile /\ pid' = pid /\ phase' = phase /\ code' = code
  BY DEF vars, lineVars, processVars
<1>2. LineOK' = LineOK
  BY <1>1 DEF LineOK
<1>3. FilesOK' = FilesOK
  BY <1>1 DEF FilesOK, Entry
<1>4. DiskOK' = DiskOK
  BY <1>1 DEF DiskOK
<1>5. ProfilesOK' = ProfilesOK
  BY <1>1 DEF ProfilesOK
<1>6. AnonOK' = AnonOK
  BY <1>1 DEF AnonOK
<1>7. ParamsOK' = ParamsOK
  BY <1>1 DEF ParamsOK
<1>8. ProcessOK' = ProcessOK
  BY <1>1 DEF ProcessOK
<1>9. ReadyOK' = ReadyOK
  <2>1. IsRead("host")' = IsRead("host") /\ IsRead("ip")' = IsRead("ip")
    BY <1>1 DEF IsRead, ListFiles
  <2>2. test_list_files(me)' = test_list_files(me)
    BY <1>1 DEF test_list_files, ListFiles
  <2> QED BY <1>1, <2>1, <2>2 DEF ReadyOK
<1> QED BY <1>2, <1>3, <1>4, <1>5, <1>6, <1>7, <1>8, <1>9 DEF IInv

(* The invariant of Startup: the line and the lists are of the configuration   *)
(* and of the disk, every profile fits them, and main has done what its phase  *)
(* asks for (nfqws.c:main, darwin_main).                                       *)
THEOREM Invariance == Spec => []IInv
<1>1. Init => IInv
  BY InitInv
<1>2. IInv /\ [Next]_vars => IInv'
  BY NextInv, StutterInv
<1> QED BY <1>1, <1>2, PTL DEF Spec

(* Every variable stays in its range, whatever the line: a collection of a     *)
(* profile never names a list that is not registered, and no profile has more  *)
(* positions than fit (nfqws.c:main).                                          *)
THEOREM TypeCorrect == Spec => []TypeOK
<1>1. IInv => TypeOK
  <2> SUFFICES ASSUME IInv PROVE TypeOK
    OBVIOUS
  <2>1. line \in Lines \cup {Config[f] : f \in DOMAIN Config} \cup {<<>>} /\ k \in 1 .. Len(line) + 1
    BY DEF IInv, LineOK
  <2>2. \A p \in ToSet(profiles) :
          /\ DOMAIN p = DOMAIN dp_init
          /\ p.n \in 0 .. Len(profiles) /\ Len(p.splits) <= MaxSplits
          /\ p.hl \cup p.hl_exclude \subseteq DOMAIN files.host
          /\ p.ips \cup p.ips_exclude \subseteq DOMAIN files.ip
          /\ p.auto \in {0} \cup p.hl
    BY DEF IInv, ProfilesOK, Fits, Splits
  <2>3. \A c \in Collections : anon[c] \in 0 .. Len(files.host) + Len(files.ip)
    <3>1. Len(files.host) \in Nat /\ Len(files.ip) \in Nat
      BY DEF IInv, FilesOK, Kinds
    <3>2. ASSUME NEW c \in Collections
          PROVE  anon[c] \in 0 .. Len(files.host) + Len(files.ip)
      <4>1. anon[c] \in Nat /\ anon[c] <= Len(files[KindOf(c)])
        BY DEF IInv, AnonOK
      <4>2. KindOf(c) = "host" \/ KindOf(c) = "ip"
        BY DEF KindOf
      <4>3. anon[c] <= Len(files.host) \/ anon[c] <= Len(files.ip)
        BY <4>1, <4>2
      <4> DEFINE h == Len(files.host)
                 i == Len(files.ip)
                 a == anon[c]
      <4>4. h \in Nat /\ i \in Nat /\ a \in Nat /\ (a <= h \/ a <= i)
        BY <3>1, <4>1, <4>3
      <4> HIDE DEF h, i, a
      <4>5. a \in 0 .. h + i
        BY <4>4
      <4> QED BY <4>5 DEF h, i, a
    <3> QED BY <3>2
  <2>4. DOMAIN params = DOMAIN DefaultParams(TRUE)
    BY DEF IInv, ParamsOK
  <2>5. disk \in [DOMAIN disk -> SUBSET {"root", "user"}] /\ loaded \subseteq DOMAIN disk
    BY DEF IInv, DiskOK
  <2>6. /\ skip \in BOOLEAN /\ dry \in BOOLEAN
        /\ me \in {"root", "user"} /\ fds \subseteq {"utun", "bpf"}
        /\ pidfile \in 0 .. 2 /\ pid \in {1, 2} /\ code \in 0 .. 2
    BY DEF IInv, ProcessOK
  <2>7. phase \in {"start", "options", "finalise", "test", "hostlists", "ipsets", "dry", "pidfile",
                   "utun", "bpf", "drop", "daemonize", "writepid", "serving", "exit"}
    BY DEF IInv, ReadyOK, ClosedPhase, ReadingPhase, OpenPhase
  <2> QED BY <2>1, <2>2, <2>3, <2>4, <2>5, <2>6, <2>7 DEF TypeOK
<1> QED BY <1>1, Invariance, PTL

(* An engine that serves runs as whom it was told to, could open every list of *)
(* its profiles as that user and has read it, holds both descriptors that only *)
(* root can open, and its pid file names it (nfqws.c:darwin_main).             *)
THEOREM ServesReady == Spec => []RunsReady
<1>1. IInv => RunsReady
  <2> SUFFICES ASSUME IInv, phase = "serving" PROVE RunsReady
    BY DEF RunsReady
  <2>1. /\ me = Who(params.uid) /\ test_list_files(me) /\ fds = {"utun", "bpf"}
        /\ IsRead("host") /\ IsRead("ip") /\ (params.pidfile # None => pidfile = pid)
        /\ (pid = 2) = params.daemon
    BY DEF IInv, ReadyOK, Dropped, OpenPhase, HostsRead, AllRead
  <2>2. ASSUME NEW p \in ToSet(profiles)
        PROVE  /\ Named("host", p.hl \cup p.hl_exclude) \subseteq ListFiles("host")
               /\ Named("ip", p.ips \cup p.ips_exclude) \subseteq ListFiles("ip")
    <3>1. /\ p.hl \cup p.hl_exclude \subseteq DOMAIN files["host"]
          /\ p.ips \cup p.ips_exclude \subseteq DOMAIN files["ip"]
      BY DEF IInv, ProfilesOK, Fits
    <3> QED BY <3>1 DEF Named, ListFiles, ToSet
  <2>3. \A f \in ListFiles("host") \cup ListFiles("ip") : me \in disk[f]
    BY <2>1 DEF test_list_files
  <2>4. \A f \in ListFiles("host") \cup ListFiles("ip") : f \in loaded
    BY <2>1, <2>3 DEF IsRead
  <2> QED BY <2>1, <2>2, <2>3, <2>4 DEF RunsReady
<1> QED BY <1>1, Invariance, PTL

-----------------------------------------------------------------------------
(* The sections of a line *)

\* The first n options of a line are read: the section that goes on, what is read of a section, and what is kept so far
Current(l, n, c) == c \in Begins(l) /\ c <= n /\ \A i \in c + 1 .. n : l[i].opt # "new"
SoFar(l, b, n) == {j \in Section(l, b) : j <= n}
KeptAt(l, n) == {b \in Begins(l) : b <= n /\ Given(l, SoFar(l, b, n), {"skip"}) = {}}
PlaceAt(l, n, b) == Cardinality({c \in KeptAt(l, n) : c <= b})

IsLine(l) == l \in Seq(Option)

(* What one more position gives *)
LEMMA GivenMore ==
  ASSUME NEW l, NEW s, NEW j, NEW options
  PROVE  Given(l, s \cup {j}, options) = Given(l, s, options) \cup (IF l[j].opt \in options THEN {j} ELSE {})
BY DEF Given

(* One more option names one more file. *)
LEMMA FilesMore ==
  ASSUME NEW l, NEW s, NEW j, NEW options
  PROVE  FilesOf(l, s \cup {j}, options)
           = FilesOf(l, s, options) \cup (IF l[j].opt \in options THEN {l[j].arg[1].w} ELSE {})
<1>1. CASE l[j].opt \in options
  <2>1. Given(l, s \cup {j}, options) = Given(l, s, options) \cup {j}
    BY <1>1, GivenMore
  <2> QED BY <1>1, <2>1 DEF FilesOf
<1>2. CASE l[j].opt \notin options
  <2>1. Given(l, s \cup {j}, options) = Given(l, s, options)
    BY <1>2 DEF Given
  <2> QED BY <1>2, <2>1 DEF FilesOf
<1> QED BY <1>1, <1>2

(* One more option gives all its words. *)
LEMMA WordsMore ==
  ASSUME NEW l, NEW s, NEW j, NEW options, l[j].opt \in options
  PROVE  WordsOf(l, s \cup {j}, options) = WordsOf(l, s, options) \cup Words(l[j].arg)
<1>1. Given(l, s \cup {j}, options) = Given(l, s, options) \cup {j}
  BY GivenMore
<1> QED BY <1>1 DEF WordsOf

(* An option says nothing of what it is not about. *)
LEMMA NotSaid ==
  ASSUME NEW l, NEW s, NEW j, NEW options, l[j].opt \notin options
  PROVE  /\ Given(l, s \cup {j}, options) = Given(l, s, options)
         /\ FilesOf(l, s \cup {j}, options) = FilesOf(l, s, options)
         /\ WordsOf(l, s \cup {j}, options) = WordsOf(l, s, options)
<1>1. Given(l, s \cup {j}, options) = Given(l, s, options)
  BY DEF Given
<1> QED BY <1>1 DEF FilesOf, WordsOf

(* The section that goes on is the only one that the next option belongs to. *)
LEMMA SectionStep ==
  ASSUME NEW l, IsLine(l), NEW n \in Nat, n + 1 \in DOMAIN l, NEW c, Current(l, n, c),
         NEW b \in Begins(l), b <= n
  PROVE  /\ b <= c
         /\ l[n + 1].opt = "new" \/ b # c => SoFar(l, b, n + 1) = SoFar(l, b, n)
         /\ l[n + 1].opt # "new" /\ b = c => SoFar(l, b, n + 1) = SoFar(l, b, n) \cup {n + 1}
         /\ n + 1 \in Section(l, b) <=> (b = c /\ l[n + 1].opt # "new")
<1>1. Len(l) \in Nat /\ DOMAIN l = 1 .. Len(l)
  BY DEF IsLine
<1>2. b \in Nat /\ c \in Nat /\ c <= n /\ (b = 0 \/ (b \in DOMAIN l /\ l[b].opt = "new"))
      /\ \A i \in c + 1 .. n : l[i].opt # "new"
  BY <1>1 DEF Begins, Current
<1>3. b <= c
  <2> SUFFICES ASSUME b > c PROVE FALSE
    BY <1>2
  <2>1. b \in c + 1 .. n /\ b # 0
    BY <1>2
  <2> QED BY <1>2, <2>1
<1>4. n + 1 \in Section(l, b) <=> (b = c /\ l[n + 1].opt # "new")
  <2>1. n + 1 \in Section(l, b) <=> \A i \in b + 1 .. n + 1 : l[i].opt # "new"
    BY <1>2 DEF Section
  <2>2. CASE b = c
    <3>1. \A i \in c + 1 .. n + 1 : i \in c + 1 .. n \/ i = n + 1
      BY <1>2
    <3>2. n + 1 \in c + 1 .. n + 1
      BY <1>2
    <3> QED BY <1>2, <2>1, <2>2, <3>1, <3>2
  <2>3. CASE b # c
    <3>1. c \in b + 1 .. n + 1 /\ c # 0
      BY <1>2, <1>3, <2>3
    <3>2. l[c].opt = "new"
      BY <3>1 DEF Current, Begins
    <3> QED BY <2>1, <2>3, <3>1, <3>2
  <2> QED BY <2>2, <2>3
<1>5. Section(l, b) \subseteq Nat
  BY <1>1 DEF Section
<1>6. SoFar(l, b, n + 1) = SoFar(l, b, n) \cup (IF n + 1 \in Section(l, b) THEN {n + 1} ELSE {})
  <2>1. \A j \in Section(l, b) : j <= n + 1 <=> (j <= n \/ j = n + 1)
    BY <1>5
  <2> QED BY <2>1 DEF SoFar
<1> QED BY <1>3, <1>4, <1>6

(* The section that goes on *)
LEMMA CurrentStep ==
  ASSUME NEW l, IsLine(l), NEW n \in Nat, n + 1 \in DOMAIN l, NEW c, Current(l, n, c)
  PROVE  /\ c \in 0 .. n
         /\ l[n + 1].opt # "new" => Current(l, n + 1, c)
         /\ l[n + 1].opt = "new" => Current(l, n + 1, n + 1) /\ SoFar(l, n + 1, n + 1) = {}
<1>1. Len(l) \in Nat /\ DOMAIN l = 1 .. Len(l)
  BY DEF IsLine
<1>2. c \in Nat /\ c <= n
  BY <1>1 DEF Begins, Current
<1>3. ASSUME l[n + 1].opt # "new" PROVE Current(l, n + 1, c)
  <2>1. \A i \in c + 1 .. n + 1 : i \in c + 1 .. n \/ i = n + 1
    BY <1>2
  <2> QED BY <1>2, <1>3, <2>1 DEF Current
<1>4. ASSUME l[n + 1].opt = "new" PROVE Current(l, n + 1, n + 1) /\ SoFar(l, n + 1, n + 1) = {}
  <2>1. \A i \in (n + 1) + 1 .. n + 1 : FALSE
    OBVIOUS
  <2>2. \A j \in Section(l, n + 1) : j > n + 1 /\ j \in Nat
    BY <1>1 DEF Section
  <2> QED BY <1>4, <2>1, <2>2 DEF Current, Begins, SoFar
<1> QED BY <1>2, <1>3, <1>4

(* What is kept with one more option read *)
LEMMA KeptStep ==
  ASSUME NEW l, IsLine(l), NEW n \in Nat, n + 1 \in DOMAIN l, NEW c, Current(l, n, c)
  PROVE  /\ l[n + 1].opt \notin {"new", "skip"} => KeptAt(l, n + 1) = KeptAt(l, n)
         /\ l[n + 1].opt = "skip" => KeptAt(l, n + 1) = KeptAt(l, n) \ {c}
         /\ l[n + 1].opt = "new" => KeptAt(l, n + 1) = KeptAt(l, n) \cup {n + 1}
<1> DEFINE G(b, m) == Given(l, SoFar(l, b, m), {"skip"})
<1>1. Begins(l) \subseteq Nat
  BY DEF Begins, IsLine
<1>2. ASSUME NEW b \in Begins(l), b <= n
      PROVE  G(b, n + 1) = G(b, n) \cup (IF b = c /\ l[n + 1].opt = "skip" THEN {n + 1} ELSE {})
  <2>1. CASE l[n + 1].opt = "new" \/ b # c
    <3>1. SoFar(l, b, n + 1) = SoFar(l, b, n)
      BY <1>2, <2>1, SectionStep
    <3> QED BY <2>1, <3>1
  <2>2. CASE l[n + 1].opt # "new" /\ b = c
    <3>1. SoFar(l, b, n + 1) = SoFar(l, b, n) \cup {n + 1}
      BY <1>2, <2>2, SectionStep
    <3>2. G(b, n + 1) = G(b, n) \cup (IF l[n + 1].opt \in {"skip"} THEN {n + 1} ELSE {})
      BY <3>1, GivenMore
    <3> HIDE DEF G
    <3> QED BY <2>2, <3>2
  <2> QED BY <2>1, <2>2
<1>3. \A b \in Begins(l) : b <= n + 1 <=> (b <= n \/ b = n + 1)
  BY <1>1
<1>4. n + 1 \in Begins(l) <=> l[n + 1].opt = "new"
  BY DEF Begins
<1>5. l[n + 1].opt = "new" => G(n + 1, n + 1) = {}
  BY CurrentStep DEF Given
<1>6. c \in Begins(l) /\ c <= n
  BY DEF Current
<1>7. \A m \in {n, n + 1} : KeptAt(l, m) = {b \in Begins(l) : b <= m /\ G(b, m) = {}}
  BY DEF KeptAt
<1>8. n + 1 \notin KeptAt(l, n) /\ n + 1 # c
  BY <1>6, <1>1 DEF KeptAt
<1> HIDE DEF G
<1>9. CASE l[n + 1].opt = "new"
  <2>1. \A b \in Begins(l) : b <= n => G(b, n + 1) = G(b, n)
    BY <1>2, <1>9
  <2> QED BY <1>3, <1>4, <1>5, <1>7, <1>9, <2>1
<1>10. CASE l[n + 1].opt # "new"
  <2>1. \A b \in Begins(l) : b <= n + 1 <=> b <= n
    BY <1>3, <1>4, <1>10
  <2>2. \A b \in Begins(l) : b <= n => (G(b, n + 1) = {} <=> G(b, n) = {} /\ ~(b = c /\ l[n + 1].opt = "skip"))
    BY <1>2
  <2> QED BY <1>6, <1>7, <1>10, <2>1, <2>2
<1> QED BY <1>9, <1>10

(* The section that goes on is the last one. *)
LEMMA CurrentIsLast ==
  ASSUME NEW l, IsLine(l), NEW n \in Nat, NEW c, Current(l, n, c), NEW b \in Begins(l), b <= n
  PROVE  b \in Nat /\ c \in Nat /\ b <= c
<1>1. Len(l) \in Nat /\ DOMAIN l = 1 .. Len(l)
  BY DEF IsLine
<1>2. b \in Nat /\ c \in Nat /\ c <= n /\ (b = 0 \/ (b \in DOMAIN l /\ l[b].opt = "new"))
      /\ \A i \in c + 1 .. n : l[i].opt # "new"
  BY <1>1 DEF Begins, Current
<1> SUFFICES ASSUME b > c PROVE FALSE
  BY <1>2
<1>3. b \in c + 1 .. n /\ b # 0
  BY <1>2
<1> QED BY <1>2, <1>3

UpTo(K, b) == {d \in K : d <= b}

(* The places of the sections that are kept: those before the one that goes on *)
(* are below it.                                                               *)
LEMMA Places ==
  ASSUME NEW l, IsLine(l), NEW n \in Nat, NEW c, Current(l, n, c)
  PROVE  /\ Cardinality(KeptAt(l, n) \ {c}) \in Nat
         /\ c \in KeptAt(l, n) =>
              /\ Cardinality(KeptAt(l, n)) = Cardinality(KeptAt(l, n) \ {c}) + 1
              /\ PlaceAt(l, n, c) = Cardinality(KeptAt(l, n) \ {c}) + 1
         /\ \A b \in KeptAt(l, n) \ {c} :
              /\ b \in Nat /\ b < c
              /\ PlaceAt(l, n, b) \in 1 .. Cardinality(KeptAt(l, n) \ {c})
              /\ PlaceAt(l, n, b) = Cardinality(UpTo(KeptAt(l, n) \ {c}, b))
<1> DEFINE K == KeptAt(l, n)
<1>1. \A b \in K : b \in Nat /\ b <= c /\ b <= n
  BY CurrentIsLast DEF KeptAt
<1>2. c \in Nat
  BY CurrentIsLast DEF Current
<1>3. IsFiniteSet(K)
  <2>1. \A b \in K : b \in 0 .. n
    BY <1>1
  <2>2. K \subseteq 0 .. n
    BY <2>1
  <2>3. IsFiniteSet(0 .. n)
    BY FS_Interval
  <2> QED BY <2>2, <2>3, FS_Subset
<1>4. \A b : PlaceAt(l, n, b) = Cardinality({d \in K : d <= b})
  BY DEF PlaceAt
<1> HIDE DEF K
<1>5. IsFiniteSet(K \ {c}) /\ Cardinality(K \ {c}) \in Nat
  BY <1>3, FS_Subset, FS_CardinalityType
<1>6. ASSUME c \in K
      PROVE  Cardinality(K) = Cardinality(K \ {c}) + 1 /\ PlaceAt(l, n, c) = Cardinality(K \ {c}) + 1
  <2>1. Cardinality(K \ {c}) = Cardinality(K) - 1 /\ Cardinality(K) \in Nat
    BY <1>3, <1>6, FS_RemoveElement, FS_CardinalityType
  <2>2. {d \in K : d <= c} = K
    BY <1>1
  <2> QED BY <1>4, <2>1, <2>2
<1>7. ASSUME NEW b \in K \ {c}
      PROVE  /\ b \in Nat /\ b < c
             /\ PlaceAt(l, n, b) \in 1 .. Cardinality(K \ {c})
             /\ PlaceAt(l, n, b) = Cardinality(UpTo(K \ {c}, b))
  <2> DEFINE D == {d \in K : d <= b}
  <2>1. b \in Nat /\ b < c /\ b \in D
    BY <1>1, <1>2
  <2>2. D = {d \in K \ {c} : d <= b}
    BY <2>1, <1>2
  <2>3. D \subseteq K \ {c}
    BY <2>2
  <2> HIDE DEF D
  <2>4. IsFiniteSet(D) /\ Cardinality(D) \in Nat /\ Cardinality(D) <= Cardinality(K \ {c})
    BY <1>5, <2>3, FS_Subset, FS_CardinalityType
  <2>5. Cardinality(D) # 0
    BY <2>1, <2>4, FS_EmptySet
  <2>6. Cardinality(D) \in 1 .. Cardinality(K \ {c})
    BY <1>5, <2>4, <2>5
  <2>7. PlaceAt(l, n, b) = Cardinality(D)
    BY <1>4 DEF D
  <2>8. D = UpTo(K \ {c}, b)
    BY <2>2 DEF UpTo
  <2> QED BY <2>1, <2>6, <2>7, <2>8
<1> QED BY <1>5, <1>6, <1>7 DEF K

(* The place of a section that is over is counted without the one that goes on. *)
LEMMA PlaceBelow ==
  ASSUME NEW l, IsLine(l), NEW n \in Nat, NEW c, Current(l, n, c), NEW b \in KeptAt(l, n) \ {c}
  PROVE  PlaceAt(l, n, b) = Cardinality(UpTo(KeptAt(l, n) \ {c}, b))
BY Places

(* The places stay as more of the line is read. *)
LEMMA PlacesStep ==
  ASSUME NEW l, IsLine(l), NEW n \in Nat, n + 1 \in DOMAIN l, NEW c, Current(l, n, c)
  PROVE  /\ l[n + 1].opt \notin {"new", "skip"} => \A b \in KeptAt(l, n) : PlaceAt(l, n + 1, b) = PlaceAt(l, n, b)
         /\ l[n + 1].opt = "skip" => \A b \in KeptAt(l, n) \ {c} : PlaceAt(l, n + 1, b) = PlaceAt(l, n, b)
         /\ l[n + 1].opt = "new" => \A b \in KeptAt(l, n) : PlaceAt(l, n + 1, b) = PlaceAt(l, n, b)
<1>1. ASSUME l[n + 1].opt \notin {"new", "skip"}
      PROVE  \A b \in KeptAt(l, n) : PlaceAt(l, n + 1, b) = PlaceAt(l, n, b)
  <2>1. KeptAt(l, n + 1) = KeptAt(l, n)
    BY <1>1, KeptStep
  <2> QED BY <2>1 DEF PlaceAt
<1>2. ASSUME l[n + 1].opt = "skip"
      PROVE  \A b \in KeptAt(l, n) \ {c} : PlaceAt(l, n + 1, b) = PlaceAt(l, n, b)
  <2>1. KeptAt(l, n + 1) = KeptAt(l, n) \ {c}
    BY <1>2, KeptStep
  <2>2. \A b : PlaceAt(l, n + 1, b) = Cardinality(UpTo(KeptAt(l, n) \ {c}, b))
    BY <2>1 DEF PlaceAt, UpTo
  <2>3. ASSUME NEW b \in KeptAt(l, n) \ {c}
        PROVE  PlaceAt(l, n, b) = Cardinality(UpTo(KeptAt(l, n) \ {c}, b))
    BY PlaceBelow
  <2> HIDE DEF PlaceAt
  <2> QED BY <2>2, <2>3, Zenon
<1>3. ASSUME l[n + 1].opt = "new", NEW b \in KeptAt(l, n)
      PROVE  PlaceAt(l, n + 1, b) = PlaceAt(l, n, b)
  <2>1. KeptAt(l, n + 1) = KeptAt(l, n) \cup {n + 1}
    BY <1>3, KeptStep
  <2>2. b \in Nat /\ b <= n
    BY CurrentIsLast DEF KeptAt
  <2>3. {d \in KeptAt(l, n) \cup {n + 1} : d <= b} = {d \in KeptAt(l, n) : d <= b}
    BY <2>2
  <2> QED BY <2>1, <2>3 DEF PlaceAt
<1> QED BY <1>1, <1>2, <1>3

(* When the whole line is read *)
LEMMA WholeLine ==
  ASSUME NEW l, IsLine(l)
  PROVE  /\ KeptAt(l, Len(l)) = Kept(l)
         /\ \A b \in Begins(l) : SoFar(l, b, Len(l)) = Section(l, b)
         /\ \A b : PlaceAt(l, Len(l), b) = Place(l, b)
<1>1. Len(l) \in Nat /\ DOMAIN l = 1 .. Len(l)
  BY DEF IsLine
<1>2. \A b \in Begins(l) : b <= Len(l)
  BY <1>1 DEF Begins
<1>3. ASSUME NEW b PROVE SoFar(l, b, Len(l)) = Section(l, b)
  BY <1>1 DEF SoFar, Section
<1>4. KeptAt(l, Len(l)) = Kept(l)
  BY <1>2, <1>3 DEF KeptAt, Kept
<1> QED BY <1>3, <1>4 DEF PlaceAt, Place

(* A nonempty set of numbers has a least one. *)
LEMMA LeastNumber ==
  ASSUME NEW T \in SUBSET Nat, T # {}
  PROVE  \E x \in T : \A y \in T : x <= y
<1>1. IsWellFoundedOn(OpToRel(<, Nat), Nat)
  BY NatLessThanWellFounded
<1>2. PICK x \in T : \A y \in T : ~ (<<y, x>> \in OpToRel(<, Nat))
  BY <1>1, WFMin
<1>3. \A y, z \in Nat : <<y, z>> \in OpToRel(<, Nat) <=> y < z
  BY DEF OpToRel
<1>4. ASSUME NEW y \in T PROVE x <= y
  <2>1. x \in Nat /\ y \in Nat /\ ~(y < x)
    BY <1>2, <1>3
  <2> QED BY <2>1
<1> QED BY <1>4

(* A set of numbers that has zero, and with a number the next one, has them all. *)
LEMMA EveryNumber ==
  ASSUME NEW S \in SUBSET Nat, 0 \in S, \A n \in S : n + 1 \in S
  PROVE  S = Nat
<1> SUFFICES ASSUME S # Nat PROVE FALSE
  OBVIOUS
<1>1. PICK x \in Nat \ S : \A y \in Nat \ S : x <= y
  <2>1. Nat \ S \in SUBSET Nat /\ Nat \ S # {}
    OBVIOUS
  <2> QED BY <2>1, LeastNumber
<1>2. x # 0 /\ x - 1 \in Nat /\ x - 1 \notin Nat \ S
  BY <1>1
<1> QED BY <1>2

\* What one more option makes of the profiles of a section
MadeThen(l, s, n) ==
  MadeBy(l, s)[n + 1] = IF n + 1 \in Given(l, s, ProfileOption)
                          THEN UNION {Assigned(l[n + 1], p) : p \in MadeBy(l, s)[n]}
                          ELSE MadeBy(l, s)[n]

(* What the options of a section make of a profile, option by option *)
LEMMA MadeStep ==
  ASSUME NEW l, IsLine(l), NEW s
  PROVE  /\ MadeBy(l, s)[0] = {dp_init}
         /\ \A n \in Nat : n + 1 \in DOMAIN l => MadeThen(l, s, n)
<1> DEFINE L == Len(l)
           G == Given(l, s, ProfileOption)
           Then(j, P) == IF j \in G THEN UNION {Assigned(l[j], p) : p \in P} ELSE P
           Ok(m, f) == \A j \in 0 .. m : f[j] = IF j = 0 THEN {dp_init} ELSE Then(j, f[j - 1])
           Ex(m) == \E f : DOMAIN f = 0 .. m /\ f = [j \in 0 .. m |-> f[j]] /\ Ok(m, f)
           N == {m \in Nat : Ex(m)}
           made == CHOOSE f : f = [j \in 0 .. L |-> IF j = 0 THEN {dp_init}
                                                   ELSE IF j \in G THEN UNION {Assigned(l[j], p) : p \in f[j - 1]}
                                                   ELSE f[j - 1]]
<1>1. L \in Nat /\ DOMAIN l = 1 .. L
  BY DEF IsLine
<1>2. 0 \in N
  <2> DEFINE f == [j \in 0 .. 0 |-> {dp_init}]
  <2>1. DOMAIN f = 0 .. 0 /\ f = [j \in 0 .. 0 |-> f[j]] /\ \A j \in 0 .. 0 : j = 0 /\ f[j] = {dp_init}
    OBVIOUS
  <2> HIDE DEF f, Then
  <2>2. Ok(0, f)
    BY <2>1
  <2> QED BY <2>1, <2>2
<1>3. ASSUME NEW m \in N PROVE m + 1 \in N
  <2> HIDE DEF Then
  <2>1. m \in Nat
    OBVIOUS
  <2>2. PICK f : DOMAIN f = 0 .. m /\ Ok(m, f)
    OBVIOUS
  <2> DEFINE h == [j \in 0 .. m + 1 |-> IF j = m + 1 THEN Then(m + 1, f[m]) ELSE f[j]]
  <2>3. ASSUME NEW j \in 0 .. m + 1
        PROVE  h[j] = IF j = 0 THEN {dp_init} ELSE Then(j, h[j - 1])
    <3>1. CASE j = m + 1
      <4>1. h[m] = f[m]
        BY <2>1
      <4> QED BY <4>1, <3>1, <2>1
    <3>2. CASE j # m + 1
      <4>1. j \in 0 .. m /\ h[j] = f[j] /\ (j # 0 => h[j - 1] = f[j - 1])
        BY <3>2, <2>1
      <4> HIDE DEF h
      <4> QED BY <4>1, <2>2
    <3> QED BY <3>1, <3>2
  <2>4. DOMAIN h = 0 .. m + 1 /\ h = [j \in 0 .. m + 1 |-> h[j]]
    OBVIOUS
  <2> HIDE DEF h
  <2>5. Ex(m + 1)
    BY <2>3, <2>4
  <2> HIDE DEF Ex
  <2> QED BY <2>1, <2>5
<1>4. N = Nat
  <2> HIDE DEF N
  <2>1. N \in SUBSET Nat
    BY DEF N
  <2> QED BY <1>2, <1>3, <2>1, EveryNumber
<1>5. Ex(L)
  <2>1. L \in N
    <3> HIDE DEF N
    <3> QED BY <1>1, <1>4
  <2> HIDE DEF Ex
  <2> QED BY <2>1
<1>6. PICK f : f = [j \in 0 .. L |-> f[j]] /\ Ok(L, f)
  <2> HIDE DEF Ok
  <2> QED BY <1>5
<1>7. f = [j \in 0 .. L |-> IF j = 0 THEN {dp_init}
                            ELSE IF j \in G THEN UNION {Assigned(l[j], p) : p \in f[j - 1]} ELSE f[j - 1]]
  <2>1. \A j \in 0 .. L : f[j] = IF j = 0 THEN {dp_init}
                                 ELSE IF j \in G THEN UNION {Assigned(l[j], p) : p \in f[j - 1]} ELSE f[j - 1]
    BY <1>6, Zenon
  <2> QED BY <1>6, <2>1, Zenon
<1>8. made = [j \in 0 .. L |-> IF j = 0 THEN {dp_init}
                               ELSE IF j \in G THEN UNION {Assigned(l[j], p) : p \in made[j - 1]} ELSE made[j - 1]]
  BY <1>7, Zenon
<1>9. MadeBy(l, s) = made
  BY Zenon DEF MadeBy
<1> HIDE DEF made
<1>10. \A j \in 0 .. L : made[j] = IF j = 0 THEN {dp_init}
                                   ELSE IF j \in G THEN UNION {Assigned(l[j], p) : p \in made[j - 1]} ELSE made[j - 1]
  BY <1>8, Zenon
<1>11. made[0] = {dp_init}
  <2>1. 0 \in 0 .. L
    BY <1>1
  <2> QED BY <1>10, <2>1, Zenon
<1>12. ASSUME NEW n \in Nat, n + 1 \in DOMAIN l
       PROVE  made[n + 1] = IF n + 1 \in G THEN UNION {Assigned(l[n + 1], p) : p \in made[n]} ELSE made[n]
  <2>1. n + 1 \in 0 .. L /\ n + 1 # 0 /\ (n + 1) - 1 = n
    BY <1>1, <1>12
  <2>2. made[n + 1] = IF n + 1 \in G THEN UNION {Assigned(l[n + 1], p) : p \in made[(n + 1) - 1]} ELSE made[(n + 1) - 1]
    BY <1>10, <2>1, Zenon
  <2> QED BY <2>1, <2>2, Zenon
<1>13. ASSUME NEW n \in Nat, n + 1 \in DOMAIN l
       PROVE  MadeThen(l, s, n)
  BY <1>9, <1>12, <1>13, Zenon DEF MadeThen
<1> QED BY <1>9, <1>11, <1>13, Zenon

(* An option that is not of the section makes nothing of its profile. *)
LEMMA MadeOver ==
  ASSUME NEW l, IsLine(l), NEW s, NEW n \in Nat, n + 1 \in DOMAIN l, n + 1 \notin Given(l, s, ProfileOption)
  PROVE  MadeBy(l, s)[n + 1] = MadeBy(l, s)[n]
<1>1. MadeThen(l, s, n)
  BY MadeStep
<1> QED BY <1>1, Zenon DEF MadeThen

(* An option of the section makes of its profiles all that the option says. *)
LEMMA MadeAll ==
  ASSUME NEW l, IsLine(l), NEW s, NEW n \in Nat, n + 1 \in DOMAIN l, n + 1 \in Given(l, s, ProfileOption)
  PROVE  MadeBy(l, s)[n + 1] = UNION {Assigned(l[n + 1], p) : p \in MadeBy(l, s)[n]}
<1>1. MadeThen(l, s, n)
  BY MadeStep
<1> QED BY <1>1, Zenon DEF MadeThen

(* So what the option makes of a profile of the section is one of the section. *)
LEMMA MadeOn ==
  ASSUME NEW l, IsLine(l), NEW s, NEW n \in Nat, n + 1 \in DOMAIN l, n + 1 \in Given(l, s, ProfileOption),
         NEW m \in MadeBy(l, s)[n], NEW r \in Assigned(l[n + 1], m)
  PROVE  r \in MadeBy(l, s)[n + 1]
<1>1. MadeThen(l, s, n)
  BY MadeStep
<1>2. r \in UNION {Assigned(l[n + 1], p) : p \in MadeBy(l, s)[n]}
  BY Zenon
<1> QED BY <1>1, <1>2, Zenon DEF MadeThen

-----------------------------------------------------------------------------
(* The lists of a section *)

\* The options of a collection, by files and by items, and the words it takes
FileOptions(c) == {x \in ListOption \ ItemOption : CollectionOf(x) = c}
ItemOptions(c) == {x \in ItemOption : CollectionOf(x) = c}
Taken(c, words) == IF KindOf(c) = "ip" THEN words \cap Subnets ELSE words \ {""}
NamesIn(list, indices) == {list[i].name : i \in indices} \ {None}
ItemsIn(list, indices) == UNION {list[i].has : i \in indices}

\* What a collection of a profile holds is what the options of the section name for it.
CollectsIn(l, s, c, indices, list) ==
  /\ NamesIn(list, indices) = FilesOf(l, s, FileOptions(c))
  /\ ItemsIn(list, indices) = Taken(c, WordsOf(l, s, ItemOptions(c)))
AutoIn(l, s, auto, list) ==
  IF auto = 0 THEN Given(l, s, {"hostlist-auto"}) = {}
  ELSE list[auto].name \in FilesOf(l, s, {"hostlist-auto"})
Collects(l, s, p, fs) ==
  /\ \A c \in Collections : CollectsIn(l, s, c, p[c], fs[KindOf(c)])
  /\ AutoIn(l, s, p.auto, fs["host"])

\* The entries that the lists of a profile name are the same in both.
Untouched(p, fs, gs) ==
  /\ p.auto = 0 \/ p.auto \in p["hl"]
  /\ \A d \in Collections : \A i \in p[d] : gs[KindOf(d)][i] = fs[KindOf(d)][i]

\* One more list of a collection: q is what p becomes of it.
OneList(c0, at, p, q) == \A c \in Collections : q[c] = IF c = c0 THEN p[c] \cup {at} ELSE p[c]

\* The option x has the list of a file registered, and the items of the line.
TakesFile(x, at, p, q, fs, gs) ==
  /\ x.opt \in ListOption \ ItemOption
  /\ Untouched(p, fs, gs)
  /\ gs[KindOf(CollectionOf(x.opt))][at] = [name |-> x.arg[1].w, has |-> {}]
  /\ x.arg[1].w # None /\ at # 0
  /\ OneList(CollectionOf(x.opt), at, p, q)
  /\ q.auto = IF x.opt = "hostlist-auto" THEN at ELSE p.auto
TakesItems(x, at, before, p, q, fs, gs) ==
  LET c0 == CollectionOf(x.opt)
  IN  /\ x.opt \in ItemOption
      /\ p.auto = 0 \/ p.auto \in p["hl"]
      /\ \A c \in Collections : \A i \in p[c] : c # c0 \/ i # at => gs[KindOf(c)][i] = fs[KindOf(c)][i]
      /\ at \in p[c0] => fs[KindOf(c0)][at] = [name |-> None, has |-> before]
      /\ at \notin p[c0] => before = {}
      /\ gs[KindOf(c0)][at] = [name |-> None, has |-> before \cup Taken(c0, Words(x.arg))]
      /\ OneList(c0, at, p, q)
      /\ q.auto = p.auto

(* A collection asks only for the entries that it names. *)
LEMMA SameEntries ==
  ASSUME NEW l, NEW s, NEW c, NEW indices, NEW list, NEW more,
         \A i \in indices : more[i] = list[i], CollectsIn(l, s, c, indices, list)
  PROVE  CollectsIn(l, s, c, indices, more)
BY DEF CollectsIn, NamesIn, ItemsIn

(* Nor does a profile ask for more. *)
LEMMA CollectsSame ==
  ASSUME NEW l, NEW s, NEW p, NEW fs, NEW gs, p.auto = 0 \/ p.auto \in p["hl"],
         \A c \in Collections : \A i \in p[c] : gs[KindOf(c)][i] = fs[KindOf(c)][i],
         Collects(l, s, p, fs)
  PROVE  Collects(l, s, p, gs)
<1>1. \A c \in Collections : CollectsIn(l, s, c, p[c], gs[KindOf(c)])
  BY SameEntries DEF Collects
<1>2. "hl" \in Collections /\ KindOf("hl") = "host"
  BY DEF Collections, KindOf
<1>3. p.auto # 0 => gs["host"][p.auto] = fs["host"][p.auto]
  BY <1>2
<1>4. AutoIn(l, s, p.auto, gs["host"])
  BY <1>3 DEF Collects, AutoIn
<1> QED BY <1>1, <1>4 DEF Collects

(* An option that is not of lists says nothing of them. *)
LEMMA CollectsOther ==
  ASSUME NEW l, NEW s, NEW j, l[j].opt \notin ListOption, NEW p, NEW fs, Collects(l, s, p, fs)
  PROVE  Collects(l, s \cup {j}, p, fs)
<1>1. \A c : l[j].opt \notin FileOptions(c) /\ l[j].opt \notin ItemOptions(c)
  BY DEF FileOptions, ItemOptions, ItemOption, ListOption
<1>2. l[j].opt \notin {"hostlist-auto"}
  BY DEF ListOption
<1>3. \A c : /\ FilesOf(l, s \cup {j}, FileOptions(c)) = FilesOf(l, s, FileOptions(c))
             /\ WordsOf(l, s \cup {j}, ItemOptions(c)) = WordsOf(l, s, ItemOptions(c))
  BY <1>1, NotSaid
<1>4. /\ FilesOf(l, s \cup {j}, {"hostlist-auto"}) = FilesOf(l, s, {"hostlist-auto"})
      /\ Given(l, s \cup {j}, {"hostlist-auto"}) = Given(l, s, {"hostlist-auto"})
  BY <1>2, NotSaid
<1>5. \A c \in Collections : CollectsIn(l, s \cup {j}, c, p[c], fs[KindOf(c)])
  BY <1>3 DEF Collects, CollectsIn
<1>6. AutoIn(l, s \cup {j}, p.auto, fs["host"])
  BY <1>4 DEF Collects, AutoIn
<1> QED BY <1>5, <1>6 DEF Collects

(* A list in a file is one more name of its collection. *)
LEMMA CollectsFile ==
  ASSUME NEW l, NEW s, NEW j, NEW at, NEW p, NEW q, NEW fs, NEW gs,
         TakesFile(l[j], at, p, q, fs, gs), Collects(l, s, p, fs)
  PROVE  Collects(l, s \cup {j}, q, gs)
<1> DEFINE name == l[j].arg[1].w
           c0 == CollectionOf(l[j].opt)
<1> /\ l[j].opt \in ListOption \ ItemOption
    /\ p.auto = 0 \/ p.auto \in p["hl"]
    /\ \A c \in Collections : \A i \in p[c] : gs[KindOf(c)][i] = fs[KindOf(c)][i]
    /\ gs[KindOf(c0)][at] = [name |-> l[j].arg[1].w, has |-> {}] /\ l[j].arg[1].w # None
    /\ \A c \in Collections : q[c] = IF c = c0 THEN p[c] \cup {at} ELSE p[c]
    /\ q.auto = IF l[j].opt = "hostlist-auto" THEN at ELSE p.auto
    /\ at # 0
  BY DEF TakesFile, Untouched, OneList
<1> c0 = CollectionOf(l[j].opt)
  OBVIOUS
<1> HIDE DEF c0
<1>0. Collects(l, s, p, gs)
  BY CollectsSame
<1>1. ASSUME NEW c \in Collections PROVE CollectsIn(l, s \cup {j}, c, q[c], gs[KindOf(c)])
  <2>1. l[j].opt \notin ItemOptions(c)
    BY DEF ItemOptions
  <2>2. WordsOf(l, s \cup {j}, ItemOptions(c)) = WordsOf(l, s, ItemOptions(c))
    BY <2>1, NotSaid
  <2>3. l[j].opt \in FileOptions(c) <=> c = c0
    BY DEF FileOptions
  <2>4. FilesOf(l, s \cup {j}, FileOptions(c)) = FilesOf(l, s, FileOptions(c)) \cup (IF c = c0 THEN {name} ELSE {})
    BY <2>3, FilesMore
  <2> DEFINE list == gs[KindOf(c)]
  <2>5. CollectsIn(l, s, c, p[c], list)
    BY <1>0 DEF Collects
  <2>6. CASE c = c0
    <3>a. list[at] = [name |-> name, has |-> {}]
      BY <2>6
    <3>b. q[c] = p[c] \cup {at}
      BY <2>6
    <3>1. q[c] = p[c] \cup {at} /\ list[at].name = name /\ list[at].has = {}
      BY <3>a, <3>b
    <3> HIDE DEF list, name
    <3>2. NamesIn(list, q[c]) = NamesIn(list, p[c]) \cup {name}
      BY <3>1 DEF NamesIn, name
    <3>3. ItemsIn(list, q[c]) = ItemsIn(list, p[c])
      BY <3>1 DEF ItemsIn
    <3>4. FilesOf(l, s \cup {j}, FileOptions(c)) = FilesOf(l, s, FileOptions(c)) \cup {name}
      BY <2>4, <2>6
    <3>5. CollectsIn(l, s \cup {j}, c, q[c], list)
      BY <2>2, <2>5, <3>2, <3>3, <3>4 DEF CollectsIn
    <3> QED BY <3>5 DEF list
  <2>7. CASE c # c0
    <3>1. q[c] = p[c]
      BY <2>7
    <3> QED BY <2>2, <2>4, <2>5, <2>7, <3>1 DEF CollectsIn
  <2> QED BY <2>6, <2>7
<1>2. AutoIn(l, s \cup {j}, q.auto, gs["host"])
  <2>1. CASE l[j].opt = "hostlist-auto"
    <3>1. c0 = "hl"
      BY <2>1, KindsAgree
    <3>2. gs["host"][at].name = name
      BY <3>1 DEF KindOf
    <3>3. name \in FilesOf(l, s \cup {j}, {"hostlist-auto"})
      BY <2>1, FilesMore
    <3> QED BY <2>1, <3>2, <3>3 DEF AutoIn
  <2>2. CASE l[j].opt # "hostlist-auto"
    <3>0. l[j].opt \notin {"hostlist-auto"}
      BY <2>2
    <3>1. /\ FilesOf(l, s \cup {j}, {"hostlist-auto"}) = FilesOf(l, s, {"hostlist-auto"})
          /\ Given(l, s \cup {j}, {"hostlist-auto"}) = Given(l, s, {"hostlist-auto"})
      BY <3>0, NotSaid
    <3>2. q.auto = p.auto /\ AutoIn(l, s, p.auto, gs["host"])
      BY <1>0, <2>2 DEF Collects
    <3> QED BY <3>1, <3>2 DEF AutoIn
  <2> QED BY <2>1, <2>2
<1> QED BY <1>1, <1>2 DEF Collects

(* The items of a line are more of what its collection holds. *)
LEMMA CollectsItems ==
  ASSUME NEW l, NEW s, NEW j, NEW at, NEW before, NEW p, NEW q, NEW fs, NEW gs,
         TakesItems(l[j], at, before, p, q, fs, gs), Collects(l, s, p, fs)
  PROVE  Collects(l, s \cup {j}, q, gs)
<1> DEFINE c0 == CollectionOf(l[j].opt)
           words == Taken(c0, Words(l[j].arg))
<1>a.
    /\ l[j].opt \in ItemOption
    /\ p.auto = 0 \/ p.auto \in p["hl"]
    /\ \A c \in Collections : \A i \in p[c] : c # c0 \/ i # at => gs[KindOf(c)][i] = fs[KindOf(c)][i]
    /\ at \in p[c0] => fs[KindOf(c0)][at] = [name |-> None, has |-> before]
    /\ at \notin p[c0] => before = {}
    /\ gs[KindOf(c0)][at] = [name |-> None, has |-> before \cup Taken(c0, Words(l[j].arg))]
    /\ \A c \in Collections : q[c] = IF c = c0 THEN p[c] \cup {at} ELSE p[c]
    /\ q.auto = p.auto
  BY DEF TakesItems, OneList
<1>b. c0 = CollectionOf(l[j].opt)
  OBVIOUS
<1> HIDE DEF c0
<1>1. ASSUME NEW c \in Collections PROVE CollectsIn(l, s \cup {j}, c, q[c], gs[KindOf(c)])
  <2>1. l[j].opt \notin FileOptions(c)
    BY <1>a DEF FileOptions
  <2>2. FilesOf(l, s \cup {j}, FileOptions(c)) = FilesOf(l, s, FileOptions(c))
    BY <2>1, NotSaid
  <2>3. l[j].opt \in ItemOptions(c) <=> c = c0
    BY <1>a, <1>b DEF ItemOptions
  <2>4. c = c0 => WordsOf(l, s \cup {j}, ItemOptions(c)) = WordsOf(l, s, ItemOptions(c)) \cup Words(l[j].arg)
    BY <2>3, WordsMore
  <2>d. c # c0 => WordsOf(l, s \cup {j}, ItemOptions(c)) = WordsOf(l, s, ItemOptions(c))
    BY <2>3, NotSaid
  <2>5. CollectsIn(l, s, c, p[c], fs[KindOf(c)])
    BY DEF Collects
  <2>6. CASE c = c0
    <3> DEFINE list == fs[KindOf(c)]
               more == gs[KindOf(c)]
    <3>a. more[at] = [name |-> None, has |-> before \cup words] /\ q[c] = p[c] \cup {at}
      BY <1>a, <2>6
    <3>b. at \in p[c] => list[at] = [name |-> None, has |-> before]
      BY <1>a, <2>6
    <3>c. /\ \A i \in p[c] : i # at => more[i] = list[i]
          /\ at \notin p[c] => before = {}
      BY <1>a, <2>6
    <3>1. /\ q[c] = p[c] \cup {at} /\ more[at].name = None /\ more[at].has = before \cup words
          /\ \A i \in p[c] : i # at => more[i] = list[i]
          /\ at \in p[c] => list[at].name = None /\ list[at].has = before
          /\ at \notin p[c] => before = {}
      BY <3>a, <3>b, <3>c
    <3>2. Taken(c, WordsOf(l, s \cup {j}, ItemOptions(c))) = Taken(c, WordsOf(l, s, ItemOptions(c))) \cup words
      BY <2>4, <2>6 DEF Taken
    <3> HIDE DEF list, more, words
    <3>3. NamesIn(more, q[c]) = NamesIn(list, p[c])
      BY <3>1 DEF NamesIn
    <3>4. ItemsIn(more, q[c]) = ItemsIn(list, p[c]) \cup words
      <4>1. ASSUME NEW w \in ItemsIn(more, q[c]) PROVE w \in ItemsIn(list, p[c]) \cup words
        BY <3>1 DEF ItemsIn
      <4>2. ASSUME NEW w \in ItemsIn(list, p[c]) PROVE w \in ItemsIn(more, q[c])
        BY <3>1 DEF ItemsIn
      <4>3. ASSUME NEW w \in words PROVE w \in ItemsIn(more, q[c])
        BY <3>1 DEF ItemsIn
      <4> QED BY <4>1, <4>2, <4>3
    <3>5. CollectsIn(l, s, c, p[c], list)
      BY <2>5 DEF list
    <3>6. CollectsIn(l, s \cup {j}, c, q[c], more)
      BY <2>2, <3>2, <3>3, <3>4, <3>5 DEF CollectsIn
    <3> QED BY <3>6 DEF more
  <2>7. CASE c # c0
    <3>1. q[c] = p[c] /\ \A i \in p[c] : gs[KindOf(c)][i] = fs[KindOf(c)][i]
      BY <1>a, <2>7
    <3>2. CollectsIn(l, s, c, q[c], gs[KindOf(c)])
      BY <2>5, <3>1, SameEntries
    <3> QED BY <2>2, <2>d, <2>7, <3>2 DEF CollectsIn
  <2> QED BY <2>6, <2>7
<1>2. AutoIn(l, s \cup {j}, q.auto, gs["host"])
  <2>1. l[j].opt \notin {"hostlist-auto"}
    BY <1>a DEF ItemOption
  <2>2. /\ FilesOf(l, s \cup {j}, {"hostlist-auto"}) = FilesOf(l, s, {"hostlist-auto"})
        /\ Given(l, s \cup {j}, {"hostlist-auto"}) = Given(l, s, {"hostlist-auto"})
    BY <2>1, NotSaid
  <2>3. AutoIn(l, s, p.auto, fs["host"])
    BY DEF Collects
  <2>4. p.auto # 0 => gs["host"][p.auto].name = fs["host"][p.auto].name
    <3>1. "hl" \in Collections /\ KindOf("hl") = "host"
      BY DEF Collections, KindOf
    <3>2. CASE c0 = "hl" /\ p.auto = at
      BY <1>a, <3>1, <3>2
    <3>3. CASE ~(c0 = "hl" /\ p.auto = at)
      BY <1>a, <3>1, <3>3
    <3> QED BY <3>2, <3>3
  <2> QED BY <1>a, <2>2, <2>3, <2>4 DEF AutoIn
<1> QED BY <1>1, <1>2 DEF Collects

Alike(p, m) == DOMAIN p = DOMAIN m /\ \A f \in DOMAIN p \ Core : p[f] = m[f]

\* What an option can make of one of two profiles that are alike it can make of the other.
Blind(P, M) == \A q \in P : \E r \in M : Alike(q, r)
OneField(p, m, P, M) ==
  \E f, S, T : S = T /\ P = {[p EXCEPT ![f] = v] : v \in S} /\ M = {[m EXCEPT ![f] = v] : v \in T}
OneValue(p, m, P, M) ==
  \E f, v, w : v = w /\ P = {[p EXCEPT ![f] = v]} /\ M = {[m EXCEPT ![f] = w]}

(* Setting one field to the same is blind to the others. *)
LEMMA FieldBlind ==
  ASSUME NEW p, NEW m, Alike(p, m), NEW P, NEW M, OneField(p, m, P, M) \/ OneValue(p, m, P, M)
  PROVE  Blind(P, M)
<1>1. ASSUME NEW f, NEW v PROVE Alike([p EXCEPT ![f] = v], [m EXCEPT ![f] = v])
  BY DEF Alike
<1>2. CASE OneField(p, m, P, M)
  <2>1. PICK f, S : P = {[p EXCEPT ![f] = v] : v \in S} /\ M = {[m EXCEPT ![f] = v] : v \in S}
    BY <1>2, Zenon DEF OneField
  <2>2. ASSUME NEW q \in P PROVE \E r \in M : Alike(q, r)
    <3>1. PICK v \in S : q = [p EXCEPT ![f] = v]
      BY <2>1, Zenon
    <3>2. [m EXCEPT ![f] = v] \in M
      BY <2>1, Zenon
    <3> QED BY <1>1, <3>1, <3>2, Zenon
  <2> QED BY <2>2, Zenon DEF Blind
<1>3. CASE OneValue(p, m, P, M)
  <2>1. PICK f, v : P = {[p EXCEPT ![f] = v]} /\ M = {[m EXCEPT ![f] = v]}
    BY <1>3, Zenon DEF OneValue
  <2>2. Alike([p EXCEPT ![f] = v], [m EXCEPT ![f] = v])
    BY <1>1
  <2>3. ASSUME NEW q \in P PROVE \E r \in M : Alike(q, r)
    <3>1. q = [p EXCEPT ![f] = v] /\ [m EXCEPT ![f] = v] \in M
      BY <2>1, Zenon
    <3> QED BY <2>2, <3>1, Zenon
  <2> QED BY <2>3, Zenon DEF Blind
<1> QED BY <1>2, <1>3

(* And so is setting two fields. *)
LEMMA FieldsBlind ==
  ASSUME NEW p, NEW m, Alike(p, m), NEW f, NEW g, NEW v, NEW w
  PROVE  Alike([p EXCEPT ![f] = v, ![g] = w], [m EXCEPT ![f] = v, ![g] = w])
BY DEF Alike

(* The options of windows are blind to the number and the lists. *)
LEMMA WindowBlind ==
  ASSUME NEW x, NEW p, DOMAIN p = DOMAIN dp_init, NEW m, Alike(p, m)
  PROVE  Blind(WindowOptions(x, p), WindowOptions(x, m))
<1>1. p.wsize = m.wsize /\ p.wssize = m.wssize
  BY DEF Alike, Core, dp_init
<1>2. CASE x.opt \in {"wsize", "wssize", "wssize-cutoff", "synack-split"}
  <2>1. OneField(p, m, WindowOptions(x, p), WindowOptions(x, m))
    BY <1>2, <1>1, Zenon DEF WindowOptions, OneField
  <2> QED BY <2>1, FieldBlind
<1>3. CASE x.opt \in {"wssize-forced-cutoff"}
  <2>1. OneValue(p, m, WindowOptions(x, p), WindowOptions(x, m))
    BY <1>3, <1>1, Zenon DEF WindowOptions, OneValue
  <2> QED BY <2>1, FieldBlind
<1>4. CASE x.opt \notin {"wsize", "wssize", "wssize-cutoff", "synack-split", "wssize-forced-cutoff"}
  BY <1>4, Zenon DEF WindowOptions, Blind
<1> QED BY <1>2, <1>3, <1>4

(* The options of HTTP are blind to the number and the lists. *)
LEMMA HttpBlind ==
  ASSUME NEW x, NEW p, DOMAIN p = DOMAIN dp_init, NEW m, Alike(p, m)
  PROVE  Blind(HttpOptions(x, p), HttpOptions(x, m))
<1>1. p.hostnospace = m.hostnospace /\ p.methodeol = m.methodeol
  BY DEF Alike, Core, dp_init
<1>2. CASE x.opt \in {"ip-id"}
  <2>1. OneField(p, m, HttpOptions(x, p), HttpOptions(x, m))
    BY <1>2, <1>1, Zenon DEF HttpOptions, OneField
  <2> QED BY <2>1, FieldBlind
<1>3. CASE x.opt \in {"hostcase", "domcase"}
  <2>1. OneValue(p, m, HttpOptions(x, p), HttpOptions(x, m))
    BY <1>3, <1>1, Zenon DEF HttpOptions, OneValue
  <2> QED BY <2>1, FieldBlind
<1>4. CASE x.opt = "hostspell"
  <2> DEFINE v == x.arg[1].w
  <2>1. /\ HttpOptions(x, p) = {[p EXCEPT !.hostcase = TRUE, !.hostspell = v] : y \in {4} \cap Unsigned(x.arg)}
        /\ HttpOptions(x, m) = {[m EXCEPT !.hostcase = TRUE, !.hostspell = v] : y \in {4} \cap Unsigned(x.arg)}
    BY <1>4, Zenon DEF HttpOptions
  <2> HIDE DEF v
  <2>2. Alike([p EXCEPT !.hostcase = TRUE, !.hostspell = v], [m EXCEPT !.hostcase = TRUE, !.hostspell = v])
    BY FieldsBlind
  <2>3. ASSUME NEW q \in HttpOptions(x, p)
        PROVE  \E r \in HttpOptions(x, m) : Alike(q, r)
    <3>1. q = [p EXCEPT !.hostcase = TRUE, !.hostspell = v]
          /\ [m EXCEPT !.hostcase = TRUE, !.hostspell = v] \in HttpOptions(x, m)
      BY <2>1, Zenon
    <3> QED BY <2>2, <3>1, Zenon
  <2> QED BY <2>3, Zenon DEF Blind
<1>5. CASE x.opt = "hostnospace"
  <2>1. /\ HttpOptions(x, p) = IF p.methodeol THEN {} ELSE {[p EXCEPT !.hostnospace = TRUE]}
        /\ HttpOptions(x, m) = IF m.methodeol THEN {} ELSE {[m EXCEPT !.hostnospace = TRUE]}
    BY <1>5, Zenon DEF HttpOptions
  <2>2. HttpOptions(x, p) = {} \/ OneValue(p, m, HttpOptions(x, p), HttpOptions(x, m))
    BY <1>1, <2>1, Zenon DEF OneValue
  <2> QED BY <2>2, FieldBlind DEF Blind
<1>6. CASE x.opt = "methodeol"
  <2>1. /\ HttpOptions(x, p) = IF p.hostnospace THEN {} ELSE {[p EXCEPT !.methodeol = TRUE]}
        /\ HttpOptions(x, m) = IF m.hostnospace THEN {} ELSE {[m EXCEPT !.methodeol = TRUE]}
    BY <1>6, Zenon DEF HttpOptions
  <2>2. HttpOptions(x, p) = {} \/ OneValue(p, m, HttpOptions(x, p), HttpOptions(x, m))
    BY <1>1, <2>1, Zenon DEF OneValue
  <2> QED BY <2>2, FieldBlind DEF Blind
<1>7. CASE x.opt = "dpi-desync"
  <2> DEFINE words == [i \in DOMAIN x.arg |-> ModeOf(x.arg[i].w)]
             known == (ZeroStage \cup FirstStage \cup SecondStage) \ {"none"}
             zero == words[1] \in ZeroStage
             rest == (IF zero THEN Tail(words) ELSE words) \o <<"none", "none">>
             mode0 == IF zero THEN words[1] ELSE "none"
             legal == /\ \A i \in DOMAIN words : words[i] \in known
                      /\ Len(x.arg) <= IF zero THEN 3 ELSE 2
                      /\ rest[2] = "none" \/ (rest[1] \in FirstStage /\ rest[2] \in SecondStage)
             first == rest[1]
             second == rest[2]
             After(a) == [a EXCEPT !.mode0 = mode0, !.mode = first, !.mode2 = second]
  <2>1. /\ Modes(x.arg, p) = IF legal THEN {After(p)} ELSE {}
        /\ Modes(x.arg, m) = IF legal THEN {After(m)} ELSE {}
    BY DEF Modes
  <2> HIDE DEF legal, mode0, first, second
  <2>2. Alike(After(p), After(m))
    BY DEF Alike
  <2> HIDE DEF After
  <2>3. HttpOptions(x, p) = Modes(x.arg, p) /\ HttpOptions(x, m) = Modes(x.arg, m)
    BY <1>7, Zenon DEF HttpOptions
  <2> QED BY <2>1, <2>2, <2>3 DEF Blind
<1>8. CASE x.opt \notin {"ip-id", "hostcase", "domcase", "hostspell", "hostnospace", "methodeol",
                        "dpi-desync"}
  BY <1>8, Zenon DEF HttpOptions, Blind
<1> QED BY <1>2, <1>3, <1>4, <1>5, <1>6, <1>7, <1>8

(* The options of duplicates are blind to the number and the lists. *)
LEMMA DupBlind ==
  ASSUME NEW x, NEW p, DOMAIN p = DOMAIN dp_init, NEW m, Alike(p, m)
  PROVE  Blind(DupOptions(x, p), DupOptions(x, m))
<1>1. p.dup_fooling = m.dup_fooling
  BY DEF Alike, Core, dp_init
<1>2. CASE x.opt \in {"dup", "dup-autottl", "dup-autottl6", "dup-tcp-flags-set",
                      "dup-tcp-flags-unset", "dup-ts-increment", "dup-badseq-increment",
                      "dup-badack-increment", "dup-cutoff", "dup-start", "dup-ip-id"}
  <2>1. OneField(p, m, DupOptions(x, p), DupOptions(x, m))
    BY <1>2, <1>1, Zenon DEF DupOptions, OneField
  <2> QED BY <2>1, FieldBlind
<1>3. CASE x.opt \in {"dup-ttl", "dup-ttl6", "dup-replace"}
  <2>1. OneValue(p, m, DupOptions(x, p), DupOptions(x, m))
    BY <1>3, <1>1, Zenon DEF DupOptions, OneValue
  <2> QED BY <2>1, FieldBlind
<1>4. CASE x.opt = "dup-fooling"
  <2> DEFINE S == parse_fooling(x.arg, p.dup_fooling)
  <2>1. DupOptions(x, p) = {[p EXCEPT !.dup_fooling = v] : v \in parse_fooling(x.arg, p.dup_fooling)}
    BY <1>4, Zenon DEF DupOptions
  <2>2. DupOptions(x, m) = {[m EXCEPT !.dup_fooling = v] : v \in parse_fooling(x.arg, m.dup_fooling)}
    BY <1>4, Zenon DEF DupOptions
  <2>3. S = parse_fooling(x.arg, m.dup_fooling)
    BY <1>1
  <2>4. OneField(p, m, DupOptions(x, p), DupOptions(x, m))
    BY <2>1, <2>2, <2>3, Zenon DEF OneField
  <2> QED BY <2>4, FieldBlind
<1>5. CASE x.opt \notin {"dup", "dup-autottl", "dup-autottl6", "dup-tcp-flags-set",
                        "dup-tcp-flags-unset", "dup-fooling", "dup-ts-increment",
                        "dup-badseq-increment", "dup-badack-increment", "dup-cutoff", "dup-start",
                        "dup-ip-id", "dup-ttl", "dup-ttl6", "dup-replace"}
  BY <1>5, Zenon DEF DupOptions, Blind
<1> QED BY <1>2, <1>3, <1>4, <1>5

(* The options of the original packets are blind to the number and the lists. *)
LEMMA OrigBlind ==
  ASSUME NEW x, NEW p, DOMAIN p = DOMAIN dp_init, NEW m, Alike(p, m)
  PROVE  Blind(OrigOptions(x, p), OrigOptions(x, m))
<1>1. CASE x.opt \in {"orig-autottl", "orig-autottl6", "orig-tcp-flags-set", "orig-tcp-flags-unset",
                      "orig-mod-cutoff", "orig-mod-start"}
  <2>1. OneField(p, m, OrigOptions(x, p), OrigOptions(x, m))
    BY <1>1, Zenon DEF OrigOptions, OneField
  <2> QED BY <2>1, FieldBlind
<1>2. CASE x.opt \in {"orig-ttl", "orig-ttl6"}
  <2>1. OneValue(p, m, OrigOptions(x, p), OrigOptions(x, m))
    BY <1>2, Zenon DEF OrigOptions, OneValue
  <2> QED BY <2>1, FieldBlind
<1>3. CASE x.opt \notin {"orig-autottl", "orig-autottl6", "orig-tcp-flags-set",
                        "orig-tcp-flags-unset", "orig-mod-cutoff", "orig-mod-start", "orig-ttl",
                        "orig-ttl6"}
  BY <1>3, Zenon DEF OrigOptions, Blind
<1> QED BY <1>1, <1>2, <1>3

(* The options of the packets that are made up are blind to the number and the lists. *)
LEMMA DesyncBlind ==
  ASSUME NEW x, NEW p, DOMAIN p = DOMAIN dp_init, NEW m, Alike(p, m)
  PROVE  Blind(DesyncOptions(x, p), DesyncOptions(x, m))
<1>1. p.fooling = m.fooling
  BY DEF Alike, Core, dp_init
<1>2. CASE x.opt \in {"dpi-desync-autottl", "dpi-desync-autottl6", "dpi-desync-tcp-flags-set",
                      "dpi-desync-tcp-flags-unset", "dpi-desync-repeats"}
  <2>1. OneField(p, m, DesyncOptions(x, p), DesyncOptions(x, m))
    BY <1>2, <1>1, Zenon DEF DesyncOptions, OneField
  <2> QED BY <2>1, FieldBlind
<1>3. CASE x.opt \in {"dpi-desync-ttl", "dpi-desync-ttl6", "dpi-desync-skip-nosni"}
  <2>1. OneValue(p, m, DesyncOptions(x, p), DesyncOptions(x, m))
    BY <1>3, <1>1, Zenon DEF DesyncOptions, OneValue
  <2> QED BY <2>1, FieldBlind
<1>4. CASE x.opt = "dpi-desync-fooling"
  <2> DEFINE S == parse_fooling(x.arg, p.fooling)
  <2>1. DesyncOptions(x, p) = {[p EXCEPT !.fooling = v] : v \in parse_fooling(x.arg, p.fooling)}
    BY <1>4, Zenon DEF DesyncOptions
  <2>2. DesyncOptions(x, m) = {[m EXCEPT !.fooling = v] : v \in parse_fooling(x.arg, m.fooling)}
    BY <1>4, Zenon DEF DesyncOptions
  <2>3. S = parse_fooling(x.arg, m.fooling)
    BY <1>1
  <2>4. OneField(p, m, DesyncOptions(x, p), DesyncOptions(x, m))
    BY <2>1, <2>2, <2>3, Zenon DEF OneField
  <2> QED BY <2>4, FieldBlind
<1>5. CASE x.opt \notin {"dpi-desync-autottl", "dpi-desync-autottl6", "dpi-desync-tcp-flags-set",
                        "dpi-desync-tcp-flags-unset", "dpi-desync-fooling", "dpi-desync-repeats",
                        "dpi-desync-ttl", "dpi-desync-ttl6", "dpi-desync-skip-nosni"}
  BY <1>5, Zenon DEF DesyncOptions, Blind
<1> QED BY <1>2, <1>3, <1>4, <1>5

(* The options of splits are blind to the number and the lists. *)
LEMMA SplitBlind ==
  ASSUME NEW x, NEW p, DOMAIN p = DOMAIN dp_init, NEW m, Alike(p, m)
  PROVE  Blind(SplitOptions(x, p), SplitOptions(x, m))
<1>1. p.splits = m.splits
  BY DEF Alike, Core, dp_init
<1>2. CASE x.opt \in {"dpi-desync-split-pos", "dpi-desync-split-http-req", "dpi-desync-split-tls",
                      "dpi-desync-split-seqovl", "dpi-desync-split-seqovl-pattern",
                      "dpi-desync-fakedsplit-pattern"}
  <2>1. OneField(p, m, SplitOptions(x, p), SplitOptions(x, m))
    BY <1>2, <1>1, Zenon DEF SplitOptions, OneField
  <2> QED BY <2>1, FieldBlind
<1>3. CASE x.opt \notin {"dpi-desync-split-pos", "dpi-desync-split-http-req", "dpi-desync-split-tls",
                        "dpi-desync-split-seqovl", "dpi-desync-split-seqovl-pattern",
                        "dpi-desync-fakedsplit-pattern"}
  BY <1>3, Zenon DEF SplitOptions, Blind
<1> QED BY <1>2, <1>3

(* The options of the split modes are blind to the number and the lists. *)
LEMMA SplitModsBlind ==
  ASSUME NEW x, NEW p, DOMAIN p = DOMAIN dp_init, NEW m, Alike(p, m)
  PROVE  Blind(SplitMods(x, p), SplitMods(x, m))
<1>1. p.fs_order = m.fs_order /\ p.hfs_host = m.hfs_host /\ p.hfs_order = m.hfs_order /\ p.tcp_seq = m.tcp_seq
  BY DEF Alike, Core, dp_init
<1>2. CASE x.opt \in {"dpi-desync-hostfakesplit-midhost"}
  <2>1. OneField(p, m, SplitMods(x, p), SplitMods(x, m))
    BY <1>2, <1>1, Zenon DEF SplitMods, OneField
  <2> QED BY <2>1, FieldBlind
<1>3. CASE x.opt = "dpi-desync-fakedsplit-mod"
  <2> DEFINE S == Orders(x.arg, FakedsplitOrders)
             V(a) == LastOrder(a, p.fs_order)
  <2>1. /\ SplitMods(x, p) = {[p EXCEPT !.fs_order = V(a)] : a \in S}
        /\ SplitMods(x, m) = {[m EXCEPT !.fs_order = V(a)] : a \in S}
    BY <1>3, <1>1, Zenon DEF SplitMods
  <2> HIDE DEF S, V
  <2>2. ASSUME NEW a PROVE Alike([p EXCEPT !.fs_order = V(a)], [m EXCEPT !.fs_order = V(a)])
    BY DEF Alike
  <2>3. ASSUME NEW q \in SplitMods(x, p)
        PROVE  \E r \in SplitMods(x, m) : Alike(q, r)
    <3>1. PICK a \in S : q = [p EXCEPT !.fs_order = V(a)]
      BY <2>1, Zenon
    <3>2. [m EXCEPT !.fs_order = V(a)] \in SplitMods(x, m)
      BY <2>1, Zenon
    <3> QED BY <2>2, <3>1, <3>2, Zenon
  <2> QED BY <2>3, Zenon DEF Blind
<1>4. CASE x.opt = "dpi-desync-hostfakesplit-mod"
  <2> DEFINE S == Orders(Others(x.arg), {0, 1})
             V(a) == LastOrder(a, p.hfs_order)
             h == IF Names(x.arg) = <<>> THEN p.hfs_host ELSE Last(Names(x.arg)).n[1]
             legal == \A i \in Items(Names(x.arg)) : i.n # <<>>
             After(c, a) == [c EXCEPT !.hfs_order = V(a), !.hfs_host = h]
  <2>1. /\ HostfakesplitMod(x, p) = IF legal THEN {After(p, a) : a \in S} ELSE {}
        /\ HostfakesplitMod(x, m) = IF legal THEN {After(m, a) : a \in S} ELSE {}
    BY <1>1, Zenon DEF HostfakesplitMod
  <2>2. SplitMods(x, p) = HostfakesplitMod(x, p) /\ SplitMods(x, m) = HostfakesplitMod(x, m)
    BY <1>4, Zenon DEF SplitMods
  <2> HIDE DEF S, V, h, legal
  <2>3. ASSUME NEW a PROVE Alike(After(p, a), After(m, a))
    BY FieldsBlind
  <2> HIDE DEF After
  <2>4. ASSUME NEW q \in SplitMods(x, p)
        PROVE  \E r \in SplitMods(x, m) : Alike(q, r)
    <3>1. legal /\ \E a \in S : q = After(p, a)
      BY <2>1, <2>2, Zenon
    <3>2. PICK a \in S : q = After(p, a)
      BY <3>1
    <3>3. After(m, a) \in SplitMods(x, m)
      BY <2>1, <2>2, <3>1, Zenon
    <3> QED BY <2>3, <3>2, <3>3, Zenon
  <2> QED BY <2>4, Zenon DEF Blind
<1>5. CASE x.opt = "dpi-desync-fake-tcp-mod"
  <2> DEFINE legal == Words(x.arg) \subseteq {"none", "seq"}
             v == p.tcp_seq \/ "seq" \in Words(x.arg)
  <2>1. /\ SplitMods(x, p) = IF legal THEN {[p EXCEPT !.tcp_seq = v]} ELSE {}
        /\ SplitMods(x, m) = IF legal THEN {[m EXCEPT !.tcp_seq = v]} ELSE {}
    BY <1>5, <1>1, Zenon DEF SplitMods
  <2> HIDE DEF legal, v
  <2>2. SplitMods(x, p) = {} \/ OneValue(p, m, SplitMods(x, p), SplitMods(x, m))
    BY <2>1, Zenon DEF OneValue
  <2> QED BY <2>2, FieldBlind DEF Blind
<1>6. CASE x.opt \notin {"dpi-desync-hostfakesplit-midhost", "dpi-desync-fakedsplit-mod",
                        "dpi-desync-hostfakesplit-mod", "dpi-desync-fake-tcp-mod"}
  BY <1>6, Zenon DEF SplitMods, Blind
<1> QED BY <1>2, <1>3, <1>4, <1>5, <1>6

(* The options of fragments and increments are blind to the number and the lists. *)
LEMMA FragmentBlind ==
  ASSUME NEW x, NEW p, DOMAIN p = DOMAIN dp_init, NEW m, Alike(p, m)
  PROVE  Blind(FragmentOptions(x, p), FragmentOptions(x, m))
<1>1. CASE x.opt \in {"dpi-desync-ipfrag-pos-tcp", "dpi-desync-ipfrag-pos-udp",
                      "dpi-desync-ts-increment", "dpi-desync-badseq-increment",
                      "dpi-desync-badack-increment"}
  <2>1. OneField(p, m, FragmentOptions(x, p), FragmentOptions(x, m))
    BY <1>1, Zenon DEF FragmentOptions, OneField
  <2> QED BY <2>1, FieldBlind
<1>2. CASE x.opt \in {"dpi-desync-any-protocol"}
  <2>1. OneValue(p, m, FragmentOptions(x, p), FragmentOptions(x, m))
    BY <1>2, Zenon DEF FragmentOptions, OneValue
  <2> QED BY <2>1, FieldBlind
<1>3. CASE x.opt \notin {"dpi-desync-ipfrag-pos-tcp", "dpi-desync-ipfrag-pos-udp",
                        "dpi-desync-ts-increment", "dpi-desync-badseq-increment",
                        "dpi-desync-badack-increment", "dpi-desync-any-protocol"}
  BY <1>3, Zenon DEF FragmentOptions, Blind
<1> QED BY <1>1, <1>2, <1>3

(* The options of fakes are blind to the number and the lists. *)
LEMMA FakeBlind ==
  ASSUME NEW x, NEW p, DOMAIN p = DOMAIN dp_init, NEW m, Alike(p, m)
  PROVE  Blind(FakeOptions(x, p), FakeOptions(x, m))
<1>1. p.fake_dht = m.fake_dht /\ p.fake_discord = m.fake_discord /\ p.fake_http = m.fake_http /\ p.fake_quic = m.fake_quic /\ p.fake_stun = m.fake_stun /\ p.fake_tls = m.fake_tls /\ p.fake_unknown = m.fake_unknown /\ p.fake_unknown_udp = m.fake_unknown_udp /\ p.fake_wg = m.fake_wg /\ p.tls_mod_last = m.tls_mod_last
  BY DEF Alike, Core, dp_init
<1>2. CASE x.opt \in {"dpi-desync-fake-http", "dpi-desync-fake-unknown", "dpi-desync-fake-syndata",
                      "dpi-desync-fake-quic", "dpi-desync-fake-wireguard", "dpi-desync-fake-dht",
                      "dpi-desync-fake-discord", "dpi-desync-fake-stun",
                      "dpi-desync-fake-unknown-udp"}
  <2>1. OneField(p, m, FakeOptions(x, p), FakeOptions(x, m))
    BY <1>2, <1>1, Zenon DEF FakeOptions, OneField
  <2> QED BY <2>1, FieldBlind
<1>3. CASE x.opt = "dpi-desync-fake-tls"
  <2> DEFINE S == TlsFake(x.arg[1])
             V(b) == Append(p.fake_tls, [blob |-> b, mod |-> p.tls_mod_last.mod \cup {"CUSTOM_FAKE"},
                                         sni |-> p.tls_mod_last.sni])
  <2>1. /\ FakeTls(x, p) = {[p EXCEPT !.fake_tls = V(b)] : b \in S}
        /\ FakeTls(x, m) = {[m EXCEPT !.fake_tls = V(b)] : b \in S}
    BY <1>1, Zenon DEF FakeTls
  <2>2. FakeOptions(x, p) = FakeTls(x, p) /\ FakeOptions(x, m) = FakeTls(x, m)
    BY <1>3, Zenon DEF FakeOptions
  <2> HIDE DEF S, V
  <2>3. ASSUME NEW b PROVE Alike([p EXCEPT !.fake_tls = V(b)], [m EXCEPT !.fake_tls = V(b)])
    BY DEF Alike
  <2>4. ASSUME NEW q \in FakeOptions(x, p)
        PROVE  \E r \in FakeOptions(x, m) : Alike(q, r)
    <3>1. PICK b \in S : q = [p EXCEPT !.fake_tls = V(b)]
      BY <2>1, <2>2, Zenon
    <3>2. [m EXCEPT !.fake_tls = V(b)] \in FakeOptions(x, m)
      BY <2>1, <2>2, Zenon
    <3> QED BY <2>3, <3>1, <3>2, Zenon
  <2> QED BY <2>4, Zenon DEF Blind
<1>4. CASE x.opt = "dpi-desync-fake-tls-mod"
  <2> DEFINE S == parse_tlsmod_list(x.arg, p.tls_mod_last)
             V(b) == IF p.fake_tls = <<>> THEN p.fake_tls
                     ELSE [p.fake_tls EXCEPT ![Len(p.fake_tls)].mod = b.mod, ![Len(p.fake_tls)].sni = b.sni]
             After(c, b) == [c EXCEPT !.tls_mod_last = b, !.fake_tls = V(b)]
  <2>0. FakeTlsMod(x, p) = {After(p, b) : b \in S}
    BY Zenon DEF FakeTlsMod
  <2>1. FakeTlsMod(x, p) = {After(p, b) : b \in S} /\ FakeTlsMod(x, m) = {After(m, b) : b \in S}
    <3>1. FakeTlsMod(x, m) =
            {[m EXCEPT !.tls_mod_last = b,
                       !.fake_tls = IF m.fake_tls = <<>> THEN m.fake_tls
                                    ELSE [m.fake_tls EXCEPT ![Len(m.fake_tls)].mod = b.mod,
                                                            ![Len(m.fake_tls)].sni = b.sni]] :
               b \in parse_tlsmod_list(x.arg, m.tls_mod_last)}
      BY Zenon DEF FakeTlsMod
    <3>2. m.fake_tls = p.fake_tls /\ m.tls_mod_last = p.tls_mod_last
      BY <1>1
    <3> QED BY <2>0, <3>1, <3>2, Zenon
  <2>2. FakeOptions(x, p) = FakeTlsMod(x, p) /\ FakeOptions(x, m) = FakeTlsMod(x, m)
    BY <1>4, Zenon DEF FakeOptions
  <2> HIDE DEF S, V
  <2>3. ASSUME NEW b PROVE Alike(After(p, b), After(m, b))
    BY FieldsBlind
  <2> HIDE DEF After
  <2>4. ASSUME NEW q \in FakeOptions(x, p)
        PROVE  \E r \in FakeOptions(x, m) : Alike(q, r)
    <3>1. PICK b \in S : q = After(p, b)
      BY <2>1, <2>2, Zenon
    <3>2. After(m, b) \in FakeOptions(x, m)
      BY <2>1, <2>2, Zenon
    <3> QED BY <2>3, <3>1, <3>2, Zenon
  <2> QED BY <2>4, Zenon DEF Blind
<1>5. CASE x.opt \notin {"dpi-desync-fake-http", "dpi-desync-fake-unknown",
                        "dpi-desync-fake-syndata", "dpi-desync-fake-quic",
                        "dpi-desync-fake-wireguard", "dpi-desync-fake-dht",
                        "dpi-desync-fake-discord", "dpi-desync-fake-stun",
                        "dpi-desync-fake-unknown-udp", "dpi-desync-fake-tls",
                        "dpi-desync-fake-tls-mod"}
  BY <1>5, Zenon DEF FakeOptions, Blind
<1> QED BY <1>2, <1>3, <1>4, <1>5

(* The options of limits are blind to the number and the lists. *)
LEMMA LimitBlind ==
  ASSUME NEW x, NEW p, DOMAIN p = DOMAIN dp_init, NEW m, Alike(p, m)
  PROVE  Blind(LimitOptions(x, p), LimitOptions(x, m))
<1>1. CASE x.opt \in {"dpi-desync-udplen-increment", "dpi-desync-udplen-pattern",
                      "dpi-desync-cutoff", "dpi-desync-start"}
  <2>1. OneField(p, m, LimitOptions(x, p), LimitOptions(x, m))
    BY <1>1, Zenon DEF LimitOptions, OneField
  <2> QED BY <2>1, FieldBlind
<1>2. CASE x.opt \notin {"dpi-desync-udplen-increment", "dpi-desync-udplen-pattern",
                        "dpi-desync-cutoff", "dpi-desync-start"}
  BY <1>2, Zenon DEF LimitOptions, Blind
<1> QED BY <1>1, <1>2

(* The options of the automatic list are blind to the number and the lists. *)
LEMMA AutoBlind ==
  ASSUME NEW x, NEW p, DOMAIN p = DOMAIN dp_init, NEW m, Alike(p, m)
  PROVE  Blind(AutoOptions(x, p), AutoOptions(x, m))
<1>1. CASE x.opt \in {"hostlist-auto-fail-threshold", "hostlist-auto-fail-time",
                      "hostlist-auto-retrans-threshold"}
  <2>1. OneField(p, m, AutoOptions(x, p), AutoOptions(x, m))
    BY <1>1, Zenon DEF AutoOptions, OneField
  <2> QED BY <2>1, FieldBlind
<1>2. CASE x.opt \notin {"hostlist-auto-fail-threshold", "hostlist-auto-fail-time",
                        "hostlist-auto-retrans-threshold"}
  BY <1>2, Zenon DEF AutoOptions, Blind
<1> QED BY <1>1, <1>2

(* The options of filters are blind to the number and the lists. *)
LEMMA FilterBlind ==
  ASSUME NEW x, NEW p, DOMAIN p = DOMAIN dp_init, NEW m, Alike(p, m)
  PROVE  Blind(FilterOptions(x, p), FilterOptions(x, m))
<1>1. p.pf_tcp = m.pf_tcp /\ p.pf_udp = m.pf_udp
  BY DEF Alike, Core, dp_init
<1>2. CASE x.opt = "filter-l3"
  <2> DEFINE legal == Words(x.arg) \subseteq {"ipv4", "ipv6"}
             v == {IF w = "ipv4" THEN 4 ELSE 6 : w \in Words(x.arg)}
  <2>1. /\ FilterOptions(x, p) = IF legal THEN {[p EXCEPT !.filter_l3 = v]} ELSE {}
        /\ FilterOptions(x, m) = IF legal THEN {[m EXCEPT !.filter_l3 = v]} ELSE {}
    BY <1>2, Zenon DEF FilterOptions
  <2> HIDE DEF legal, v
  <2>2. FilterOptions(x, p) = {} \/ OneValue(p, m, FilterOptions(x, p), FilterOptions(x, m))
    BY <2>1, Zenon DEF OneValue
  <2> QED BY <2>2, FieldBlind DEF Blind
<1>3. CASE x.opt = "filter-tcp"
  <2> DEFINE S == parse_pf_list(x.arg, p.pf_tcp)
             d == deny_if_empty(p.pf_udp)
             After(c, v) == [c EXCEPT !.pf_tcp = v, !.pf_udp = d]
  <2>1. /\ FilterOptions(x, p) = {After(p, v) : v \in S}
        /\ FilterOptions(x, m) = {After(m, v) : v \in S}
    BY <1>3, <1>1, Zenon DEF FilterOptions
  <2> HIDE DEF S, d
  <2>2. ASSUME NEW v PROVE Alike(After(p, v), After(m, v))
    BY FieldsBlind
  <2> HIDE DEF After
  <2>3. ASSUME NEW q \in FilterOptions(x, p)
        PROVE  \E r \in FilterOptions(x, m) : Alike(q, r)
    <3>1. PICK v \in S : q = After(p, v)
      BY <2>1, Zenon
    <3>2. After(m, v) \in FilterOptions(x, m)
      BY <2>1, Zenon
    <3> QED BY <2>2, <3>1, <3>2, Zenon
  <2> QED BY <2>3, Zenon DEF Blind
<1>4. CASE x.opt = "filter-udp"
  <2> DEFINE S == parse_pf_list(x.arg, p.pf_udp)
             d == deny_if_empty(p.pf_tcp)
             After(c, v) == [c EXCEPT !.pf_udp = v, !.pf_tcp = d]
  <2>1. /\ FilterOptions(x, p) = {After(p, v) : v \in S}
        /\ FilterOptions(x, m) = {After(m, v) : v \in S}
    BY <1>4, <1>1, Zenon DEF FilterOptions
  <2> HIDE DEF S, d
  <2>2. ASSUME NEW v PROVE Alike(After(p, v), After(m, v))
    BY FieldsBlind
  <2> HIDE DEF After
  <2>3. ASSUME NEW q \in FilterOptions(x, p)
        PROVE  \E r \in FilterOptions(x, m) : Alike(q, r)
    <3>1. PICK v \in S : q = After(p, v)
      BY <2>1, Zenon
    <3>2. After(m, v) \in FilterOptions(x, m)
      BY <2>1, Zenon
    <3> QED BY <2>2, <3>1, <3>2, Zenon
  <2> QED BY <2>3, Zenon DEF Blind
<1>5. CASE x.opt = "filter-l7"
  <2> DEFINE legal == Words(x.arg) \subseteq {"http", "tls", "quic", "wireguard", "dht", "discord", "stun", "unknown"}
             v == Words(x.arg)
  <2>1. /\ FilterOptions(x, p) = IF legal THEN {[p EXCEPT !.filter_l7 = v]} ELSE {}
        /\ FilterOptions(x, m) = IF legal THEN {[m EXCEPT !.filter_l7 = v]} ELSE {}
    BY <1>5, Zenon DEF FilterOptions
  <2> HIDE DEF legal, v
  <2>2. FilterOptions(x, p) = {} \/ OneValue(p, m, FilterOptions(x, p), FilterOptions(x, m))
    BY <2>1, Zenon DEF OneValue
  <2> QED BY <2>2, FieldBlind DEF Blind
<1>6. CASE x.opt \notin {"filter-l3", "filter-tcp", "filter-udp", "filter-l7"}
  BY <1>6, Zenon DEF FilterOptions, Blind
<1> QED BY <1>2, <1>3, <1>4, <1>5, <1>6

(* No option of a profile reads the number or the lists of the profile. *)
LEMMA AssignedBlind ==
  ASSUME NEW x, NEW p, DOMAIN p = DOMAIN dp_init, NEW m, Alike(p, m), NEW q \in Assigned(x, p)
  PROVE  \E r \in Assigned(x, m) : Alike(q, r)
<1> DEFINE OK(P, M) == q \in P => \E r \in M : Alike(q, r)
<1>1. ASSUME NEW P, NEW M, Blind(P, M) PROVE OK(P, M)
  BY <1>1, Zenon DEF Blind
<1>2. /\ OK(WindowOptions(x, p), WindowOptions(x, m)) /\ OK(HttpOptions(x, p), HttpOptions(x, m))
      /\ OK(DupOptions(x, p), DupOptions(x, m)) /\ OK(OrigOptions(x, p), OrigOptions(x, m))
      /\ OK(DesyncOptions(x, p), DesyncOptions(x, m)) /\ OK(SplitOptions(x, p), SplitOptions(x, m))
  BY <1>1, WindowBlind, HttpBlind, DupBlind, OrigBlind, DesyncBlind, SplitBlind
<1>3. /\ OK(SplitMods(x, p), SplitMods(x, m)) /\ OK(FragmentOptions(x, p), FragmentOptions(x, m))
      /\ OK(FakeOptions(x, p), FakeOptions(x, m)) /\ OK(LimitOptions(x, p), LimitOptions(x, m))
      /\ OK(AutoOptions(x, p), AutoOptions(x, m)) /\ OK(FilterOptions(x, p), FilterOptions(x, m))
  BY <1>1, SplitModsBlind, FragmentBlind, FakeBlind, LimitBlind, AutoBlind, FilterBlind
<1> QED BY <1>2, <1>3 DEF Assigned

\* Two profiles that differ in their lists alone
Matches(p, m) == DOMAIN p = DOMAIN m /\ \A f \in (DOMAIN p \ Core) \cup {"n"} : p[f] = m[f]

(* Setting one field of both to the same keeps them so. *)
LEMMA MatchesOne ==
  ASSUME NEW p, NEW m, Matches(p, m), NEW f, NEW v
  PROVE  Matches([p EXCEPT ![f] = v], [m EXCEPT ![f] = v])
BY DEF Matches

(* What is done to every profile in the end does not read its lists. *)
LEMMA FinishedBlind ==
  ASSUME NEW p, DOMAIN p = DOMAIN dp_init, NEW m, Matches(p, m)
  PROVE  Matches(Finished(p), Finished(m))
<1> DEFINE Fields == DOMAIN dp_init
<1>1. ASSUME NEW a, NEW b, DOMAIN a = Fields, Matches(a, b)
      PROVE  Matches(TtlDefaults(a), TtlDefaults(b)) /\ DOMAIN TtlDefaults(a) = Fields
  <2>1. /\ a.ttl6 = b.ttl6 /\ a.ttl = b.ttl /\ a.dup_ttl6 = b.dup_ttl6 /\ a.dup_ttl = b.dup_ttl
        /\ a.orig_ttl6 = b.orig_ttl6 /\ a.orig_ttl = b.orig_ttl
        /\ a.autottl6 = b.autottl6 /\ a.autottl = b.autottl /\ a.orig_autottl6 = b.orig_autottl6
        /\ a.orig_autottl = b.orig_autottl /\ a.dup_autottl6 = b.dup_autottl6 /\ a.dup_autottl = b.dup_autottl
    BY <1>1 DEF Matches, Core, dp_init
  <2> DEFINE t == IF a.ttl6 = 255 THEN a.ttl ELSE a.ttl6
             d == IF a.dup_ttl6 = 255 THEN a.dup_ttl ELSE a.dup_ttl6
             e == IF a.orig_ttl6 = 255 THEN a.orig_ttl ELSE a.orig_ttl6
             u == IF AUTOTTL_ENABLED(a.autottl6) THEN a.autottl6 ELSE a.autottl
             v == IF AUTOTTL_ENABLED(a.orig_autottl6) THEN a.orig_autottl6 ELSE a.orig_autottl
             w == IF AUTOTTL_ENABLED(a.dup_autottl6) THEN a.dup_autottl6 ELSE a.dup_autottl
             After(c) == [c EXCEPT !.ttl6 = t, !.dup_ttl6 = d, !.orig_ttl6 = e, !.autottl6 = u,
                                   !.orig_autottl6 = v, !.dup_autottl6 = w]
  <2>2. TtlDefaults(a) = After(a)
    BY DEF TtlDefaults
  <2>3. TtlDefaults(b) = After(b)
    BY <2>1 DEF TtlDefaults
  <2> HIDE DEF t, d, e, u, v, w
  <2>4. Matches(After(a), After(b))
    BY <1>1, MatchesOne
  <2>5. DOMAIN After(a) = DOMAIN a
    BY Zenon
  <2> HIDE DEF After
  <2> QED BY <1>1, <2>2, <2>3, <2>4, <2>5
<1>2. ASSUME NEW a, NEW b, DOMAIN a = Fields, Matches(a, b)
      PROVE  Matches(dp_fake_defaults(a), dp_fake_defaults(b)) /\ DOMAIN dp_fake_defaults(a) = Fields
  <2>1. /\ a.fake_http = b.fake_http /\ a.fake_tls = b.fake_tls /\ a.tls_mod_last = b.tls_mod_last
        /\ a.fake_unknown = b.fake_unknown /\ a.fake_quic = b.fake_quic /\ a.fake_wg = b.fake_wg
        /\ a.fake_dht = b.fake_dht /\ a.fake_discord = b.fake_discord /\ a.fake_stun = b.fake_stun
        /\ a.fake_unknown_udp = b.fake_unknown_udp
    BY <1>2 DEF Matches, Core, dp_init
  <2> DEFINE H(c) == Or(c.fake_http, <<[file |-> "iana", size |-> 203, offset |-> 0]>>)
             L(c) == Or(c.fake_tls, <<[blob |-> DefaultHello, mod |-> c.tls_mod_last.mod,
                                       sni |-> c.tls_mod_last.sni]>>)
             U(c) == Or(c.fake_unknown, Zeros(256))
             I(c) == Or(c.fake_quic, Zeros(620))
             G(c) == Or(c.fake_wg, Zeros(64))
             B(c) == Or(c.fake_dht, Zeros(64))
             E(c) == Or(c.fake_discord, Zeros(64))
             R(c) == Or(c.fake_stun, Zeros(64))
             W(c) == Or(c.fake_unknown_udp, Zeros(64))
             After(c, h, l, u, i, g, z, e, r, w) ==
               [c EXCEPT !.fake_http = h, !.fake_tls = l, !.fake_unknown = u, !.fake_quic = i,
                         !.fake_wg = g, !.fake_dht = z, !.fake_discord = e, !.fake_stun = r,
                         !.fake_unknown_udp = w]
  <2>2. ASSUME NEW c
        PROVE  dp_fake_defaults(c) = After(c, H(c), L(c), U(c), I(c), G(c), B(c), E(c), R(c), W(c))
    BY Zenon DEF dp_fake_defaults
  <2>3. /\ H(a) = H(b) /\ L(a) = L(b) /\ U(a) = U(b) /\ I(a) = I(b) /\ G(a) = G(b) /\ B(a) = B(b)
        /\ E(a) = E(b) /\ R(a) = R(b) /\ W(a) = W(b)
    BY <2>1, Zenon
  <2> HIDE DEF H, L, U, I, G, B, E, R, W
  <2>4. ASSUME NEW h, NEW l, NEW u, NEW i, NEW g, NEW z, NEW e, NEW r, NEW w
        PROVE  /\ Matches(After(a, h, l, u, i, g, z, e, r, w), After(b, h, l, u, i, g, z, e, r, w))
               /\ DOMAIN After(a, h, l, u, i, g, z, e, r, w) = Fields
    <3> DEFINE First(c) == [c EXCEPT !.fake_http = h, !.fake_tls = l, !.fake_unknown = u, !.fake_quic = i]
               Rest(c) == [c EXCEPT !.fake_wg = g, !.fake_dht = z, !.fake_discord = e, !.fake_stun = r,
                                    !.fake_unknown_udp = w]
    <3>a. Matches(First(a), First(b))
      BY <1>2, MatchesOne
    <3>b. ASSUME NEW c, NEW d, Matches(c, d) PROVE Matches(Rest(c), Rest(d))
      BY <3>b, MatchesOne
    <3>c. \A c : After(c, h, l, u, i, g, z, e, r, w) = Rest(First(c))
      OBVIOUS
    <3>2. DOMAIN After(a, h, l, u, i, g, z, e, r, w) = DOMAIN a
      BY Zenon
    <3> HIDE DEF First, Rest, After
    <3>1. Matches(After(a, h, l, u, i, g, z, e, r, w), After(b, h, l, u, i, g, z, e, r, w))
      BY <3>a, <3>b, <3>c
    <3> QED BY <1>2, <3>1, <3>2
  <2> HIDE DEF After
  <2> QED BY <2>2, <2>3, <2>4
<1>3. ASSUME NEW a, NEW b, DOMAIN a = Fields, Matches(a, b)
      PROVE  Matches(CompatMods(a), CompatMods(b)) /\ DOMAIN CompatMods(a) = Fields
  <2>1. a.n = b.n /\ a.fake_tls = b.fake_tls
    BY <1>3 DEF Matches, Core, dp_init
  <2>2. ASSUME NEW fake PROVE Randomised(a, fake) = Randomised(b, fake)
    BY <2>1, Zenon DEF Randomised
  <2> DEFINE v == [i \in DOMAIN a.fake_tls |-> Randomised(a, a.fake_tls[i])]
             w == [i \in DOMAIN b.fake_tls |-> Randomised(b, b.fake_tls[i])]
  <2>3. CompatMods(a) = [a EXCEPT !.fake_tls = v] /\ CompatMods(b) = [b EXCEPT !.fake_tls = w]
    BY Zenon DEF CompatMods
  <2>4. v = w
    BY <2>1, <2>2, Zenon
  <2> HIDE DEF v, w
  <2>5. DOMAIN [a EXCEPT !.fake_tls = v] = DOMAIN a
    OBVIOUS
  <2> QED BY <1>3, <2>3, <2>4, <2>5, MatchesOne
<1> DEFINE Middle(a) == [a EXCEPT !.fsplit_pattern = IF @.size = 0 THEN [file |-> "zeros", size |-> 64] ELSE @,
                                  !.splits = IF @ = <<>> THEN <<Abs(2)>> ELSE @]
<1>4. ASSUME NEW a, NEW b, DOMAIN a = Fields, Matches(a, b)
      PROVE  Matches(Middle(a), Middle(b)) /\ DOMAIN Middle(a) = Fields
  <2>1. a.fsplit_pattern = b.fsplit_pattern /\ a.splits = b.splits
    BY <1>4 DEF Matches, Core, dp_init
  <2> DEFINE v == IF a.fsplit_pattern.size = 0 THEN [file |-> "zeros", size |-> 64] ELSE a.fsplit_pattern
             w == IF a.splits = <<>> THEN <<Abs(2)>> ELSE a.splits
             After(c) == [c EXCEPT !.fsplit_pattern = v, !.splits = w]
  <2>2. Middle(a) = After(a) /\ Middle(b) = After(b)
    BY <2>1
  <2> HIDE DEF v, w, Middle
  <2>3. Matches(After(a), After(b))
    BY <1>4, MatchesOne
  <2>4. DOMAIN After(a) = DOMAIN a
    BY Zenon
  <2> HIDE DEF After
  <2> QED BY <1>4, <2>2, <2>3, <2>4
<1>5. \A a : Finished(a) = CompatMods(dp_fake_defaults(Middle(TtlDefaults(a))))
  BY DEF Finished
<1> HIDE DEF Middle
<1> QED BY <1>1, <1>2, <1>3, <1>4, <1>5

-----------------------------------------------------------------------------
(* A profile and its section *)

\* A profile without lists
Blank(m) == m.hl = {} /\ m.hl_exclude = {} /\ m.ips = {} /\ m.ips_exclude = {} /\ m.auto = 0
New0(n) == [dp_init EXCEPT !.n = n]

\* What the first n options of the line say of a section is in its profile.
Reads(l, n, b, p, fs) ==
  /\ p.n = PlaceAt(l, n, b)
  /\ \E m \in MadeBy(l, Section(l, b))[n] : Alike(p, m) /\ Blank(m)
  /\ Collects(l, SoFar(l, b, n), p, fs)

\* A section that goes on and is skipped has a profile that the next one takes.
FollowsIn(l, n, c, ps, sk, fs) ==
  /\ Current(l, n, c)
  /\ sk = (c \notin KeptAt(l, n))
  /\ Len(ps) = Cardinality(KeptAt(l, n) \ {c}) + 1
  /\ \A b \in KeptAt(l, n) : Reads(l, n, b, ps[PlaceAt(l, n, b)], fs)
Follows(l, n, ps, sk, fs) == \E c : FollowsIn(l, n, c, ps, sk, fs)

(* Before a section begins it has made nothing of a profile. *)
LEMMA MadeNothing ==
  ASSUME NEW l, IsLine(l), NEW b \in Begins(l)
  PROVE  MadeBy(l, Section(l, b))[b] = {dp_init}
<1> DEFINE s == Section(l, b)
           N == {n \in Nat : n <= b => MadeBy(l, s)[n] = {dp_init}}
<1>1. Len(l) \in Nat /\ DOMAIN l = 1 .. Len(l) /\ b \in Nat /\ b <= Len(l)
  BY DEF IsLine, Begins
<1>2. \A j \in s : j > b
  BY DEF Section
<1> HIDE DEF s
<1>3. 0 \in N
  BY MadeStep
<1>4. ASSUME NEW n \in N PROVE n + 1 \in N
  <2> SUFFICES ASSUME n + 1 <= b PROVE MadeBy(l, s)[n + 1] = {dp_init}
    OBVIOUS
  <2>1. n \in Nat /\ n + 1 \in DOMAIN l /\ MadeBy(l, s)[n] = {dp_init} /\ ~(n + 1 > b)
    BY <1>1
  <2>2. n + 1 \notin Given(l, s, ProfileOption)
    BY <1>2, <2>1 DEF Given
  <2> QED BY <2>1, <2>2, MadeOver
<1>5. N = Nat
  <2> HIDE DEF N
  <2>1. N \in SUBSET Nat
    BY DEF N
  <2> QED BY <1>3, <1>4, <2>1, EveryNumber
<1>6. b \in N /\ b <= b
  <2> HIDE DEF N
  <2> QED BY <1>1, <1>5
<1> QED BY <1>6 DEF s

(* A new profile is the profile of a section that begins. *)
LEMMA ReadsNew ==
  ASSUME NEW l, IsLine(l), NEW b \in Begins(l), SoFar(l, b, b) = {}, NEW fs
  PROVE  Reads(l, b, b, New0(PlaceAt(l, b, b)), fs)
<1> DEFINE q == New0(PlaceAt(l, b, b))
<1>1. /\ DOMAIN q = DOMAIN dp_init /\ q.n = PlaceAt(l, b, b) /\ \A f \in DOMAIN dp_init \ Core : q[f] = dp_init[f]
      /\ q.hl = {} /\ q.hl_exclude = {} /\ q.ips = {} /\ q.ips_exclude = {} /\ q.auto = 0
  BY InitFields DEF New0, Shared, Core, PortFields, TlsFields
<1> HIDE DEF q
<1>2. dp_init \in MadeBy(l, Section(l, b))[b]
  BY MadeNothing
<1>3. Alike(q, dp_init) /\ Blank(dp_init)
  BY <1>1, InitFields DEF Alike, Blank
<1>4. \A options : FilesOf(l, {}, options) = {} /\ WordsOf(l, {}, options) = {} /\ Given(l, {}, options) = {}
  BY DEF FilesOf, WordsOf, Given
<1>5. \A c \in Collections : q[c] = {}
  BY <1>1 DEF Collections
<1>6. \A c \in Collections : CollectsIn(l, {}, c, q[c], fs[KindOf(c)])
  BY <1>4, <1>5 DEF CollectsIn, NamesIn, ItemsIn, Taken
<1>7. AutoIn(l, {}, q.auto, fs["host"])
  BY <1>1, <1>4 DEF AutoIn
<1>8. Collects(l, SoFar(l, b, b), q, fs)
  BY <1>6, <1>7 DEF Collects
<1>9. Reads(l, b, b, q, fs)
  BY <1>1, <1>2, <1>3, <1>8 DEF Reads
<1> QED BY <1>9 DEF q

(* The profile of a section that is over stays what it is. *)
LEMMA ReadsOver ==
  ASSUME NEW l, IsLine(l), NEW n \in Nat, n + 1 \in DOMAIN l, NEW c, Current(l, n, c),
         NEW b \in Begins(l), b <= n, b # c \/ l[n + 1].opt = "new",
         PlaceAt(l, n + 1, b) = PlaceAt(l, n, b),
         NEW p, NEW fs, NEW gs, p.auto = 0 \/ p.auto \in p["hl"],
         \A d \in Collections : \A i \in p[d] : gs[KindOf(d)][i] = fs[KindOf(d)][i],
         Reads(l, n, b, p, fs)
  PROVE  Reads(l, n + 1, b, p, gs)
<1>1. SoFar(l, b, n + 1) = SoFar(l, b, n) /\ n + 1 \notin Section(l, b)
  BY SectionStep, ZenonT(60)
<1>2. n + 1 \notin Given(l, Section(l, b), ProfileOption)
  BY <1>1 DEF Given
<1>3. MadeBy(l, Section(l, b))[n + 1] = MadeBy(l, Section(l, b))[n]
  BY <1>2, MadeOver
<1>4. Collects(l, SoFar(l, b, n), p, gs)
  BY CollectsSame DEF Reads
<1> QED BY <1>1, <1>3, <1>4 DEF Reads

(* The section that goes on has one option more. *)
LEMMA ReadsMore ==
  ASSUME NEW l, IsLine(l), NEW n \in Nat, n + 1 \in DOMAIN l, NEW c, Current(l, n, c),
         l[n + 1].opt \notin {"new", "skip"}, NEW p, NEW q, NEW fs, NEW gs, Reads(l, n, c, p, fs),
         q.n = p.n, Collects(l, SoFar(l, c, n) \cup {n + 1}, q, gs),
         IF l[n + 1].opt \in ProfileOption
           THEN q \in Assigned(l[n + 1], p) /\ DOMAIN p = DOMAIN dp_init /\ p.splits \in Splits ELSE Alike(q, p)
  PROVE  Reads(l, n + 1, c, q, gs)
<1>0. c \in Begins(l) /\ c <= n
  BY DEF Current
<1>1. SoFar(l, c, n + 1) = SoFar(l, c, n) \cup {n + 1} /\ n + 1 \in Section(l, c)
  BY <1>0, SectionStep
<1>2. PlaceAt(l, n + 1, c) = PlaceAt(l, n, c)
  <2>1. KeptAt(l, n + 1) = KeptAt(l, n)
    BY KeptStep
  <2> QED BY <2>1 DEF PlaceAt
<1>3. PICK m \in MadeBy(l, Section(l, c))[n] : Alike(p, m) /\ Blank(m)
  BY DEF Reads
<1>4. \E r \in MadeBy(l, Section(l, c))[n + 1] : Alike(q, r) /\ Blank(r)
  <2>1. CASE l[n + 1].opt \in ProfileOption
    <3>1. PICK r \in Assigned(l[n + 1], m) : Alike(q, r)
      BY <1>3, <2>1, AssignedBlind
    <3>2. n + 1 \in Given(l, Section(l, c), ProfileOption)
      BY <1>1, <2>1 DEF Given
    <3>3. r \in MadeBy(l, Section(l, c))[n + 1]
      BY <1>3, <3>1, <3>2, MadeOn
    <3>4. Blank(r)
      <4>1. Keeps(m, r, Core)
        <5>0. DOMAIN m = DOMAIN dp_init
          BY <1>3, <2>1 DEF Alike
        <5>1. Shared \subseteq DOMAIN m /\ m.splits = p.splits
          BY <1>3, <5>0, InitFields DEF Alike, Shared, Core, PortFields, TlsFields
        <5>2. l[n + 1] \in Option
          BY DEF IsLine
        <5>3. l[n + 1].arg \in Seq(Item) /\ m.splits \in Splits
          BY <2>1, <5>1, <5>2 DEF Option, Item
        <5> QED BY <5>1, <5>3, <3>1, AssignedKeeps
      <4> QED BY <1>3, <4>1 DEF Keeps, Core, Blank
    <3> QED BY <3>1, <3>3, <3>4
  <2>2. CASE l[n + 1].opt \notin ProfileOption
    <3>1. n + 1 \notin Given(l, Section(l, c), ProfileOption)
      BY <2>2 DEF Given
    <3>2. MadeBy(l, Section(l, c))[n + 1] = MadeBy(l, Section(l, c))[n]
      BY <3>1, MadeOver
    <3>3. Alike(q, m)
      BY <1>3, <2>2 DEF Alike
    <3> QED BY <1>3, <3>2, <3>3
  <2> QED BY <2>1, <2>2
<1> QED BY <1>1, <1>2, <1>4 DEF Reads

-----------------------------------------------------------------------------
(* The profiles, option by option *)

(* A section that is over has a place below the last. *)
LEMMA PlaceOver ==
  ASSUME NEW l, IsLine(l), NEW n \in Nat, NEW c, NEW ps, NEW sk, NEW fs, FollowsIn(l, n, c, ps, sk, fs),
         NEW b \in KeptAt(l, n)
  PROVE  /\ b # c => PlaceAt(l, n, b) \in 1 .. Len(ps) - 1
         /\ b = c => PlaceAt(l, n, b) = Len(ps) /\ Len(ps) = Cardinality(KeptAt(l, n))
         /\ Len(ps) \in Nat \ {0} /\ b \in Begins(l) /\ b <= n
         /\ Reads(l, n, b, ps[PlaceAt(l, n, b)], fs)
<1>1. Current(l, n, c) /\ Len(ps) = Cardinality(KeptAt(l, n) \ {c}) + 1
      /\ Reads(l, n, b, ps[PlaceAt(l, n, b)], fs)
  BY DEF FollowsIn
<1>2. Cardinality(KeptAt(l, n) \ {c}) \in Nat
  BY <1>1, Places
<1>3. b # c => PlaceAt(l, n, b) \in 1 .. Cardinality(KeptAt(l, n) \ {c})
  BY <1>1, Places
<1>4. b = c => PlaceAt(l, n, b) = Cardinality(KeptAt(l, n) \ {c}) + 1
               /\ Cardinality(KeptAt(l, n)) = Cardinality(KeptAt(l, n) \ {c}) + 1
  BY <1>1, Places
<1>5. b \in Begins(l) /\ b <= n
  BY DEF KeptAt
<1> QED BY <1>1, <1>2, <1>3, <1>4, <1>5

(* The line begins with its first section. *)
LEMMA FollowsStart ==
  ASSUME NEW l, IsLine(l), NEW fs, NEW ps, ps = <<New0(1)>>
  PROVE  Follows(l, 0, ps, FALSE, fs)
<1>1. Begins(l) \subseteq Nat /\ 0 \in Begins(l)
  BY DEF Begins, IsLine
<1>2. Current(l, 0, 0)
  BY <1>1 DEF Current
<1>3. SoFar(l, 0, 0) = {}
  BY DEF SoFar, Section, IsLine
<1>4. KeptAt(l, 0) = {0}
  <2>1. \A b \in Begins(l) : b <= 0 <=> b = 0
    BY <1>1
  <2> QED BY <1>1, <1>3, <2>1 DEF KeptAt, Given
<1>5. Cardinality(KeptAt(l, 0) \ {0}) = 0 /\ PlaceAt(l, 0, 0) = 1
  <2>1. KeptAt(l, 0) \ {0} = {}
    BY <1>4
  <2> QED BY <1>2, <1>4, <2>1, Places, FS_EmptySet
<1>6. Reads(l, 0, 0, New0(1), fs)
  BY <1>1, <1>3, <1>5, ReadsNew
<1>7. Len(ps) = 1 /\ ps[1] = New0(1)
  OBVIOUS
<1>8. FollowsIn(l, 0, 0, ps, FALSE, fs)
  BY <1>2, <1>4, <1>5, <1>6, <1>7 DEF FollowsIn
<1> QED BY <1>8 DEF Follows

(* --skip *)
LEMMA FollowsSkip ==
  ASSUME NEW l, IsLine(l), NEW n \in Nat, n + 1 \in DOMAIN l, l[n + 1].opt = "skip",
         NEW ps, NEW sk, NEW fs, Follows(l, n, ps, sk, fs), \A i \in DOMAIN ps : Untouched(ps[i], fs, fs),
         DOMAIN ps = 1 .. Len(ps)
  PROVE  Follows(l, n + 1, ps, TRUE, fs)
<1>1. PICK c : FollowsIn(l, n, c, ps, sk, fs)
  BY DEF Follows
<1>2. Current(l, n, c) /\ Len(ps) = Cardinality(KeptAt(l, n) \ {c}) + 1
  BY <1>1 DEF FollowsIn
<1>3. Current(l, n + 1, c)
  BY <1>2, CurrentStep
<1>4. KeptAt(l, n + 1) = KeptAt(l, n) \ {c}
  BY <1>2, KeptStep
<1>5. c \notin KeptAt(l, n + 1) /\ KeptAt(l, n + 1) \ {c} = KeptAt(l, n) \ {c}
  BY <1>4
<1>6. ASSUME NEW b \in KeptAt(l, n + 1)
      PROVE  Reads(l, n + 1, b, ps[PlaceAt(l, n + 1, b)], fs)
  <2>1. b \in KeptAt(l, n) \ {c}
    BY <1>4
  <2>2. PlaceAt(l, n + 1, b) = PlaceAt(l, n, b)
    BY <1>2, <2>1, PlacesStep
  <2>3. /\ PlaceAt(l, n, b) \in 1 .. Len(ps) - 1 /\ b \in Begins(l) /\ b <= n /\ b # c
        /\ Reads(l, n, b, ps[PlaceAt(l, n, b)], fs) /\ Len(ps) \in Nat
    BY <1>1, <2>1, PlaceOver
  <2>4. Untouched(ps[PlaceAt(l, n, b)], fs, fs)
    BY <2>3
  <2> QED BY <1>2, <2>2, <2>3, <2>4, ReadsOver DEF Untouched
<1>7. FollowsIn(l, n + 1, c, ps, TRUE, fs)
  BY <1>2, <1>3, <1>5, <1>6 DEF FollowsIn
<1> QED BY <1>7 DEF Follows

\* A new profile stands last, in the place of one that is skipped.
NewLast(ps, sk, qs, fs) ==
  /\ DOMAIN ps = 1 .. Len(ps) /\ \A i \in DOMAIN ps : Untouched(ps[i], fs, fs)
  /\ Len(qs) = IF sk THEN Len(ps) ELSE Len(ps) + 1
  /\ \A i \in 1 .. Len(qs) - 1 : qs[i] = ps[i]
  /\ qs[Len(qs)] = New0(Len(qs))

(* --new: the profile of a section that is skipped is taken. *)
LEMMA FollowsNew ==
  ASSUME NEW l, IsLine(l), NEW n \in Nat, n + 1 \in DOMAIN l, l[n + 1].opt = "new",
         NEW ps, NEW sk, NEW fs, Follows(l, n, ps, sk, fs), NEW qs, NewLast(ps, sk, qs, fs)
  PROVE  Follows(l, n + 1, qs, FALSE, fs)
<1>0. /\ DOMAIN ps = 1 .. Len(ps) /\ \A i \in DOMAIN ps : Untouched(ps[i], fs, fs)
      /\ Len(qs) = IF sk THEN Len(ps) ELSE Len(ps) + 1
      /\ \A i \in 1 .. Len(qs) - 1 : qs[i] = ps[i]
      /\ qs[Len(qs)] = New0(Len(qs))
  BY DEF NewLast
<1>1. PICK c : FollowsIn(l, n, c, ps, sk, fs)
  BY DEF Follows
<1>2. Current(l, n, c) /\ Len(ps) = Cardinality(KeptAt(l, n) \ {c}) + 1 /\ sk = (c \notin KeptAt(l, n))
  BY <1>1 DEF FollowsIn
<1>3. Current(l, n + 1, n + 1) /\ SoFar(l, n + 1, n + 1) = {} /\ n + 1 \in Begins(l)
  BY <1>2, CurrentStep DEF Begins
<1>4. KeptAt(l, n + 1) = KeptAt(l, n) \cup {n + 1}
  BY <1>2, KeptStep
<1>5. n + 1 \notin KeptAt(l, n)
  BY DEF KeptAt
<1>6. n + 1 \in KeptAt(l, n + 1) /\ KeptAt(l, n + 1) \ {n + 1} = KeptAt(l, n)
  BY <1>4, <1>5
<1>7. Cardinality(KeptAt(l, n)) \in Nat /\ Len(qs) = Cardinality(KeptAt(l, n)) + 1
  <2>1. CASE sk
    <3>1. KeptAt(l, n) \ {c} = KeptAt(l, n)
      BY <1>2, <2>1
    <3>2. Cardinality(KeptAt(l, n) \ {c}) \in Nat
      BY <1>2, Places
    <3> QED BY <1>0, <1>2, <2>1, <3>1, <3>2
  <2>2. CASE ~sk
    <3>0. c \in KeptAt(l, n)
      BY <1>2, <2>2
    <3>1. Cardinality(KeptAt(l, n)) = Cardinality(KeptAt(l, n) \ {c}) + 1 /\ Cardinality(KeptAt(l, n) \ {c}) \in Nat
      BY <1>2, <3>0, Places
    <3> QED BY <1>0, <1>2, <2>2, <3>1
  <2> QED BY <2>1, <2>2
<1>8. PlaceAt(l, n + 1, n + 1) = Len(qs)
  BY <1>3, <1>6, <1>7, Places
<1>9. ASSUME NEW b \in KeptAt(l, n + 1)
      PROVE  Reads(l, n + 1, b, qs[PlaceAt(l, n + 1, b)], fs)
  <2>1. CASE b = n + 1
    BY <1>0, <1>3, <1>8, <2>1, ReadsNew
  <2>2. CASE b # n + 1
    <3>1. b \in KeptAt(l, n)
      BY <1>4, <2>2
    <3>2. PlaceAt(l, n + 1, b) = PlaceAt(l, n, b)
      BY <1>2, <3>1, PlacesStep
    <3>3. /\ PlaceAt(l, n, b) \in 1 .. Len(ps) /\ b \in Begins(l) /\ b <= n
          /\ PlaceAt(l, n, b) <= Cardinality(KeptAt(l, n))
          /\ Reads(l, n, b, ps[PlaceAt(l, n, b)], fs) /\ Len(ps) \in Nat
      <4>1. /\ b \in Begins(l) /\ b <= n /\ Len(ps) \in Nat \ {0}
            /\ b # c => PlaceAt(l, n, b) \in 1 .. Len(ps) - 1
            /\ b = c => PlaceAt(l, n, b) = Len(ps) /\ Len(ps) = Cardinality(KeptAt(l, n))
            /\ Reads(l, n, b, ps[PlaceAt(l, n, b)], fs)
        BY <1>1, <3>1, PlaceOver
      <4>2. Len(ps) - 1 <= Cardinality(KeptAt(l, n))
        BY <1>0, <1>2, <1>7, <4>1
      <4> QED BY <1>7, <4>1, <4>2
    <3>4. PlaceAt(l, n, b) \in 1 .. Len(qs) - 1
      BY <1>7, <3>3
    <3>5. qs[PlaceAt(l, n, b)] = ps[PlaceAt(l, n, b)] /\ Untouched(ps[PlaceAt(l, n, b)], fs, fs)
      BY <1>0, <3>3, <3>4
    <3> QED BY <1>2, <3>2, <3>3, <3>5, ReadsOver DEF Untouched
  <2> QED BY <2>1, <2>2
<1>10. FollowsIn(l, n + 1, n + 1, qs, FALSE, fs)
  BY <1>3, <1>6, <1>7, <1>9 DEF FollowsIn
<1> QED BY <1>10 DEF Follows

(* Any other option is about the profile of the section that goes on. *)
LEMMA FollowsOn ==
  ASSUME NEW l, IsLine(l), NEW n \in Nat, n + 1 \in DOMAIN l, l[n + 1].opt \notin {"new", "skip"},
         NEW ps, NEW sk, NEW fs, NEW c, FollowsIn(l, n, c, ps, sk, fs), DOMAIN ps = 1 .. Len(ps),
         NEW gs, NEW qs, Len(qs) = Len(ps),
         \A i \in 1 .. Len(ps) - 1 : qs[i] = ps[i] /\ Untouched(ps[i], fs, gs),
         ~sk => Reads(l, n + 1, c, qs[Len(ps)], gs)
  PROVE  Follows(l, n + 1, qs, sk, gs)
<1>1. Current(l, n, c) /\ Len(ps) = Cardinality(KeptAt(l, n) \ {c}) + 1 /\ sk = (c \notin KeptAt(l, n))
  BY DEF FollowsIn
<1>2. Current(l, n + 1, c)
  BY <1>1, CurrentStep
<1>3. KeptAt(l, n + 1) = KeptAt(l, n)
  BY <1>1, KeptStep
<1>4. ASSUME NEW b \in KeptAt(l, n + 1)
      PROVE  Reads(l, n + 1, b, qs[PlaceAt(l, n + 1, b)], gs)
  <2>1. b \in KeptAt(l, n) /\ PlaceAt(l, n + 1, b) = PlaceAt(l, n, b)
    BY <1>1, <1>3, PlacesStep
  <2>2. /\ b # c => PlaceAt(l, n, b) \in 1 .. Len(ps) - 1
        /\ b = c => PlaceAt(l, n, b) = Len(ps)
        /\ b \in Begins(l) /\ b <= n /\ Reads(l, n, b, ps[PlaceAt(l, n, b)], fs)
    BY <2>1, PlaceOver
  <2>3. CASE b = c
    BY <1>1, <2>1, <2>2, <2>3
  <2>4. CASE b # c
    <3>1. qs[PlaceAt(l, n, b)] = ps[PlaceAt(l, n, b)] /\ Untouched(ps[PlaceAt(l, n, b)], fs, gs)
      BY <2>2, <2>4
    <3> DEFINE p == ps[PlaceAt(l, n, b)]
    <3>2. Reads(l, n, b, p, fs) /\ Untouched(p, fs, gs)
      BY <2>2, <3>1
    <3> HIDE DEF p
    <3>3. Reads(l, n + 1, b, p, gs)
      BY <1>1, <2>1, <2>2, <2>4, <3>2, ReadsOver DEF Untouched
    <3> QED BY <2>1, <3>1, <3>3 DEF p
  <2> QED BY <2>3, <2>4
<1>5. FollowsIn(l, n + 1, c, qs, sk, gs)
  BY <1>1, <1>2, <1>3, <1>4 DEF FollowsIn
<1> QED BY <1>5 DEF Follows

-----------------------------------------------------------------------------
(* What a list option registers *)

\* A list of a file has no items, and the list without a name is of one collection of one profile.
NamesOnly(fs) == \A kind \in Kinds : \A i \in DOMAIN fs[kind] : fs[kind][i].name # None => fs[kind][i].has = {}
OwnItem(c, at, ps, fs) ==
  at # 0 =>
    /\ fs[KindOf(c)][at].name = None
    /\ at \in Last(ps)[c]
    /\ \A i \in DOMAIN ps, d \in Collections : KindOf(d) = KindOf(c) /\ at \in ps[i][d] => i = Len(ps) /\ d = c
OwnItems(an, ps, fs) == \A c \in Collections : OwnItem(c, an[c], ps, fs)

\* What RegisterFile and RegisterItems make
FileName == o.arg[1].w
FileList == Register(files[Kind(o.opt)], FileName)
FileAt == CHOOSE i \in DOMAIN FileList : FileList[i].name = FileName
FileProfile ==
  [dp EXCEPT ![CollectionOf(o.opt)] = @ \cup {FileAt}, !.auto = IF o.opt = "hostlist-auto" THEN FileAt ELSE @]
OldList == files[Kind(o.opt)]
ItemAt == IF anon[CollectionOf(o.opt)] = 0 THEN Len(OldList) + 1 ELSE anon[CollectionOf(o.opt)]
ItemWords == IF Kind(o.opt) = "ip" THEN Words(o.arg) \cap Subnets ELSE Words(o.arg) \ {""}
ItemBefore == IF anon[CollectionOf(o.opt)] = 0 THEN {} ELSE OldList[ItemAt].has
ItemList ==
  IF anon[CollectionOf(o.opt)] = 0 THEN Append(OldList, [name |-> None, has |-> ItemWords])
  ELSE [OldList EXCEPT ![ItemAt].has = @ \cup ItemWords]
ItemProfile == [dp EXCEPT ![CollectionOf(o.opt)] = @ \cup {ItemAt}]

(* A profile with one more list differs from what it was in that alone. *)
LEMMA Collected ==
  ASSUME NEW p, DOMAIN p = DOMAIN dp_init, NEW c0 \in Collections, NEW v, NEW a, NEW q,
         DOMAIN q = DOMAIN p, q[c0] = v, q.auto = a, \A f \in DOMAIN p : f # c0 /\ f # "auto" => q[f] = p[f]
  PROVE  /\ q.n = p.n /\ Alike(q, p) /\ q.auto = a
         /\ \A c \in Collections : q[c] = IF c = c0 THEN v ELSE p[c]
<1>1. Collections \subseteq DOMAIN p /\ "auto" \in DOMAIN p /\ "n" \in DOMAIN p /\ Collections \subseteq Core
      /\ "auto" \in Core
  BY InitFields DEF Shared, Core, PortFields, TlsFields, Collections
<1>2. "auto" \notin Collections /\ "n" \notin Collections /\ "n" # "auto"
  BY DEF Collections
<1>3. \A f \in DOMAIN p \ Core : f # c0 /\ f # "auto"
  BY <1>1
<1>5. \A c \in Collections : q[c] = IF c = c0 THEN v ELSE p[c]
  BY <1>1, <1>2
<1> QED BY <1>1, <1>2, <1>3, <1>5 DEF Alike

(* What a list in a file changes of the last profile *)
LEMMA FileCollected ==
  ASSUME DOMAIN dp = DOMAIN dp_init, CollectionOf(o.opt) \in Collections
  PROVE  /\ FileProfile.n = dp.n /\ Alike(FileProfile, dp)
         /\ FileProfile.auto = IF o.opt = "hostlist-auto" THEN FileAt ELSE dp.auto
         /\ \A c \in Collections :
              FileProfile[c] = IF c = CollectionOf(o.opt) THEN dp[c] \cup {FileAt} ELSE dp[c]
<1> DEFINE c0 == CollectionOf(o.opt)
           a == IF o.opt = "hostlist-auto" THEN FileAt ELSE dp.auto
           v == dp[c0] \cup {FileAt}
           p == dp
           q == FileProfile
<1>1. q = [p EXCEPT ![c0] = v, !.auto = a]
  BY DEF FileProfile
<1>2. c0 \in DOMAIN p /\ "auto" \in DOMAIN p /\ c0 # "auto" /\ c0 \in Collections
  BY InitFields DEF Shared, Core, PortFields, TlsFields, Collections
<1> HIDE DEF c0, a, v, p, q
<1>3. DOMAIN q = DOMAIN p /\ q[c0] = v /\ q.auto = a /\ \A f \in DOMAIN p : f # c0 /\ f # "auto" => q[f] = p[f]
  BY <1>1, <1>2
<1>4. DOMAIN p = DOMAIN dp_init
  BY DEF p
<1>5. /\ q.n = p.n /\ Alike(q, p) /\ q.auto = a
      /\ \A c \in Collections : q[c] = IF c = c0 THEN v ELSE p[c]
  BY <1>2, <1>3, <1>4, Collected
<1> QED BY <1>5 DEF q, p, v, a, c0

(* What the items of a line change of it *)
LEMMA ItemCollected ==
  ASSUME DOMAIN dp = DOMAIN dp_init, CollectionOf(o.opt) \in Collections
  PROVE  /\ ItemProfile.n = dp.n /\ Alike(ItemProfile, dp) /\ ItemProfile.auto = dp.auto
         /\ \A c \in Collections :
              ItemProfile[c] = IF c = CollectionOf(o.opt) THEN dp[c] \cup {ItemAt} ELSE dp[c]
<1> DEFINE c0 == CollectionOf(o.opt)
           v == dp[c0] \cup {ItemAt}
           p == dp
           q == ItemProfile
<1>1. q = [p EXCEPT ![c0] = v]
  BY DEF ItemProfile
<1>2. c0 \in DOMAIN p /\ "auto" \in DOMAIN p /\ c0 # "auto" /\ c0 \in Collections
  BY InitFields DEF Shared, Core, PortFields, TlsFields, Collections
<1> HIDE DEF c0, v, p, q
<1>3. DOMAIN q = DOMAIN p /\ q[c0] = v /\ q.auto = p.auto /\ \A f \in DOMAIN p : f # c0 /\ f # "auto" => q[f] = p[f]
  BY <1>1, <1>2
<1>4. DOMAIN p = DOMAIN dp_init
  BY DEF p
<1>5. /\ q.n = p.n /\ Alike(q, p) /\ q.auto = p.auto
      /\ \A c \in Collections : q[c] = IF c = c0 THEN v ELSE p[c]
  BY <1>2, <1>3, <1>4, Collected
<1> QED BY <1>5 DEF q, p, v, c0

(* A list that is registered leaves those before it as they are. *)
LEMMA RegisterEntries ==
  ASSUME NEW S, NEW list \in Seq(S), NEW name, NEW more, more = Register(list, name)
  PROVE  /\ \A i \in DOMAIN list : i \in DOMAIN more /\ more[i] = list[i]
         /\ \A i \in DOMAIN more : i \in DOMAIN list \/ more[i] = [name |-> name, has |-> {}]
         /\ \E i \in DOMAIN more : more[i].name = name
<1> DEFINE e == [name |-> name, has |-> {}]
<1>1. CASE \E i \in DOMAIN list : list[i].name = name
  BY <1>1 DEF Register
<1>2. CASE ~\E i \in DOMAIN list : list[i].name = name
  <2>1. more = Append(list, e) /\ e.name = name
    BY <1>2 DEF Register
  <2> HIDE DEF e
  <2>2. Len(list) \in Nat /\ DOMAIN list = 1 .. Len(list) /\ DOMAIN more = 1 .. Len(list) + 1
        /\ more[Len(list) + 1] = e /\ \A i \in 1 .. Len(list) : more[i] = list[i]
    BY <2>1
  <2>3. \A i \in 1 .. Len(list) + 1 : i \in 1 .. Len(list) \/ i = Len(list) + 1
    BY <2>2
  <2>4. Len(list) + 1 \in DOMAIN more /\ \A i \in 1 .. Len(list) : i \in DOMAIN more
    BY <2>2
  <2> QED BY <2>1, <2>2, <2>3, <2>4 DEF e
<1> QED BY <1>1, <1>2

(* What RegisterFile does *)
LEMMA FileStep ==
  ASSUME LineOK, DiskOK, FilesOK, ProfilesOK, RegisterFile
  PROVE  /\ o.opt \in ListOption \ ItemOption
         /\ CollectionOf(o.opt) \in Collections /\ Kind(o.opt) \in Kinds /\ Kind(o.opt) = KindOf(CollectionOf(o.opt))
         /\ o.opt = "hostlist-auto" => CollectionOf(o.opt) = "hl"
         /\ files' = [files EXCEPT ![Kind(o.opt)] = FileList]
         /\ profiles' = [profiles EXCEPT ![Len(profiles)] = FileProfile]
         /\ FileAt \in DOMAIN FileList /\ FileAt # 0 /\ FileList[FileAt].name = FileName /\ FileName # None
         /\ \A i \in DOMAIN OldList : i \in DOMAIN FileList /\ FileList[i] = OldList[i]
         /\ \A i \in DOMAIN FileList : i \in DOMAIN OldList \/ FileList[i] = [name |-> FileName, has |-> {}]
<1>1. Reading(ListOption \ ItemOption)
  BY Zenon DEF RegisterFile
<1>2. o.opt \in ListOption \ ItemOption
  BY <1>1 DEF Reading, o
<1>3. CollectionOf(o.opt) \in Collections /\ Kind(o.opt) \in Kinds /\ Kind(o.opt) = KindOf(CollectionOf(o.opt))
      /\ (o.opt = "hostlist-auto" => CollectionOf(o.opt) = "hl")
  BY <1>2, KindsAgree
<1>4. files' = [files EXCEPT ![Kind(o.opt)] = FileList] /\ profiles' = [profiles EXCEPT ![Len(profiles)] = FileProfile]
  BY Zenon DEF RegisterFile, FileList, FileProfile, FileAt, FileName
<1>5. FileName \in DOMAIN disk
  BY <1>1, ListKnown DEF FileName
<1>6. FileName # None
  BY <1>5, NoneAssumption DEF DiskOK
<1>7. OldList \in Seq(Entry) /\ FileList = Register(OldList, FileName)
  BY <1>3 DEF FilesOK, OldList, FileList
<1>8. /\ \A i \in DOMAIN OldList : i \in DOMAIN FileList /\ FileList[i] = OldList[i]
      /\ \A i \in DOMAIN FileList : i \in DOMAIN OldList \/ FileList[i] = [name |-> FileName, has |-> {}]
      /\ \E i \in DOMAIN FileList : FileList[i].name = FileName
  BY <1>7, RegisterEntries
<1>9. FileAt \in DOMAIN FileList /\ FileList[FileAt].name = FileName
  BY <1>8, Zenon DEF FileAt
<1>10. FileAt # 0
  <2>1. [name |-> FileName, has |-> {}] \in Entry
    BY <1>5 DEF Entry
  <2>2. FileList \in Seq(Entry)
    BY <1>7, <2>1, Registered
  <2> QED BY <1>9, <2>2
<1> QED BY <1>2, <1>3, <1>4, <1>6, <1>8, <1>9, <1>10

(* What RegisterItems does *)
LEMMA ItemStep ==
  ASSUME LineOK, FilesOK, AnonOK, ProfilesOK, RegisterItems
  PROVE  /\ o.opt \in ItemOption /\ o.opt \in ListOption
         /\ CollectionOf(o.opt) \in Collections /\ Kind(o.opt) \in Kinds /\ Kind(o.opt) = KindOf(CollectionOf(o.opt))
         /\ files' = [files EXCEPT ![Kind(o.opt)] = ItemList]
         /\ profiles' = [profiles EXCEPT ![Len(profiles)] = ItemProfile]
         /\ anon' = [anon EXCEPT ![CollectionOf(o.opt)] = ItemAt]
         /\ ItemAt # 0 /\ (anon[CollectionOf(o.opt)] = 0 => ItemAt \notin DOMAIN OldList)
         /\ \A i \in DOMAIN OldList : i # ItemAt => ItemList[i] = OldList[i]
         /\ \A i \in DOMAIN ItemList : i \in DOMAIN OldList \/ i = ItemAt
         /\ ItemWords = Taken(CollectionOf(o.opt), Words(o.arg))
         /\ (anon[CollectionOf(o.opt)] # 0 => OldList[ItemAt].name = None) =>
              ItemList[ItemAt] = [name |-> None, has |-> ItemBefore \cup ItemWords]
         /\ anon[CollectionOf(o.opt)] # 0 => OldList[ItemAt] = [name |-> OldList[ItemAt].name, has |-> ItemBefore]
<1>1. Reading(ItemOption) /\ k <= Len(line)
  BY Zenon DEF RegisterItems, Reading
<1>2. o.opt \in ItemOption /\ o.opt \in ListOption
  BY <1>1 DEF Reading, o, ListOption, ItemOption
<1>3. CollectionOf(o.opt) \in Collections /\ Kind(o.opt) \in Kinds /\ Kind(o.opt) = KindOf(CollectionOf(o.opt))
  BY <1>2, KindsAgree
<1>4. /\ files' = [files EXCEPT ![Kind(o.opt)] = ItemList]
      /\ anon' = [anon EXCEPT ![CollectionOf(o.opt)] = ItemAt]
  BY Zenon DEF RegisterItems, ItemList, ItemAt, ItemWords, OldList
<1>5. profiles' = [profiles EXCEPT ![Len(profiles)] = ItemProfile]
  <2>1. profiles' = [profiles EXCEPT ![Len(profiles)][CollectionOf(o.opt)] = @ \cup {ItemAt}]
    BY Zenon DEF RegisterItems, ItemAt, OldList
  <2> HIDE DEF ItemAt
  <2> QED BY <2>1 DEF ItemProfile, dp, Last
<1>6. OldList \in Seq(Entry)
  BY <1>3 DEF FilesOK, OldList
<1>7. anon[CollectionOf(o.opt)] \in Nat /\ anon[CollectionOf(o.opt)] <= Len(OldList)
  BY <1>3 DEF AnonOK, OldList
<1>8. ItemWords = Taken(CollectionOf(o.opt), Words(o.arg))
  BY <1>3 DEF ItemWords, Taken
<1> DEFINE c0 == CollectionOf(o.opt)
<1>9. CASE anon[c0] = 0
  <2>1. ItemAt = Len(OldList) + 1 /\ ItemBefore = {} /\ ItemList = Append(OldList, [name |-> None, has |-> ItemWords])
    BY <1>9 DEF ItemAt, ItemBefore, ItemList
  <2> HIDE DEF c0
  <2> DEFINE e == [name |-> None, has |-> ItemWords]
  <2>2. Len(OldList) \in Nat /\ DOMAIN OldList = 1 .. Len(OldList) /\ ItemList = Append(OldList, e)
    BY <1>6, <2>1
  <2> HIDE DEF e
  <2>3. /\ DOMAIN ItemList = 1 .. Len(OldList) + 1 /\ ItemList[Len(OldList) + 1] = e
        /\ \A i \in 1 .. Len(OldList) : ItemList[i] = OldList[i]
    BY <1>6, <2>2
  <2>4. \A i \in 1 .. Len(OldList) + 1 : i \in 1 .. Len(OldList) \/ i = Len(OldList) + 1
    BY <2>2
  <2>5. ItemAt # 0 /\ ItemAt \notin DOMAIN OldList
    BY <2>1, <2>2
  <2>6. ItemList[ItemAt] = [name |-> None, has |-> ItemBefore \cup ItemWords]
    BY <2>1, <2>3 DEF e
  <2>7. \A i \in DOMAIN ItemList : i \in DOMAIN OldList \/ i = ItemAt
    BY <2>1, <2>2, <2>3, <2>4
  <2>8. \A i \in DOMAIN OldList : i # ItemAt => ItemList[i] = OldList[i]
    BY <2>2, <2>3
  <2> QED BY <1>2, <1>3, <1>4, <1>5, <1>8, <1>9, <2>5, <2>6, <2>7, <2>8 DEF c0
<1>10. CASE anon[c0] # 0
  <2>1. ItemAt = anon[c0] /\ ItemBefore = OldList[ItemAt].has
        /\ ItemList = [OldList EXCEPT ![ItemAt].has = @ \cup ItemWords]
    BY <1>10 DEF ItemAt, ItemBefore, ItemList
  <2>2. ItemAt \in DOMAIN OldList /\ ItemAt # 0
    BY <1>6, <1>7, <1>10, <2>1
  <2> HIDE DEF c0
  <2> DEFINE e == [OldList[ItemAt] EXCEPT !.has = ItemBefore \cup ItemWords]
  <2>3. ItemList = [OldList EXCEPT ![ItemAt] = e]
    BY <2>1
  <2>4. OldList[ItemAt] \in Entry
    BY <1>6, <2>2
  <2>5. OldList[ItemAt] = [name |-> OldList[ItemAt].name, has |-> ItemBefore]
    BY <2>1, <2>4 DEF Entry
  <2>6. e = [name |-> OldList[ItemAt].name, has |-> ItemBefore \cup ItemWords]
    <3> DEFINE r == OldList[ItemAt]
               a == OldList[ItemAt].name
               w == ItemBefore \cup ItemWords
    <3>1. r = [name |-> a, has |-> ItemBefore]
      BY <2>5
    <3> HIDE DEF r, a, w
    <3>2. [r EXCEPT !.has = w] = [name |-> a, has |-> w]
      BY <3>1
    <3> QED BY <3>2 DEF r, a, w
  <2> HIDE DEF e
  <2>7. /\ DOMAIN ItemList = DOMAIN OldList /\ ItemList[ItemAt] = e
        /\ \A i \in DOMAIN OldList : i # ItemAt => ItemList[i] = OldList[i]
    BY <2>2, <2>3
  <2> QED BY <1>2, <1>3, <1>4, <1>5, <1>8, <1>10, <2>2, <2>5, <2>6, <2>7 DEF c0
<1> QED BY <1>9, <1>10

-----------------------------------------------------------------------------
(* The lists without a name *)

ItemsOK == phase \in {"start", "options"} => NamesOnly(files) /\ OwnItems(anon, profiles, files)

(* The profiles, as a sequence *)
LEMMA ProfilesHere ==
  ASSUME FilesOK, ProfilesOK
  PROVE  /\ Len(profiles) \in Nat \ {0} /\ DOMAIN profiles = 1 .. Len(profiles)
         /\ dp = profiles[Len(profiles)] /\ Last(profiles) = dp
         /\ \A i \in DOMAIN profiles :
              /\ DOMAIN profiles[i] = DOMAIN dp_init /\ profiles[i].splits \in Splits
              /\ profiles[i].auto = 0 \/ profiles[i].auto \in profiles[i]["hl"]
              /\ \A c \in Collections : profiles[i][c] \subseteq DOMAIN files[KindOf(c)]
<1>1. Len(profiles) \in Nat \ {0} /\ DOMAIN profiles = 1 .. Len(profiles)
  BY LastElement DEF ProfilesOK, IsSeq
<1>2. ASSUME NEW i \in DOMAIN profiles
      PROVE  Fits(profiles[i], files, Len(profiles))
  BY DEF ProfilesOK, ToSet
<1>3. ASSUME NEW i \in DOMAIN profiles, NEW c \in Collections
      PROVE  profiles[i][c] \subseteq DOMAIN files[KindOf(c)]
  BY <1>2, <1>3 DEF Fits, Collections, KindOf
<1>4. \A i \in DOMAIN profiles : /\ DOMAIN profiles[i] = DOMAIN dp_init /\ profiles[i].splits \in Splits
                                 /\ profiles[i].auto = 0 \/ profiles[i].auto \in profiles[i]["hl"]
  BY <1>2 DEF Fits
<1> QED BY <1>1, <1>3, <1>4 DEF dp, Last

(* What replaces the last profile *)
LEMMA Replaced ==
  ASSUME FilesOK, ProfilesOK, NEW e, profiles' = [profiles EXCEPT ![Len(profiles)] = e]
  PROVE  /\ Len(profiles') = Len(profiles) /\ DOMAIN profiles' = DOMAIN profiles
         /\ profiles'[Len(profiles)] = e /\ Last(profiles') = e
         /\ \A i \in DOMAIN profiles : i # Len(profiles) => profiles'[i] = profiles[i]
<1>1. Len(profiles) \in DOMAIN profiles /\ profiles \in Seq(ToSet(profiles))
  BY ProfilesHere DEF ProfilesOK, IsSeq
<1>2. Len(profiles') = Len(profiles) /\ DOMAIN profiles' = DOMAIN profiles
  BY <1>1, ProfilesHere, LastReplaced DEF ProfilesOK, IsSeq
<1>3. profiles'[Len(profiles)] = e /\ \A i \in DOMAIN profiles : i # Len(profiles) => profiles'[i] = profiles[i]
  BY <1>1
<1> QED BY <1>2, <1>3 DEF Last

(* A list without a name stays the list of its collection. *)
LEMMA OwnSame ==
  ASSUME NEW c \in Collections, NEW at, NEW ps, NEW qs, NEW fs, OwnItem(c, at, ps, fs),
         Len(qs) = Len(ps), DOMAIN qs = DOMAIN ps,
         \A i \in DOMAIN ps, d \in Collections : qs[i][d] = ps[i][d], Last(qs)[c] = Last(ps)[c]
  PROVE  OwnItem(c, at, qs, fs)
BY DEF OwnItem

(* A list in a file leaves the lists without a name to their profile. *)
LEMMA OwnFile ==
  ASSUME LineOK, DiskOK, FilesOK, ProfilesOK, AnonOK, RegisterFile, NamesOnly(files), OwnItems(anon, profiles, files)
  PROVE  NamesOnly(files)' /\ OwnItems(anon, profiles, files)'
<1> DEFINE c0 == CollectionOf(o.opt)
           kd == Kind(o.opt)
<1>1. /\ c0 \in Collections /\ kd \in Kinds /\ kd = KindOf(c0)
      /\ files' = [files EXCEPT ![kd] = FileList] /\ profiles' = [profiles EXCEPT ![Len(profiles)] = FileProfile]
      /\ FileList[FileAt].name = FileName /\ FileName # None
      /\ \A i \in DOMAIN OldList : i \in DOMAIN FileList /\ FileList[i] = OldList[i]
      /\ \A i \in DOMAIN FileList : i \in DOMAIN OldList \/ FileList[i] = [name |-> FileName, has |-> {}]
  BY FileStep
<1>2. OldList = files[kd]
  BY DEF OldList
<1>3. anon' = anon
  BY Zenon DEF RegisterFile
<1> HIDE DEF kd, c0
<1>4. files \in [Kinds -> Seq(Entry)] /\ files'[kd] = FileList /\ DOMAIN files' = Kinds
      /\ \A kind \in Kinds : kind # kd => files'[kind] = files[kind]
  BY <1>1 DEF FilesOK
<1>5. NamesOnly(files')
  <2> SUFFICES ASSUME NEW kind \in Kinds, NEW i \in DOMAIN files'[kind], files'[kind][i].name # None
               PROVE  files'[kind][i].has = {}
    BY DEF NamesOnly
  <2>1. CASE kind # kd
    BY <1>4, <2>1 DEF NamesOnly
  <2>2. CASE kind = kd /\ i \in DOMAIN OldList
    BY <1>1, <1>2, <1>4, <2>2 DEF NamesOnly
  <2>3. CASE kind = kd /\ i \notin DOMAIN OldList
    <3>1. FileList[i] = [name |-> FileName, has |-> {}]
      BY <1>1, <1>4, <2>3
    <3> QED BY <1>4, <2>3, <3>1
  <2> QED BY <2>1, <2>2, <2>3
<1>6. /\ Len(profiles') = Len(profiles) /\ DOMAIN profiles' = DOMAIN profiles
      /\ profiles'[Len(profiles)] = FileProfile /\ Last(profiles') = FileProfile
      /\ \A i \in DOMAIN profiles : i # Len(profiles) => profiles'[i] = profiles[i]
  BY <1>1, Replaced
<1>7. \A c \in Collections : FileProfile[c] = IF c = c0 THEN dp[c] \cup {FileAt} ELSE dp[c]
  <2>1. DOMAIN dp = DOMAIN dp_init
    BY ProfilesHere
  <2> QED BY <1>1, <2>1, FileCollected DEF c0
<1>8. Last(profiles) = dp /\ dp = profiles[Len(profiles)] /\ Len(profiles) \in DOMAIN profiles
  BY ProfilesHere
<1>9. ASSUME NEW c \in Collections PROVE OwnItem(c, anon[c], profiles', files')
  <2> DEFINE at == anon[c]
  <2> SUFFICES ASSUME at # 0 PROVE OwnItem(c, at, profiles', files')
    BY DEF OwnItem
  <2>1. /\ files[KindOf(c)][at].name = None /\ at \in dp[c]
        /\ \A i \in DOMAIN profiles, d \in Collections :
             KindOf(d) = KindOf(c) /\ at \in profiles[i][d] => i = Len(profiles) /\ d = c
    BY <1>8 DEF OwnItems, OwnItem
  <2>2. at \in DOMAIN files[KindOf(c)] /\ KindOf(c) \in Kinds
    <3>1. KindOf(c) \in Kinds
      BY DEF KindOf, Kinds
    <3>2. at \in Nat /\ at <= Len(files[KindOf(c)]) /\ DOMAIN files[KindOf(c)] = 1 .. Len(files[KindOf(c)])
      BY <1>4, <3>1 DEF AnonOK
    <3> QED BY <3>1, <3>2
  <2>3. files'[KindOf(c)][at].name = None
    BY <1>1, <1>2, <1>4, <2>1, <2>2
  <2>4. KindOf(c) = kd => at # FileAt
    BY <1>1, <1>4, <2>3
  <2> HIDE DEF at
  <2>5. at \in FileProfile[c]
    BY <1>7, <2>1
  <2>6. ASSUME NEW i \in DOMAIN profiles, NEW d \in Collections, KindOf(d) = KindOf(c), at \in profiles'[i][d]
        PROVE  i = Len(profiles) /\ d = c
    <3>1. at \in profiles[i][d]
      <4>1. CASE i # Len(profiles)
        BY <1>6, <2>6, <4>1
      <4>2. CASE i = Len(profiles)
        BY <1>1, <1>6, <1>7, <1>8, <2>4, <2>6, <4>2, ZenonT(60)
      <4> QED BY <4>1, <4>2
    <3> QED BY <2>1, <2>6, <3>1
  <2> QED BY <1>6, <2>3, <2>5, <2>6 DEF OwnItem
<1> QED BY <1>3, <1>5, <1>9 DEF OwnItems

(* The items of a line are in the list without a name of their collection alone. *)
LEMMA OwnItemStep ==
  ASSUME LineOK, FilesOK, ProfilesOK, AnonOK, RegisterItems, NamesOnly(files), OwnItems(anon, profiles, files)
  PROVE  NamesOnly(files)' /\ OwnItems(anon, profiles, files)'
<1> DEFINE c0 == CollectionOf(o.opt)
           kd == Kind(o.opt)
<1>1. /\ c0 \in Collections /\ kd \in Kinds /\ kd = KindOf(c0)
      /\ files' = [files EXCEPT ![kd] = ItemList] /\ profiles' = [profiles EXCEPT ![Len(profiles)] = ItemProfile]
      /\ anon' = [anon EXCEPT ![c0] = ItemAt]
      /\ ItemAt # 0 /\ (anon[c0] = 0 => ItemAt \notin DOMAIN OldList)
      /\ \A i \in DOMAIN OldList : i # ItemAt => ItemList[i] = OldList[i]
      /\ \A i \in DOMAIN ItemList : i \in DOMAIN OldList \/ i = ItemAt
      /\ (anon[c0] # 0 => OldList[ItemAt].name = None) =>
           ItemList[ItemAt] = [name |-> None, has |-> ItemBefore \cup ItemWords]
  BY ItemStep
<1>2. OldList = files[kd]
  BY DEF OldList
<1>3. anon[c0] # 0 => ItemAt = anon[c0]
  BY DEF ItemAt
<1>4. DOMAIN dp = DOMAIN dp_init
  BY ProfilesHere
<1>5. \A c \in Collections : ItemProfile[c] = IF c = c0 THEN dp[c] \cup {ItemAt} ELSE dp[c]
  BY <1>1, <1>4, ItemCollected
<1> HIDE DEF kd, c0
<1>6. files \in [Kinds -> Seq(Entry)] /\ files'[kd] = ItemList /\ DOMAIN files' = Kinds
      /\ \A kind \in Kinds : kind # kd => files'[kind] = files[kind]
  BY <1>1 DEF FilesOK
<1>7. ItemList[ItemAt].name = None
  <2>1. anon[c0] # 0 => OldList[ItemAt].name = None
    BY <1>1, <1>2, <1>3 DEF OwnItems, OwnItem
  <2> QED BY <1>1, <2>1
<1>8. /\ Len(profiles') = Len(profiles) /\ DOMAIN profiles' = DOMAIN profiles
      /\ profiles'[Len(profiles)] = ItemProfile /\ Last(profiles') = ItemProfile
      /\ \A i \in DOMAIN profiles : i # Len(profiles) => profiles'[i] = profiles[i]
  BY <1>1, Replaced
<1>9. Last(profiles) = dp /\ dp = profiles[Len(profiles)] /\ Len(profiles) \in DOMAIN profiles
  BY ProfilesHere
<1>10. \A i \in DOMAIN profiles, d \in Collections : profiles[i][d] \subseteq DOMAIN files[KindOf(d)]
  BY ProfilesHere
<1>11. anon'[c0] = ItemAt /\ \A c \in Collections : c # c0 => anon'[c] = anon[c]
  BY <1>1 DEF AnonOK
<1>12. NamesOnly(files')
  <2> SUFFICES ASSUME NEW kind \in Kinds, NEW i \in DOMAIN files'[kind], files'[kind][i].name # None
               PROVE  files'[kind][i].has = {}
    BY DEF NamesOnly
  <2>1. CASE kind # kd
    BY <1>6, <2>1 DEF NamesOnly
  <2>2. CASE kind = kd /\ i # ItemAt
    BY <1>1, <1>2, <1>6, <2>2 DEF NamesOnly
  <2>3. CASE kind = kd /\ i = ItemAt
    BY <1>6, <1>7, <2>3
  <2> QED BY <2>1, <2>2, <2>3
<1>13. OwnItem(c0, ItemAt, profiles', files')
  <2>1. files'[KindOf(c0)][ItemAt].name = None /\ ItemAt \in Last(profiles')[c0]
    BY <1>1, <1>5, <1>6, <1>7, <1>8
  <2>2. ASSUME NEW i \in DOMAIN profiles, NEW d \in Collections, KindOf(d) = KindOf(c0), ItemAt \in profiles[i][d]
        PROVE  i = Len(profiles) /\ d = c0
    <3>1. anon[c0] # 0
      BY <1>1, <1>2, <1>10, <2>2
    <3> QED BY <1>1, <1>3, <2>2, <3>1 DEF OwnItems, OwnItem
  <2>3. ASSUME NEW i \in DOMAIN profiles, NEW d \in Collections, KindOf(d) = KindOf(c0), ItemAt \in profiles'[i][d]
        PROVE  i = Len(profiles) /\ d = c0
    <3>1. CASE i # Len(profiles)
      <4>1. profiles'[i] = profiles[i]
        BY <1>8, <3>1
      <4> QED BY <2>2, <2>3, <4>1
    <3>2. CASE i = Len(profiles) /\ d # c0
      <4>1. ItemAt \in profiles[i][d]
        BY <1>5, <1>8, <1>9, <2>3, <3>2
      <4> QED BY <2>2, <2>3, <4>1
    <3> QED BY <3>1, <3>2
  <2> QED BY <1>8, <2>1, <2>3 DEF OwnItem
<1>14. ASSUME NEW c \in Collections, c # c0 PROVE OwnItem(c, anon[c], profiles', files')
  <2> DEFINE at == anon[c]
  <2> SUFFICES ASSUME at # 0 PROVE OwnItem(c, at, profiles', files')
    BY DEF OwnItem
  <2>1. /\ files[KindOf(c)][at].name = None /\ at \in dp[c]
        /\ \A i \in DOMAIN profiles, d \in Collections :
             KindOf(d) = KindOf(c) /\ at \in profiles[i][d] => i = Len(profiles) /\ d = c
    BY <1>9 DEF OwnItems, OwnItem
  <2>2. at \in DOMAIN files[KindOf(c)] /\ KindOf(c) \in Kinds
    <3>1. KindOf(c) \in Kinds
      BY DEF KindOf, Kinds
    <3>2. at \in DOMAIN files[KindOf(c)]
      BY <1>9, <1>10, <2>1
    <3> QED BY <3>1, <3>2
  <2>3. KindOf(c) = kd => at # ItemAt
    <3> SUFFICES ASSUME KindOf(c) = kd, at = ItemAt PROVE FALSE
      OBVIOUS
    <3>1. anon[c0] # 0
      BY <1>1, <1>2, <2>2
    <3>2. at \in dp[c0]
      BY <1>1, <1>3, <1>9, <3>1 DEF OwnItems, OwnItem
    <3> QED BY <1>1, <1>9, <1>14, <2>1, <3>2
  <2> HIDE DEF at
  <2>4. files'[KindOf(c)][at].name = None
    BY <1>1, <1>2, <1>6, <2>1, <2>2, <2>3
  <2>5. at \in ItemProfile[c]
    BY <1>5, <2>1
  <2>6. ASSUME NEW i \in DOMAIN profiles, NEW d \in Collections, KindOf(d) = KindOf(c), at \in profiles'[i][d]
        PROVE  i = Len(profiles) /\ d = c
    <3>1. at \in profiles[i][d]
      <4>1. CASE i # Len(profiles)
        BY <1>8, <2>6, <4>1
      <4>2. CASE i = Len(profiles)
        BY <1>1, <1>5, <1>8, <1>9, <2>3, <2>6, <4>2, ZenonT(60)
      <4> QED BY <4>1, <4>2
    <3> QED BY <2>1, <2>6, <3>1
  <2> QED BY <1>8, <2>4, <2>5, <2>6 DEF OwnItem
<1>15. \A c \in Collections : OwnItem(c, anon'[c], profiles', files')
  BY <1>11, <1>13, <1>14
<1> QED BY <1>12, <1>15 DEF OwnItems

(* The options of a profile leave its lists to it. *)
LEMMA OwnAssign ==
  ASSUME LineOK, FilesOK, ProfilesOK, Assign, OwnItems(anon, profiles, files)
  PROVE  OwnItems(anon, profiles, files)'
<1>1. k <= Len(line) /\ (\E p \in Assigned(o, dp) : profiles' = [profiles EXCEPT ![Len(profiles)] = p])
      /\ anon' = anon /\ files' = files
  BY Zenon DEF Assign, Reading
<1>2. PICK p \in Assigned(o, dp) : profiles' = [profiles EXCEPT ![Len(profiles)] = p]
  BY <1>1
<1>3. o.arg \in Seq(Item)
  BY <1>1, OptionHere
<1>4. Last(profiles) = dp /\ dp = profiles[Len(profiles)] /\ Len(profiles) \in DOMAIN profiles
      /\ DOMAIN dp = DOMAIN dp_init /\ dp.splits \in Splits
  BY ProfilesHere
<1>5. Keeps(dp, p, Core)
  BY <1>3, <1>4, InitFields, AssignedKeeps
<1>6. \A d \in Collections : p[d] = dp[d]
  BY <1>5 DEF Keeps, Core, Collections
<1>7. /\ Len(profiles') = Len(profiles) /\ DOMAIN profiles' = DOMAIN profiles
      /\ profiles'[Len(profiles)] = p /\ Last(profiles') = p
      /\ \A i \in DOMAIN profiles : i # Len(profiles) => profiles'[i] = profiles[i]
  BY <1>2, Replaced
<1>8. \A i \in DOMAIN profiles, d \in Collections : profiles'[i][d] = profiles[i][d]
  BY <1>4, <1>6, <1>7
<1>9. \A c \in Collections : Last(profiles')[c] = Last(profiles)[c]
  BY <1>4, <1>6, <1>7
<1>10. \A c \in Collections : OwnItem(c, anon[c], profiles', files)
  BY <1>7, <1>8, <1>9, OwnSame DEF OwnItems
<1> QED BY <1>1, <1>10 DEF OwnItems

(* The lists without a name, step by step *)
LEMMA ItemsKept ==
  ASSUME LineOK, DiskOK, FilesOK, ProfilesOK, AnonOK, ItemsOK, Next
  PROVE  ItemsOK'
<1> SUFFICES ASSUME phase' \in {"start", "options"}
             PROVE  NamesOnly(files)' /\ OwnItems(anon, profiles, files)'
  BY DEF ItemsOK
<1>0. CASE ProcessStep
  BY <1>0, ProcessPhase
<1>1. CASE RegisterFile
  <2>1. phase = "options"
    BY <1>1, Zenon DEF RegisterFile, Reading
  <2> QED BY <1>1, <2>1, OwnFile DEF ItemsOK
<1>2. CASE RegisterItems
  <2>1. phase = "options"
    BY <1>2, Zenon DEF RegisterItems, Reading
  <2> QED BY <1>2, <2>1, OwnItemStep DEF ItemsOK
<1>3. CASE Assign
  <2>1. phase = "options" /\ files' = files
    BY <1>3, Zenon DEF Assign, Reading
  <2> QED BY <1>3, <2>1, OwnAssign DEF ItemsOK
<1>4. CASE New
  <2>1. phase = "options" /\ files' = files /\ anon' = NoAnon
    BY <1>4, Zenon DEF New, Reading
  <2> QED BY <2>1 DEF ItemsOK, OwnItems, OwnItem, NoAnon
<1>5. CASE ReadConfig \/ DryRun \/ Skip \/ SetGlobal \/ ListSkipped
  <2>1. phase \in {"start", "options"} /\ files' = files /\ anon' = anon /\ profiles' = profiles
    BY <1>5, Zenon DEF ReadConfig, DryRun, Skip, SetGlobal, ListSkipped, Reading
  <2> QED BY <2>1 DEF ItemsOK
<1>6. CASE Unknown \/ Version \/ AssignRefused \/ GlobalRefused \/ RegisterRefused \/ FinaliseRefused
  <2>1. phase' = "exit"
    BY <1>6, Zenon DEF Unknown, Version, AssignRefused, GlobalRefused, RegisterRefused, FinaliseRefused, Exit
  <2> QED BY <2>1
<1>7. CASE EndOfOptions \/ Finalise
  <2>1. phase' \in {"finalise", "test"}
    BY <1>7, Zenon DEF EndOfOptions, Finalise, Goto
  <2> QED BY <2>1
<1> QED BY <1>0, <1>1, <1>2, <1>3, <1>4, <1>5, <1>6, <1>7 DEF Next, CommandLineStep

-----------------------------------------------------------------------------
(* The profiles follow the line *)

StartOK == phase = "start" => profiles = <<New0(1)>> /\ skip = FALSE
FollowsOK == phase = "options" => Follows(line, k - 1, profiles, skip, files)

\* The next option is the one after n others, in the section c.
Stands(n, c) ==
  /\ k = n + 1 /\ IsLine(line) /\ n + 1 \in DOMAIN line
  /\ FollowsIn(line, n, c, profiles, skip, files) /\ Current(line, n, c)

(* Where the next option stands *)
LEMMA Standing ==
  ASSUME LineOK, FollowsOK, phase = "options", k <= Len(line)
  PROVE  \E n \in Nat : \E c : Stands(n, c)
<1>1. IsLine(line) /\ k \in 1 .. Len(line) /\ DOMAIN line = 1 .. Len(line) /\ Len(line) \in Nat
  BY DEF LineOK, CanBe, IsLine
<1>2. k - 1 \in Nat /\ k = (k - 1) + 1 /\ (k - 1) + 1 \in DOMAIN line
  BY <1>1
<1>3. PICK c : FollowsIn(line, k - 1, c, profiles, skip, files)
  BY DEF FollowsOK, Follows
<1>4. Current(line, k - 1, c)
  BY <1>3 DEF FollowsIn
<1>5. Stands(k - 1, c)
  BY <1>1, <1>2, <1>3, <1>4 DEF Stands
<1> QED BY <1>2, <1>5

(* The option of a position, and the last profile *)
LEMMA StandingReads ==
  ASSUME ProfilesOK, FilesOK, NEW n \in Nat, NEW c, Stands(n, c)
  PROVE  line[n + 1] = o /\ (~skip => Reads(line, n, c, dp, files))
<1>1. line[n + 1] = o
  BY DEF Stands, o
<1>2. ASSUME ~skip PROVE Reads(line, n, c, dp, files)
  <2>1. c \in KeptAt(line, n)
    BY <1>2 DEF Stands, FollowsIn
  <2>2. PlaceAt(line, n, c) = Len(profiles) /\ Reads(line, n, c, profiles[PlaceAt(line, n, c)], files)
    BY <2>1, PlaceOver DEF Stands
  <2> QED BY <2>2, ProfilesHere
<1> QED BY <1>1, <1>2

(* An option that is neither --new nor --skip is about the last profile alone. *)
LEMMA FollowsStep ==
  ASSUME ProfilesOK, FilesOK, NEW n \in Nat, NEW c, Stands(n, c), o.opt \notin {"new", "skip"},
         k' = k + 1, line' = line, skip' = skip, Len(profiles') = Len(profiles),
         \A i \in DOMAIN profiles : i # Len(profiles) =>
           profiles'[i] = profiles[i] /\ Untouched(profiles[i], files, files'),
         ~skip => Reads(line, n + 1, c, Last(profiles'), files')
  PROVE  FollowsOK'
<1>1. Len(profiles) \in Nat \ {0} /\ DOMAIN profiles = 1 .. Len(profiles)
  BY ProfilesHere
<1>2. \A i \in 1 .. Len(profiles) - 1 : profiles'[i] = profiles[i] /\ Untouched(profiles[i], files, files')
  BY <1>1
<1>3. Last(profiles') = profiles'[Len(profiles)]
  BY DEF Last
<1>4. line[n + 1].opt \notin {"new", "skip"}
  BY DEF Stands, o
<1>5. Follows(line, n + 1, profiles', skip, files')
  BY <1>1, <1>2, <1>3, <1>4, FollowsOn DEF Stands
<1>6. k' - 1 = n + 1
  BY DEF Stands
<1> QED BY <1>5, <1>6 DEF FollowsOK

(* A profile that no registration reaches *)
LEMMA UntouchedSame ==
  ASSUME ProfilesOK, FilesOK, NEW i \in DOMAIN profiles
  PROVE  Untouched(profiles[i], files, files)
BY ProfilesHere DEF Untouched

(* An option that is not about a profile *)
LEMMA FollowsOther ==
  ASSUME ProfilesOK, FilesOK, LineOK, FollowsOK, phase = "options", k <= Len(line),
         o.opt \notin {"new", "skip"}, skip \/ o.opt \notin ListOption \cup ProfileOption,
         k' = k + 1, line' = line, skip' = skip, profiles' = profiles, files' = files
  PROVE  FollowsOK'
<1>s. PICK n \in Nat : \E c : Stands(n, c)
  BY Standing
<1>1. PICK c : Stands(n, c)
  BY <1>s
<1>2. ASSUME ~skip PROVE Reads(line, n + 1, c, dp, files)
  <2>1. Reads(line, n, c, dp, files) /\ line[n + 1] = o
    BY <1>1, <1>2, StandingReads
  <2>2. Collects(line, SoFar(line, c, n), dp, files)
    BY <2>1 DEF Reads
  <2>3. Collects(line, SoFar(line, c, n) \cup {n + 1}, dp, files)
    BY <1>2, <2>1, <2>2, CollectsOther
  <2>4. Alike(dp, dp)
    BY DEF Alike
  <2>5. line[n + 1].opt \notin {"new", "skip"} /\ line[n + 1].opt \notin ProfileOption
    BY <1>2, <2>1
  <2> HIDE DEF dp
  <2> QED BY <1>1, <2>1, <2>3, <2>4, <2>5, ReadsMore DEF Stands
<1>3. Last(profiles') = dp
  BY ProfilesHere
<1> QED BY <1>1, <1>2, <1>3, UntouchedSame, FollowsStep

(* An option of a profile *)
LEMMA FollowsAssign ==
  ASSUME ProfilesOK, FilesOK, LineOK, FollowsOK, Assign
  PROVE  FollowsOK'
<1>1. /\ phase = "options" /\ k <= Len(line) /\ line[k].opt \in ProfileOption
      /\ (\E p \in Assigned(o, dp) : profiles' = [profiles EXCEPT ![Len(profiles)] = p])
      /\ files' = files /\ k' = k + 1 /\ line' = line /\ skip' = skip
  BY Zenon DEF Assign, Reading, Next1
<1>s. PICK n \in Nat : \E c : Stands(n, c)
  BY <1>1, Standing
<1>2. PICK c : Stands(n, c)
  BY <1>s
<1>3. PICK p \in Assigned(o, dp) : profiles' = [profiles EXCEPT ![Len(profiles)] = p]
  BY <1>1
<1>4. o.opt \in ProfileOption /\ o.opt \notin {"new", "skip"} /\ o.opt \notin ListOption
  BY <1>1 DEF o, ProfileOption, ListOption
<1>5. DOMAIN dp = DOMAIN dp_init /\ dp.splits \in Splits /\ Len(profiles) \in DOMAIN profiles
  BY ProfilesHere
<1>6. Keeps(dp, p, Core)
  <2>1. o.arg \in Seq(Item)
    BY <1>1, OptionHere
  <2> QED BY <1>5, <2>1, InitFields, AssignedKeeps
<1>7. /\ Len(profiles') = Len(profiles) /\ Last(profiles') = p
      /\ \A i \in DOMAIN profiles : i # Len(profiles) => profiles'[i] = profiles[i]
  BY <1>3, Replaced
<1>8. ASSUME ~skip PROVE Reads(line, n + 1, c, p, files)
  <2>1. Reads(line, n, c, dp, files) /\ line[n + 1] = o
    BY <1>2, <1>8, StandingReads
  <2>2. Collects(line, SoFar(line, c, n) \cup {n + 1}, dp, files)
    BY <1>4, <2>1, CollectsOther DEF Reads
  <2>3. p.n = dp.n /\ p.auto = dp.auto /\ \A d \in Collections : p[d] = dp[d]
    BY <1>6 DEF Keeps, Core, Collections
  <2>4. Collects(line, SoFar(line, c, n) \cup {n + 1}, p, files)
    BY <2>2, <2>3 DEF Collects
  <2>5. line[n + 1].opt \notin {"new", "skip"} /\ line[n + 1].opt \in ProfileOption
        /\ p \in Assigned(line[n + 1], dp)
    BY <1>4, <2>1
  <2> HIDE DEF dp
  <2> QED BY <1>2, <1>5, <2>1, <2>3, <2>4, <2>5, ReadsMore DEF Stands
<1> QED BY <1>1, <1>2, <1>4, <1>7, <1>8, UntouchedSame, FollowsStep

(* What Append keeps and adds *)
LEMMA AppendIs ==
  ASSUME NEW S, NEW s \in Seq(S), NEW e
  PROVE  /\ Len(Append(s, e)) = Len(s) + 1 /\ Append(s, e)[Len(s) + 1] = e
         /\ \A i \in 1 .. Len(s) : Append(s, e)[i] = s[i]
<1>1. s \in Seq(S \cup {e})
  OBVIOUS
<1> QED BY <1>1

(* A list in a file *)
LEMMA FollowsFile ==
  ASSUME LineOK, DiskOK, FilesOK, ProfilesOK, ItemsOK, FollowsOK, RegisterFile
  PROVE  FollowsOK'
<1> DEFINE c0 == CollectionOf(o.opt)
           kd == Kind(o.opt)
<1>1. /\ phase = "options" /\ k <= Len(line) /\ ~skip
      /\ k' = k + 1 /\ line' = line /\ skip' = skip
  BY Zenon DEF RegisterFile, Reading, Next1
<1>2. /\ o.opt \in ListOption \ ItemOption
      /\ c0 \in Collections /\ kd \in Kinds /\ kd = KindOf(c0)
      /\ files' = [files EXCEPT ![kd] = FileList] /\ profiles' = [profiles EXCEPT ![Len(profiles)] = FileProfile]
      /\ FileAt \in DOMAIN FileList /\ FileAt # 0 /\ FileList[FileAt].name = FileName /\ FileName # None
      /\ \A i \in DOMAIN OldList : i \in DOMAIN FileList /\ FileList[i] = OldList[i]
      /\ \A i \in DOMAIN FileList : i \in DOMAIN OldList \/ FileList[i] = [name |-> FileName, has |-> {}]
  BY FileStep
<1>3. OldList = files[kd] /\ FileName = o.arg[1].w
  BY DEF OldList, FileName
<1>s. PICK n \in Nat : \E c : Stands(n, c)
  BY <1>1, Standing
<1>4. PICK c : Stands(n, c)
  BY <1>s
<1>5. line[n + 1] = o /\ Reads(line, n, c, dp, files)
  BY <1>1, <1>4, StandingReads
<1>6. NamesOnly(files)
  BY <1>1 DEF ItemsOK
<1>7. DOMAIN dp = DOMAIN dp_init
  BY ProfilesHere
<1>8. /\ FileProfile.n = dp.n /\ Alike(FileProfile, dp)
      /\ FileProfile.auto = IF o.opt = "hostlist-auto" THEN FileAt ELSE dp.auto
      /\ \A d \in Collections : FileProfile[d] = IF d = c0 THEN dp[d] \cup {FileAt} ELSE dp[d]
  BY <1>2, <1>7, FileCollected
<1>9. CollectionOf(line[n + 1].opt) = c0 /\ FileName = line[n + 1].arg[1].w
  BY <1>3, <1>5
<1> HIDE DEF c0, kd
<1>10. files'[kd] = FileList /\ \A kind \in Kinds : kind # kd => files'[kind] = files[kind]
  BY <1>2 DEF FilesOK
<1>11. \A d \in Collections : \A i : i \in DOMAIN files[KindOf(d)] => files'[KindOf(d)][i] = files[KindOf(d)][i]
  <2>1. \A d \in Collections : KindOf(d) \in Kinds
    BY DEF KindOf, Kinds
  <2> QED BY <1>2, <1>3, <1>10, <2>1
<1>12. \A i \in DOMAIN profiles : Untouched(profiles[i], files, files')
  BY <1>11, ProfilesHere DEF Untouched
<1>13. Untouched(dp, files, files')
  BY <1>12, ProfilesHere
<1>14. files'[KindOf(c0)][FileAt] = [name |-> FileName, has |-> {}]
  <2>1. CASE FileAt \notin DOMAIN OldList
    BY <1>2, <1>10, <2>1
  <2>2. CASE FileAt \in DOMAIN OldList
    <3>1. OldList[FileAt] \in Entry
      BY <1>2, <1>3, <2>2 DEF FilesOK
    <3>2. OldList[FileAt].name = FileName
      BY <1>2, <2>2
    <3>3. OldList[FileAt].has = {}
      BY <1>2, <1>3, <1>6, <2>2, <3>2 DEF NamesOnly
    <3>4. OldList[FileAt] = [name |-> FileName, has |-> {}]
      BY <3>1, <3>2, <3>3 DEF Entry
    <3> QED BY <1>2, <1>10, <2>2, <3>4
  <2> QED BY <2>1, <2>2
<1>15. Collects(line, SoFar(line, c, n) \cup {n + 1}, FileProfile, files')
  <2> DEFINE p == dp
             q == FileProfile
             s == SoFar(line, c, n)
             at == FileAt
             gs == files'
             name == line[n + 1].arg[1].w
  <2>1. Collects(line, s, p, files)
    BY <1>5 DEF Reads
  <2>2. /\ p.auto = 0 \/ p.auto \in p["hl"]
        /\ \A d \in Collections : \A i \in p[d] : gs[KindOf(d)][i] = files[KindOf(d)][i]
    BY <1>13 DEF Untouched
  <2>3. line[n + 1].opt \in ListOption \ ItemOption
    BY <1>2, <1>5
  <2>4. q.auto = IF line[n + 1].opt = "hostlist-auto" THEN at ELSE p.auto
    BY <1>5, <1>8
  <2>5. \A d \in Collections : q[d] = IF d = c0 THEN p[d] \cup {at} ELSE p[d]
    BY <1>8
  <2>6. gs[KindOf(c0)][at] = [name |-> name, has |-> {}] /\ name # None
        /\ at # 0 /\ c0 = CollectionOf(line[n + 1].opt)
    BY <1>2, <1>9, <1>14
  <2> HIDE DEF p, q, s, at, gs
  <2>7. TakesFile(line[n + 1], at, p, q, files, gs)
    BY <2>2, <2>3, <2>4, <2>5, <2>6 DEF TakesFile, Untouched, OneList
  <2>8. Collects(line, s \cup {n + 1}, q, gs)
    BY <2>1, <2>7, CollectsFile
  <2> QED BY <2>8 DEF p, q, s, at, gs
<1>16. o.opt \notin {"new", "skip"} /\ o.opt \notin ProfileOption
  BY <1>2 DEF ListOption, ItemOption, ProfileOption
<1>17. Reads(line, n + 1, c, FileProfile, files')
  <2> DEFINE p == dp
             q == FileProfile
  <2>1. q.n = p.n /\ Alike(q, p) /\ Reads(line, n, c, p, files)
        /\ Collects(line, SoFar(line, c, n) \cup {n + 1}, q, files')
    BY <1>5, <1>8, <1>15
  <2>2. line[n + 1].opt \notin {"new", "skip"} /\ line[n + 1].opt \notin ProfileOption
    BY <1>5, <1>16
  <2> HIDE DEF p, q
  <2>3. Reads(line, n + 1, c, q, files')
    BY <1>4, <2>1, <2>2, ReadsMore DEF Stands
  <2> QED BY <2>3 DEF q
<1>18. /\ Len(profiles') = Len(profiles) /\ Last(profiles') = FileProfile
       /\ \A i \in DOMAIN profiles : i # Len(profiles) => profiles'[i] = profiles[i]
  BY <1>2, Replaced
<1> QED BY <1>1, <1>4, <1>12, <1>16, <1>17, <1>18, FollowsStep

(* The items of a line *)
LEMMA FollowsItems ==
  ASSUME LineOK, FilesOK, ProfilesOK, AnonOK, ItemsOK, FollowsOK, RegisterItems
  PROVE  FollowsOK'
<1> DEFINE c0 == CollectionOf(o.opt)
           kd == Kind(o.opt)
<1>1. /\ phase = "options" /\ k <= Len(line) /\ ~skip
      /\ k' = k + 1 /\ line' = line /\ skip' = skip
  BY Zenon DEF RegisterItems, Reading, Next1
<1>2. /\ o.opt \in ItemOption /\ o.opt \in ListOption
      /\ c0 \in Collections /\ kd \in Kinds /\ kd = KindOf(c0)
      /\ files' = [files EXCEPT ![kd] = ItemList] /\ profiles' = [profiles EXCEPT ![Len(profiles)] = ItemProfile]
      /\ (anon[c0] = 0 => ItemAt \notin DOMAIN OldList)
      /\ \A i \in DOMAIN OldList : i # ItemAt => ItemList[i] = OldList[i]
      /\ ItemWords = Taken(c0, Words(o.arg))
      /\ (anon[c0] # 0 => OldList[ItemAt].name = None) =>
           ItemList[ItemAt] = [name |-> None, has |-> ItemBefore \cup ItemWords]
      /\ anon[c0] # 0 => OldList[ItemAt] = [name |-> OldList[ItemAt].name, has |-> ItemBefore]
  BY ItemStep
<1>3. OldList = files[kd]
  BY DEF OldList
<1>3a. (anon[c0] # 0 => ItemAt = anon[c0]) /\ (anon[c0] = 0 => ItemBefore = {})
  BY DEF ItemAt, ItemBefore
<1>s. PICK n \in Nat : \E c : Stands(n, c)
  BY <1>1, Standing
<1>4. PICK c : Stands(n, c)
  BY <1>s
<1>5. line[n + 1] = o /\ Reads(line, n, c, dp, files)
  BY <1>1, <1>4, StandingReads
<1>6. OwnItems(anon, profiles, files)
  BY <1>1 DEF ItemsOK
<1>7. DOMAIN dp = DOMAIN dp_init /\ dp = Last(profiles) /\ dp = profiles[Len(profiles)]
      /\ Len(profiles) \in DOMAIN profiles
  BY ProfilesHere
<1>8. /\ ItemProfile.n = dp.n /\ Alike(ItemProfile, dp) /\ ItemProfile.auto = dp.auto
      /\ \A d \in Collections : ItemProfile[d] = IF d = c0 THEN dp[d] \cup {ItemAt} ELSE dp[d]
  BY <1>2, <1>7, ItemCollected
<1>9. CollectionOf(line[n + 1].opt) = c0 /\ ItemWords = Taken(c0, Words(line[n + 1].arg))
  BY <1>2, <1>5
<1> HIDE DEF c0, kd
<1>10. files'[kd] = ItemList /\ \A kind \in Kinds : kind # kd => files'[kind] = files[kind]
  BY <1>2 DEF FilesOK
<1>11. \A i \in DOMAIN profiles, d \in Collections : profiles[i][d] \subseteq DOMAIN files[KindOf(d)]
  BY ProfilesHere
<1>12. ASSUME NEW i \in DOMAIN profiles, NEW d \in Collections, KindOf(d) = kd, ItemAt \in profiles[i][d]
       PROVE  anon[c0] # 0 /\ i = Len(profiles) /\ d = c0
  <2>1. anon[c0] # 0
    BY <1>2, <1>3, <1>11, <1>12
  <2> QED BY <1>2, <1>3a, <1>6, <1>12, <2>1 DEF OwnItems, OwnItem
<1>13. anon[c0] # 0 => OldList[ItemAt].name = None /\ ItemAt \in dp[c0]
  BY <1>2, <1>3, <1>3a, <1>6, <1>7 DEF OwnItems, OwnItem
<1>14. ASSUME NEW i \in DOMAIN profiles, NEW d \in Collections, NEW j \in profiles[i][d],
              i # Len(profiles) \/ d # c0 \/ j # ItemAt
       PROVE  files'[KindOf(d)][j] = files[KindOf(d)][j]
  <2>1. KindOf(d) \in Kinds /\ j \in DOMAIN files[KindOf(d)]
    <3>1. KindOf(d) \in Kinds
      BY DEF KindOf, Kinds
    <3> QED BY <1>11, <3>1
  <2>2. CASE KindOf(d) # kd
    BY <1>10, <2>1, <2>2
  <2>3. CASE KindOf(d) = kd
    <3>1. j # ItemAt
      BY <1>12, <1>14, <2>3
    <3> QED BY <1>2, <1>3, <1>10, <2>1, <2>3, <3>1
  <2> QED BY <2>2, <2>3
<1>15. \A i \in DOMAIN profiles : i # Len(profiles) => Untouched(profiles[i], files, files')
  BY <1>14, ProfilesHere DEF Untouched
<1>16. Collects(line, SoFar(line, c, n) \cup {n + 1}, ItemProfile, files')
  <2> DEFINE p == dp
             q == ItemProfile
             s == SoFar(line, c, n)
             at == ItemAt
             before == ItemBefore
             gs == files'
  <2>1. Collects(line, s, p, files)
    BY <1>5 DEF Reads
  <2>2. p.auto = 0 \/ p.auto \in p["hl"]
    BY <1>7, ProfilesHere
  <2>3. \A d \in Collections : \A i \in p[d] : d # c0 \/ i # at => gs[KindOf(d)][i] = files[KindOf(d)][i]
    BY <1>7, <1>14
  <2>4. at \in p[c0] => files[KindOf(c0)][at] = [name |-> None, has |-> before]
    <3>1. SUFFICES ASSUME at \in p[c0] PROVE files[KindOf(c0)][at] = [name |-> None, has |-> before]
      OBVIOUS
    <3>2. anon[c0] # 0
      BY <1>2, <1>7, <1>12, <3>1
    <3> QED BY <1>2, <1>3, <1>13, <3>2
  <2>5. at \notin p[c0] => before = {}
    BY <1>3a, <1>13
  <2>6. gs[KindOf(c0)][at] = [name |-> None, has |-> before \cup Taken(c0, Words(line[n + 1].arg))]
    BY <1>2, <1>9, <1>10, <1>13
  <2>7. line[n + 1].opt \in ItemOption /\ c0 = CollectionOf(line[n + 1].opt)
    BY <1>2, <1>5, <1>9
  <2>8. q.auto = p.auto /\ \A d \in Collections : q[d] = IF d = c0 THEN p[d] \cup {at} ELSE p[d]
    BY <1>8
  <2> HIDE DEF p, q, s, at, before, gs
  <2>9. TakesItems(line[n + 1], at, before, p, q, files, gs)
    BY <2>2, <2>3, <2>4, <2>5, <2>6, <2>7, <2>8 DEF TakesItems, OneList
  <2>10. Collects(line, s \cup {n + 1}, q, gs)
    BY <2>1, <2>9, CollectsItems
  <2> QED BY <2>10 DEF p, q, s, at, gs
<1>17. o.opt \notin {"new", "skip"} /\ o.opt \notin ProfileOption
  BY <1>2 DEF ItemOption, ProfileOption
<1>18. Reads(line, n + 1, c, ItemProfile, files')
  <2> DEFINE p == dp
             q == ItemProfile
  <2>1. q.n = p.n /\ Alike(q, p) /\ Reads(line, n, c, p, files)
        /\ Collects(line, SoFar(line, c, n) \cup {n + 1}, q, files')
    BY <1>5, <1>8, <1>16
  <2>2. line[n + 1].opt \notin {"new", "skip"} /\ line[n + 1].opt \notin ProfileOption
    BY <1>5, <1>17
  <2> HIDE DEF p, q
  <2>3. Reads(line, n + 1, c, q, files')
    BY <1>4, <2>1, <2>2, ReadsMore DEF Stands
  <2> QED BY <2>3 DEF q
<1>19. /\ Len(profiles') = Len(profiles) /\ Last(profiles') = ItemProfile
       /\ \A i \in DOMAIN profiles : i # Len(profiles) => profiles'[i] = profiles[i]
  BY <1>2, Replaced
<1> QED BY <1>1, <1>4, <1>15, <1>17, <1>18, <1>19, FollowsStep

(* --skip *)
LEMMA FollowsSkipped ==
  ASSUME LineOK, FilesOK, ProfilesOK, FollowsOK, Skip
  PROVE  FollowsOK'
<1>1. /\ phase = "options" /\ k <= Len(line) /\ line[k].opt \in {"skip"} /\ skip' = TRUE /\ profiles' = profiles
      /\ files' = files /\ k' = k + 1 /\ line' = line
  BY Zenon DEF Skip, Reading, Next1
<1>s. PICK n \in Nat : \E c : Stands(n, c)
  BY <1>1, Standing
<1>2. PICK c : Stands(n, c)
  BY <1>s
<1>3. line[n + 1].opt = "skip" /\ k' - 1 = n + 1
  BY <1>1, <1>2 DEF Stands
<1>4. Follows(line, n, profiles, skip, files)
  BY <1>2 DEF Stands, Follows
<1>5. DOMAIN profiles = 1 .. Len(profiles) /\ \A i \in DOMAIN profiles : Untouched(profiles[i], files, files)
  BY ProfilesHere, UntouchedSame
<1>6. Follows(line, n + 1, profiles, TRUE, files)
  BY <1>2, <1>3, <1>4, <1>5, FollowsSkip DEF Stands
<1> QED BY <1>1, <1>3, <1>6 DEF FollowsOK

(* --new *)
LEMMA FollowsNewOne ==
  ASSUME LineOK, FilesOK, ProfilesOK, ProcessOK, FollowsOK, New
  PROVE  FollowsOK'
<1>1. /\ phase = "options" /\ k <= Len(line) /\ line[k].opt \in {"new"} /\ skip' = FALSE
      /\ profiles' = (IF skip THEN [profiles EXCEPT ![Len(profiles)] = New0(Len(profiles))]
                      ELSE Append(profiles, New0(Len(profiles) + 1)))
      /\ files' = files /\ k' = k + 1 /\ line' = line
  BY Zenon DEF New, Reading, Next1, New0
<1>s. PICK n \in Nat : \E c : Stands(n, c)
  BY <1>1, Standing
<1>2. PICK c : Stands(n, c)
  BY <1>s
<1>3. line[n + 1].opt = "new" /\ k' - 1 = n + 1
  BY <1>1, <1>2 DEF Stands
<1>4. Follows(line, n, profiles, skip, files)
  BY <1>2 DEF Stands, Follows
<1>5. Len(profiles) \in Nat \ {0} /\ DOMAIN profiles = 1 .. Len(profiles)
      /\ \A i \in DOMAIN profiles : Untouched(profiles[i], files, files)
  BY ProfilesHere, UntouchedSame
<1>6. /\ Len(profiles') = IF skip THEN Len(profiles) ELSE Len(profiles) + 1
      /\ \A i \in 1 .. Len(profiles') - 1 : profiles'[i] = profiles[i]
      /\ profiles'[Len(profiles')] = New0(Len(profiles'))
  <2>1. CASE skip
    <3>1. profiles' = [profiles EXCEPT ![Len(profiles)] = New0(Len(profiles))]
      BY <1>1, <2>1
    <3>2. /\ Len(profiles') = Len(profiles) /\ profiles'[Len(profiles)] = New0(Len(profiles))
          /\ \A i \in DOMAIN profiles : i # Len(profiles) => profiles'[i] = profiles[i]
      BY <3>1, Replaced
    <3> QED BY <1>5, <2>1, <3>2
  <2>2. CASE ~skip
    <3> DEFINE e == New0(Len(profiles) + 1)
    <3>1. profiles' = Append(profiles, e)
      BY <1>1, <2>2
    <3>2. profiles \in Seq(ToSet(profiles))
      BY DEF ProfilesOK, IsSeq
    <3> HIDE DEF e
    <3>3. /\ Len(profiles') = Len(profiles) + 1 /\ profiles'[Len(profiles) + 1] = e
          /\ \A i \in 1 .. Len(profiles) : profiles'[i] = profiles[i]
      BY <3>1, <3>2, AppendIs
    <3>4. \A i \in 1 .. Len(profiles') - 1 : i \in 1 .. Len(profiles)
      BY <1>5, <3>3
    <3> QED BY <2>2, <3>3, <3>4 DEF e
  <2> QED BY <2>1, <2>2
<1>7. Follows(line, n + 1, profiles', FALSE, files)
  <2> DEFINE ps == profiles
             qs == profiles'
  <2>1. NewLast(ps, skip, qs, files)
    BY <1>5, <1>6 DEF NewLast
  <2>2. Follows(line, n, ps, skip, files)
    BY <1>4
  <2>3. IsLine(line) /\ n + 1 \in DOMAIN line
    BY <1>2 DEF Stands
  <2> HIDE DEF ps, qs
  <2>4. Follows(line, n + 1, qs, FALSE, files)
    BY <1>3, <2>1, <2>2, <2>3, FollowsNew
  <2> QED BY <2>4 DEF qs
<1> QED BY <1>1, <1>3, <1>7 DEF FollowsOK

(* No step goes back to the start. *)
LEMMA StartKept ==
  ASSUME Next
  PROVE  StartOK'
<1>1. phase' # "start"
  BY LineFrame, ProcessPhase DEF Next
<1> QED BY <1>1 DEF StartOK

(* The profiles follow the line, step by step. *)
LEMMA FollowsKept ==
  ASSUME LineOK, DiskOK, FilesOK, ProfilesOK, AnonOK, ProcessOK, StartOK, ItemsOK, FollowsOK, Next
  PROVE  FollowsOK'
<1> SUFFICES ASSUME phase' = "options" PROVE FollowsOK'
  BY DEF FollowsOK
<1>0. CASE ProcessStep
  BY <1>0, ProcessPhase
<1>1. CASE ReadConfig
  <2>1. phase = "start" /\ profiles' = profiles /\ skip' = skip /\ files' = files /\ k' = k
    BY <1>1, Zenon DEF ReadConfig
  <2>2. profiles' = <<New0(1)>> /\ skip' = FALSE /\ k' - 1 = 0
    BY <2>1 DEF StartOK, LineOK
  <2>3. LineOK'
    BY LineKept
  <2>4. IsLine(line')
    BY <2>3 DEF LineOK, CanBe, IsLine
  <2>5. Follows(line', 0, profiles', FALSE, files')
    <3> DEFINE l == line'
               ps == profiles'
               fs == files'
    <3>1. IsLine(l) /\ ps = <<New0(1)>>
      BY <2>2, <2>4
    <3> HIDE DEF l, ps, fs
    <3>2. Follows(l, 0, ps, FALSE, fs)
      BY <3>1, FollowsStart
    <3> QED BY <3>2 DEF l, ps, fs
  <2> QED BY <2>2, <2>5 DEF FollowsOK
<1>2. CASE DryRun \/ SetGlobal
  <2>1. /\ phase = "options" /\ k <= Len(line) /\ line[k].opt \in {"dry-run"} \cup GlobalOption
        /\ profiles' = profiles /\ skip' = skip /\ files' = files /\ k' = k + 1 /\ line' = line
    BY <1>2, Zenon DEF DryRun, SetGlobal, Reading, Next1
  <2>2. o.opt \notin {"new", "skip"} /\ o.opt \notin ListOption \cup ProfileOption
    BY <2>1 DEF o, GlobalOption, ListOption, ProfileOption
  <2> QED BY <2>1, <2>2, FollowsOther
<1>3. CASE ListSkipped
  <2>1. /\ phase = "options" /\ k <= Len(line) /\ line[k].opt \in ListOption /\ skip
        /\ profiles' = profiles /\ skip' = skip /\ files' = files /\ k' = k + 1 /\ line' = line
    BY <1>3, Zenon DEF ListSkipped, Reading, Next1
  <2>2. o.opt \notin {"new", "skip"}
    BY <2>1 DEF o, ListOption
  <2> QED BY <2>1, <2>2, FollowsOther
<1>4. CASE Assign
  BY <1>4, FollowsAssign
<1>5. CASE RegisterFile
  BY <1>5, FollowsFile
<1>6. CASE RegisterItems
  BY <1>6, FollowsItems
<1>7. CASE Skip
  BY <1>7, FollowsSkipped
<1>8. CASE New
  BY <1>8, FollowsNewOne
<1>9. CASE Unknown \/ Version \/ AssignRefused \/ GlobalRefused \/ RegisterRefused \/ FinaliseRefused
  <2>1. phase' = "exit"
    BY <1>9, Zenon DEF Unknown, Version, AssignRefused, GlobalRefused, RegisterRefused, FinaliseRefused, Exit
  <2> QED BY <2>1
<1>10. CASE EndOfOptions \/ Finalise
  <2>1. phase' \in {"finalise", "test"}
    BY <1>10, Zenon DEF EndOfOptions, Finalise, Goto
  <2> QED BY <2>1
<1> QED BY <1>0, <1>1, <1>2, <1>3, <1>4, <1>5, <1>6, <1>7, <1>8, <1>9, <1>10 DEF Next, CommandLineStep

-----------------------------------------------------------------------------
(* When the line is read *)

Made(ph, p) == IF ph = "finalise" THEN p ELSE Finished(p)
\* The profile q is what the section that begins at b makes of one.
Stems(l, b, ph, p, fs, q) ==
  /\ DOMAIN p = DOMAIN dp_init /\ p.splits \in Splits
  /\ Reads(l, Len(l), b, p, fs)
  /\ q = Made(ph, p)
Sections(l, ph, ps, fs) ==
  /\ Len(ps) = Cardinality(Kept(l)) + 1
  /\ ps[Len(ps)] = Made(ph, dp_init)
  /\ \A b \in Kept(l) : Place(l, b) \in 1 .. Len(ps) - 1 /\ \E p : Stems(l, b, ph, p, fs, ps[Place(l, b)])
DoneOK == Parsed => Sections(line, phase, profiles, files)

(* All of a sequence but its last element, and another element *)
LEMMA FrontIs ==
  ASSUME NEW S, NEW s \in Seq(S), s # <<>>, NEW e
  PROVE  /\ Len(Append(Front(s), e)) = Len(s) /\ Append(Front(s), e)[Len(s)] = e
         /\ \A i \in 1 .. Len(s) - 1 : Append(Front(s), e)[i] = s[i]
<1>1. Front(s) \in Seq(S) /\ Len(Front(s)) = Len(s) - 1 /\ \A i \in 1 .. Len(s) - 1 : Front(s)[i] = s[i]
  <2>1. Len(s) \in Nat \ {0} /\ DOMAIN s = 1 .. Len(s)
    OBVIOUS
  <2>2. Front(s) = SubSeq(s, 1, Len(s) - 1)
    BY DEF Front
  <2>3. SubSeq(s, 1, Len(s) - 1) \in Seq(S) /\ Len(SubSeq(s, 1, Len(s) - 1)) = Len(s) - 1
    BY <2>1
  <2>4. \A i \in 1 .. Len(s) - 1 : SubSeq(s, 1, Len(s) - 1)[i] = s[i]
    BY <2>1
  <2> QED BY <2>2, <2>3, <2>4
<1>0. Len(s) \in Nat \ {0}
  OBVIOUS
<1> DEFINE f == Front(s)
<1> HIDE DEF f
<1>2. /\ Len(Append(f, e)) = Len(f) + 1 /\ Append(f, e)[Len(f) + 1] = e
      /\ \A i \in 1 .. Len(f) : Append(f, e)[i] = f[i]
  BY <1>1, AppendIs DEF f
<1>3. Len(f) + 1 = Len(s) /\ Len(f) = Len(s) - 1 /\ \A i \in 1 .. Len(s) - 1 : f[i] = s[i]
  BY <1>0, <1>1 DEF f
<1> QED BY <1>2, <1>3 DEF f

(* The profiles when the options are at an end, and what stands last then *)
LEMMA SectionsRead ==
  ASSUME NEW l, IsLine(l), NEW ps, NEW sk \in BOOLEAN, NEW fs, Follows(l, Len(l), ps, sk, fs),
         NEW qs, Len(qs) = IF sk THEN Len(ps) ELSE Len(ps) + 1, qs[Len(qs)] = dp_init,
         \A i \in 1 .. Len(qs) - 1 : /\ qs[i] = ps[i]
                                     /\ DOMAIN ps[i] = DOMAIN dp_init /\ ps[i].splits \in Splits
  PROVE  Sections(l, "finalise", qs, fs)
<1> DEFINE n == Len(l)
<1>1. n \in Nat
  BY DEF IsLine
<1>2. PICK c : FollowsIn(l, n, c, ps, sk, fs)
  BY DEF Follows
<1>3. /\ KeptAt(l, n) = Kept(l)
      /\ \A b : PlaceAt(l, n, b) = Place(l, b)
  BY WholeLine
<1>w. \A b \in Begins(l) : SoFar(l, b, n) = Section(l, b)
  BY WholeLine
<1>4. Current(l, n, c) /\ sk = (c \notin Kept(l)) /\ Len(ps) = Cardinality(Kept(l) \ {c}) + 1
  BY <1>2, <1>3 DEF FollowsIn
<1>5. Len(qs) = Cardinality(Kept(l)) + 1
  <2>1. CASE sk
    <3>1. Kept(l) \ {c} = Kept(l)
      BY <1>4, <2>1
    <3> QED BY <1>4, <2>1, <3>1
  <2>2. CASE ~sk
    <3>a. c \in KeptAt(l, n)
      BY <1>3, <1>4, <2>2
    <3>b. Cardinality(KeptAt(l, n)) = Cardinality(KeptAt(l, n) \ {c}) + 1
      BY <1>1, <1>4, <3>a, Places
    <3>1. Cardinality(Kept(l)) = Cardinality(Kept(l) \ {c}) + 1
      BY <1>3, <3>b
    <3> QED BY <1>4, <2>2, <3>1
  <2> QED BY <2>1, <2>2
<1>6. ASSUME NEW b \in Kept(l)
      PROVE  /\ Place(l, b) \in 1 .. Len(qs) - 1
             /\ \E p : Stems(l, b, "finalise", p, fs, qs[Place(l, b)])
  <2>1. /\ b # c => PlaceAt(l, n, b) \in 1 .. Len(ps) - 1
        /\ b = c => PlaceAt(l, n, b) = Len(ps)
        /\ Len(ps) \in Nat \ {0}
        /\ Reads(l, n, b, ps[PlaceAt(l, n, b)], fs)
    BY <1>1, <1>2, <1>3, PlaceOver
  <2>2. PlaceAt(l, n, b) = Place(l, b)
    BY <1>3
  <2>3. Place(l, b) \in 1 .. Len(qs) - 1
    <3>1. CASE b = c
      <4>1. ~sk /\ Place(l, b) = Len(ps)
        BY <1>4, <2>1, <2>2, <3>1
      <4>2. Len(qs) = Len(ps) + 1
        BY <4>1
      <4> QED BY <2>1, <4>1, <4>2
    <3>2. CASE b # c
      BY <2>1, <2>2, <3>2
    <3> QED BY <3>1, <3>2
  <2> DEFINE i == Place(l, b)
  <2>4. qs[i] = ps[i] /\ DOMAIN ps[i] = DOMAIN dp_init /\ ps[i].splits \in Splits
    BY <2>3
  <2>5. Stems(l, b, "finalise", ps[i], fs, qs[i])
    BY <2>1, <2>2, <2>4 DEF Stems, Made
  <2> QED BY <2>3, <2>5
<1>7. qs[Len(qs)] = Made("finalise", dp_init)
  BY DEF Made
<1> QED BY <1>5, <1>6, <1>7 DEF Sections

(* The last option is read. *)
LEMMA SectionsEnd ==
  ASSUME LineOK, FilesOK, ProfilesOK, ProcessOK, FollowsOK, EndOfOptions
  PROVE  DoneOK'
<1>1. /\ phase = "options" /\ k > Len(line) /\ phase' = "finalise" /\ line' = line /\ files' = files
      /\ profiles' = Append(IF skip THEN Front(profiles) ELSE profiles, dp_init)
  BY Zenon DEF EndOfOptions, Goto
<1>2. IsLine(line) /\ k - 1 = Len(line)
  BY <1>1 DEF LineOK, CanBe, IsLine
<1>3. Follows(line, Len(line), profiles, skip, files)
  BY <1>1, <1>2 DEF FollowsOK
<1>4. profiles \in Seq(ToSet(profiles)) /\ profiles # <<>>
  BY DEF ProfilesOK, IsSeq
<1>5. /\ Len(profiles) \in Nat \ {0} /\ DOMAIN profiles = 1 .. Len(profiles)
      /\ \A i \in DOMAIN profiles : DOMAIN profiles[i] = DOMAIN dp_init /\ profiles[i].splits \in Splits
  BY ProfilesHere
<1> DEFINE d == dp_init
           ps == profiles
           qs == profiles'
<1>6. /\ Len(qs) = IF skip THEN Len(ps) ELSE Len(ps) + 1
      /\ qs[Len(qs)] = d
      /\ \A i \in 1 .. Len(qs) - 1 : i \in DOMAIN ps /\ qs[i] = ps[i]
  <2>a. d = dp_init /\ ps = profiles /\ qs = profiles'
    OBVIOUS
  <2> HIDE DEF d, ps, qs
  <2>1. CASE skip
    <3>1. qs = Append(Front(ps), d)
      BY <1>1, <2>1, <2>a
    <3>2. ps \in Seq(ToSet(ps)) /\ ps # <<>> /\ Len(ps) \in Nat \ {0} /\ DOMAIN ps = 1 .. Len(ps)
      BY <1>4, <1>5, <2>a, SMTT(40)
    <3>3. Len(qs) = Len(ps) /\ qs[Len(ps)] = d /\ \A i \in 1 .. Len(ps) - 1 : qs[i] = ps[i]
      BY <3>1, <3>2, FrontIs
    <3>4. \A i \in 1 .. Len(ps) - 1 : i \in DOMAIN ps
      BY <3>2
    <3> QED BY <2>1, <2>a, <3>3, <3>4
  <2>2. CASE ~skip
    <3>1. qs = Append(ps, d)
      BY <1>1, <2>2, <2>a
    <3> QED BY <1>4, <1>5, <2>2, <3>1, <2>a, AppendIs
  <2> QED BY <2>1, <2>2
<1>7. \A i \in 1 .. Len(qs) - 1 : /\ qs[i] = ps[i]
                                  /\ DOMAIN ps[i] = DOMAIN dp_init /\ ps[i].splits \in Splits
  BY <1>5, <1>6
<1>8. Follows(line, Len(line), ps, skip, files) /\ qs[Len(qs)] = dp_init
  BY <1>3, <1>6
<1>9. Len(qs) = IF skip THEN Len(ps) ELSE Len(ps) + 1
  BY <1>6
<1> HIDE DEF qs, ps, d
<1>10. Sections(line, "finalise", qs, files)
  BY <1>2, <1>7, <1>8, <1>9, SectionsRead DEF ProcessOK
<1> QED BY <1>1, <1>10 DEF qs, DoneOK

(* Every profile is finished. *)
LEMMA SectionsFinished ==
  ASSUME LineOK, FilesOK, ProfilesOK, DoneOK, Finalise
  PROVE  DoneOK'
<1>1. /\ phase = "finalise" /\ phase' = "test" /\ line' = line /\ files' = files
      /\ profiles' = [i \in DOMAIN profiles |-> Finished(profiles[i])]
  BY Zenon DEF Finalise, Goto
<1>2. Sections(line, "finalise", profiles, files)
  BY <1>1 DEF DoneOK, Parsed
<1>3. Len(profiles) \in Nat \ {0} /\ DOMAIN profiles = 1 .. Len(profiles)
  BY ProfilesHere
<1> DEFINE ps == profiles
           qs == [i \in DOMAIN ps |-> Finished(ps[i])]
<1>4. Len(qs) = Len(ps) /\ \A i \in 1 .. Len(ps) : qs[i] = Finished(ps[i])
  BY <1>3
<1>5. Len(ps) = Cardinality(Kept(line)) + 1 /\ ps[Len(ps)] = dp_init
  BY <1>2 DEF Sections, Made
<1>6. ASSUME NEW b \in Kept(line)
      PROVE  /\ Place(line, b) \in 1 .. Len(ps) - 1
             /\ \E p : Stems(line, b, "test", p, files, qs[Place(line, b)])
  <2> DEFINE i == Place(line, b)
  <2>1. i \in 1 .. Len(ps) - 1 /\ \E p : Stems(line, b, "finalise", p, files, ps[i])
    BY <1>2 DEF Sections
  <2>2. PICK p : Stems(line, b, "finalise", p, files, ps[i])
    BY <2>1
  <2>3. ps[i] = p
    BY <2>2 DEF Stems, Made
  <2>4. qs[i] = Finished(p)
    BY <1>3, <1>4, <2>1, <2>3
  <2> HIDE DEF qs, ps, i
  <2>5. Stems(line, b, "test", p, files, qs[i])
    BY <2>2, <2>4 DEF Stems, Made
  <2> QED BY <2>1, <2>5 DEF i
<1>7. qs[Len(qs)] = Finished(dp_init)
  BY <1>3, <1>4, <1>5
<1> HIDE DEF qs
<1>8. Sections(line, "test", qs, files)
  BY <1>4, <1>5, <1>6, <1>7 DEF Sections, Made
<1> QED BY <1>1, <1>8 DEF DoneOK, qs

(* The profiles stay what the sections of the line make of them. *)
LEMMA SectionsKept ==
  ASSUME LineOK, FilesOK, ProfilesOK, ProcessOK, FollowsOK, DoneOK, ReadyOK, Next
  PROVE  DoneOK'
<1>1. CASE EndOfOptions
  BY <1>1, SectionsEnd
<1>2. CASE Finalise
  BY <1>2, SectionsFinished
<1>3. CASE ProcessStep
  <2>1. phase \notin {"start", "options", "finalise", "exit"} /\ phase' # "finalise"
    BY <1>3, ProcessPhase
  <2>2. line' = line /\ profiles' = profiles /\ files' = files
    BY <1>3, ProcessFrame DEF lineVars
  <2>3. Sections(line, phase, profiles, files)
    BY <2>1 DEF DoneOK, Parsed
  <2>4. \A p : Made(phase', p) = Made(phase, p)
    BY <2>1 DEF Made
  <2>5. Sections(line, phase', profiles, files)
    BY <2>3, <2>4 DEF Sections, Stems
  <2> QED BY <2>2, <2>5 DEF DoneOK
<1>4. CASE Unknown \/ Version \/ AssignRefused \/ GlobalRefused \/ RegisterRefused \/ FinaliseRefused
  <2>1. phase' = "exit"
    BY <1>4, Zenon DEF Unknown, Version, AssignRefused, GlobalRefused, RegisterRefused, FinaliseRefused, Exit
  <2> QED BY <2>1 DEF DoneOK, Parsed
<1>5. CASE ReadConfig
  <2>1. phase' \in {"options", "exit"}
    BY <1>5, Zenon DEF ReadConfig, Exit, Goto
  <2> QED BY <2>1 DEF DoneOK, Parsed
<1>6. CASE \/ DryRun \/ Skip \/ New \/ Assign \/ SetGlobal \/ ListSkipped \/ RegisterFile \/ RegisterItems
  <2>1. phase' = "options"
    BY <1>6, Zenon DEF DryRun, Skip, New, Assign, SetGlobal, ListSkipped, RegisterFile, RegisterItems, Reading, Next1
  <2> QED BY <2>1 DEF DoneOK, Parsed
<1> QED BY <1>1, <1>2, <1>3, <1>4, <1>5, <1>6 DEF Next, CommandLineStep

-----------------------------------------------------------------------------
(* The profiles are the sections *)

IsFun(p) == p = [f \in DOMAIN p |-> p[f]]
OwnOf(p) == [p EXCEPT !.hl = {}, !.hl_exclude = {}, !.ips = {}, !.ips_exclude = {}, !.auto = 0]

(* A profile that is changed in a field is one. *)
LEMMA ChangedIsFun ==
  ASSUME NEW p, NEW f, NEW v
  PROVE  IsFun([p EXCEPT ![f] = v])
BY DEF IsFun

(* A profile is finished by a change of its fakes. *)
LEMMA FinishedIsFun ==
  ASSUME NEW p
  PROVE  IsFun(Finished(p))
<1> DEFINE y == dp_fake_defaults([TtlDefaults(p) EXCEPT
                  !.fsplit_pattern = IF @.size = 0 THEN [file |-> "zeros", size |-> 64] ELSE @,
                  !.splits = IF @ = <<>> THEN <<Abs(2)>> ELSE @])
<1>1. Finished(p) = CompatMods(y)
  BY Zenon DEF Finished
<1> HIDE DEF y
<1> DEFINE v == [i \in DOMAIN y.fake_tls |-> Randomised(y, y.fake_tls[i])]
<1>2. CompatMods(y) = [y EXCEPT !.fake_tls = v]
  BY DEF CompatMods
<1> HIDE DEF v
<1> QED BY <1>1, <1>2, ChangedIsFun

(* Without its lists a profile is what it is like. *)
LEMMA OwnIs ==
  ASSUME NEW p, NEW r, IsFun(r), Matches(p, r), Blank(r), DOMAIN r = DOMAIN dp_init
  PROVE  OwnOf(p) = r
<1>1. DOMAIN OwnOf(p) = DOMAIN r
  BY DEF OwnOf, Matches
<1>2. ASSUME NEW f \in DOMAIN r PROVE OwnOf(p)[f] = r[f]
  <2>1. CASE f \in {"hl", "hl_exclude", "ips", "ips_exclude", "auto"}
    <3>0. Core \subseteq DOMAIN p
      BY InitFields DEF Matches, Shared
    <3> QED BY <2>1, <3>0 DEF OwnOf, Blank, Core
  <2>2. CASE f \notin {"hl", "hl_exclude", "ips", "ips_exclude", "auto"}
    <3>1. p[f] = r[f]
      BY <2>2 DEF Matches, Core
    <3>2. OwnOf(p)[f] = p[f]
      BY <2>2 DEF OwnOf, Matches
    <3> QED BY <3>1, <3>2
  <2> QED BY <2>1, <2>2
<1>3. IsFun(OwnOf(p))
  BY DEF OwnOf, IsFun
<1> QED BY <1>1, <1>2, <1>3 DEF IsFun

(* What the profile of a section would be without its lists *)
LEMMA OwnMade ==
  ASSUME NEW p, DOMAIN p = DOMAIN dp_init, p.splits \in Splits, NEW m, Alike(p, m), Blank(m), NEW ph
  PROVE  OwnOf(Made(ph, p)) = Made(ph, [m EXCEPT !.n = p.n])
<1> DEFINE r == [m EXCEPT !.n = p.n]
<1>1. Shared \subseteq DOMAIN p /\ DOMAIN m = DOMAIN p
  BY InitFields DEF Alike
<1>2. Matches(p, r) /\ Blank(r) /\ DOMAIN r = DOMAIN dp_init /\ IsFun(r) /\ r.splits = p.splits
  <2>1. \A f \in DOMAIN p : r[f] = IF f = "n" THEN p.n ELSE m[f]
    BY <1>1
  <2>2. DOMAIN r = DOMAIN p
    BY <1>1
  <2>3. IsFun(r)
    BY DEF IsFun
  <2>a. "hl" \in DOMAIN p /\ "hl_exclude" \in DOMAIN p /\ "ips" \in DOMAIN p /\ "ips_exclude" \in DOMAIN p
        /\ "auto" \in DOMAIN p /\ "splits" \in DOMAIN p
    BY <1>1 DEF Shared, Core, PortFields, TlsFields
  <2> HIDE DEF r
  <2>4. Blank(r)
    BY <2>1, <2>a DEF Blank
  <2>5. Matches(p, r)
    <3>1. "n" \in DOMAIN p
      BY <1>1 DEF Shared, Core, PortFields, TlsFields
    <3>2. \A f \in DOMAIN p \ Core : r[f] = p[f] /\ f # "n"
      BY <2>1 DEF Alike, Core
    <3>3. r["n"] = p["n"]
      BY <2>1, <3>1
    <3> QED BY <2>2, <3>2, <3>3 DEF Matches
  <2>6. r.splits = p.splits
    BY <2>1, <2>a DEF Alike, Core
  <2> QED BY <2>2, <2>3, <2>4, <2>5, <2>6
<1> HIDE DEF r
<1>3. CASE ph = "finalise"
  <2>1. OwnOf(p) = r
    BY <1>2, OwnIs
  <2> QED BY <1>3, <2>1 DEF Made, r
<1>4. CASE ph # "finalise"
  <2>1. Matches(Finished(p), Finished(r))
    BY <1>2, FinishedBlind
  <2>2. Keeps(r, Finished(r), Core)
    BY <1>1, <1>2, FinishedKeeps
  <2>3. Blank(Finished(r)) /\ DOMAIN Finished(r) = DOMAIN dp_init
    BY <1>2, <2>2 DEF Blank, Keeps, Core
  <2>4. OwnOf(Finished(p)) = Finished(r)
    BY <2>1, <2>3, FinishedIsFun, OwnIs
  <2> QED BY <1>4, <2>4 DEF Made, r
<1> QED BY <1>3, <1>4

(* The options of every collection *)
LEMMA CollectionOptions ==
  /\ FileOptions("hl") = {"hostlist", "hostlist-auto"} /\ FileOptions("hl_exclude") = {"hostlist-exclude"}
  /\ FileOptions("ips") = {"ipset"} /\ FileOptions("ips_exclude") = {"ipset-exclude"}
  /\ ItemOptions("hl") = {"hostlist-domains"} /\ ItemOptions("hl_exclude") = {"hostlist-exclude-domains"}
  /\ ItemOptions("ips") = {"ipset-ip"} /\ ItemOptions("ips_exclude") = {"ipset-exclude-ip"}
<1>1. \A opt \in {"hostlist", "hostlist-domains", "hostlist-auto"} : CollectionOf(opt) = "hl"
  BY Zenon DEF CollectionOf
<1>2. \A opt \in {"hostlist-exclude", "hostlist-exclude-domains"} : CollectionOf(opt) = "hl_exclude"
  BY Zenon DEF CollectionOf
<1>3. \A opt \in {"ipset", "ipset-ip"} : CollectionOf(opt) = "ips"
  BY Zenon DEF CollectionOf
<1>4. \A opt \in {"ipset-exclude", "ipset-exclude-ip"} : CollectionOf(opt) = "ips_exclude"
  BY Zenon DEF CollectionOf
<1> QED BY <1>1, <1>2, <1>3, <1>4 DEF FileOptions, ItemOptions, ListOption, ItemOption

(* A profile collects what the lists of its section say. *)
LEMMA CollectsMeans ==
  ASSUME NEW s, NEW p, Collects(line, s, p, files)
  PROVE  ListsMean(s, p)
<1>1. /\ Collections = {"hl", "hl_exclude", "ips", "ips_exclude"}
      /\ KindOf("hl") = "host" /\ KindOf("hl_exclude") = "host" /\ KindOf("ips") = "ip" /\ KindOf("ips_exclude") = "ip"
  BY DEF Collections, KindOf
<1>2. \A kind, indices : /\ Named(kind, indices) = NamesIn(files[kind], indices)
                         /\ Items0(kind, indices) = ItemsIn(files[kind], indices)
  BY DEF Named, NamesIn, Items0, ItemsIn
<1>3. /\ CollectsIn(line, s, "hl", p["hl"], files["host"])
      /\ CollectsIn(line, s, "hl_exclude", p["hl_exclude"], files["host"])
      /\ CollectsIn(line, s, "ips", p["ips"], files["ip"])
      /\ CollectsIn(line, s, "ips_exclude", p["ips_exclude"], files["ip"])
  BY <1>1 DEF Collects
<1>4. \A words : /\ Taken("hl", words) = words \ {""} /\ Taken("hl_exclude", words) = words \ {""}
                 /\ Taken("ips", words) = words \cap Subnets /\ Taken("ips_exclude", words) = words \cap Subnets
  BY <1>1 DEF Taken
<1>5. /\ Named("host", p.hl) = FilesOf(line, s, {"hostlist", "hostlist-auto"})
      /\ Named("host", p.hl_exclude) = FilesOf(line, s, {"hostlist-exclude"})
      /\ Named("ip", p.ips) = FilesOf(line, s, {"ipset"})
      /\ Named("ip", p.ips_exclude) = FilesOf(line, s, {"ipset-exclude"})
  BY <1>2, <1>3, CollectionOptions DEF CollectsIn
<1>6. /\ Items0("host", p.hl) = WordsOf(line, s, {"hostlist-domains"}) \ {""}
      /\ Items0("host", p.hl_exclude) = WordsOf(line, s, {"hostlist-exclude-domains"}) \ {""}
      /\ Items0("ip", p.ips) = WordsOf(line, s, {"ipset-ip"}) \cap Subnets
      /\ Items0("ip", p.ips_exclude) = WordsOf(line, s, {"ipset-exclude-ip"}) \cap Subnets
  BY <1>2, <1>3, <1>4, CollectionOptions DEF CollectsIn
<1>7. AutoIn(line, s, p.auto, files["host"])
  BY DEF Collects
<1> QED BY <1>5, <1>6, <1>7 DEF ListsMean, AutoIn

(* The lists of a profile stay as it is finished. *)
LEMMA ListsMade ==
  ASSUME NEW s, NEW p, DOMAIN p = DOMAIN dp_init, p.splits \in Splits, Collects(line, s, p, files), NEW ph
  PROVE  ListsMean(s, Made(ph, p))
<1>1. Shared \subseteq DOMAIN p
  BY InitFields
<1>2. Keeps(p, Made(ph, p), Core)
  BY <1>1, FinishedKeeps DEF Made, Keeps
<1>3. /\ Made(ph, p).auto = p.auto /\ \A c \in Collections : Made(ph, p)[c] = p[c]
  BY <1>2 DEF Keeps, Core, Collections
<1>4. Collects(line, s, Made(ph, p), files)
  BY <1>3 DEF Collects
<1> QED BY <1>4, CollectsMeans

(* What the profiles are when the line is read says what the help does. *)
LEMMA SectionsAre ==
  ASSUME LineOK, DoneOK
  PROVE  ProfilesAreSections
<1> SUFFICES ASSUME Parsed PROVE ProfilesAreSections
  BY DEF ProfilesAreSections
<1>1. Sections(line, phase, profiles, files) /\ IsLine(line)
  BY DEF DoneOK, LineOK, CanBe, IsLine
<1>2. Len(profiles) = Cardinality(Kept(line)) + 1 /\ Last(profiles) = Made(phase, dp_init)
  BY <1>1 DEF Sections, Last
<1>3. ASSUME NEW b \in Kept(line)
      PROVE  /\ OwnOf(profiles[Place(line, b)])
                  \in {Made(phase, [m EXCEPT !.n = Place(line, b)]) : m \in MadeBy(line, Section(line, b))[Len(line)]}
             /\ ListsMean(Section(line, b), profiles[Place(line, b)])
  <2>1. PICK p : Stems(line, b, phase, p, files, profiles[Place(line, b)])
    BY <1>1 DEF Sections
  <2>2. /\ DOMAIN p = DOMAIN dp_init /\ p.splits \in Splits /\ profiles[Place(line, b)] = Made(phase, p)
        /\ p.n = PlaceAt(line, Len(line), b)
        /\ \E m \in MadeBy(line, Section(line, b))[Len(line)] : Alike(p, m) /\ Blank(m)
        /\ Collects(line, SoFar(line, b, Len(line)), p, files)
    BY <2>1 DEF Stems, Reads
  <2>3. p.n = Place(line, b) /\ SoFar(line, b, Len(line)) = Section(line, b)
    <3>1. b \in Begins(line)
      BY DEF Kept
    <3> QED BY <1>1, <2>2, <3>1, WholeLine
  <2>4. PICK m \in MadeBy(line, Section(line, b))[Len(line)] : Alike(p, m) /\ Blank(m)
    BY <2>2
  <2>5. OwnOf(Made(phase, p)) = Made(phase, [m EXCEPT !.n = p.n])
    BY <2>2, <2>4, OwnMade
  <2>6. ListsMean(Section(line, b), Made(phase, p))
    BY <2>2, <2>3, ListsMade
  <2> QED BY <2>2, <2>3, <2>5, <2>6
<1>4. \A p : Made(phase, p) = IF phase = "finalise" THEN p ELSE Finished(p)
  BY DEF Made
<1> QED BY <1>2, <1>3, <1>4, Zenon DEF ProfilesAreSections, OwnOf, Made

\* The invariant that the profiles follow the line
ReadInv == IInv /\ StartOK /\ ItemsOK /\ FollowsOK /\ DoneOK

(* What is read of the line follows it, whatever the line. *)
THEOREM ReadInvariance == Spec => []ReadInv
<1>1. Init => ReadInv
  <2> SUFFICES ASSUME Init PROVE ReadInv
    OBVIOUS
  <2>1. IInv
    BY InitInv
  <2>2. /\ phase = "start" /\ profiles = <<New0(1)>> /\ skip = FALSE /\ anon = NoAnon
        /\ files = [host |-> <<>>, ip |-> <<>>]
    BY DEF Init, New0
  <2>3. StartOK
    BY <2>2 DEF StartOK
  <2>4. ItemsOK
    <3>1. NamesOnly(files)
      BY <2>2 DEF NamesOnly, Kinds
    <3>2. OwnItems(anon, profiles, files)
      BY <2>2 DEF OwnItems, OwnItem, NoAnon
    <3> QED BY <3>1, <3>2 DEF ItemsOK
  <2>5. FollowsOK /\ DoneOK
    BY <2>2 DEF FollowsOK, DoneOK, Parsed
  <2> QED BY <2>1, <2>3, <2>4, <2>5 DEF ReadInv
<1>2. ReadInv /\ [Next]_vars => ReadInv'
  <2>1. ASSUME ReadInv, Next PROVE ReadInv'
    <3>1. IInv'
      BY <2>1, NextInv DEF ReadInv
    <3>2. StartOK' /\ ItemsOK' /\ FollowsOK' /\ DoneOK'
      BY <2>1, StartKept, ItemsKept, FollowsKept, SectionsKept DEF ReadInv, IInv
    <3> QED BY <3>1, <3>2 DEF ReadInv
  <2>2. ASSUME ReadInv, UNCHANGED vars PROVE ReadInv'
    <3>1. IInv'
      BY <2>2, StutterInv DEF ReadInv
    <3>2. /\ StartOK' /\ ItemsOK' /\ FollowsOK' /\ DoneOK'
      BY <2>2 DEF ReadInv, StartOK, ItemsOK, FollowsOK, DoneOK, Parsed, vars, lineVars, processVars
    <3> QED BY <3>1, <3>2 DEF ReadInv
  <2> QED BY <2>1, <2>2
<1> QED BY <1>1, <1>2, PTL DEF Spec

(* Every section of the line that is not skipped is one profile, in order and  *)
(* numbered from one, and holds what its own options say and nothing of        *)
(* another section (nfqws.c:main, MULTI-STRATEGY of its help).                 *)
THEOREM SectionsAreProfiles == Spec => []ProfilesAreSections
<1>1. ReadInv => ProfilesAreSections
  BY SectionsAre DEF ReadInv, IInv
<1> QED BY <1>1, ReadInvariance, PTL

-----------------------------------------------------------------------------
(* The options that were read *)

\* What getopt refuses ends the program, so that an option that was read is well formed.
FormOK ==
  /\ phase = "options" => \A j \in 1 .. k - 1 : WellFormed(line[j])
  /\ Parsed => \A j \in DOMAIN line : WellFormed(line[j])

(* An option is read when it is well formed. *)
LEMMA ReadForm ==
  ASSUME CommandLineStep, phase = "options", phase' # "exit"
  PROVE  \/ k <= Len(line) /\ WellFormed(line[k]) /\ k' = k + 1 /\ line' = line /\ phase' = "options"
         \/ k > Len(line) /\ line' = line /\ phase' = "finalise"
<1>1. CASE DryRun \/ Skip \/ New \/ Assign
  BY <1>1, Zenon DEF DryRun, Skip, New, Assign, Reading, Next1
<1>2. CASE SetGlobal \/ ListSkipped \/ RegisterFile \/ RegisterItems
  BY <1>2, Zenon DEF SetGlobal, ListSkipped, RegisterFile, RegisterItems, Reading, Next1
<1>3. CASE EndOfOptions
  BY <1>3, Zenon DEF EndOfOptions, Goto
<1>4. CASE ReadConfig \/ Finalise \/ FinaliseRefused
  <2>1. phase \in {"start", "finalise"}
    BY <1>4, Zenon DEF ReadConfig, Finalise, FinaliseRefused
  <2> QED BY <2>1
<1>5. CASE Unknown \/ Version \/ AssignRefused \/ GlobalRefused \/ RegisterRefused
  BY <1>5, Zenon DEF Unknown, Version, AssignRefused, GlobalRefused, RegisterRefused, Exit
<1> QED BY <1>1, <1>2, <1>3, <1>4, <1>5 DEF CommandLineStep

(* What was read stays well formed. *)
LEMMA FormKept ==
  ASSUME LineOK, FormOK, Next
  PROVE  FormOK'
<1>0. Len(line) \in Nat /\ DOMAIN line = 1 .. Len(line) /\ k \in 1 .. Len(line) + 1
  BY DEF LineOK, CanBe
<1>1. CASE ProcessStep
  <2>1. phase \notin {"start", "options", "finalise", "exit"} /\ phase' \notin {"start", "options", "finalise"}
    BY <1>1, ProcessPhase
  <2>2. line' = line
    BY <1>1, ProcessFrame DEF lineVars
  <2> QED BY <2>1, <2>2 DEF FormOK, Parsed
<1>2. CASE CommandLineStep /\ phase = "options"
  <2>1. CASE phase' = "exit"
    BY <2>1 DEF FormOK, Parsed
  <2>2. CASE k <= Len(line) /\ WellFormed(line[k]) /\ k' = k + 1 /\ line' = line /\ phase' = "options"
    <3>1. \A j \in 1 .. k' - 1 : j \in 1 .. k - 1 \/ j = k
      BY <1>0, <2>2
    <3>2. \A j \in 1 .. k' - 1 : WellFormed(line[j])
      BY <1>2, <2>2, <3>1 DEF FormOK
    <3> QED BY <2>2, <3>2 DEF FormOK, Parsed
  <2>3. CASE k > Len(line) /\ line' = line /\ phase' = "finalise"
    <3>1. \A j \in DOMAIN line : j \in 1 .. k - 1
      BY <1>0, <2>3
    <3>2. \A j \in DOMAIN line : WellFormed(line[j])
      BY <1>2, <3>1 DEF FormOK
    <3> QED BY <2>3, <3>2 DEF FormOK, Parsed
  <2> QED BY <1>2, <2>1, <2>2, <2>3, ReadForm
<1>3. CASE ReadConfig
  <2>1. k' = 1 /\ phase' \in {"options", "exit"}
    BY <1>3, Zenon DEF ReadConfig, LineOK, Goto, Exit
  <2>2. 1 .. k' - 1 = {}
    BY <2>1
  <2> QED BY <2>1, <2>2 DEF FormOK, Parsed
<1>4. CASE Finalise \/ FinaliseRefused
  <2>1. phase = "finalise" /\ phase' \in {"test", "exit"} /\ line' = line
    BY <1>4, Zenon DEF Finalise, FinaliseRefused, Goto, Exit, lineVars
  <2> QED BY <2>1 DEF FormOK, Parsed
<1>5. CASE CommandLineStep /\ phase # "options" /\ ~ReadConfig /\ ~Finalise /\ ~FinaliseRefused
  <2>1. phase = "options"
    BY <1>5, Zenon DEF CommandLineStep, Unknown, Version, DryRun, Skip, New, Assign, AssignRefused, SetGlobal,
       GlobalRefused, ListSkipped, RegisterFile, RegisterRefused, RegisterItems, EndOfOptions, Reading
  <2> QED BY <1>5, <2>1
<1> QED BY <1>1, <1>2, <1>3, <1>4, <1>5 DEF Next

\* The invariant that the profiles follow the line, and that the line is one of options
FormInv == ReadInv /\ FormOK

(* Every option of a line that was read is well formed. *)
THEOREM FormInvariance == Spec => []FormInv
<1>1. Init => FormOK
  BY DEF Init, FormOK, Parsed
<1>2. ReadInv /\ FormOK /\ [Next]_vars => FormOK'
  <2>1. ASSUME ReadInv, FormOK, Next PROVE FormOK'
    BY <2>1, FormKept DEF ReadInv, IInv
  <2>2. ASSUME FormOK, UNCHANGED vars PROVE FormOK'
    BY <2>2 DEF FormOK, Parsed, vars, lineVars
  <2> QED BY <2>1, <2>2
<1>3. Spec => []FormOK
  BY <1>1, <1>2, ReadInvariance, PTL DEF Spec
<1> QED BY <1>3, ReadInvariance, PTL DEF FormInv

-----------------------------------------------------------------------------
(* What the options of a section have made of a profile *)

(* Where a profile of a section comes from *)
LEMMA MadeBack ==
  ASSUME NEW l, IsLine(l), NEW s, NEW n \in Nat, n + 1 \in DOMAIN l, NEW r \in MadeBy(l, s)[n + 1]
  PROVE  \/ n + 1 \notin Given(l, s, ProfileOption) /\ r \in MadeBy(l, s)[n]
         \/ n + 1 \in Given(l, s, ProfileOption) /\ \E m \in MadeBy(l, s)[n] : r \in Assigned(l[n + 1], m)
<1>1. CASE n + 1 \notin Given(l, s, ProfileOption)
  BY <1>1, MadeOver
<1>2. CASE n + 1 \in Given(l, s, ProfileOption)
  <2>1. MadeBy(l, s)[n + 1] = UNION {Assigned(l[n + 1], p) : p \in MadeBy(l, s)[n]}
    BY <1>2, MadeAll
  <2> QED BY <1>2, <2>1, Zenon
<1> QED BY <1>1, <1>2

-----------------------------------------------------------------------------
(* Port filters *)

\* The filter that an item gives, what an item has to be, and the filter that refuses every port
PortsIn(i) == <<i.n[1], i.n[Len(i.n)]>>
FilterOf(i) == [ports |-> PortsIn(i), neg |-> (i.w = "~" \/ PortsIn(i) = <<0, 0>>)]
LegalPort(i) ==
  /\ i.w \in {"", "~"} /\ Len(i.n) \in {1, 2}
  /\ i.n[1] \in 0 .. i.n[Len(i.n)] /\ i.n[Len(i.n)] <= MaxPort
Deny == [ports |-> <<0, 0>>, neg |-> TRUE]

(* Without "*" every item of an argument is a filter, and says itself whether it is negated. *)
LEMMA PortRead ==
  ASSUME NEW arg \in Seq(Item), "*" \notin Words(arg), NEW old, NEW v \in parse_pf_list(arg, old)
  PROVE  (\A i \in Items(arg) : LegalPort(i)) /\ v = old \cup {FilterOf(i) : i \in Items(arg)}
<1> DEFINE Ports(i) == IF i.w = "*" THEN <<1, MaxPort>> ELSE <<i.n[1], i.n[Len(i.n)]>>
           E(was, f) == [j \in 0 .. Len(arg) |-> IF j = 0 THEN was
                                               ELSE IF arg[j].w = "*" THEN f[j - 1]
                                               ELSE arg[j].w = "~" \/ Ports(arg[j]) = <<0, 0>>]
           Neg(was) == CHOOSE f : f = E(was, f)
           Ok == \A i \in Items(arg) :
                   \/ i.w = "*"
                   \/ /\ i.w \in {"", "~"} /\ Len(i.n) \in {1, 2}
                      /\ Ports(i)[1] \in 0 .. Ports(i)[2] /\ Ports(i)[2] <= MaxPort
<1>1. v \in IF Ok THEN {old \cup {[ports |-> Ports(arg[j]), neg |-> Neg(was)[j]] : j \in DOMAIN arg} : was \in BOOLEAN}
            ELSE {}
  BY Zenon DEF parse_pf_list
<1>2. \A i \in Items(arg) : i.w # "*" /\ Ports(i) = PortsIn(i)
  BY DEF Words, PortsIn
<1>3. /\ DOMAIN arg = 1 .. Len(arg) /\ Len(arg) \in Nat
      /\ \A j \in DOMAIN arg : arg[j] \in Items(arg)
      /\ \A i \in Items(arg) : \E j \in DOMAIN arg : i = arg[j]
  BY DEF Items
<1>4. Ok /\ \E was \in BOOLEAN : v = old \cup {[ports |-> Ports(arg[j]), neg |-> Neg(was)[j]] : j \in DOMAIN arg}
  <2> HIDE DEF Ok, Neg, Ports
  <2> QED BY <1>1, Zenon
<1>5. PICK was \in BOOLEAN : v = old \cup {[ports |-> Ports(arg[j]), neg |-> Neg(was)[j]] : j \in DOMAIN arg}
  <2> HIDE DEF Ok, Neg, Ports
  <2> QED BY <1>4
<1>6. \A i \in Items(arg) : LegalPort(i)
  <2>1. \A i \in Items(arg) : /\ i.w \in {"", "~"} /\ Len(i.n) \in {1, 2}
                              /\ PortsIn(i)[1] \in 0 .. PortsIn(i)[2] /\ PortsIn(i)[2] <= MaxPort
    <3> HIDE DEF Neg, Ports
    <3> QED BY <1>2, <1>4
  <2> QED BY <2>1 DEF LegalPort, PortsIn
<1> DEFINE G == [j \in 0 .. Len(arg) |-> IF j = 0 THEN was ELSE FilterOf(arg[j]).neg]
<1>7. G = E(was, G)
  <2>1. ASSUME NEW j \in 0 .. Len(arg)
        PROVE  G[j] = IF j = 0 THEN was
                      ELSE IF arg[j].w = "*" THEN G[j - 1]
                      ELSE arg[j].w = "~" \/ Ports(arg[j]) = <<0, 0>>
    <3>1. CASE j = 0
      BY <3>1
    <3>2. CASE j # 0
      <4>1. j \in DOMAIN arg /\ arg[j].w # "*" /\ Ports(arg[j]) = PortsIn(arg[j])
        <5>1. j \in DOMAIN arg
          BY <1>3, <3>2
        <5> HIDE DEF G, Ports
        <5> QED BY <5>1, <1>2, <1>3
      <4>2. G[j] = FilterOf(arg[j]).neg
        BY <3>2
      <4>3. FilterOf(arg[j]).neg = (arg[j].w = "~" \/ PortsIn(arg[j]) = <<0, 0>>)
        BY DEF FilterOf
      <4> HIDE DEF G, Ports
      <4> QED BY <3>2, <4>1, <4>2, <4>3, Zenon
    <3> QED BY <3>1, <3>2
  <2>2. G = [j \in 0 .. Len(arg) |-> G[j]]
    OBVIOUS
  <2> HIDE DEF G, Ports
  <2> QED BY <2>1, <2>2, Zenon
<1>8. Neg(was) = E(was, Neg(was))
  <2> HIDE DEF G, E
  <2> QED BY <1>7, Zenon
<1>9. \A j \in DOMAIN arg : [ports |-> Ports(arg[j]), neg |-> Neg(was)[j]] = FilterOf(arg[j])
  <2> DEFINE N == Neg(was)
  <2>1. N = E(was, N)
    BY <1>8
  <2> HIDE DEF N
  <2>2. ASSUME NEW j \in DOMAIN arg
        PROVE  [ports |-> Ports(arg[j]), neg |-> N[j]] = FilterOf(arg[j])
    <3>0. j \in 0 .. Len(arg) /\ j # 0
      BY <1>3
    <3>1. arg[j].w # "*" /\ Ports(arg[j]) = PortsIn(arg[j])
      BY <1>2, <1>3
    <3> HIDE DEF Ports
    <3>2. N[j] = (arg[j].w = "~" \/ PortsIn(arg[j]) = <<0, 0>>)
      BY <2>1, <3>0, <3>1, Zenon
    <3> QED BY <3>1, <3>2, Zenon DEF FilterOf
  <2> QED BY <2>2 DEF N
<1> HIDE DEF Neg, Ports
<1>10. {[ports |-> Ports(arg[j]), neg |-> Neg(was)[j]] : j \in DOMAIN arg} = {FilterOf(i) : i \in Items(arg)}
  <2> DEFINE R(j) == [ports |-> Ports(arg[j]), neg |-> Neg(was)[j]]
  <2>1. \A j \in DOMAIN arg : R(j) = FilterOf(arg[j])
    BY <1>9
  <2> HIDE DEF R
  <2>2. {R(j) : j \in DOMAIN arg} = {FilterOf(i) : i \in Items(arg)}
    BY <1>3, <2>1
  <2> QED BY <2>2, Zenon DEF R
<1> QED BY <1>5, <1>6, <1>10

(* No other part of a profile has an option of the port filters or of the fakes of TLS. *)
LEMMA OtherParts ==
  ASSUME NEW x, NEW p, x.opt \in PortOptions \cup TlsOptions
  PROVE  /\ UNION {WindowOptions(x, p), HttpOptions(x, p), DupOptions(x, p), OrigOptions(x, p), DesyncOptions(x, p),
                   SplitOptions(x, p), SplitMods(x, p), FragmentOptions(x, p), LimitOptions(x, p),
                   AutoOptions(x, p)} = {}
         /\ x.opt \in PortOptions => FakeOptions(x, p) = {}
         /\ x.opt \in TlsOptions => FilterOptions(x, p) = {}
<1>0. \/ x.opt = "filter-tcp" \/ x.opt = "filter-udp"
      \/ x.opt = "dpi-desync-fake-tls" \/ x.opt = "dpi-desync-fake-tls-mod"
  BY DEF PortOptions, TlsOptions
<1>1. WindowOptions(x, p) = {}
  BY <1>0, Zenon DEF WindowOptions
<1>2. HttpOptions(x, p) = {}
  BY <1>0, Zenon DEF HttpOptions
<1>3. DupOptions(x, p) = {}
  BY <1>0, Zenon DEF DupOptions
<1>4. OrigOptions(x, p) = {}
  BY <1>0, Zenon DEF OrigOptions
<1>5. DesyncOptions(x, p) = {}
  BY <1>0, Zenon DEF DesyncOptions
<1>6. SplitOptions(x, p) = {}
  BY <1>0, Zenon DEF SplitOptions
<1>7. SplitMods(x, p) = {}
  BY <1>0, Zenon DEF SplitMods
<1>8. FragmentOptions(x, p) = {}
  BY <1>0, Zenon DEF FragmentOptions
<1>9. LimitOptions(x, p) = {}
  BY <1>0, Zenon DEF LimitOptions
<1>10. AutoOptions(x, p) = {}
  BY <1>0, Zenon DEF AutoOptions
<1>11. ASSUME x.opt \in PortOptions PROVE FakeOptions(x, p) = {}
  <2>1. x.opt = "filter-tcp" \/ x.opt = "filter-udp"
    BY <1>11 DEF PortOptions
  <2> QED BY <2>1, Zenon DEF FakeOptions
<1>12. ASSUME x.opt \in TlsOptions PROVE FilterOptions(x, p) = {}
  <2>1. x.opt = "dpi-desync-fake-tls" \/ x.opt = "dpi-desync-fake-tls-mod"
    BY <1>12 DEF TlsOptions
  <2> QED BY <2>1, Zenon DEF FilterOptions
<1> QED BY <1>1, <1>2, <1>3, <1>4, <1>5, <1>6, <1>7, <1>8, <1>9, <1>10, <1>11, <1>12

(* A port filter goes to its protocol, and the other is closed unless it is open already. *)
LEMMA PortAssigned ==
  ASSUME NEW x, NEW p, x.opt \in PortOptions, NEW q \in Assigned(x, p), PortFields \subseteq DOMAIN p
  PROVE  /\ x.opt = "filter-tcp" => q.pf_tcp \in parse_pf_list(x.arg, p.pf_tcp) /\ q.pf_udp = deny_if_empty(p.pf_udp)
         /\ x.opt = "filter-udp" => q.pf_udp \in parse_pf_list(x.arg, p.pf_udp) /\ q.pf_tcp = deny_if_empty(p.pf_tcp)
<1>1. q \in FilterOptions(x, p)
  BY OtherParts DEF Assigned
<1>2. "pf_tcp" \in DOMAIN p /\ "pf_udp" \in DOMAIN p
  BY DEF PortFields
<1>3. CASE x.opt = "filter-tcp"
  <2>1. \E v \in parse_pf_list(x.arg, p.pf_tcp) : q = [p EXCEPT !.pf_tcp = v, !.pf_udp = deny_if_empty(p.pf_udp)]
    BY <1>1, <1>3, Zenon DEF FilterOptions
  <2> QED BY <1>2, <1>3, <2>1
<1>4. CASE x.opt = "filter-udp"
  <2>1. \E v \in parse_pf_list(x.arg, p.pf_udp) : q = [p EXCEPT !.pf_udp = v, !.pf_tcp = deny_if_empty(p.pf_tcp)]
    BY <1>1, <1>4, Zenon DEF FilterOptions
  <2> QED BY <1>2, <1>4, <2>1
<1> QED BY <1>3, <1>4 DEF PortOptions

\* The filters of a protocol are those of its items; when only the other protocol has some, every port is refused.
Filtered(l, t, mine, other, filters) ==
  /\ \A i \in PortsOf(l, t, mine) : LegalPort(i)
  /\ {FilterOf(i) : i \in PortsOf(l, t, mine)} \subseteq filters
  /\ filters \subseteq {FilterOf(i) : i \in PortsOf(l, t, mine)} \cup {Deny}
  /\ filters = {} <=> (PortsOf(l, t, mine) = {} /\ PortsOf(l, t, other) = {})

\* One more option gives the ports of its items, to its own protocol.
PortsThen(l, t, j, opt) ==
  /\ l[j].opt = opt => PortsOf(l, t \cup {j}, opt) = PortsOf(l, t, opt) \cup Items(l[j].arg)
  /\ l[j].opt # opt => PortsOf(l, t \cup {j}, opt) = PortsOf(l, t, opt)

(* That is what it does. *)
LEMMA PortsMore ==
  ASSUME NEW l, NEW t, NEW j, NEW opt
  PROVE  PortsThen(l, t, j, opt)
<1>1. CASE l[j].opt = opt
  <2>1. Given(l, t \cup {j}, {opt}) = Given(l, t, {opt}) \cup {j}
    BY <1>1, GivenMore
  <2> QED BY <1>1, <2>1 DEF PortsThen, PortsOf
<1>2. CASE l[j].opt # opt
  <2>1. Given(l, t \cup {j}, {opt}) = Given(l, t, {opt})
    BY <1>2 DEF Given
  <2> QED BY <1>2, <2>1 DEF PortsThen, PortsOf
<1> QED BY <1>1, <1>2

(* An argument that is given has an item. *)
LEMMA ItemsThere ==
  ASSUME NEW S, NEW arg \in Seq(S), arg # <<>>
  PROVE  Items(arg) # {}
<1>1. 1 \in DOMAIN arg
  OBVIOUS
<1> QED BY <1>1 DEF Items

(* Filters of a protocol add up. *)
LEMMA FilteredMine ==
  ASSUME NEW l, NEW t, NEW j, NEW mine, NEW other, mine # other, l[j].opt = mine,
         l[j].arg \in Seq(Item), l[j].arg # <<>>, "*" \notin Words(l[j].arg),
         NEW F, Filtered(l, t, mine, other, F), NEW G \in parse_pf_list(l[j].arg, F)
  PROVE  Filtered(l, t \cup {j}, mine, other, G)
<1> DEFINE I == PortsOf(l, t, mine)
           J == Items(l[j].arg)
           X(S) == {FilterOf(i) : i \in S}
<1>1. (\A i \in J : LegalPort(i)) /\ G = F \cup X(J)
  BY PortRead
<1>2. PortsOf(l, t \cup {j}, mine) = I \cup J
  <2>1. PortsThen(l, t, j, mine)
    BY PortsMore
  <2> QED BY <2>1 DEF PortsThen
<1>3. J # {}
  BY ItemsThere
<1>4. (\A i \in I : LegalPort(i)) /\ X(I) \subseteq F /\ F \subseteq X(I) \cup {Deny}
  BY DEF Filtered
<1>5. X(I \cup J) = X(I) \cup X(J) /\ X(J) # {}
  BY <1>3
<1>6. X(I \cup J) \subseteq G /\ G \subseteq X(I \cup J) \cup {Deny} /\ G # {} /\ I \cup J # {}
  <2> HIDE DEF I, J, X
  <2> QED BY <1>1, <1>3, <1>4, <1>5
<1>7. \A i \in I \cup J : LegalPort(i)
  BY <1>1, <1>4
<1> QED BY <1>2, <1>6, <1>7 DEF Filtered

(* A filter of the other protocol closes what is open to all. *)
LEMMA FilteredOther ==
  ASSUME NEW l, NEW t, NEW j, NEW mine, NEW other, mine # other, l[j].opt = other, l[j].arg \in Seq(Item),
         l[j].arg # <<>>, NEW F, Filtered(l, t, mine, other, F)
  PROVE  Filtered(l, t \cup {j}, mine, other, deny_if_empty(F))
<1> DEFINE I == PortsOf(l, t, mine)
           X == {FilterOf(i) : i \in I}
<1>1. PortsOf(l, t \cup {j}, mine) = I /\ PortsOf(l, t \cup {j}, other) # {}
  <2>1. Items(l[j].arg) # {}
    BY ItemsThere
  <2>2. PortsThen(l, t, j, other) /\ PortsThen(l, t, j, mine)
    BY PortsMore
  <2>3. PortsOf(l, t \cup {j}, other) = PortsOf(l, t, other) \cup Items(l[j].arg)
    BY <2>2 DEF PortsThen
  <2>4. PortsOf(l, t \cup {j}, mine) = I
    BY <2>2 DEF PortsThen
  <2> QED BY <2>1, <2>3, <2>4
<1>2. (\A i \in I : LegalPort(i)) /\ X \subseteq F /\ F \subseteq X \cup {Deny}
  BY DEF Filtered
<1>3. deny_if_empty(F) = IF F = {} THEN {Deny} ELSE F
  BY DEF deny_if_empty, Deny
<1>4. X \subseteq deny_if_empty(F) /\ deny_if_empty(F) \subseteq X \cup {Deny} /\ deny_if_empty(F) # {}
  <2> HIDE DEF X
  <2> QED BY <1>2, <1>3
<1> QED BY <1>1, <1>2, <1>4 DEF Filtered

(* Other options say nothing of ports. *)
LEMMA FilteredSame ==
  ASSUME NEW l, NEW t, NEW j, NEW mine, NEW other, l[j].opt # mine, l[j].opt # other,
         NEW F, Filtered(l, t, mine, other, F)
  PROVE  Filtered(l, t \cup {j}, mine, other, F)
<1>1. PortsOf(l, t \cup {j}, mine) = PortsOf(l, t, mine) /\ PortsOf(l, t \cup {j}, other) = PortsOf(l, t, other)
  <2>1. PortsThen(l, t, j, mine) /\ PortsThen(l, t, j, other)
    BY PortsMore
  <2> QED BY <2>1 DEF PortsThen
<1> QED BY <1>1 DEF Filtered

(* The filter of an item admits the ports that the item is about, and Deny admits none. *)
LEMMA FilterAdmits ==
  ASSUME NEW i \in Item, LegalPort(i), NEW port \in Nat \ {0}
  PROVE  (pf_in_range(port, FilterOf(i)) <=> Holds(i, port)) /\ ~pf_in_range(port, Deny)
<1> DEFINE a == i.n[1]
           b == i.n[Len(i.n)]
           f == FilterOf(i)
<1>1. a \in Nat /\ b \in Nat /\ a <= b
  <2>1. i.n \in Seq(Int) /\ Len(i.n) \in {1, 2}
    BY DEF Item, LegalPort
  <2>2. a \in Int /\ b \in Int
    BY <2>1
  <2>3. a \in 0 .. b
    BY DEF LegalPort
  <2> HIDE DEF a, b
  <2> QED BY <2>2, <2>3
<1>2. Last(i.n) = b
  BY DEF Last
<1>3. f.ports = <<a, b>> /\ f.neg = (i.w = "~" \/ <<a, b>> = <<0, 0>>)
  BY DEF FilterOf, PortsIn
<1>4. pf_in_range(port, f) <=> ((f.ports = <<0, 0>> \/ port \in a .. b) # f.neg)
  BY <1>3 DEF pf_in_range
<1>5. Holds(i, port) <=> (b # 0 /\ ((port \in a .. b) # (i.w = "~")))
  BY <1>2 DEF Holds
<1> HIDE DEF a, b, f
<1>6. <<a, b>> = <<0, 0>> <=> (a = 0 /\ b = 0)
  OBVIOUS
<1>7. ~pf_in_range(port, Deny)
  BY DEF pf_in_range, Deny
<1>8. CASE b = 0
  <2>1. a = 0
    BY <1>1, <1>8
  <2>2. f.ports = <<0, 0>> /\ f.neg = TRUE
    BY <1>3, <1>6, <1>8, <2>1
  <2>3. ~pf_in_range(port, f)
    BY <1>4, <2>2
  <2> QED BY <1>5, <1>8, <1>7, <2>3 DEF f
<1>9. CASE b # 0
  <2>1. f.ports # <<0, 0>> /\ f.neg = (i.w = "~")
    BY <1>3, <1>6, <1>9
  <2>2. pf_in_range(port, f) <=> ((port \in a .. b) # (i.w = "~"))
    BY <1>4, <2>1
  <2>3. pf_in_range(port, f) <=> Holds(i, port)
    BY <1>5, <1>9, <2>2
  <2> QED BY <1>7, <2>3 DEF f
<1> QED BY <1>7, <1>8, <1>9

(* So the filters of a protocol admit what its options say. *)
LEMMA FilteredMeans ==
  ASSUME NEW l, NEW s, NEW mine, NEW other, NEW F, Filtered(l, s, mine, other, F),
         \A i \in PortsOf(l, s, mine) : i \in Item, NEW port \in Nat \ {0}
  PROVE  port_filters_in_range(F, port) = Wanted(l, s, mine, other, port)
<1> DEFINE I == PortsOf(l, s, mine)
           O == PortsOf(l, s, other)
<1>1. port_filters_in_range(F, port) \in BOOLEAN /\ Wanted(l, s, mine, other, port) \in BOOLEAN
  BY Zenon DEF port_filters_in_range, Wanted
<1>2. port_filters_in_range(F, port) <=> (F = {} \/ \E f \in F : pf_in_range(port, f))
  BY DEF port_filters_in_range
<1>3. Wanted(l, s, mine, other, port) <=> (I = {} /\ O = {}) \/ (I # {} /\ \E i \in I : Holds(i, port))
  BY Zenon DEF Wanted
<1>4. /\ \A i \in I : FilterOf(i) \in F
      /\ \A f \in F : f = Deny \/ \E i \in I : f = FilterOf(i)
      /\ F = {} <=> (I = {} /\ O = {})
  BY DEF Filtered
<1>5. ~pf_in_range(port, Deny)
  BY DEF pf_in_range, Deny
<1>6. \A i \in I : pf_in_range(port, FilterOf(i)) <=> Holds(i, port)
  BY FilterAdmits DEF Filtered
<1>7. (\E f \in F : pf_in_range(port, f)) <=> \E i \in I : Holds(i, port)
  <2> HIDE DEF I
  <2> QED BY <1>4, <1>5, <1>6, Zenon
<1>8. port_filters_in_range(F, port) <=> Wanted(l, s, mine, other, port)
  <2> HIDE DEF I, O
  <2> QED BY <1>2, <1>3, <1>4, <1>7
<1> QED BY <1>1, <1>8

-----------------------------------------------------------------------------
(* The fakes of TLS and their mods *)

LastWith(s, m) == [s EXCEPT ![Len(s)].mod = m.mod, ![Len(s)].sni = m.sni]

(* A fake takes the mods that were given last. *)
LEMMA FakeAssigned ==
  ASSUME NEW x, NEW p, x.opt = "dpi-desync-fake-tls", NEW q \in Assigned(x, p), TlsFields \subseteq DOMAIN p
  PROVE  /\ q.tls_mod_last = p.tls_mod_last
         /\ \E b : q.fake_tls = Append(p.fake_tls, [blob |-> b, mod |-> p.tls_mod_last.mod \cup {"CUSTOM_FAKE"},
                                                    sni |-> p.tls_mod_last.sni])
<1>1. q \in FakeOptions(x, p)
  BY OtherParts DEF Assigned, TlsOptions
<1>2. "fake_tls" \in DOMAIN p /\ "tls_mod_last" \in DOMAIN p
  BY DEF TlsFields
<1>3. q \in FakeTls(x, p)
  BY <1>1, Zenon DEF FakeOptions
<1> DEFINE e(b) == [blob |-> b, mod |-> p.tls_mod_last.mod \cup {"CUSTOM_FAKE"}, sni |-> p.tls_mod_last.sni]
<1>4. \E b : q = [p EXCEPT !.fake_tls = Append(p.fake_tls, e(b))]
  BY <1>3, Zenon DEF FakeTls
<1> HIDE DEF e
<1>5. q.tls_mod_last = p.tls_mod_last /\ \E b : q.fake_tls = Append(p.fake_tls, e(b))
  BY <1>2, <1>4
<1> QED BY <1>5 DEF e

(* A mod list is for the fakes to come, and for the last one. *)
LEMMA ModAssigned ==
  ASSUME NEW x, NEW p, x.opt = "dpi-desync-fake-tls-mod", NEW q \in Assigned(x, p), TlsFields \subseteq DOMAIN p
  PROVE  \E m \in parse_tlsmod_list(x.arg, p.tls_mod_last) :
           /\ q.tls_mod_last = m
           /\ q.fake_tls = IF p.fake_tls = <<>> THEN p.fake_tls ELSE LastWith(p.fake_tls, m)
<1>1. q \in FakeOptions(x, p)
  BY OtherParts DEF Assigned, TlsOptions
<1>2. "fake_tls" \in DOMAIN p /\ "tls_mod_last" \in DOMAIN p
  BY DEF TlsFields
<1>3. q \in FakeTlsMod(x, p)
  BY <1>1, Zenon DEF FakeOptions
<1> DEFINE v(m) == IF p.fake_tls = <<>> THEN p.fake_tls ELSE LastWith(p.fake_tls, m)
<1>4. PICK m \in parse_tlsmod_list(x.arg, p.tls_mod_last) : q = [p EXCEPT !.tls_mod_last = m, !.fake_tls = v(m)]
  BY <1>3, Zenon DEF FakeTlsMod, LastWith
<1> HIDE DEF v
<1>5. q.tls_mod_last = m /\ q.fake_tls = v(m)
  BY <1>2, <1>4
<1> QED BY <1>5 DEF v

(* What a mod list says *)
LEMMA ModsRead ==
  ASSUME NEW arg, NEW old, NEW m \in parse_tlsmod_list(arg, old)
  PROVE  /\ m.mod \ SavedMods = Words(arg) \ {"none"} /\ "SET" \in m.mod
         /\ "sni" \in Words(arg) => m.sni = NameGiven(arg)
         /\ "sni" \notin Words(arg) => m.sni = old.sni
<1> DEFINE names == {i \in DOMAIN arg : arg[i].w = "sni"}
           Ok == Words(arg) \subseteq TlsMods \cup {"none"} /\ \A i \in names : arg[i].n # <<>>
           mods == (old.mod \cap SavedMods) \cup {"SET"} \cup (Words(arg) \ {"none"})
           name == IF names = {} THEN old.sni ELSE arg[Max(names)].n[1]
<1>1. m \in IF Ok THEN {[mod |-> mods, sni |-> name]} ELSE {}
  BY Zenon DEF parse_tlsmod_list
<1>2. Words(arg) \subseteq TlsMods \cup {"none"} /\ m = [mod |-> mods, sni |-> name]
  <2> HIDE DEF mods, name, names
  <2> QED BY <1>1
<1>3. m.mod = mods /\ m.sni = name
  <2> HIDE DEF mods, name
  <2> QED BY <1>2
<1>4. mods \ SavedMods = Words(arg) \ {"none"} /\ "SET" \in mods
  BY <1>2 DEF SavedMods, TlsMods
<1>5. "sni" \in Words(arg) <=> names # {}
  BY DEF Words, Items
<1>6. names # {} => name = NameGiven(arg)
  BY Zenon DEF NameGiven
<1>7. names = {} => name = old.sni
  OBVIOUS
<1> HIDE DEF mods, name, names
<1> QED BY <1>3, <1>4, <1>5, <1>6, <1>7

(* The last of numbers is the one that came last. *)
LEMMA MaxNew ==
  ASSUME NEW j \in Nat, NEW T, \A y \in T : y \in Nat /\ y < j
  PROVE  Max(T \cup {j}) = j
<1> DEFINE P(x) == x \in T \cup {j} /\ \A y \in T \cup {j} : x >= y
<1>1. P(j)
  OBVIOUS
<1>2. \A x : P(x) => x = j
  OBVIOUS
<1>3. Max(T \cup {j}) = CHOOSE x \in T \cup {j} : \A y \in T \cup {j} : x >= y
  BY Zenon DEF Max
<1>4. P(CHOOSE x \in T \cup {j} : \A y \in T \cup {j} : x >= y)
  BY <1>1, Zenon
<1> HIDE DEF P
<1> QED BY <1>2, <1>3, <1>4

\* The mod lists that reach the fake number f of a section
Reaching(F, M, f) == {j \in M : Cardinality({i \in F : i < j}) <= f}
\* A fake, or what is set for the next one, has the mods of the list given last and the name given last.
Carries(l, lists, r) ==
  /\ lists # {} => r.mod \ SavedMods = LastMods(l, lists) /\ "SET" \in r.mod
  /\ lists = {} => r.mod \ SavedMods = {}
  /\ Naming(l, lists) # {} => r.sni = NameGiven(l[Max(Naming(l, lists))].arg)
FakeOK(l, lists, r) ==
  /\ {"mod", "sni"} \subseteq DOMAIN r
  /\ r.mod \cap SavedMods # {}
  /\ Carries(l, lists, r)
IsList(s) == \E S : s \in Seq(S)
FakesAt(l, t) == Given(l, t, {"dpi-desync-fake-tls"})
ModsAt(l, t) == Given(l, t, {"dpi-desync-fake-tls-mod"})

FakesOK(l, F, M, fakes) ==
  /\ IsList(fakes) /\ Len(fakes) = Cardinality(F)
  /\ \A f \in 1 .. Len(fakes) : FakeOK(l, Reaching(F, M, f), fakes[f])
Faked(l, t, fakes, next) ==
  /\ FakesOK(l, FakesAt(l, t), ModsAt(l, t), fakes)
  /\ Carries(l, ModsAt(l, t), next)
  /\ ModsAt(l, t) = {} => next.mod = {}

(* One more mod list is the one given last. *)
LEMMA CarriesMore ==
  ASSUME NEW l, NEW M, NEW j \in Nat, \A i \in M : i \in Nat /\ i < j,
         NEW old, NEW r, Carries(l, M, old), NEW m \in parse_tlsmod_list(l[j].arg, old), r.mod = m.mod, r.sni = m.sni
  PROVE  Carries(l, M \cup {j}, r)
<1>1. /\ r.mod \ SavedMods = Words(l[j].arg) \ {"none"} /\ "SET" \in r.mod
      /\ "sni" \in Words(l[j].arg) => r.sni = NameGiven(l[j].arg)
      /\ "sni" \notin Words(l[j].arg) => r.sni = old.sni
  BY ModsRead
<1>2. Max(M \cup {j}) = j
  BY MaxNew
<1>3. r.mod \ SavedMods = LastMods(l, M \cup {j})
  BY <1>1, <1>2 DEF LastMods
<1>4. CASE "sni" \in Words(l[j].arg)
  <2>1. Naming(l, M \cup {j}) = Naming(l, M) \cup {j}
    BY <1>4 DEF Naming
  <2>2. \A y \in Naming(l, M) : y \in Nat /\ y < j
    BY DEF Naming
  <2>3. Max(Naming(l, M \cup {j})) = j
    BY <2>1, <2>2, MaxNew
  <2> QED BY <1>1, <1>3, <1>4, <2>3 DEF Carries
<1>5. CASE "sni" \notin Words(l[j].arg)
  <2>1. Naming(l, M \cup {j}) = Naming(l, M)
    BY <1>5 DEF Naming
  <2> QED BY <1>1, <1>3, <1>5, <2>1 DEF Carries
<1> QED BY <1>4, <1>5

(* What is carried is of the mods and the name. *)
LEMMA CarriesSame ==
  ASSUME NEW l, NEW lists, NEW r, NEW q, Carries(l, lists, r), q.mod \ SavedMods = r.mod \ SavedMods,
         "SET" \in r.mod => "SET" \in q.mod, q.sni = r.sni
  PROVE  Carries(l, lists, q)
BY DEF Carries

(* A fake that is given later does not count for the mod lists before it. *)
LEMMA ReachingFake ==
  ASSUME NEW F, NEW M, NEW j \in Nat, \A i \in M : i \in Nat /\ i < j, NEW f
  PROVE  Reaching(F \cup {j}, M, f) = Reaching(F, M, f)
<1>1. ASSUME NEW i \in M
      PROVE  {x \in F \cup {j} : x < i} = {x \in F : x < i}
  <2>1. i \in Nat /\ ~(j < i)
    OBVIOUS
  <2> QED BY <2>1
<1> QED BY <1>1 DEF Reaching

(* Every mod list so far reaches the last fake and those to come. *)
LEMMA ReachingAll ==
  ASSUME NEW F, IsFiniteSet(F), NEW M, NEW f \in Nat, Cardinality(F) <= f
  PROVE  Reaching(F, M, f) = M
<1>1. ASSUME NEW i \in M PROVE Cardinality({x \in F : x < i}) <= f
  <2>1. {x \in F : x < i} \subseteq F
    OBVIOUS
  <2>2. Cardinality({x \in F : x < i}) <= Cardinality(F) /\ IsFiniteSet({x \in F : x < i})
    BY <2>1, FS_Subset
  <2>3. Cardinality({x \in F : x < i}) \in Nat /\ Cardinality(F) \in Nat
    BY <2>2, FS_CardinalityType
  <2> QED BY <2>2, <2>3
<1> QED BY <1>1 DEF Reaching

(* A mod list that is given after the last fake reaches that one alone. *)
LEMMA ReachingMod ==
  ASSUME NEW F, IsFiniteSet(F), NEW M, NEW j \in Nat, \A x \in F : x \in Nat /\ x < j, NEW f \in Nat, f < Cardinality(F)
  PROVE  Reaching(F, M \cup {j}, f) = Reaching(F, M, f)
<1>1. {x \in F : x < j} = F
  OBVIOUS
<1>2. ~(Cardinality({x \in F : x < j}) <= f)
  <2>1. Cardinality(F) \in Nat
    BY FS_CardinalityType
  <2> QED BY <1>1, <2>1
<1> QED BY <1>2 DEF Reaching

(* One more fake takes what is set for the next one, and leaves the others as they are. *)
LEMMA FakesMore ==
  ASSUME NEW l, NEW F, IsFiniteSet(F), NEW M, NEW j \in Nat, j \notin F, \A i \in M : i \in Nat /\ i < j,
         NEW fakes, FakesOK(l, F, M, fakes), NEW next, Carries(l, M, next), NEW b, NEW more,
         more = Append(fakes, [blob |-> b, mod |-> next.mod \cup {"CUSTOM_FAKE"}, sni |-> next.sni])
  PROVE  FakesOK(l, F \cup {j}, M, more)
<1> DEFINE e == [blob |-> b, mod |-> next.mod \cup {"CUSTOM_FAKE"}, sni |-> next.sni]
           n == Cardinality(F)
<1>1. n \in Nat /\ Cardinality(F \cup {j}) = n + 1 /\ IsFiniteSet(F \cup {j})
  BY FS_CardinalityType, FS_AddElement
<1>2. IsList(fakes) /\ Len(fakes) = n
  BY DEF FakesOK
<1>3. PICK S : fakes \in Seq(S)
  BY <1>2 DEF IsList
<1>4. /\ DOMAIN e = {"blob", "mod", "sni"} /\ e.mod = next.mod \cup {"CUSTOM_FAKE"} /\ e.sni = next.sni
  OBVIOUS
<1>5. more = Append(fakes, e)
  OBVIOUS
<1> HIDE DEF e, n
<1>6. IsList(more)
  <2>1. fakes \in Seq(S \cup {e})
    BY <1>3
  <2>2. Append(fakes, e) \in Seq(S \cup {e})
    BY <2>1
  <2> QED BY <1>5, <2>2 DEF IsList
<1>7. /\ Len(more) = n + 1 /\ more[n + 1] = e
      /\ \A i \in 1 .. n : more[i] = fakes[i]
  BY <1>5, <1>2, <1>3, AppendIs
<1>8. FakeOK(l, M, e)
  <2>1. e.mod \ SavedMods = next.mod \ SavedMods /\ e.mod \cap SavedMods # {}
    BY <1>4 DEF SavedMods
  <2>2. Carries(l, M, e)
    BY <1>4, <2>1, CarriesSame
  <2> QED BY <1>4, <2>1, <2>2 DEF FakeOK
<1>9. ASSUME NEW f \in 1 .. Len(more)
      PROVE  FakeOK(l, Reaching(F \cup {j}, M, f), more[f])
  <2>0. f \in Nat /\ f <= n + 1
    BY <1>1, <1>7
  <2>1. Reaching(F \cup {j}, M, f) = Reaching(F, M, f)
    BY ReachingFake
  <2>2. CASE f = n + 1
    <3>1. Reaching(F, M, f) = M
      BY <1>1, <2>2, ReachingAll DEF n
    <3> QED BY <1>7, <1>8, <2>1, <2>2, <3>1
  <2>3. CASE f # n + 1
    <3>1. f \in 1 .. n /\ f \in 1 .. Len(fakes)
      BY <1>1, <1>2, <2>0, <2>3
    <3>2. FakeOK(l, Reaching(F, M, f), fakes[f])
      BY <3>1 DEF FakesOK
    <3>3. more[f] = fakes[f]
      BY <1>7, <3>1
    <3> QED BY <2>1, <3>2, <3>3
  <2> QED BY <2>2, <2>3
<1> QED BY <1>1, <1>6, <1>7, <1>9 DEF FakesOK

(* What the last fake becomes with other mods *)
LEMMA LastWithIs ==
  ASSUME NEW S, NEW s \in Seq(S), s # <<>>, {"mod", "sni"} \subseteq DOMAIN s[Len(s)], NEW m
  PROVE  /\ IsList(LastWith(s, m)) /\ Len(LastWith(s, m)) = Len(s)
         /\ \A i \in 1 .. Len(s) : i # Len(s) => LastWith(s, m)[i] = s[i]
         /\ LastWith(s, m)[Len(s)].mod = m.mod /\ LastWith(s, m)[Len(s)].sni = m.sni
         /\ {"mod", "sni"} \subseteq DOMAIN LastWith(s, m)[Len(s)]
<1> DEFINE n == Len(s)
           e == s[n]
           e1 == [e EXCEPT !.mod = m.mod]
           e2 == [e1 EXCEPT !.sni = m.sni]
           t == [s EXCEPT ![n] = e2]
<1>1. n \in Nat \ {0} /\ DOMAIN s = 1 .. n
  OBVIOUS
<1>2. LastWith(s, m) = t
  <2>1. LastWith(s, m) = [[s EXCEPT ![n].mod = m.mod] EXCEPT ![n].sni = m.sni]
    BY DEF LastWith
  <2> QED BY <1>1, <2>1
<1>3. /\ e2.mod = m.mod /\ e2.sni = m.sni /\ {"mod", "sni"} \subseteq DOMAIN e2
  OBVIOUS
<1> HIDE DEF e2
<1>4. t \in Seq(S \cup {e2})
  OBVIOUS
<1>5. Len(t) = n /\ t[n] = e2 /\ \A i \in 1 .. n : i # n => t[i] = s[i]
  <2>1. DOMAIN t = 1 .. n /\ n \in 1 .. n
    BY <1>1, SMTT(40)
  <2>2. t[n] = e2 /\ \A i \in 1 .. n : i # n => t[i] = s[i]
    BY <1>1, <2>1
  <2>3. Len(t) = n
    <3> HIDE DEF t, n
    <3>1. DOMAIN t = 1 .. Len(t) /\ Len(t) \in Nat
      BY <1>4
    <3> QED BY <1>1, <2>1, <3>1
  <2> QED BY <2>2, <2>3
<1> HIDE DEF t
<1> QED BY <1>2, <1>3, <1>4, <1>5 DEF IsList

(* One more mod list is for the last fake, and leaves the others as they are. *)
LEMMA FakesModded ==
  ASSUME NEW l, NEW F, IsFiniteSet(F), NEW M, NEW j \in Nat, \A x \in F : x \in Nat /\ x < j,
         \A i \in M : i \in Nat /\ i < j, NEW fakes, FakesOK(l, F, M, fakes), NEW next, Carries(l, M, next),
         NEW m \in parse_tlsmod_list(l[j].arg, next), NEW others,
         others = IF fakes = <<>> THEN fakes ELSE LastWith(fakes, m)
  PROVE  FakesOK(l, F, M \cup {j}, others)
<1> DEFINE n == Cardinality(F)
<1>1. n \in Nat
  BY FS_CardinalityType
<1>2. IsList(fakes) /\ Len(fakes) = n
  BY DEF FakesOK
<1>3. PICK S : fakes \in Seq(S)
  BY <1>2 DEF IsList
<1> HIDE DEF n
<1>4. CASE fakes = <<>>
  <2>1. n = 0 /\ others = fakes
    BY <1>2, <1>4
  <2>2. \A f \in 1 .. Len(fakes) : FALSE
    BY <1>2, <2>1
  <2> QED BY <1>2, <2>1, <2>2 DEF FakesOK, n
<1>5. CASE fakes # <<>>
  <2>1. n # 0 /\ n \in 1 .. Len(fakes)
    BY <1>1, <1>2, <1>3, <1>5
  <2>2. FakeOK(l, Reaching(F, M, n), fakes[n])
    BY <2>1 DEF FakesOK
  <2>3. {"mod", "sni"} \subseteq DOMAIN fakes[n]
    BY <2>2 DEF FakeOK
  <2>4. others = LastWith(fakes, m)
    BY <1>5
  <2>5. /\ IsList(others) /\ Len(others) = n
        /\ \A i \in 1 .. n : i # n => others[i] = fakes[i]
        /\ others[n].mod = m.mod /\ others[n].sni = m.sni
        /\ {"mod", "sni"} \subseteq DOMAIN others[n]
    BY <1>2, <1>3, <1>5, <2>3, <2>4, LastWithIs
  <2>6. ASSUME NEW f \in 1 .. n
        PROVE  FakeOK(l, Reaching(F, M \cup {j}, f), others[f])
    <3>0. f \in Nat /\ f <= n
      BY <1>1
    <3>1. CASE f = n
      <4>1. Reaching(F, M \cup {j}, f) = M \cup {j}
        BY <3>0, <3>1, ReachingAll DEF n
      <4>2. Carries(l, M \cup {j}, others[n])
        BY <2>5, CarriesMore
      <4>3. others[n].mod \cap SavedMods # {}
        <5>1. "SET" \in others[n].mod
          BY <2>5, ModsRead
        <5> QED BY <5>1 DEF SavedMods
      <4> QED BY <2>5, <3>1, <4>1, <4>2, <4>3 DEF FakeOK
    <3>2. CASE f # n
      <4>1. f < n
        BY <1>1, <3>0, <3>2
      <4>2. Reaching(F, M \cup {j}, f) = Reaching(F, M, f)
        BY <3>0, <4>1, ReachingMod DEF n
      <4>3. FakeOK(l, Reaching(F, M, f), fakes[f])
        BY <1>2 DEF FakesOK
      <4> QED BY <2>5, <3>2, <4>2, <4>3
    <3> QED BY <3>1, <3>2
  <2> QED BY <2>5, <2>6 DEF FakesOK, n
<1> QED BY <1>4, <1>5

-----------------------------------------------------------------------------
(* What a section says of port filters and fakes, option by option *)

PortsSaid(l, t, m) ==
  /\ Filtered(l, t, "filter-tcp", "filter-udp", m.pf_tcp)
  /\ Filtered(l, t, "filter-udp", "filter-tcp", m.pf_udp)
FakesSaid(l, t, m) == Faked(l, t, m.fake_tls, m.tls_mod_last)
\* The options of the section s up to position n are in the profile m.
Said(l, s, n, m) ==
  /\ DOMAIN m = DOMAIN dp_init /\ m.splits \in Splits
  /\ "*" \notin WordsOf(l, s, PortOptions) => PortsSaid(l, UpTo(s, n), m)
  /\ FakesSaid(l, UpTo(s, n), m)

(* In the beginning nothing is said. *)
LEMMA SaidStart ==
  ASSUME NEW l, IsLine(l), NEW s, s \subseteq DOMAIN l
  PROVE  Said(l, s, 0, dp_init)
<1>1. UpTo(s, 0) = {}
  BY DEF UpTo, IsLine
<1>2. /\ dp_init.pf_tcp = {} /\ dp_init.pf_udp = {} /\ dp_init.fake_tls = <<>> /\ dp_init.tls_mod_last = NoTlsMod
      /\ dp_init.splits = <<>>
  BY DEF dp_init
<1>3. <<>> \in Splits
  BY MaxSplitsAssumption DEF Splits
<1>4. \A options : Given(l, {}, options) = {}
  BY DEF Given
<1>5. \A opt : PortsOf(l, {}, opt) = {}
  BY <1>4 DEF PortsOf
<1>6. PortsSaid(l, {}, dp_init)
  BY <1>2, <1>5 DEF PortsSaid, Filtered
<1>7. FakesOK(l, {}, {}, <<>>)
  <2>1. IsList(<<>>)
    <3>1. <<>> \in Seq({})
      OBVIOUS
    <3> QED BY <3>1 DEF IsList
  <2>2. Len(<<>>) = 0 /\ Cardinality({}) = 0
    BY FS_EmptySet
  <2> QED BY <2>1, <2>2 DEF FakesOK
<1>8. Carries(l, {}, NoTlsMod) /\ NoTlsMod.mod = {}
  BY DEF Carries, Naming, NoTlsMod
<1>9. FakesSaid(l, {}, dp_init)
  BY <1>2, <1>4, <1>7, <1>8 DEF FakesSaid, Faked, FakesAt, ModsAt
<1> QED BY <1>1, <1>2, <1>3, <1>6, <1>9 DEF Said

(* Ports, with one more option *)
LEMMA PortsStep ==
  ASSUME NEW l, NEW t, NEW j, l[j].arg \in Seq(Item), WellFormed(l[j]),
         l[j].opt \in PortOptions => "*" \notin Words(l[j].arg),
         NEW m, PortFields \subseteq DOMAIN m, PortsSaid(l, t, m), NEW r,
         l[j].opt \in PortOptions => r \in Assigned(l[j], m),
         l[j].opt \notin PortOptions => Keeps(m, r, PortFields)
  PROVE  PortsSaid(l, t \cup {j}, r)
<1>1. CASE l[j].opt \notin PortOptions
  <2>1. r.pf_tcp = m.pf_tcp /\ r.pf_udp = m.pf_udp
    BY <1>1 DEF Keeps, PortFields
  <2>2. l[j].opt # "filter-tcp" /\ l[j].opt # "filter-udp"
    BY <1>1 DEF PortOptions
  <2> QED BY <2>1, <2>2, FilteredSame DEF PortsSaid
<1>2. CASE l[j].opt \in PortOptions
  <2>0. l[j].arg # <<>>
    <3>1. l[j].opt \notin NoArgument \cup OptionalArgument
      BY <1>2 DEF PortOptions, NoArgument, OptionalArgument
    <3> QED BY <3>1 DEF WellFormed
  <2>1. /\ l[j].opt = "filter-tcp" =>
             r.pf_tcp \in parse_pf_list(l[j].arg, m.pf_tcp) /\ r.pf_udp = deny_if_empty(m.pf_udp)
        /\ l[j].opt = "filter-udp" =>
             r.pf_udp \in parse_pf_list(l[j].arg, m.pf_udp) /\ r.pf_tcp = deny_if_empty(m.pf_tcp)
    BY <1>2, PortAssigned
  <2>2. "filter-tcp" # "filter-udp"
    OBVIOUS
  <2>3. CASE l[j].opt = "filter-tcp"
    <3>1. Filtered(l, t \cup {j}, "filter-tcp", "filter-udp", r.pf_tcp)
      BY <1>2, <2>0, <2>1, <2>2, <2>3, FilteredMine DEF PortsSaid
    <3>2. Filtered(l, t \cup {j}, "filter-udp", "filter-tcp", r.pf_udp)
      <4>1. Filtered(l, t, "filter-udp", "filter-tcp", m.pf_udp)
        BY DEF PortsSaid
      <4>2. Filtered(l, t \cup {j}, "filter-udp", "filter-tcp", deny_if_empty(m.pf_udp))
        BY <2>0, <2>2, <2>3, <4>1, FilteredOther
      <4> QED BY <2>1, <2>3, <4>2
    <3> QED BY <3>1, <3>2 DEF PortsSaid
  <2>4. CASE l[j].opt = "filter-udp"
    <3>1. Filtered(l, t \cup {j}, "filter-udp", "filter-tcp", r.pf_udp)
      BY <1>2, <2>0, <2>1, <2>2, <2>4, FilteredMine DEF PortsSaid
    <3>2. Filtered(l, t \cup {j}, "filter-tcp", "filter-udp", r.pf_tcp)
      <4>1. Filtered(l, t, "filter-tcp", "filter-udp", m.pf_tcp)
        BY DEF PortsSaid
      <4>2. Filtered(l, t \cup {j}, "filter-tcp", "filter-udp", deny_if_empty(m.pf_tcp))
        BY <2>0, <2>2, <2>4, <4>1, FilteredOther
      <4> QED BY <2>1, <2>4, <4>2
    <3> QED BY <3>1, <3>2 DEF PortsSaid
  <2> QED BY <1>2, <2>3, <2>4 DEF PortOptions
<1> QED BY <1>1, <1>2

(* Fakes, with one more option *)
LEMMA FakesStep ==
  ASSUME NEW l, NEW t, IsFiniteSet(t), NEW j \in Nat, \A i \in t : i \in Nat /\ i < j,
         NEW m, TlsFields \subseteq DOMAIN m, FakesSaid(l, t, m), NEW r,
         l[j].opt \in TlsOptions => r \in Assigned(l[j], m),
         l[j].opt \notin TlsOptions => Keeps(m, r, TlsFields)
  PROVE  FakesSaid(l, t \cup {j}, r)
<1> DEFINE F == FakesAt(l, t)
           M == ModsAt(l, t)
<1>1. F \subseteq t /\ M \subseteq t
  BY DEF FakesAt, ModsAt, Given
<1>2. IsFiniteSet(F) /\ (\A i \in F : i \in Nat /\ i < j) /\ (\A i \in M : i \in Nat /\ i < j) /\ j \notin F
  BY <1>1, FS_Subset
<1>3. /\ FakesOK(l, F, M, m.fake_tls) /\ Carries(l, M, m.tls_mod_last)
      /\ M = {} => m.tls_mod_last.mod = {}
  BY DEF FakesSaid, Faked
<1>4. /\ l[j].opt = "dpi-desync-fake-tls" => FakesAt(l, t \cup {j}) = F \cup {j}
      /\ l[j].opt # "dpi-desync-fake-tls" => FakesAt(l, t \cup {j}) = F
      /\ l[j].opt = "dpi-desync-fake-tls-mod" => ModsAt(l, t \cup {j}) = M \cup {j}
      /\ l[j].opt # "dpi-desync-fake-tls-mod" => ModsAt(l, t \cup {j}) = M
  BY DEF FakesAt, ModsAt, Given
<1> HIDE DEF F, M
<1>5. CASE l[j].opt \notin TlsOptions
  <2>1. r.fake_tls = m.fake_tls /\ r.tls_mod_last = m.tls_mod_last
    BY <1>5 DEF Keeps, TlsFields
  <2>2. FakesAt(l, t \cup {j}) = F /\ ModsAt(l, t \cup {j}) = M
    BY <1>4, <1>5 DEF TlsOptions
  <2> QED BY <1>3, <2>1, <2>2 DEF FakesSaid, Faked
<1>6. CASE l[j].opt = "dpi-desync-fake-tls"
  <2>1. r \in Assigned(l[j], m)
    BY <1>6 DEF TlsOptions
  <2>2. FakesAt(l, t \cup {j}) = F \cup {j} /\ ModsAt(l, t \cup {j}) = M
    BY <1>4, <1>6
  <2>3. r.tls_mod_last = m.tls_mod_last
    BY <1>6, <2>1, FakeAssigned
  <2>4. PICK b : r.fake_tls = Append(m.fake_tls, [blob |-> b, mod |-> m.tls_mod_last.mod \cup {"CUSTOM_FAKE"},
                                                  sni |-> m.tls_mod_last.sni])
    BY <1>6, <2>1, FakeAssigned
  <2>5. FakesOK(l, F \cup {j}, M, r.fake_tls)
    <3> DEFINE next == m.tls_mod_last
               fakes == m.fake_tls
               more == r.fake_tls
    <3>1. /\ FakesOK(l, F, M, fakes) /\ Carries(l, M, next)
          /\ more = Append(fakes, [blob |-> b, mod |-> next.mod \cup {"CUSTOM_FAKE"}, sni |-> next.sni])
      BY <1>3, <2>4
    <3> HIDE DEF next, fakes, more
    <3>2. FakesOK(l, F \cup {j}, M, more)
      BY <1>2, <3>1, FakesMore
    <3> QED BY <3>2 DEF more
  <2> QED BY <1>3, <2>2, <2>3, <2>5 DEF FakesSaid, Faked
<1>7. CASE l[j].opt = "dpi-desync-fake-tls-mod"
  <2>1. r \in Assigned(l[j], m)
    BY <1>7 DEF TlsOptions
  <2>2. FakesAt(l, t \cup {j}) = F /\ ModsAt(l, t \cup {j}) = M \cup {j}
    BY <1>4, <1>7
  <2>3. PICK d \in parse_tlsmod_list(l[j].arg, m.tls_mod_last) :
          /\ r.tls_mod_last = d
          /\ r.fake_tls = IF m.fake_tls = <<>> THEN m.fake_tls ELSE LastWith(m.fake_tls, d)
    BY <1>7, <2>1, ModAssigned
  <2>4. FakesOK(l, F, M \cup {j}, r.fake_tls)
    <3> DEFINE next == m.tls_mod_last
               fakes == m.fake_tls
               others == r.fake_tls
    <3>1. /\ FakesOK(l, F, M, fakes) /\ Carries(l, M, next) /\ d \in parse_tlsmod_list(l[j].arg, next)
          /\ others = IF fakes = <<>> THEN fakes ELSE LastWith(fakes, d)
      BY <1>3, <2>3
    <3> HIDE DEF next, fakes, others
    <3>2. FakesOK(l, F, M \cup {j}, others)
      BY <1>2, <3>1, FakesModded
    <3> QED BY <3>2 DEF others
  <2>5. Carries(l, M \cup {j}, r.tls_mod_last)
    BY <1>2, <1>3, <2>3, CarriesMore
  <2> QED BY <2>2, <2>4, <2>5 DEF FakesSaid, Faked
<1> QED BY <1>5, <1>6, <1>7 DEF TlsOptions

(* One more option of the section *)
LEMMA SaidOne ==
  ASSUME NEW l, IsLine(l), NEW s, s \subseteq DOMAIN l, NEW n \in Nat, n + 1 \in s, WellFormed(l[n + 1]),
         NEW m, Said(l, s, n, m), NEW r, DOMAIN r = DOMAIN dp_init, r.splits \in Splits,
         l[n + 1].opt \in PortOptions \cup TlsOptions => r \in Assigned(l[n + 1], m),
         l[n + 1].opt \notin PortOptions => Keeps(m, r, PortFields),
         l[n + 1].opt \notin TlsOptions => Keeps(m, r, TlsFields)
  PROVE  Said(l, s, n + 1, r)
<1> DEFINE t == UpTo(s, n)
           j == n + 1
<1>1. Len(l) \in Nat /\ DOMAIN l = 1 .. Len(l)
  BY DEF IsLine
<1>2. l[n + 1].arg \in Seq(Item)
  <2>1. l[n + 1] \in Option
    BY DEF IsLine
  <2> QED BY <2>1 DEF Option, Item
<1>3. UpTo(s, n + 1) = t \cup {j} /\ t \subseteq s /\ \A i \in t : i \in Nat /\ i < j
  <2>1. \A i \in s : i \in Nat /\ (i <= n + 1 <=> (i <= n \/ i = n + 1))
    BY <1>1
  <2> QED BY <2>1 DEF UpTo
<1>4. IsFiniteSet(t)
  <2>1. t \subseteq 1 .. Len(l) /\ IsFiniteSet(1 .. Len(l))
    BY <1>1, <1>3, FS_Interval
  <2> QED BY <2>1, FS_Subset
<1>5. PortFields \subseteq DOMAIN m /\ TlsFields \subseteq DOMAIN m
  BY InitFields DEF Said, Shared
<1>6. ASSUME "*" \notin WordsOf(l, s, PortOptions)
      PROVE  PortsSaid(l, t \cup {j}, r)
  <2>1. l[j].opt \in PortOptions => "*" \notin Words(l[j].arg)
    BY <1>6 DEF WordsOf, Given
  <2>2. PortsSaid(l, t, m)
    BY <1>6 DEF Said
  <2> HIDE DEF t
  <2> QED BY <1>2, <1>5, <2>1, <2>2, PortsStep
<1>7. FakesSaid(l, t \cup {j}, r)
  <2>1. FakesSaid(l, t, m) /\ j \in Nat
    BY DEF Said
  <2> HIDE DEF t
  <2> QED BY <1>3, <1>4, <1>5, <2>1, FakesStep
<1> QED BY <1>3, <1>6, <1>7 DEF Said

(* What the options of a section say is what they make of a profile. *)
LEMMA SaidStep ==
  ASSUME NEW l, IsLine(l), \A j \in DOMAIN l : WellFormed(l[j]), NEW s, s \subseteq DOMAIN l, NEW n \in Nat,
         n + 1 \in DOMAIN l, \A m \in MadeBy(l, s)[n] : Said(l, s, n, m), NEW r \in MadeBy(l, s)[n + 1]
  PROVE  Said(l, s, n + 1, r)
<1>1. l[n + 1].arg \in Seq(Item)
  <2>1. l[n + 1] \in Option
    BY DEF IsLine
  <2> QED BY <2>1 DEF Option, Item
<1>2. CASE n + 1 \notin s
  <2>1. n + 1 \notin Given(l, s, ProfileOption)
    BY <1>2 DEF Given
  <2>2. Said(l, s, n, r)
    BY <2>1, MadeBack
  <2>3. UpTo(s, n + 1) = UpTo(s, n)
    <3>1. \A i \in s : i \in Nat /\ (i <= n + 1 <=> i <= n)
      BY <1>2 DEF IsLine
    <3> QED BY <3>1 DEF UpTo
  <2> QED BY <2>2, <2>3 DEF Said
<1>3. CASE n + 1 \in s /\ l[n + 1].opt \notin ProfileOption
  <2>1. n + 1 \notin Given(l, s, ProfileOption)
    BY <1>3 DEF Given
  <2>2. Said(l, s, n, r)
    BY <2>1, MadeBack
  <2>3. l[n + 1].opt \notin PortOptions /\ l[n + 1].opt \notin TlsOptions
    BY <1>3 DEF PortOptions, TlsOptions, ProfileOption
  <2>4. Keeps(r, r, PortFields) /\ Keeps(r, r, TlsFields)
    BY DEF Keeps
  <2>5. DOMAIN r = DOMAIN dp_init /\ r.splits \in Splits
    BY <2>2 DEF Said
  <2>6. WellFormed(l[n + 1])
    OBVIOUS
  <2> QED BY <1>3, <2>2, <2>3, <2>4, <2>5, <2>6, SaidOne
<1>4. CASE n + 1 \in s /\ l[n + 1].opt \in ProfileOption
  <2>1. n + 1 \in Given(l, s, ProfileOption)
    BY <1>4 DEF Given
  <2>2. PICK m \in MadeBy(l, s)[n] : r \in Assigned(l[n + 1], m)
    BY <2>1, MadeBack
  <2>3. Said(l, s, n, m)
    BY <2>2
  <2>4. Shared \subseteq DOMAIN m /\ m.splits \in Splits /\ DOMAIN m = DOMAIN dp_init
    BY <2>3, InitFields DEF Said
  <2>5. /\ Keeps(m, r, Core) /\ r.splits \in Splits
        /\ l[n + 1].opt \notin PortOptions => Keeps(m, r, PortFields)
        /\ l[n + 1].opt \notin TlsOptions => Keeps(m, r, TlsFields)
    BY <1>1, <2>2, <2>4, AssignedKeeps
  <2>6. DOMAIN r = DOMAIN dp_init
    BY <2>4, <2>5 DEF Keeps
  <2>7. WellFormed(l[n + 1])
    OBVIOUS
  <2> QED BY <1>4, <2>2, <2>3, <2>5, <2>6, <2>7, SaidOne
<1> QED BY <1>2, <1>3, <1>4

(* So it is for the whole line. *)
LEMMA SaidAll ==
  ASSUME NEW l, IsLine(l), \A j \in DOMAIN l : WellFormed(l[j]), NEW s, s \subseteq DOMAIN l
  PROVE  \A m \in MadeBy(l, s)[Len(l)] : Said(l, s, Len(l), m)
<1> DEFINE N == {n \in Nat : n <= Len(l) => \A m \in MadeBy(l, s)[n] : Said(l, s, n, m)}
<1>1. Len(l) \in Nat /\ DOMAIN l = 1 .. Len(l)
  BY DEF IsLine
<1>2. 0 \in N
  <2>1. MadeBy(l, s)[0] = {dp_init}
    BY MadeStep
  <2> QED BY <2>1, SaidStart
<1>3. ASSUME NEW n \in N PROVE n + 1 \in N
  <2> SUFFICES ASSUME n + 1 <= Len(l), NEW r \in MadeBy(l, s)[n + 1] PROVE Said(l, s, n + 1, r)
    OBVIOUS
  <2>1. n \in Nat /\ n + 1 \in DOMAIN l /\ \A m \in MadeBy(l, s)[n] : Said(l, s, n, m)
    BY <1>1
  <2> HIDE DEF N
  <2> QED BY <2>1, SaidStep
<1>4. N = Nat
  <2> HIDE DEF N
  <2>1. N \in SUBSET Nat
    BY DEF N
  <2> QED BY <1>2, <1>3, <2>1, EveryNumber
<1>5. Len(l) \in N /\ Len(l) <= Len(l)
  <2> HIDE DEF N
  <2> QED BY <1>1, <1>4
<1> QED BY <1>5

-----------------------------------------------------------------------------
(* What a section says is what its profile does *)

\* What the section s says of ports and fakes is in the profile p, which is one of the user.
Speaks(s, p) ==
  /\ Shared \subseteq DOMAIN p /\ p.splits \in Splits /\ p.n # 0
  /\ "*" \notin WordsOf(line, s, PortOptions) => PortsSaid(line, s, p)
  /\ FakesSaid(line, s, p)

(* The profile of a section has what the section says. *)
LEMMA SectionSaid ==
  ASSUME LineOK, DoneOK, FormOK, Parsed, NEW b \in Kept(line)
  PROVE  \E p : profiles[Place(line, b)] = Made(phase, p) /\ Speaks(Section(line, b), p)
<1> DEFINE s == Section(line, b)
           i == Place(line, b)
<1>1. Sections(line, phase, profiles, files) /\ IsLine(line)
  BY DEF DoneOK, LineOK, CanBe, IsLine
<1>2. i \in 1 .. Len(profiles) - 1 /\ \E p : Stems(line, b, phase, p, files, profiles[i])
  BY <1>1 DEF Sections
<1>3. PICK p : Stems(line, b, phase, p, files, profiles[i])
  BY <1>2
<1>4. /\ DOMAIN p = DOMAIN dp_init /\ p.splits \in Splits /\ profiles[i] = Made(phase, p)
      /\ p.n = PlaceAt(line, Len(line), b)
  BY <1>3 DEF Stems, Reads
<1>5. PICK m \in MadeBy(line, s)[Len(line)] : Alike(p, m)
  BY <1>3 DEF Stems, Reads
<1>6. p.n # 0
  <2>1. p.n = i
    BY <1>1, <1>4, WholeLine
  <2> QED BY <1>2, <2>1
<1>7. s \subseteq DOMAIN line /\ UpTo(s, Len(line)) = s
  <2>1. s \subseteq DOMAIN line
    BY DEF Section
  <2>2. \A j \in DOMAIN line : j <= Len(line)
    BY <1>1 DEF IsLine
  <2> QED BY <2>1, <2>2 DEF UpTo
<1>8. Said(line, s, Len(line), m)
  <2>1. \A j \in DOMAIN line : WellFormed(line[j])
    BY DEF FormOK
  <2> HIDE DEF s
  <2> QED BY <1>1, <1>5, <1>7, <2>1, SaidAll
<1>9. p.pf_tcp = m.pf_tcp /\ p.pf_udp = m.pf_udp /\ p.fake_tls = m.fake_tls /\ p.tls_mod_last = m.tls_mod_last
  <2>1. Shared \subseteq DOMAIN p
    BY <1>4, InitFields
  <2> QED BY <1>5, <2>1 DEF Alike, Shared, Core, PortFields, TlsFields
<1>10. Speaks(s, p)
  <2>1. Shared \subseteq DOMAIN p
    BY <1>4, InitFields
  <2>2. "*" \notin WordsOf(line, s, PortOptions) => PortsSaid(line, s, p)
    BY <1>7, <1>8, <1>9 DEF Said, PortsSaid
  <2>3. FakesSaid(line, s, p)
    BY <1>7, <1>8, <1>9 DEF Said, FakesSaid
  <2> QED BY <1>4, <1>6, <2>1, <2>2, <2>3 DEF Speaks
<1> QED BY <1>4, <1>10

\* What FiltersMean says of some ports, for every port
AdmitsAll(l, s, p) ==
  \A port \in Nat \ {0} :
    /\ port_filters_in_range(p.pf_tcp, port) = Wanted(l, s, "filter-tcp", "filter-udp", port)
    /\ port_filters_in_range(p.pf_udp, port) = Wanted(l, s, "filter-udp", "filter-tcp", port)
EveryPortMeans ==
  Parsed =>
    \A b \in Kept(line) :
      "*" \notin WordsOf(line, Section(line, b), PortOptions) =>
        AdmitsAll(line, Section(line, b), profiles[Place(line, b)])

(* The filters of a profile stay as it is finished, and admit what its section says. *)
LEMMA PortsMean ==
  ASSUME LineOK, NEW s, s \subseteq DOMAIN line, "*" \notin WordsOf(line, s, PortOptions), NEW p, Speaks(s, p)
  PROVE  AdmitsAll(line, s, Made(phase, p))
<1> DEFINE q == Made(phase, p)
<1>1. q.pf_tcp = p.pf_tcp /\ q.pf_udp = p.pf_udp
  BY FinishedKeeps DEF Made, Speaks, Keeps, PortFields
<1>2. \A opt : \A x \in PortsOf(line, s, opt) : x \in Item
  <2>1. \A j \in s : line[j].arg \in Seq(Item)
    <3>1. \A j \in DOMAIN line : line[j] \in Option
      BY DEF LineOK, CanBe
    <3> QED BY <3>1 DEF Option, Item
  <2>2. ASSUME NEW j \in s, NEW x \in Items(line[j].arg) PROVE x \in Item
    BY <2>1, <2>2 DEF Items
  <2> QED BY <2>2 DEF PortsOf, Given
<1>3. PortsSaid(line, s, p)
  BY DEF Speaks
<1>4. ASSUME NEW port \in Nat \ {0}
      PROVE  /\ port_filters_in_range(q.pf_tcp, port) = Wanted(line, s, "filter-tcp", "filter-udp", port)
             /\ port_filters_in_range(q.pf_udp, port) = Wanted(line, s, "filter-udp", "filter-tcp", port)
  <2>1. Filtered(line, s, "filter-tcp", "filter-udp", p.pf_tcp) /\ Filtered(line, s, "filter-udp", "filter-tcp", p.pf_udp)
    BY <1>3 DEF PortsSaid
  <2>2. port_filters_in_range(p.pf_tcp, port) = Wanted(line, s, "filter-tcp", "filter-udp", port)
    BY <1>2, <2>1, FilteredMeans
  <2>3. port_filters_in_range(p.pf_udp, port) = Wanted(line, s, "filter-udp", "filter-tcp", port)
    BY <1>2, <2>1, FilteredMeans
  <2> HIDE DEF q
  <2> QED BY <1>1, <2>2, <2>3
<1> QED BY <1>4 DEF AdmitsAll

(* The fakes of a finished profile *)
LEMMA FakesMean ==
  ASSUME LineOK, NEW s, s \subseteq DOMAIN line, NEW p, Speaks(s, p)
  PROVE  LET fakes == FakesAt(line, s)
             mods == ModsAt(line, s)
             sent == Finished(p).fake_tls
         IN  /\ Len(sent) = IF fakes = {} THEN 1 ELSE Cardinality(fakes)
             /\ \A f \in DOMAIN sent :
                  /\ sent[f].mod \ SavedMods =
                        IF Reaching(fakes, mods, f) # {} THEN LastMods(line, Reaching(fakes, mods, f))
                        ELSE IF fakes = {} THEN {"rnd", "rndsni", "dupsid"} ELSE {}
                  /\ Naming(line, Reaching(fakes, mods, f)) # {} =>
                       sent[f].sni = NameGiven(line[Max(Naming(line, Reaching(fakes, mods, f)))].arg)
<1> DEFINE F == FakesAt(line, s)
           M == ModsAt(line, s)
           sent == Finished(p).fake_tls
           R(f) == Reaching(F, M, f)
           first == [blob |-> DefaultHello, mod |-> p.tls_mod_last.mod, sni |-> p.tls_mod_last.sni]
<1>1. sent = [i \in DOMAIN Sent(p) |-> Randomised(p, Sent(p)[i])]
  BY FinishedKeeps DEF Speaks
<1>2. FakesOK(line, F, M, p.fake_tls) /\ Carries(line, M, p.tls_mod_last) /\ (M = {} => p.tls_mod_last.mod = {})
  BY DEF Speaks, FakesSaid, Faked
<1>3. IsFiniteSet(F)
  <2>1. Len(line) \in Nat /\ DOMAIN line = 1 .. Len(line)
    BY DEF LineOK, CanBe
  <2>2. F \subseteq 1 .. Len(line)
    BY <2>1 DEF FakesAt, Given
  <2>3. IsFiniteSet(1 .. Len(line))
    BY <2>1, FS_Interval
  <2> QED BY <2>2, <2>3, FS_Subset
<1>4. IsList(p.fake_tls) /\ Len(p.fake_tls) = Cardinality(F)
  BY <1>2 DEF FakesOK
<1>5. Cardinality(F) \in Nat /\ (Cardinality(F) = 0 <=> F = {})
  BY <1>3, FS_CardinalityType, FS_EmptySet
<1>6. PICK S : p.fake_tls \in Seq(S)
  BY <1>4 DEF IsList
<1>7. CASE F # {}
  <2>1. p.fake_tls # <<>>
    BY <1>4, <1>5, <1>7
  <2>2. Sent(p) = p.fake_tls
    BY <2>1 DEF Sent, Or
  <2> DEFINE t == p.fake_tls
  <2>3. DOMAIN t = 1 .. Cardinality(F)
    <3>1. t \in Seq(S) /\ Len(t) = Cardinality(F)
      BY <1>4, <1>6
    <3> HIDE DEF t
    <3> QED BY <3>1
  <2>4. ASSUME NEW f \in DOMAIN t
        PROVE  FakeOK(line, R(f), t[f]) /\ Randomised(p, t[f]) = t[f]
    <3>1. FakeOK(line, R(f), t[f])
      BY <1>2, <1>4, <2>3 DEF FakesOK
    <3> QED BY <3>1 DEF FakeOK, Randomised
  <2>5. DOMAIN sent = 1 .. Cardinality(F) /\ Len(sent) = Cardinality(F)
    <3>1. DOMAIN sent = 1 .. Cardinality(F)
      BY <1>1, <2>2, <2>3
    <3> HIDE DEF sent
    <3> QED BY <1>5, <3>1
  <2>6. ASSUME NEW f \in DOMAIN sent
        PROVE  /\ sent[f].mod \ SavedMods = IF R(f) # {} THEN LastMods(line, R(f)) ELSE {}
               /\ Naming(line, R(f)) # {} => sent[f].sni = NameGiven(line[Max(Naming(line, R(f)))].arg)
    <3>1. f \in DOMAIN t
      BY <2>3, <2>5
    <3>2. sent[f] = t[f]
      BY <1>1, <2>2, <2>4, <3>1
    <3>3. Carries(line, R(f), t[f])
      BY <2>4, <3>1 DEF FakeOK
    <3> HIDE DEF sent, t, R
    <3> QED BY <3>2, <3>3 DEF Carries
  <2> QED BY <1>7, <2>5, <2>6
<1>8. CASE F = {}
  <2>1. p.fake_tls = <<>>
    <3> DEFINE t == p.fake_tls
    <3>1. t \in Seq(S) /\ Len(t) = 0
      BY <1>4, <1>5, <1>6, <1>8
    <3> HIDE DEF t
    <3>2. t = <<>>
      BY <3>1
    <3> QED BY <3>2 DEF t
  <2>2. Sent(p) = <<first>>
    BY <2>1 DEF Sent, Or
  <2>3. DOMAIN sent = {1} /\ sent[1] = Randomised(p, first)
    <3> HIDE DEF first
    <3>1. DOMAIN <<first>> = {1} /\ <<first>>[1] = first
      OBVIOUS
    <3> QED BY <1>1, <2>2, <3>1
  <2>4. Len(sent) = 1
    <3>1. DOMAIN sent = 1 .. 1
      BY <2>3
    <3> HIDE DEF sent
    <3> QED BY <3>1
  <2>5. R(1) = M
    BY <1>3, <1>5, <1>8, ReachingAll
  <2>6. first.mod = p.tls_mod_last.mod /\ first.sni = p.tls_mod_last.sni /\ DOMAIN first = {"blob", "mod", "sni"}
    OBVIOUS
  <2>7. Carries(line, M, first)
    BY <1>2, <2>6, CarriesSame
  <2>8. M # {} => Randomised(p, first) = first
    <3>1. M # {} => "SET" \in first.mod
      BY <2>7 DEF Carries
    <3> HIDE DEF first
    <3> QED BY <3>1 DEF Randomised, SavedMods
  <2>9. M = {} => Randomised(p, first).mod = {"rnd", "rndsni", "dupsid"}
    <3>1. M = {} => first.mod = {}
      BY <1>2, <2>6
    <3>2. p.n # 0
      BY DEF Speaks
    <3> HIDE DEF first
    <3> QED BY <2>6, <3>1, <3>2 DEF Randomised
  <2>10. /\ sent[1].mod \ SavedMods = IF M # {} THEN LastMods(line, M) ELSE {"rnd", "rndsni", "dupsid"}
         /\ Naming(line, M) # {} => sent[1].sni = NameGiven(line[Max(Naming(line, M))].arg)
    <3> HIDE DEF first, sent
    <3>1. CASE M # {}
      BY <2>3, <2>7, <2>8, <3>1 DEF Carries
    <3>2. CASE M = {}
      <4>1. {"rnd", "rndsni", "dupsid"} \ SavedMods = {"rnd", "rndsni", "dupsid"}
        BY DEF SavedMods
      <4>2. Naming(line, M) = {}
        BY <3>2 DEF Naming
      <4> QED BY <2>3, <2>9, <3>2, <4>1, <4>2
    <3> QED BY <3>1, <3>2
  <2>11. \A f \in DOMAIN sent : f = 1
    BY <2>3
  <2> QED BY <1>8, <2>4, <2>5, <2>10, <2>11
<1> QED BY <1>7, <1>8

(* The port filters of a profile admit what its section says, whatever the     *)
(* line and the port, and in whatever order the filters of the two protocols   *)
(* are given (helpers.c:pf_parse, nfqws.c:main).                               *)
THEOREM EveryPortAsSaid == Spec => []EveryPortMeans
<1>1. FormInv => EveryPortMeans
  <2> SUFFICES ASSUME FormInv, Parsed, NEW b \in Kept(line), "*" \notin WordsOf(line, Section(line, b), PortOptions)
               PROVE  AdmitsAll(line, Section(line, b), profiles[Place(line, b)])
    BY DEF EveryPortMeans
  <2>1. LineOK /\ DoneOK /\ FormOK
    BY DEF FormInv, ReadInv, IInv
  <2>2. PICK p : profiles[Place(line, b)] = Made(phase, p) /\ Speaks(Section(line, b), p)
    BY <2>1, SectionSaid
  <2>3. Section(line, b) \subseteq DOMAIN line
    BY DEF Section
  <2>4. AdmitsAll(line, Section(line, b), Made(phase, p))
    BY <2>1, <2>2, <2>3, PortsMean
  <2> QED BY <2>2, <2>4
<1> QED BY <1>1, FormInvariance, PTL

(* So do those that the runs try (helpers.c:pf_parse, nfqws.c:main). *)
THEOREM PortsAsSaid == Spec => []PortFiltersMean
<1>1. EveryPortMeans => PortFiltersMean
  <2>1. Probes \subseteq Nat \ {0}
    BY DEF Probes
  <2>2. \A l, s, p : AdmitsAll(l, s, p) => FiltersMean(l, s, p)
    BY <2>1 DEF AdmitsAll, FiltersMean
  <2> QED BY <2>2 DEF EveryPortMeans, PortFiltersMean, PortOptions
<1> QED BY <1>1, EveryPortAsSaid, PTL

(* A fake ClientHello is modified as the mod lists say that reach it, and      *)
(* without any the built-in one is randomised and one of the user left as it   *)
(* is, whatever the line (nfqws.c:main, onetime_tls_mod).                      *)
THEOREM ModsReach == Spec => []ModsReachFakes
<1>1. FormInv => ModsReachFakes
  <2>1. ASSUME FormInv, Parsed, phase # "finalise", NEW b \in Kept(line)
        PROVE  \E p : /\ profiles[Place(line, b)] = Finished(p) /\ Speaks(Section(line, b), p)
                      /\ Section(line, b) \subseteq DOMAIN line /\ LineOK
    <3>1. LineOK /\ DoneOK /\ FormOK
      BY <2>1 DEF FormInv, ReadInv, IInv
    <3>2. PICK p : profiles[Place(line, b)] = Made(phase, p) /\ Speaks(Section(line, b), p)
      BY <2>1, <3>1, SectionSaid
    <3>3. Section(line, b) \subseteq DOMAIN line
      BY DEF Section
    <3> QED BY <2>1, <3>1, <3>2, <3>3 DEF Made
  <2> DEFINE Fakes(b) == FakesAt(line, Section(line, b))
             Mods(b) == ModsAt(line, Section(line, b))
             Mean(b, sent) ==
               /\ Len(sent) = IF Fakes(b) = {} THEN 1 ELSE Cardinality(Fakes(b))
               /\ \A f \in DOMAIN sent :
                    /\ sent[f].mod \ SavedMods =
                          IF Reaching(Fakes(b), Mods(b), f) # {} THEN LastMods(line, Reaching(Fakes(b), Mods(b), f))
                          ELSE IF Fakes(b) = {} THEN {"rnd", "rndsni", "dupsid"} ELSE {}
                    /\ Naming(line, Reaching(Fakes(b), Mods(b), f)) # {} =>
                         sent[f].sni = NameGiven(line[Max(Naming(line, Reaching(Fakes(b), Mods(b), f)))].arg)
  <2>2. ASSUME FormInv, Parsed, phase # "finalise", NEW b \in Kept(line)
        PROVE  Mean(b, profiles[Place(line, b)].fake_tls)
    <3>1. PICK p : /\ profiles[Place(line, b)] = Finished(p) /\ Speaks(Section(line, b), p)
                   /\ Section(line, b) \subseteq DOMAIN line /\ LineOK
      BY <2>1, <2>2
    <3>2. Mean(b, Finished(p).fake_tls)
      BY <3>1, FakesMean
    <3> HIDE DEF Mean
    <3> QED BY <3>1, <3>2
  <2> QED BY <2>2, Zenon DEF ModsReachFakes, FakesAt, ModsAt, Reaching
<1> QED BY <1>1, FormInvariance, PTL
================================================================================
