------------------------------ MODULE CommandLine ------------------------------
(* What one option of nfqws.c says. An option is a name and an argument; an   *)
(* argument is the sequence of its comma separated items, and an item has a   *)
(* word and the numbers beside it: "host+1" is [w |-> "host", n |-> <<1>>],   *)
(* "80-90" is [w |-> "", n |-> <<80, 90>>], "altorder=1" is                   *)
(* [w |-> "altorder", n |-> <<1>>]. No argument is <<>>.                      *)
(*                                                                            *)
(* Every operator below that reads an option gives the set of what it can     *)
(* become: nothing when the option is refused, more than one value where the  *)
(* code reads what it did not set. Numbers above 2^31 are left out: where a   *)
(* range is checked, Unsigned refuses a negative number, which scanf reads as *)
(* a number above every bound.                                                *)
EXTENDS Integers, Sequences, SequencesExt, FiniteSetsExt

CONSTANTS
  Size,        \* the size of every payload file
  Hello,       \* the payload files that hold a ClientHello with a server name
  MaxSplits    \* MAX_SPLITS

ASSUME SizeAssumption == \A f \in DOMAIN Size : Size[f] \in Nat
ASSUME HelloAssumption == Hello \subseteq DOMAIN Size
ASSUME MaxSplitsAssumption == MaxSplits \in Nat \ {0}

--------------------------------------------------------------------------------
(* Options and what they take. *)

NoArgument ==
  {"dry-run", "version", "daemon", "hostcase", "hostnospace", "domcase", "methodeol", "new", "skip"}

OptionalArgument ==
  {"debug", "comment", "synack-split", "ctrack-disable", "ipcache-hostname",
   "dup-autottl", "dup-autottl6", "dup-tcp-flags-set", "dup-tcp-flags-unset", "dup-replace",
   "orig-autottl", "orig-autottl6", "orig-tcp-flags-set", "orig-tcp-flags-unset",
   "dpi-desync-autottl", "dpi-desync-autottl6", "dpi-desync-tcp-flags-set",
   "dpi-desync-tcp-flags-unset", "dpi-desync-skip-nosni", "dpi-desync-any-protocol"}

ProfileOption ==
  {"wsize", "wssize", "wssize-cutoff", "wssize-forced-cutoff", "synack-split", "hostcase",
   "hostspell", "hostnospace", "domcase", "methodeol", "ip-id", "dpi-desync",
   "dup", "dup-ttl", "dup-ttl6", "dup-autottl", "dup-autottl6", "dup-tcp-flags-set",
   "dup-tcp-flags-unset", "dup-replace", "dup-fooling", "dup-ts-increment",
   "dup-badseq-increment", "dup-badack-increment", "dup-cutoff", "dup-start", "dup-ip-id",
   "orig-ttl", "orig-ttl6", "orig-autottl", "orig-autottl6", "orig-tcp-flags-set",
   "orig-tcp-flags-unset", "orig-mod-cutoff", "orig-mod-start",
   "dpi-desync-ttl", "dpi-desync-ttl6", "dpi-desync-autottl", "dpi-desync-autottl6",
   "dpi-desync-tcp-flags-set", "dpi-desync-tcp-flags-unset", "dpi-desync-fooling",
   "dpi-desync-repeats", "dpi-desync-skip-nosni", "dpi-desync-split-pos",
   "dpi-desync-split-http-req", "dpi-desync-split-tls", "dpi-desync-split-seqovl",
   "dpi-desync-split-seqovl-pattern", "dpi-desync-fakedsplit-pattern",
   "dpi-desync-fakedsplit-mod", "dpi-desync-hostfakesplit-midhost",
   "dpi-desync-hostfakesplit-mod", "dpi-desync-ipfrag-pos-tcp", "dpi-desync-ipfrag-pos-udp",
   "dpi-desync-ts-increment", "dpi-desync-badseq-increment", "dpi-desync-badack-increment",
   "dpi-desync-any-protocol", "dpi-desync-fake-tcp-mod", "dpi-desync-fake-http",
   "dpi-desync-fake-tls", "dpi-desync-fake-tls-mod", "dpi-desync-fake-unknown",
   "dpi-desync-fake-syndata", "dpi-desync-fake-quic", "dpi-desync-fake-wireguard",
   "dpi-desync-fake-dht", "dpi-desync-fake-discord", "dpi-desync-fake-stun",
   "dpi-desync-fake-unknown-udp", "dpi-desync-udplen-increment", "dpi-desync-udplen-pattern",
   "dpi-desync-cutoff", "dpi-desync-start", "hostlist-auto-fail-threshold",
   "hostlist-auto-fail-time", "hostlist-auto-retrans-threshold",
   "filter-l3", "filter-tcp", "filter-udp", "filter-l7"}

ListOption ==
  {"hostlist", "hostlist-domains", "hostlist-exclude", "hostlist-exclude-domains",
   "hostlist-auto", "ipset", "ipset-ip", "ipset-exclude", "ipset-exclude-ip"}

(* The lists that the line itself holds *)
ItemOption == {"hostlist-domains", "hostlist-exclude-domains", "ipset-ip", "ipset-exclude-ip"}

GlobalOption ==
  {"debug", "comment", "port", "daemon", "pidfile", "user", "uid", "ctrack-timeouts",
   "ctrack-disable", "ipcache-lifetime", "ipcache-hostname", "hostlist-auto-debug"}

LineOption == {"dry-run", "version", "new", "skip"}

(* getopt_long_only knows the option and has been given what it takes. *)
WellFormed(o) ==
  /\ o.opt \in ProfileOption \cup ListOption \cup GlobalOption \cup LineOption
  /\ o.opt \in NoArgument => o.arg = <<>>
  /\ o.arg = <<>> => o.opt \in NoArgument \cup OptionalArgument

--------------------------------------------------------------------------------
(* Reading of arguments. *)

Items(arg) == {arg[i] : i \in DOMAIN arg}
Words(arg) == {i.w : i \in Items(arg)}

(* atoi: zero where there is no number *)
Atoi(arg) == IF arg[1].n = <<>> THEN 0 ELSE arg[1].n[1]

(* sscanf of an unsigned, and of a signed, number *)
Unsigned(arg) == {k \in {arg[1].n[i] : i \in DOMAIN arg[1].n \cap {1}} : k >= 0}
Signed(arg) == {arg[1].n[i] : i \in DOMAIN arg[1].n \cap {1}}

(* A switch that is on unless it is given a zero *)
Switch(arg) == arg = <<>> \/ Atoi(arg) # 0

(* A ttl is cut to its low byte. *)
Byte(arg) == Atoi(arg) % 256

(* mode and number from which, or up to which, something applies *)
parse_cutoff(arg) ==
  IF arg[1].w \in {"", "n", "d", "s"}
    THEN {[mode |-> IF arg[1].w = "" THEN "n" ELSE arg[1].w, value |-> k] : k \in Unsigned(arg)}
    ELSE {}

(* <window>[:<scale>] over what was set before *)
parse_ws_scale_factor(arg, old) ==
  LET scale == IF Len(arg[1].n) > 1 THEN arg[1].n[2] ELSE old.scale
  IN  IF Atoi(arg) \in 0 .. 65535 /\ scale \in 0 .. 255
        THEN {[size |-> Atoi(arg), scale |-> scale]} ELSE {}

(* [+|-]<delta>[:<min>[-<max>]], or "-" alone; minus is the default sign *)
NoAutottl == [delta |-> 0, min |-> 0, max |-> 0]
Autottl(delta, min, max) == [delta |-> delta, min |-> min, max |-> max]
AUTOTTL_ENABLED(t) == t # NoAutottl
parse_autottl(arg, default) ==
  IF arg = <<>> THEN {default}
  ELSE LET n == arg[1].n
           min == IF Len(n) > 1 THEN n[2] ELSE default.min
           max == IF Len(n) > 2 THEN n[3] ELSE default.max
       IN  IF n = <<>> THEN IF arg[1].w = "-" THEN {NoAutottl} ELSE {}
           ELSE IF /\ n[1] \in 0 .. 127
                   /\ Len(n) > 2 => max \in 0 .. 255 /\ (n[1] # 0 => max # 0)
                   /\ Len(n) > 1 => min \in 0 .. 255 /\ (n[1] # 0 => min # 0) /\ min <= max
                  THEN {Autottl(IF arg[1].w = "+" THEN n[1] ELSE -n[1], min, max)} ELSE {}

Flag == [FIN |-> 1, SYN |-> 2, RST |-> 4, PSH |-> 8, PUSH |-> 8, ACK |-> 16, URG |-> 32,
         ECE |-> 64, CWR |-> 128, AE |-> 256, AECN |-> 256, ACCECN |-> 256, R1 |-> 512,
         R2 |-> 1024, R3 |-> 2048]
parse_tcpflags(arg) ==
  IF arg[1].n # <<>> THEN Unsigned(arg) \cap 0 .. 4095
  ELSE IF Words(arg) \subseteq DOMAIN Flag
    THEN {SumSet({Flag[w] : w \in Words(arg)})} ELSE {}

(* Foolings add up: "none" adds none and takes none back. *)
parse_fooling(arg, old) ==
  IF Words(arg) \subseteq {"none", "md5sig", "ts", "badseq", "badsum", "datanoack", "hopbyhop", "hopbyhop2"}
    THEN {old \cup (Words(arg) \ {"none"})} ELSE {}

(* One of the words of a table *)
OneOf(arg, words) == Words(arg) \cap words

Abs(k) == [marker |-> "abs", pos |-> k]
At(m, k) == [marker |-> m, pos |-> k]
int16 == -32768 .. 32767
parse_split_pos(i) ==
  IF i.w = "" THEN {Abs(k) : k \in {k \in {i.n[j] : j \in DOMAIN i.n} : k \in int16 \ {0}}}
  ELSE IF i.w \notin {"host", "endhost", "sld", "midsld", "endsld", "method", "sniext"} THEN {}
  ELSE IF i.n = <<>> THEN {At(i.w, 0)}
  ELSE {At(i.w, k) : k \in {i.n[1]} \cap int16}

(* A position that "0" switches off *)
PosOrOff(i) == IF i.w = "" /\ i.n = <<0>> THEN {Abs(0)} ELSE parse_split_pos(i)

(* A mutant: room for the first item of a list is room for all. *)
SplitsUnlimited(arg, splits) ==
  IF (\A i \in Items(arg) : parse_split_pos(i) # {}) /\ Len(splits) < MaxSplits
    THEN {splits \o [i \in DOMAIN arg |-> CHOOSE p \in parse_split_pos(arg[i]) : TRUE]} ELSE {}

(* All items are positions, and there is room for them. *)
parse_split_pos_list(arg, splits) ==
  IF (\A i \in Items(arg) : parse_split_pos(i) # {}) /\ Len(splits) + Len(arg) <= MaxSplits
    THEN {splits \o [i \in DOMAIN arg |-> CHOOSE p \in parse_split_pos(arg[i]) : TRUE]} ELSE {}

parse_httpreqpos(arg) == {p \in {At("method", 2), At("host", 1)} : p.marker \in Words(arg)}
parse_tlspos(arg) ==
  {p[2] : p \in {q \in {<<"sni", At("host", 1)>>, <<"sniext", At("sniext", 1)>>, <<"snisld", At("midsld", 0)>>} :
                   q[1] \in Words(arg)}}

(* One position more, while there is room *)
OneMore(splits, positions) ==
  IF Len(splits) < MaxSplits THEN {Append(splits, p) : p \in positions} ELSE {}

(* A payload: 0x<hex>, a file, or a file from an offset in it. A file that is *)
(* longer than the buffer is cut.                                             *)
Payload(i, max) ==
  IF i.w = "0x" THEN {[file |-> "0x", size |-> k, offset |-> 0] : k \in {Min({i.n[1], max})} \ {0}}
  ELSE IF i.w \notin DOMAIN Size THEN {}
  ELSE LET size == Min({Size[i.w], max})
           ofs == IF i.n = <<>> THEN 0 ELSE i.n[1]
       IN  IF ofs < size THEN {[file |-> i.w, size |-> size, offset |-> ofs]} ELSE {}

(* A pattern drops what lies before the offset. *)
Pattern(i, max) == {[file |-> b.file, size |-> b.size - b.offset] : b \in Payload(i, max)}

FAKE_MAX_TCP == 1460
FAKE_MAX_UDP == 1472
FSPLIT_MAX == 32768
Fake(collection, arg, max) == {Append(collection, b) : b \in Payload(arg[1], max)}

MaxPort == 65535
(* <port>[-<port>], ~ for all others, * for every port. "*" does not say     *)
(* whether it is negated: it keeps what the item before it left in the same  *)
(* variable, and the first item finds anything there.                        *)
parse_pf_list(arg, filters) ==
  LET Ports(i) == IF i.w = "*" THEN <<1, MaxPort>> ELSE <<i.n[1], i.n[Len(i.n)]>>
      Negated(was) ==
        LET neg[k \in 0 .. Len(arg)] ==
              IF k = 0 THEN was
              ELSE IF arg[k].w = "*" THEN neg[k - 1]
              ELSE arg[k].w = "~" \/ Ports(arg[k]) = <<0, 0>>
        IN  neg
  IN  IF \A i \in Items(arg) :
           \/ i.w = "*"
           \/ /\ i.w \in {"", "~"} /\ Len(i.n) \in {1, 2}
              /\ Ports(i)[1] \in 0 .. Ports(i)[2] /\ Ports(i)[2] <= MaxPort
        THEN {filters \cup {[ports |-> Ports(arg[k]), neg |-> Negated(was)[k]] : k \in DOMAIN arg} :
                was \in BOOLEAN}
        ELSE {}

(* A mutant: an empty filter is left empty, and admits every port. *)
AdmitIfEmpty(filters) == filters

(* Filters of the other protocol refuse every port when there are none. *)
deny_if_empty(filters) ==
  IF filters = {} THEN {[ports |-> <<0, 0>>, neg |-> TRUE]} ELSE filters

pf_in_range(port, f) ==
  port # 0 /\ ((f.ports = <<0, 0>> \/ port \in f.ports[1] .. f.ports[2]) # f.neg)
port_filters_in_range(filters, port) ==
  filters = {} \/ \E f \in filters : pf_in_range(port, f)

--------------------------------------------------------------------------------
(* A profile, as dp_init leaves it. A list of lists holds indices of the      *)
(* files registered; foolings, mods and protocols are sets.                   *)

Cutoff0 == [mode |-> "n", value |-> 0]
NoTlsMod == [mod |-> {}, sni |-> 0]

dp_init ==
  [n |-> 0,
   wsize |-> [size |-> 0, scale |-> 255], wssize |-> [size |-> 0, scale |-> 0],
   wssize_cutoff |-> Cutoff0, wssize_no_forced_cutoff |-> FALSE, synack_split |-> "none",
   ip_id_mode |-> "seq", hostcase |-> FALSE, hostspell |-> "host", hostnospace |-> FALSE,
   domcase |-> FALSE, methodeol |-> FALSE,
   mode0 |-> "none", mode |-> "none", mode2 |-> "none",
   skip_nosni |-> TRUE, any_proto |-> FALSE, repeats |-> 1,
   ipfrag_pos_tcp |-> 32, ipfrag_pos_udp |-> 8,
   splits |-> <<>>, seqovl |-> Abs(0), midhost |-> Abs(0),
   dup_repeats |-> 0, dup_replace |-> FALSE, dup_ttl |-> 0, dup_ttl6 |-> 255,
   dup_autottl |-> NoAutottl, dup_autottl6 |-> NoAutottl, dup_fooling |-> {},
   dup_flags_set |-> 0, dup_flags_unset |-> 0, dup_ts |-> -600000, dup_badseq |-> -10000,
   dup_badack |-> -66000, dup_cutoff |-> Cutoff0, dup_start |-> Cutoff0, dup_ip_id |-> "same",
   orig_ttl |-> 0, orig_ttl6 |-> 255, orig_autottl |-> NoAutottl, orig_autottl6 |-> NoAutottl,
   orig_flags_set |-> 0, orig_flags_unset |-> 0, orig_cutoff |-> Cutoff0, orig_start |-> Cutoff0,
   ttl |-> 0, ttl6 |-> 255, autottl |-> NoAutottl, autottl6 |-> NoAutottl, fooling |-> {},
   flags_set |-> 0, flags_unset |-> 0, ts |-> -600000, badseq |-> -10000, badack |-> -66000,
   cutoff |-> Cutoff0, start |-> Cutoff0,
   fake_http |-> <<>>, fake_tls |-> <<>>, fake_unknown |-> <<>>, fake_unknown_udp |-> <<>>,
   fake_quic |-> <<>>, fake_wg |-> <<>>, fake_dht |-> <<>>, fake_discord |-> <<>>,
   fake_stun |-> <<>>, syndata |-> [file |-> "zeros", size |-> 16],
   seqovl_pattern |-> [file |-> "zeros", size |-> FAKE_MAX_TCP],
   udplen_pattern |-> [file |-> "zeros", size |-> FAKE_MAX_UDP],
   fsplit_pattern |-> [file |-> "none", size |-> 0],
   tls_mod_last |-> NoTlsMod, hfs_host |-> 0, hfs_order |-> 0, fs_order |-> 0, tcp_seq |-> FALSE,
   udplen_increment |-> 2, filter_l3 |-> {4, 6}, filter_l7 |-> {}, pf_tcp |-> {}, pf_udp |-> {},
   hl |-> {}, hl_exclude |-> {}, ips |-> {}, ips_exclude |-> {}, auto |-> 0,
   auto_fail_threshold |-> 3, auto_fail_time |-> 60, auto_retrans_threshold |-> 3]

--------------------------------------------------------------------------------
(* What an option does to the profile it stands in, by part of the profile.   *)

(* dpi-desync: [<mode0>,]<mode>[,<mode2>] *)
ModeOf(word) ==
  CASE word = "split" -> "fakedsplit" [] word = "split2" -> "multisplit"
    [] word = "disorder" -> "fakeddisorder" [] word = "disorder2" -> "multidisorder"
    [] OTHER -> word
ZeroStage == {"synack", "syndata"}
FirstStage == {"fake", "fakeknown", "rst", "rstack", "hopbyhop", "destopt", "ipfrag1"}
SecondStage ==
  {"none", "fakeddisorder", "fakedsplit", "multisplit", "multidisorder", "hostfakesplit",
   "ipfrag2", "udplen", "tamper"}
Modes(arg, dp) ==
  LET words == [i \in DOMAIN arg |-> ModeOf(arg[i].w)]
      known == (ZeroStage \cup FirstStage \cup SecondStage) \ {"none"}
      zero == words[1] \in ZeroStage
      rest == (IF zero THEN Tail(words) ELSE words) \o <<"none", "none">>
  IN  IF /\ \A i \in DOMAIN words : words[i] \in known
         /\ Len(arg) <= IF zero THEN 3 ELSE 2
         /\ rest[2] = "none" \/ (rest[1] \in FirstStage /\ rest[2] \in SecondStage)
        THEN {[dp EXCEPT !.mode0 = IF zero THEN words[1] ELSE "none",
                         !.mode = rest[1], !.mode2 = rest[2]]}
        ELSE {}

WindowOptions(o, dp) ==
  CASE o.opt = "wsize" -> {[dp EXCEPT !.wsize = v] : v \in parse_ws_scale_factor(o.arg, dp.wsize)}
    [] o.opt = "wssize" -> {[dp EXCEPT !.wssize = v] : v \in parse_ws_scale_factor(o.arg, dp.wssize)}
    [] o.opt = "wssize-cutoff" -> {[dp EXCEPT !.wssize_cutoff = v] : v \in parse_cutoff(o.arg)}
    [] o.opt = "wssize-forced-cutoff" -> {[dp EXCEPT !.wssize_no_forced_cutoff = (Atoi(o.arg) = 0)]}
    [] o.opt = "synack-split" ->
         {[dp EXCEPT !.synack_split = v] :
            v \in IF o.arg = <<>> THEN {"syn"} ELSE OneOf(o.arg, {"syn", "synack", "acksyn"})}
    [] OTHER -> {}

HttpOptions(o, dp) ==
  CASE o.opt = "hostcase" -> {[dp EXCEPT !.hostcase = TRUE]}
    [] o.opt = "hostspell" ->   \* n: how long the word is
         {[dp EXCEPT !.hostcase = TRUE, !.hostspell = o.arg[1].w] : x \in {4} \cap Unsigned(o.arg)}
    [] o.opt = "hostnospace" -> IF dp.methodeol THEN {} ELSE {[dp EXCEPT !.hostnospace = TRUE]}
    [] o.opt = "domcase" -> {[dp EXCEPT !.domcase = TRUE]}
    [] o.opt = "methodeol" -> IF dp.hostnospace THEN {} ELSE {[dp EXCEPT !.methodeol = TRUE]}
    [] o.opt = "ip-id" ->
         {[dp EXCEPT !.ip_id_mode = v] : v \in OneOf(o.arg, {"zero", "seq", "seqgroup", "rnd"})}
    [] o.opt = "dpi-desync" -> Modes(o.arg, dp)
    [] OTHER -> {}

Repeats(arg, least) == {k \in Unsigned(arg) : k \in least .. 1024}
DupOptions(o, dp) ==
  LET default == Autottl(-1, 3, 64)
  IN
  CASE o.opt = "dup" -> {[dp EXCEPT !.dup_repeats = v] : v \in Repeats(o.arg, 0)}
    [] o.opt = "dup-ttl" -> {[dp EXCEPT !.dup_ttl = Byte(o.arg)]}
    [] o.opt = "dup-ttl6" -> {[dp EXCEPT !.dup_ttl6 = Byte(o.arg)]}
    [] o.opt = "dup-autottl" -> {[dp EXCEPT !.dup_autottl = v] : v \in parse_autottl(o.arg, default)}
    [] o.opt = "dup-autottl6" -> {[dp EXCEPT !.dup_autottl6 = v] : v \in parse_autottl(o.arg, default)}
    [] o.opt = "dup-tcp-flags-set" -> {[dp EXCEPT !.dup_flags_set = v] : v \in parse_tcpflags(o.arg)}
    [] o.opt = "dup-tcp-flags-unset" -> {[dp EXCEPT !.dup_flags_unset = v] : v \in parse_tcpflags(o.arg)}
    [] o.opt = "dup-replace" -> {[dp EXCEPT !.dup_replace = Switch(o.arg)]}
    [] o.opt = "dup-fooling" -> {[dp EXCEPT !.dup_fooling = v] : v \in parse_fooling(o.arg, dp.dup_fooling)}
    [] o.opt = "dup-ts-increment" -> {[dp EXCEPT !.dup_ts = v] : v \in Signed(o.arg)}
    [] o.opt = "dup-badseq-increment" -> {[dp EXCEPT !.dup_badseq = v] : v \in Signed(o.arg)}
    [] o.opt = "dup-badack-increment" -> {[dp EXCEPT !.dup_badack = v] : v \in Signed(o.arg)}
    [] o.opt = "dup-cutoff" -> {[dp EXCEPT !.dup_cutoff = v] : v \in parse_cutoff(o.arg)}
    [] o.opt = "dup-start" -> {[dp EXCEPT !.dup_start = v] : v \in parse_cutoff(o.arg)}
    [] o.opt = "dup-ip-id" ->
         {[dp EXCEPT !.dup_ip_id = v] : v \in OneOf(o.arg, {"zero", "same", "seq", "rnd"})}
    [] OTHER -> {}

OrigOptions(o, dp) ==
  LET default == Autottl(5, 3, 64)
  IN
  CASE o.opt = "orig-ttl" -> {[dp EXCEPT !.orig_ttl = Byte(o.arg)]}
    [] o.opt = "orig-ttl6" -> {[dp EXCEPT !.orig_ttl6 = Byte(o.arg)]}
    [] o.opt = "orig-autottl" -> {[dp EXCEPT !.orig_autottl = v] : v \in parse_autottl(o.arg, default)}
    [] o.opt = "orig-autottl6" -> {[dp EXCEPT !.orig_autottl6 = v] : v \in parse_autottl(o.arg, default)}
    [] o.opt = "orig-tcp-flags-set" -> {[dp EXCEPT !.orig_flags_set = v] : v \in parse_tcpflags(o.arg)}
    [] o.opt = "orig-tcp-flags-unset" -> {[dp EXCEPT !.orig_flags_unset = v] : v \in parse_tcpflags(o.arg)}
    [] o.opt = "orig-mod-cutoff" -> {[dp EXCEPT !.orig_cutoff = v] : v \in parse_cutoff(o.arg)}
    [] o.opt = "orig-mod-start" -> {[dp EXCEPT !.orig_start = v] : v \in parse_cutoff(o.arg)}
    [] OTHER -> {}


DesyncOptions(o, dp) ==
  LET default == Autottl(-1, 3, 20)
  IN
  CASE o.opt = "dpi-desync-ttl" -> {[dp EXCEPT !.ttl = Byte(o.arg)]}
    [] o.opt = "dpi-desync-ttl6" -> {[dp EXCEPT !.ttl6 = Byte(o.arg)]}
    [] o.opt = "dpi-desync-autottl" -> {[dp EXCEPT !.autottl = v] : v \in parse_autottl(o.arg, default)}
    [] o.opt = "dpi-desync-autottl6" -> {[dp EXCEPT !.autottl6 = v] : v \in parse_autottl(o.arg, default)}
    [] o.opt = "dpi-desync-tcp-flags-set" -> {[dp EXCEPT !.flags_set = v] : v \in parse_tcpflags(o.arg)}
    [] o.opt = "dpi-desync-tcp-flags-unset" -> {[dp EXCEPT !.flags_unset = v] : v \in parse_tcpflags(o.arg)}
    [] o.opt = "dpi-desync-fooling" -> {[dp EXCEPT !.fooling = v] : v \in parse_fooling(o.arg, dp.fooling)}
    [] o.opt = "dpi-desync-repeats" -> {[dp EXCEPT !.repeats = v] : v \in Repeats(o.arg, 1)}
    [] o.opt = "dpi-desync-skip-nosni" -> {[dp EXCEPT !.skip_nosni = Switch(o.arg)]}
    [] OTHER -> {}

SplitOptions(o, dp) ==
  CASE o.opt = "dpi-desync-split-pos" ->
         {[dp EXCEPT !.splits = v] : v \in parse_split_pos_list(o.arg, dp.splits)}
    [] o.opt = "dpi-desync-split-http-req" ->
         {[dp EXCEPT !.splits = v] : v \in OneMore(dp.splits, parse_httpreqpos(o.arg))}
    [] o.opt = "dpi-desync-split-tls" ->
         {[dp EXCEPT !.splits = v] : v \in OneMore(dp.splits, parse_tlspos(o.arg))}
    [] o.opt = "dpi-desync-split-seqovl" -> {[dp EXCEPT !.seqovl = v] : v \in PosOrOff(o.arg[1])}
    [] o.opt = "dpi-desync-split-seqovl-pattern" ->
         {[dp EXCEPT !.seqovl_pattern = v] : v \in Pattern(o.arg[1], FAKE_MAX_TCP)}
    [] o.opt = "dpi-desync-fakedsplit-pattern" ->
         {[dp EXCEPT !.fsplit_pattern = v] : v \in Pattern(o.arg[1], FSPLIT_MAX)}
    [] OTHER -> {}

(* mod=<number>, "none" sets nothing *)
Orders(arg, valid) ==
  IF /\ Words(arg) \subseteq {"none", "altorder"}
     /\ \A i \in Items(arg) : i.w = "altorder" => i.n # <<>> /\ i.n[1] \in valid
    THEN {[i \in DOMAIN arg |-> arg[i]]} ELSE {}
LastOrder(arg, old) ==
  LET given == {i \in DOMAIN arg : arg[i].w = "altorder"}
  IN  IF given = {} THEN old ELSE arg[Max(given)].n[1]
FakedsplitOrders == {x + y : x \in 0 .. 3, y \in {0, 8, 16}}

(* The name to send in the place of the host is given beside the orders. *)
Names(arg) == SelectSeq(arg, LAMBDA i : i.w = "host")
Others(arg) == SelectSeq(arg, LAMBDA i : i.w # "host")
HostfakesplitMod(o, dp) ==
  IF \A i \in Items(Names(o.arg)) : i.n # <<>>
    THEN {[dp EXCEPT !.hfs_order = LastOrder(a, dp.hfs_order),
                     !.hfs_host = IF Names(o.arg) = <<>> THEN @ ELSE Last(Names(o.arg)).n[1]] :
            a \in Orders(Others(o.arg), {0, 1})}
    ELSE {}
SplitMods(o, dp) ==
  CASE o.opt = "dpi-desync-fakedsplit-mod" ->
         {[dp EXCEPT !.fs_order = LastOrder(a, dp.fs_order)] :
            a \in Orders(o.arg, FakedsplitOrders)}
    [] o.opt = "dpi-desync-hostfakesplit-midhost" -> {[dp EXCEPT !.midhost = v] : v \in PosOrOff(o.arg[1])}
    [] o.opt = "dpi-desync-hostfakesplit-mod" -> HostfakesplitMod(o, dp)
    [] o.opt = "dpi-desync-fake-tcp-mod" ->
         IF Words(o.arg) \subseteq {"none", "seq"}
           THEN {[dp EXCEPT !.tcp_seq = @ \/ "seq" \in Words(o.arg)]} ELSE {}
    [] OTHER -> {}

FragPos(arg) == {k \in Unsigned(arg) : k \in 1 .. 9216 /\ k % 8 = 0}
FragmentOptions(o, dp) ==
  CASE o.opt = "dpi-desync-ipfrag-pos-tcp" -> {[dp EXCEPT !.ipfrag_pos_tcp = v] : v \in FragPos(o.arg)}
    [] o.opt = "dpi-desync-ipfrag-pos-udp" -> {[dp EXCEPT !.ipfrag_pos_udp = v] : v \in FragPos(o.arg)}
    [] o.opt = "dpi-desync-ts-increment" -> {[dp EXCEPT !.ts = v] : v \in Signed(o.arg)}
    [] o.opt = "dpi-desync-badseq-increment" -> {[dp EXCEPT !.badseq = v] : v \in Signed(o.arg)}
    [] o.opt = "dpi-desync-badack-increment" -> {[dp EXCEPT !.badack = v] : v \in Signed(o.arg)}
    [] o.opt = "dpi-desync-any-protocol" -> {[dp EXCEPT !.any_proto = Switch(o.arg)]}
    [] OTHER -> {}

(* A mod list replaces the mods that were set and keeps the name; the last    *)
(* "sni" names it. Its number stands for the name.                            *)
SavedMods == {"SET", "CUSTOM_FAKE"}
TlsMods == {"rnd", "rndsni", "sni", "padencap", "dupsid"}
parse_tlsmod_list(arg, old) ==
  LET names == {i \in DOMAIN arg : arg[i].w = "sni"}
  IN  IF Words(arg) \subseteq TlsMods \cup {"none"} /\ \A i \in names : arg[i].n # <<>>
        THEN {[mod |-> (old.mod \cap SavedMods) \cup {"SET"} \cup (Words(arg) \ {"none"}),
               sni |-> IF names = {} THEN old.sni ELSE arg[Max(names)].n[1]]}
        ELSE {}

(* The mods of a fake are those given last before it, or after it and before  *)
(* the next one.                                                              *)
DefaultHello == [file |-> "!", size |-> 680, offset |-> 0]
TlsFake(i) ==
  IF i.w = "!"
    THEN {[DefaultHello EXCEPT !.offset = k] : k \in {IF i.n = <<>> THEN 0 ELSE i.n[1]} \cap 0 .. 679}
    ELSE Payload(i, FAKE_MAX_TCP)
FakeTls(o, dp) ==
  {[dp EXCEPT !.fake_tls =
      Append(@, [blob |-> b, mod |-> dp.tls_mod_last.mod \cup {"CUSTOM_FAKE"}, sni |-> dp.tls_mod_last.sni])] :
     b \in TlsFake(o.arg[1])}
(* A mutant: a mod list reaches the fakes that follow it alone. *)
ModsForNextFake(o, dp) ==
  {[dp EXCEPT !.tls_mod_last = m] : m \in parse_tlsmod_list(o.arg, dp.tls_mod_last)}

FakeTlsMod(o, dp) ==
  {[dp EXCEPT !.tls_mod_last = m,
              !.fake_tls = IF @ = <<>> THEN @
                           ELSE [@ EXCEPT ![Len(@)].mod = m.mod, ![Len(@)].sni = m.sni]] :
     m \in parse_tlsmod_list(o.arg, dp.tls_mod_last)}

FakeOptions(o, dp) ==
  CASE o.opt = "dpi-desync-fake-http" -> {[dp EXCEPT !.fake_http = v] : v \in Fake(dp.fake_http, o.arg, FAKE_MAX_TCP)}
    [] o.opt = "dpi-desync-fake-tls" -> FakeTls(o, dp)
    [] o.opt = "dpi-desync-fake-tls-mod" -> FakeTlsMod(o, dp)
    [] o.opt = "dpi-desync-fake-unknown" -> {[dp EXCEPT !.fake_unknown = v] : v \in Fake(dp.fake_unknown, o.arg, FAKE_MAX_TCP)}
    [] o.opt = "dpi-desync-fake-syndata" -> {[dp EXCEPT !.syndata = v] : v \in Pattern(o.arg[1], FAKE_MAX_TCP)}
    [] o.opt = "dpi-desync-fake-quic" -> {[dp EXCEPT !.fake_quic = v] : v \in Fake(dp.fake_quic, o.arg, FAKE_MAX_UDP)}
    [] o.opt = "dpi-desync-fake-wireguard" -> {[dp EXCEPT !.fake_wg = v] : v \in Fake(dp.fake_wg, o.arg, FAKE_MAX_UDP)}
    [] o.opt = "dpi-desync-fake-dht" -> {[dp EXCEPT !.fake_dht = v] : v \in Fake(dp.fake_dht, o.arg, FAKE_MAX_UDP)}
    [] o.opt = "dpi-desync-fake-discord" -> {[dp EXCEPT !.fake_discord = v] : v \in Fake(dp.fake_discord, o.arg, FAKE_MAX_UDP)}
    [] o.opt = "dpi-desync-fake-stun" -> {[dp EXCEPT !.fake_stun = v] : v \in Fake(dp.fake_stun, o.arg, FAKE_MAX_UDP)}
    [] o.opt = "dpi-desync-fake-unknown-udp" ->
         {[dp EXCEPT !.fake_unknown_udp = v] : v \in Fake(dp.fake_unknown_udp, o.arg, FAKE_MAX_UDP)}
    [] OTHER -> {}

LimitOptions(o, dp) ==
  CASE o.opt = "dpi-desync-udplen-increment" ->
         {[dp EXCEPT !.udplen_increment = v] : v \in {k \in Signed(o.arg) : k \in int16}}
    [] o.opt = "dpi-desync-udplen-pattern" ->
         {[dp EXCEPT !.udplen_pattern = v] : v \in Pattern(o.arg[1], FAKE_MAX_UDP)}
    [] o.opt = "dpi-desync-cutoff" -> {[dp EXCEPT !.cutoff = v] : v \in parse_cutoff(o.arg)}
    [] o.opt = "dpi-desync-start" -> {[dp EXCEPT !.start = v] : v \in parse_cutoff(o.arg)}
    [] OTHER -> {}

AutoOptions(o, dp) ==
  CASE o.opt = "hostlist-auto-fail-threshold" ->
         {[dp EXCEPT !.auto_fail_threshold = v] : v \in {Atoi(o.arg)} \cap 1 .. 20}
    [] o.opt = "hostlist-auto-fail-time" ->
         {[dp EXCEPT !.auto_fail_time = v] : v \in {k \in {Atoi(o.arg)} : k >= 1}}
    [] o.opt = "hostlist-auto-retrans-threshold" ->
         {[dp EXCEPT !.auto_retrans_threshold = v] : v \in {Atoi(o.arg)} \cap 2 .. 10}
    [] OTHER -> {}

(* A port filter of one protocol alone refuses the other. *)
FilterOptions(o, dp) ==
  CASE o.opt = "filter-l3" ->
         IF Words(o.arg) \subseteq {"ipv4", "ipv6"}
           THEN {[dp EXCEPT !.filter_l3 = {IF w = "ipv4" THEN 4 ELSE 6 : w \in Words(o.arg)}]} ELSE {}
    [] o.opt = "filter-tcp" ->
         {[dp EXCEPT !.pf_tcp = v, !.pf_udp = deny_if_empty(@)] : v \in parse_pf_list(o.arg, dp.pf_tcp)}
    [] o.opt = "filter-udp" ->
         {[dp EXCEPT !.pf_udp = v, !.pf_tcp = deny_if_empty(@)] : v \in parse_pf_list(o.arg, dp.pf_udp)}
    [] o.opt = "filter-l7" ->
         IF Words(o.arg) \subseteq {"http", "tls", "quic", "wireguard", "dht", "discord", "stun", "unknown"}
           THEN {[dp EXCEPT !.filter_l7 = Words(o.arg)]} ELSE {}
    [] OTHER -> {}

(* The profiles that an option of a profile can make of one *)
Assigned(o, dp) ==
  UNION {WindowOptions(o, dp), HttpOptions(o, dp), DupOptions(o, dp), OrigOptions(o, dp),
         DesyncOptions(o, dp), SplitOptions(o, dp), SplitMods(o, dp), FragmentOptions(o, dp),
         FakeOptions(o, dp), LimitOptions(o, dp), AutoOptions(o, dp), FilterOptions(o, dp)}


--------------------------------------------------------------------------------
(* What is done to every profile when the line is read. *)

(* The overlap is a number of bytes where parts of the request carry it. *)
split_compat(dp) ==
  \/ dp.seqovl.marker = "abs" /\ dp.seqovl.pos >= 0
  \/ {dp.mode, dp.mode2} \cap {"fakedsplit", "multisplit"} = {}

(* A built-in payload stands where none is given. *)
Zeros(size) == <<[file |-> "zeros", size |-> size, offset |-> 0]>>
Or(fakes, default) == IF fakes = <<>> THEN default ELSE fakes
dp_fake_defaults(dp) ==
  [dp EXCEPT !.fake_http = Or(@, <<[file |-> "iana", size |-> 203, offset |-> 0]>>),
             !.fake_tls = Or(@, <<[blob |-> DefaultHello, mod |-> dp.tls_mod_last.mod, sni |-> dp.tls_mod_last.sni]>>),
             !.fake_unknown = Or(@, Zeros(256)), !.fake_quic = Or(@, Zeros(620)),
             !.fake_wg = Or(@, Zeros(64)), !.fake_dht = Or(@, Zeros(64)), !.fake_discord = Or(@, Zeros(64)),
             !.fake_stun = Or(@, Zeros(64)), !.fake_unknown_udp = Or(@, Zeros(64))]

(* The built-in ClientHello of a profile of the user is randomised unless the *)
(* user says how, and a fake that is modified has to be a ClientHello.        *)
Randomised(dp, fake) ==
  IF dp.n # 0 /\ fake.mod \cap SavedMods = {}
    THEN [fake EXCEPT !.mod = @ \cup {"rnd", "rndsni", "dupsid"}] ELSE fake
CompatMods(dp) == [dp EXCEPT !.fake_tls = [i \in DOMAIN @ |-> Randomised(dp, @[i])]]
onetime_tls_mod(dp) ==
  \A i \in DOMAIN dp.fake_tls :
     dp.fake_tls[i].mod \subseteq SavedMods \/ dp.fake_tls[i].blob.file \in Hello \cup {"!"}

(* What is not said of IPv6 is as for IPv4. *)
TtlDefaults(dp) ==
  [dp EXCEPT !.ttl6 = IF @ = 255 THEN dp.ttl ELSE @,
             !.dup_ttl6 = IF @ = 255 THEN dp.dup_ttl ELSE @,
             !.orig_ttl6 = IF @ = 255 THEN dp.orig_ttl ELSE @,
             !.autottl6 = IF AUTOTTL_ENABLED(@) THEN @ ELSE dp.autottl,
             !.orig_autottl6 = IF AUTOTTL_ENABLED(@) THEN @ ELSE dp.orig_autottl,
             !.dup_autottl6 = IF AUTOTTL_ENABLED(@) THEN @ ELSE dp.dup_autottl]

Finished(dp) ==
  CompatMods(dp_fake_defaults(
    [TtlDefaults(dp) EXCEPT
       !.fsplit_pattern = IF @.size = 0 THEN [file |-> "zeros", size |-> 64] ELSE @,
       !.splits = IF @ = <<>> THEN <<Abs(2)>> ELSE @]))

================================================================================
