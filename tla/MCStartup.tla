------------------------------- MODULE MCStartup -------------------------------
(* Every option alone, with arguments it takes and arguments it refuses, and    *)
(* sequences of those whose order matters.                                      *)
EXTENDS Startup

I(w, n) == [w |-> w, n |-> n]
N(n) == <<I("", <<n>>)>>
W(w) == <<I(w, <<>>)>>
O(opt, arg) == [opt |-> opt, arg |-> arg]
With(opts, args) == {O(x, a) : x \in opts, a \in args}

Autottls ==
  {<<>>, W("-"), <<I("+", <<1, 3, 20>>)>>, <<I("", <<2>>)>>, <<I("-", <<1, 0>>)>>, <<I("", <<128>>)>>,
   <<I("", <<0, 0, 0>>)>>, <<I("", <<1, 9, 8>>)>>, <<I("", <<1, 3, 256>>)>>, W("x")}
TcpFlags == {N(4095), N(4096), <<I("SYN", <<>>), I("ACK", <<>>)>>, W("AECN"), W("XYZ")}
Foolings == {<<I("md5sig", <<>>), I("badseq", <<>>)>>, W("none"), W("bad")}
Cutoffs == {N(3), <<I("d", <<2>>)>>, <<I("s", <<100>>)>>, <<I("x", <<2>>)>>, W("n")}
Bytes == {N(5), N(256), N(-1), W("x")}
Numbers == {N(0), N(1), N(1024), N(1025), N(-1), W("x")}
Positions ==
  {N(2), N(-3), N(0), N(40000), W("midsld"), <<I("host", <<1>>)>>, W("nowhere"),
   <<I("sniext", <<40000>>)>>}
Payloads ==
  {<<I("0x", <<4>>)>>, <<I("0x", <<0>>)>>, W("hello"), <<I("bin", <<2>>)>>, <<I("bin", <<4>>)>>,
   W("empty"), W("missing"), <<I("0x", <<2000>>)>>}
Orderings ==
  {<<I("altorder", <<1>>)>>, <<I("altorder", <<18>>)>>, <<I("altorder", <<24>>)>>,
   <<I("altorder", <<4>>)>>, W("none"), W("altorder")}
SniMods ==
  {<<I("rnd", <<>>), I("sni", <<1>>)>>, <<I("sni", <<1>>), I("sni", <<2>>)>>, W("sni"), W("none"), W("zzz")}
Ports ==
  {N(80), <<I("", <<80, 443>>)>>, <<I("~", <<80>>), I("", <<79>>)>>, <<I("", <<9, 8>>)>>, N(65536), N(0),
   <<I("~", <<0>>)>>}
Modes0 ==
  {W("fake"), W("split2"), W("ipfrag2"), W("bogus"), <<I("fake", <<>>), I("multisplit", <<>>)>>,
   <<I("syndata", <<>>), I("fake", <<>>), I("disorder", <<>>)>>,
   <<I("fake", <<>>), I("split", <<>>), I("ipfrag2", <<>>)>>,
   <<I("multisplit", <<>>), I("ipfrag2", <<>>)>>, <<I("fake", <<>>), I("rst", <<>>)>>,
   <<I("synack", <<>>), I("synack", <<>>)>>, <<I("syndata", <<>>), I("fake", <<>>), I("udplen", <<>>), I("fake", <<>>)>>}

Singles ==
  UNION {
    With({"dup-autottl", "dup-autottl6", "orig-autottl", "orig-autottl6", "dpi-desync-autottl",
          "dpi-desync-autottl6"}, Autottls),
    With({"dup-tcp-flags-set", "dup-tcp-flags-unset", "orig-tcp-flags-set", "orig-tcp-flags-unset",
          "dpi-desync-tcp-flags-set", "dpi-desync-tcp-flags-unset"}, TcpFlags),
    With({"dup-fooling", "dpi-desync-fooling"}, Foolings),
    With({"wssize-cutoff", "dup-cutoff", "dup-start", "orig-mod-cutoff", "orig-mod-start",
          "dpi-desync-cutoff", "dpi-desync-start"}, Cutoffs),
    With({"dup-ttl", "dup-ttl6", "orig-ttl", "orig-ttl6", "dpi-desync-ttl", "dpi-desync-ttl6"}, Bytes),
    With({"dup", "dpi-desync-repeats", "wssize-forced-cutoff", "hostlist-auto-fail-threshold",
          "hostlist-auto-fail-time", "hostlist-auto-retrans-threshold", "dup-ts-increment",
          "dup-badseq-increment", "dup-badack-increment", "dpi-desync-ts-increment",
          "dpi-desync-badseq-increment", "dpi-desync-badack-increment"}, Numbers),
    With({"dpi-desync-split-seqovl", "dpi-desync-hostfakesplit-midhost", "dpi-desync-split-pos"}, Positions),
    With({"dpi-desync-split-seqovl-pattern", "dpi-desync-fakedsplit-pattern", "dpi-desync-fake-http",
          "dpi-desync-fake-tls", "dpi-desync-fake-unknown", "dpi-desync-fake-syndata",
          "dpi-desync-fake-quic", "dpi-desync-fake-wireguard", "dpi-desync-fake-dht",
          "dpi-desync-fake-discord", "dpi-desync-fake-stun", "dpi-desync-fake-unknown-udp",
          "dpi-desync-udplen-pattern"}, Payloads),
    With({"dpi-desync-fakedsplit-mod", "dpi-desync-hostfakesplit-mod"}, Orderings),
    {O("dpi-desync-hostfakesplit-mod", <<I("host", <<1>>), I("altorder", <<0>>)>>),
     O("dpi-desync-hostfakesplit-mod", W("host"))},
    With({"dpi-desync-fake-tls-mod"}, SniMods),
    With({"dpi-desync-fake-tls"}, {W("!"), <<I("!", <<679>>)>>, <<I("!", <<680>>)>>}),
    With({"filter-tcp", "filter-udp"}, Ports),
    With({"dpi-desync"}, Modes0),
    With({"wsize", "wssize"}, {N(1), <<I("", <<64, 6>>)>>, N(65536), <<I("", <<1, 256>>)>>}),
    With({"synack-split"}, {<<>>, W("synack"), W("acksyn"), W("x")}),
    With({"hostspell"}, {<<I("hoSt", <<4>>)>>, <<I("hosts", <<5>>)>>}),
    With({"ip-id", "dup-ip-id"}, {W("zero"), W("seqgroup"), W("same"), W("x")}),
    With({"dup-replace", "dpi-desync-skip-nosni", "dpi-desync-any-protocol", "ctrack-disable",
          "ipcache-hostname"}, {<<>>, N(0), N(1)}),
    With({"dpi-desync-split-http-req", "dpi-desync-split-tls"}, {W("host"), W("method"), W("sni"), W("snisld"), W("x")}),
    With({"dpi-desync-ipfrag-pos-tcp", "dpi-desync-ipfrag-pos-udp"}, {N(0), N(8), N(9), N(9216), N(9224)}),
    With({"dpi-desync-fake-tcp-mod"}, {W("seq"), W("none"), W("x")}),
    With({"dpi-desync-udplen-increment"}, {N(-32768), N(32768), N(5)}),
    With({"filter-l3"}, {W("ipv4"), <<I("ipv4", <<>>), I("ipv6", <<>>)>>, W("ipv5")}),
    With({"filter-l7"}, {<<I("tls", <<>>), I("quic", <<>>)>>, W("ssh")}),
    With({"hostcase", "domcase", "methodeol", "hostnospace", "version", "daemon", "comment"}, {<<>>}),
    With({"debug"}, {<<>>, N(0), N(2), W("syslog"), W("log"), W("nolog")}),
    With({"port"}, {N(989), N(0), N(65536), W("x")}),
    With({"user"}, {W("daemon"), W("nobody2")}),
    With({"uid"}, {N(0), <<I("", <<5, 7>>), I("", <<8>>)>>, W("x"), <<I("", <<5, 7>>)>> \o [x \in 1 .. 64 |-> I("", <<1>>)]}),
    With({"ctrack-timeouts"}, {<<I("", <<1, 2, 3>>)>>, <<I("", <<1, 2, 3, 4>>)>>, <<I("", <<1, 2>>)>>}),
    With({"ipcache-lifetime"}, {N(5), W("x")}),
    With({"hostlist-auto-debug"}, {W("log"), W("nolog")}),
    With({"hostcase", "dup", "bogus"}, {W("x"), <<>>})}

Use(d) == O(d, <<>>)
Seqs(S, n) == UNION {[1 .. m -> S] : m \in 0 .. n}
Sections0 == {Use("new"), Use("skip")}
Lists0 ==
  {O("hostlist", W("a")), O("hostlist-auto", W("n")), O("hostlist-domains", W("h")),
   O("ipset-exclude-ip", <<I("net", <<>>), I("junk", <<>>)>>)}
Lists1 ==
  {O("hostlist-exclude", W("a")), O("hostlist-exclude-domains", <<I("h", <<>>), I("g", <<>>)>>),
   O("ipset", W("c")), O("ipset-exclude", W("c")), O("ipset-ip", W("net")), O("hostlist-domains", W(""))}
Fakes0 ==
  {O("dpi-desync-fake-tls", W("hello")), O("dpi-desync-fake-tls", W("!")),
   O("dpi-desync-fake-tls-mod", <<I("rnd", <<>>), I("sni", <<1>>)>>),
   O("dpi-desync-fake-tls-mod", W("padencap"))}
Filters0 ==
  {O("filter-tcp", N(80)), O("filter-tcp", <<I("~", <<80>>), I("", <<80, 443>>)>>), O("filter-udp", N(443)),
   O("filter-udp", <<I("~", <<79, 80>>)>>), O("filter-tcp", W("*")), O("filter-l7", W("tls"))}
Splits0 ==
  {O("dpi-desync-split-pos", <<I("", <<2>>), I("midsld", <<>>)>>), O("dpi-desync-split-pos", N(-3)),
   O("dpi-desync-split-http-req", W("method")), O("dpi-desync-split-tls", W("sniext")),
   O("dpi-desync-split-seqovl", N(-3)), O("dpi-desync", W("multisplit")), O("dpi-desync", W("multidisorder"))}
Ttls0 ==
  {O("dpi-desync-autottl", <<>>), O("dpi-desync-autottl6", W("-")), O("dpi-desync-autottl6", <<I("+", <<1>>)>>),
   O("dpi-desync-ttl", N(5)), O("hostnospace", <<>>), O("methodeol", <<>>),
   O("dpi-desync-fooling", W("ts"))}

(* Lists that are not there, that only root reads, that are compressed; users, *)
(* pid files, and command lines in files *)
Auto(f) == O("hostlist-auto", W(f))
Runs ==
  {<<Use("daemon"), O("pidfile", W("pid")), O("hostlist", W("a")), O("ipset-exclude", W("c"))>>,
   <<O("uid", N(0)), Auto("n")>>, <<Use("dry-run"), O("hostlist", W("a"))>>,
   <<Use("dry-run"), O("user", W("daemon"))>>, <<O("pidfile", W("pid")), O("hostlist-exclude", W("r"))>>,
   <<O("hostlist", W("m"))>>, <<O("ipset", W("m"))>>, <<O("ipset", W("r"))>>, <<Auto("r")>>, <<Auto("z")>>,
   <<Auto("m")>>, <<Auto("a"), Auto("n")>>, <<Auto("n"), Use("new"), Auto("n")>>,
   <<O("hostlist", W("r")), Use("skip"), Use("new"), Auto("r")>>,
   <<Use("dry-run"), Use("bogus")>>, <<Use("dry-run"), O("ipset", W("r")), O("pidfile", W("pid"))>>,
   <<O("uid", N(0)), O("hostlist", W("r")), Use("daemon"), O("pidfile", W("pid"))>>,
   <<O("dpi-desync-fake-tls", W("bin")), O("dpi-desync-fake-tls-mod", W("none"))>>,
   <<O("dpi-desync-fake-tls", W("bin")), O("dpi-desync-fake-tls-mod", W("rnd"))>>,
   <<O("@", W("conf"))>>, <<O("@", W("noconf"))>>}

MCLines ==
  {<<x>> : x \in Singles} \cup Runs
    \cup Seqs(Sections0 \cup Lists0, 4) \cup Seqs(Sections0 \cup Lists1, 3)
    \cup Seqs({Use("new")} \cup Fakes0, 4) \cup Seqs(Sections0 \cup Filters0, 3)
    \cup Seqs({Use("new")} \cup Splits0, 3) \cup Seqs(Sections0 \cup Ttls0, 3)
MCSize == [hello |-> 517, bin |-> 4, empty |-> 0]
MCConfig == [conf |-> <<O("hostlist", W("a")), Use("new"), Use("daemon")>>, noconf |-> <<>>]
MCDisks ==
  {[f \in {"a", "c", "n", "z", "m", "r"} |->
      CASE f \in {"n", "m"} -> {} [] f = "r" -> {"root"} [] OTHER -> {"root", "user"}]}
MCPasswd == [daemon |-> 1]
================================================================================
