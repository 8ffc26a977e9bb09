---------------------------- MODULE MCSegmentation ----------------------------
(* Profiles of the shipped strategies, and the modes they do not use, on     *)
(* requests of one and two packets.                                          *)
EXTENDS Segmentation

Abs(n) == [marker |-> "abs", pos |-> n]
At(m, n) == [marker |-> m, pos |-> n]

Plain ==
  [mode0 |-> "none", mode |-> "none", mode2 |-> "none", splits |-> <<>>, seqovl |-> Abs(0),
   fakes |-> <<>>, fooling |-> {"badseq"}, tcpseq |-> FALSE, ipid |-> "seq",
   midhost |-> Abs(0), order |-> 0, order0 |-> 0, hostorder |-> 0, fragpos |-> 0,
   dups |-> 0, replace |-> FALSE]

MCProfile ==
  {[Plain EXCEPT !.mode = "multisplit", !.splits = <<Abs(1), At("midsld", 0)>>, !.seqovl = Abs(2)],
   [Plain EXCEPT !.mode0 = "syndata", !.mode = "multidisorder",
                 !.splits = <<Abs(2), At("sniext", 1)>>, !.seqovl = Abs(1)],
   [Plain EXCEPT !.mode = "multisplit", !.splits = <<At("method", 2)>>, !.seqovl = Abs(9)],
   [Plain EXCEPT !.mode = "fakeknown", !.mode2 = "multisplit", !.fakes = <<1, 2>>, !.tcpseq = TRUE,
                 !.splits = <<At("host", 0), Abs(-1)>>],
   [Plain EXCEPT !.mode = "fake", !.mode2 = "fakedsplit", !.fakes = <<2>>, !.splits = <<Abs(1)>>,
                 !.fooling = {"ts"}, !.seqovl = Abs(3), !.ipid = "seqgroup"],
   [Plain EXCEPT !.mode = "fakeddisorder", !.splits = <<At("midsld", 0)>>, !.order = 1,
                 !.seqovl = Abs(1)],
   [Plain EXCEPT !.mode = "hostfakesplit", !.midhost = At("midsld", 0), !.hostorder = 1],
   [Plain EXCEPT !.mode = "rst", !.mode2 = "hostfakesplit", !.ipid = "seqgroup", !.mode0 = "synack"],
   [Plain EXCEPT !.mode = "ipfrag2"],
   [Plain EXCEPT !.mode = "hopbyhop", !.mode2 = "multidisorder", !.splits = <<At("endhost", 0)>>],
   [Plain EXCEPT !.mode = "fake", !.fakes = <<1>>, !.dups = 1, !.ipid = "zero", !.replace = TRUE],
   [Plain EXCEPT !.mode = "fake", !.fakes = <<1>>, !.ipid = "same"]}

(* host, its end, the middle of its second level, the SNI extension or the method *)
Names(h, e, m, x) ==
  [k \in Marker |-> CASE k = "host" -> h [] k = "endhost" -> e [] k = "midsld" -> m
                      [] k \in {"sniext", "method"} -> x [] OTHER -> -1]
Hello ==
  [l7 |-> "tls", lens |-> <<4, 3>>, ids |-> <<5, 9>>, random |-> <<4, 11>>, at |-> Names(5, 6, 2, 1),
   ip6 |-> FALSE, timestamps |-> TRUE, ctid |-> 0, seq |-> 30]
MCRequest ==
  {Hello,
   [Hello EXCEPT !.l7 = "http", !.lens = <<5>>, !.ids = <<7>>, !.random = <<1>>,
                 !.at = Names(1, 4, 2, 0), !.timestamps = FALSE],
   [Hello EXCEPT !.lens = <<3, 2, 3>>, !.ids = <<3, 0, 13>>, !.random = <<2, 8, 15>>, !.ctid = 6,
                 !.at = Names(4, 7, 6, 5)],
   [Hello EXCEPT !.lens = <<4>>, !.ids = <<0>>, !.random = <<9>>,
                 !.at = Names(1, 3, 2, -1), !.ip6 = TRUE],
   [Hello EXCEPT !.l7 = "unknown", !.lens = <<4>>, !.ids = <<15>>, !.random = <<3>>],
   [Hello EXCEPT !.ids = <<0, 0>>]}

(* Every profile has a replay whose ids have room, so that                   *)
(* the hypothesis of IdsAreDistinct is met in each mode.                     *)
ASSUME RoomAssumption ==
  \A d \in MCProfile : \E r \in MCRequest : ~ r.ip6 /\ Len(r.lens) > 1 /\ IdsFit(d, r)
==============================================================================
