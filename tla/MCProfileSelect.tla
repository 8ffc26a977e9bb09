--------------------------- MODULE MCProfileSelect ---------------------------
(***************************************************************************)
(* A small instance of ProfileSelect: a profile for TLS with a list of     *)
(* domains and one of exclusions, a profile with an automatic list, the    *)
(* same exclusions and an ipset, and the default one.  The host "a.d" lies *)
(* in the domain "d".                                                      *)
(***************************************************************************)
EXTENDS ProfileSelect

MCFiles == <<"general", "exclude", "auto", "ipset">>
MCName == {"d", "a.d", "b", "net", "ip", "@"}
MCAbove == [n \in MCName |-> CASE n = "a.d" -> {"d"} [] n = "ip" -> {"net"} [] OTHER -> {}]
Plain(n) == [name |-> n, strict |-> FALSE]
Strict(n) == [name |-> n, strict |-> TRUE]

MCContent ==
  [f \in {MCFiles[i] : i \in 1..4} |->
     CASE f = "general" -> {{Plain("d")}, {}}
       [] f = "exclude" -> {{Strict("d"), Plain("b")}, {Plain("a.d")}}
       [] f = "auto" -> {{}}
       [] f = "ipset" -> {{Plain("net")}}]

Base == [filter_l7 |-> {}, auto |-> FALSE, hostlist_auto |-> "auto", hl |-> <<>>, hlx |-> <<>>,
         ips |-> <<>>, ipsx |-> <<>>, skip_nosni |-> TRUE, any_proto |-> FALSE, desync |-> FALSE]

MCProfile ==
  << [Base EXCEPT !.filter_l7 = {"tls"}, !.hl = <<"general">>, !.hlx = <<"exclude">>,
                  !.desync = TRUE],
     [Base EXCEPT !.auto = TRUE, !.hl = <<"auto">>, !.hlx = <<"exclude">>,
                  !.ips = <<"ipset">>, !.desync = TRUE],
     Base >>

\* What AddedIsNew rests on.
ASSUME AutoListsAreOurs
==============================================================================
