---------------------------- MODULE ProfileSelect ----------------------------
(***************************************************************************)
(* Which desync profile a TCP connection gets, and whether a request on it *)
(* is tampered with: dp_find and dp_match, their callers in                *)
(* dpi_desync_tcp_packet_play and the automatic host list (nfq/desync.c),  *)
(* the list files (nfq/hostlist.c, nfq/ipset.c) with their reload on a     *)
(* changed signature and on SIGHUP (nfq/nfqws.c).                          *)
(*                                                                         *)
(* The engine is one thread: it takes a packet, and a packet's work is the *)
(* chain of steps from "recv" back to "recv".  List files belong to others *)
(* and may change between any two of its system calls, which is why        *)
(* LoadHostList is two steps, its stat() and its reading of the file.      *)
(*                                                                         *)
(* A list is a set of entries; a name covers itself and, unless its entry  *)
(* is strict ("^"), what is below it.  A subnet covers addresses the same  *)
(* way, so host lists and ipsets share the operators.                      *)
(***************************************************************************)
EXTENDS Integers, Sequences

CONSTANTS
  Files,            \* params.hostlists and then params.ipsets, as a sequence
  Name,             \* host names, domains, subnets
  Host,             \* names a request can carry
  HostIsIp,         \* those of them that strip_host_to_ip finds to be addresses
  Above,            \* Above[n]: the domains, or subnets, n is in
  Dest,             \* the destination address of the connections
  Impossible,       \* the name NonEmptyHostlist adds to an empty automatic list
  Profile,          \* params.desync_profiles, as a sequence
  Content,          \* Content[f]: the lists that others may write to f
  Editable,         \* the files that others change while the engine runs
  Conn,             \* connections
  RetransThreshold, \* dp->hostlist_auto_retrans_threshold
  FailThreshold,    \* dp->hostlist_auto_fail_threshold
  MaxSig,           \* bound of the signatures a file can have
  MaxEdits          \* bound of the changes made to files by others

File == {Files[i] : i \in DOMAIN Files}
L7 == {"unknown", "http", "tls"}
NoHost == "none"
NoProfile == 0
NoSig == 0
RETRANS_COUNTER_STOP == -1

Entry == [name : Name, strict : BOOLEAN]
List == SUBSET Entry

ASSUME NameAssumption ==
  /\ Host \subseteq Name /\ HostIsIp \subseteq Host /\ NoHost \notin Name
  /\ Dest \in Name /\ Impossible \in Name
  /\ Above \in [Name -> SUBSET Name]

\* filter_l7 empty stands for no such filter, auto for a list in hostlist_auto.
DesyncProfile ==
  [filter_l7 : SUBSET L7, auto : BOOLEAN, hostlist_auto : File,
   hl : Seq(File), hlx : Seq(File), ips : Seq(File), ipsx : Seq(File),
   skip_nosni : BOOLEAN, any_proto : BOOLEAN, desync : BOOLEAN]

\* The last profile is the default empty one.
ASSUME ProfileAssumption ==
  /\ Files \in Seq(File)
  /\ Profile \in Seq(DesyncProfile)
  /\ Len(Profile) > 0
  /\ LET last == Profile[Len(Profile)]
     IN  /\ last.filter_l7 = {} /\ ~last.auto
         /\ last.hl = <<>> /\ last.hlx = <<>> /\ last.ips = <<>> /\ last.ipsx = <<>>

ASSUME BoundAssumption ==
  /\ Conn # {}
  /\ Content \in [File -> SUBSET List]
  /\ Editable \subseteq File
  /\ RetransThreshold \in Nat \ {0, 1} /\ FailThreshold \in Nat \ {0}
  /\ MaxSig \in Nat \ {0} /\ MaxEdits \in Nat

VARIABLES
  disk,      \* the files: [there, readable, sig, list], sig is mtime and size
  edits,     \* changes made by others so far
  hfile,     \* the lists in memory: struct hostlist_file and ipset_file
  bReload,   \* set by the SIGHUP handler
  conn,      \* the conntrack entries
  fails,     \* hostlist_auto_fail_counters, by profile and host
  pc,        \* where the engine is
  back,      \* where it goes on after the reload check of a profile
  pkt,       \* the packet it works on
  dp,        \* the profile in hand, its place in Profile
  goal,      \* why profiles are searched: "first", "discovered", or "none"
  todo,      \* files of the reload check that are still to be looked at
  fsig,      \* LoadHostList's fsig while it reads the file, else NoSig
  ok,        \* no load of this reload check has failed
  chk,       \* bCheckDone, bCheckResult, bCheckExcluded
  dirty,     \* files changed by others since the packet was taken
  out        \* what became of the last packet

env == <<disk, edits, dirty>>
load == <<todo, fsig, ok, back>>
vars == <<disk, edits, hfile, bReload, conn, fails, pc, back, pkt, dp, goal, todo, fsig,
          ok, chk, dirty, out>>

NoConn == [dp |-> NoProfile, dp_search_complete |-> FALSE, hostname |-> NoHost,
           hostname_discovered |-> FALSE, l7proto |-> "unknown", l7proto_discovered |-> FALSE,
           hostname_ah_check |-> FALSE, req_retrans_counter |-> 0, held |-> FALSE,
           chk |-> [done |-> FALSE, result |-> FALSE, excluded |-> FALSE]]
NoCheck == NoConn.chk
NoFails == [p \in DOMAIN Profile |-> [h \in Host |-> 0]]
NoOut == [kind |-> "none", host |-> NoHost, dp |-> NoProfile, fresh |-> FALSE]

AutoFile == {Profile[i].hostlist_auto : i \in {j \in DOMAIN Profile : Profile[j].auto}}
c == pkt.conn
hostname == conn[c].hostname

-----------------------------------------------------------------------------
(* Searching the lists *)

SearchHostList(list, n, no_match_subdomains) ==
  \E e \in list : \/ e.name = n
                  \/ ~no_match_subdomains /\ ~e.strict /\ e.name \in Above[n]

SearchAny(files, n, nosub) ==
  \E i \in DOMAIN files : SearchHostList(hfile[files[i]].list, n, nosub)

CollectionIsEmpty(files) == \A i \in DOMAIN files : hfile[files[i]].list = {}

Excluded(p, n) == SearchAny(Profile[p].hlx, n, n \in HostIsIp)

\* HostlistCheck_ after its reload check: empty include lists let every host pass.
HostlistCheck(p, n) ==
  /\ ~Excluded(p, n)
  /\ CollectionIsEmpty(Profile[p].hl) \/ SearchAny(Profile[p].hl, n, n \in HostIsIp)

IpsetCheck(p) ==
  /\ ~SearchAny(Profile[p].ipsx, Dest, FALSE)
  /\ CollectionIsEmpty(Profile[p].ips) \/ SearchAny(Profile[p].ips, Dest, FALSE)

HostlistsEmpty(p) == CollectionIsEmpty(Profile[p].hl) /\ CollectionIsEmpty(Profile[p].hlx)

\* MakeAutolistsNonEmpty over the lists m.
NonEmptyHostlist(l) == IF l = {} THEN {[name |-> Impossible, strict |-> FALSE]} ELSE l
FillAutolists(m) ==
  [f \in File |-> IF f \in AutoFile THEN [m[f] EXCEPT !.list = NonEmptyHostlist(@)] ELSE m[f]]
MakeAutolistsNonEmpty == FillAutolists(hfile)

-----------------------------------------------------------------------------
(* The list files, in the hands of others *)

NextSig(f) == IF disk[f].sig < MaxSig THEN disk[f].sig + 1 ELSE disk[f].sig

\* A change between two steps of the engine that do not look at the files is the
\* same change a step later.
LooksAtFiles == todo # <<>> \/ pc \in {"recv", "append", "sign"}

Change(f) ==
  /\ LooksAtFiles
  /\ f \in Editable
  /\ dirty' = dirty \union {f}
  /\ UNCHANGED <<hfile, bReload, conn, fails, pc, pkt, dp, goal, load, chk, out>>

Edit(f) == Change(f) /\ edits < MaxEdits /\ edits' = edits + 1

Rewrite(f) ==
  /\ disk[f].sig < MaxSig
  /\ \E l \in Content[f], r \in BOOLEAN :
       disk' = [disk EXCEPT ![f] = [there |-> TRUE, readable |-> r, sig |-> NextSig(f), list |-> l]]
  /\ Edit(f)

Remove(f) == disk[f].there /\ disk' = [disk EXCEPT ![f].there = FALSE] /\ Edit(f)

Repair(f) ==
  /\ ~disk[f].readable
  /\ disk' = [disk EXCEPT ![f].readable = TRUE]
  /\ Change(f) /\ UNCHANGED edits

\* The flag is looked at when a packet comes, and cleared at the end of a reload.
onhup ==
  /\ pc \in {"recv", "reload"} /\ ~bReload
  /\ bReload' = TRUE
  /\ UNCHANGED <<env, hfile, conn, fails, pc, pkt, dp, goal, load, chk, out>>

-----------------------------------------------------------------------------
(* LoadHostList and LoadIpset, for the files of `todo' in turn.  The reload  *)
(* check of a profile stops at the first failure, LoadHostLists goes on.     *)

AfterFailure == IF pc = "reload" THEN Tail(todo) ELSE <<>>

\* The file is up to date, or stat() failed and the content stays as it is.
KeepList ==
  /\ todo # <<>> /\ fsig = NoSig
  /\ ~disk[Head(todo)].there \/ hfile[Head(todo)].sig = disk[Head(todo)].sig
  /\ todo' = Tail(todo)
  /\ UNCHANGED <<env, hfile, bReload, conn, fails, pc, pkt, dp, goal, fsig, ok, back, chk, out>>

StatChanged ==
  /\ todo # <<>> /\ fsig = NoSig
  /\ disk[Head(todo)].there /\ hfile[Head(todo)].sig # disk[Head(todo)].sig
  /\ fsig' = disk[Head(todo)].sig
  /\ hfile' = [hfile EXCEPT ![Head(todo)].list = {}]
  /\ UNCHANGED <<env, bReload, conn, fails, pc, pkt, dp, goal, todo, ok, back, chk, out>>

Readable(f) == disk[f].there /\ disk[f].readable

ReadList ==
  /\ fsig # NoSig /\ Readable(Head(todo))
  /\ hfile' = [hfile EXCEPT ![Head(todo)] = [list |-> disk[Head(todo)].list, sig |-> fsig]]
  /\ todo' = Tail(todo) /\ fsig' = NoSig
  /\ UNCHANGED <<env, bReload, conn, fails, pc, pkt, dp, goal, ok, back, chk, out>>

(* Mutant of ReadFails: the signature is kept although the reading failed. *)
ReadFailsSigned ==
  /\ fsig # NoSig /\ ~Readable(Head(todo))
  /\ hfile' = [hfile EXCEPT ![Head(todo)].sig = fsig]
  /\ todo' = AfterFailure /\ fsig' = NoSig /\ ok' = FALSE
  /\ UNCHANGED <<env, bReload, conn, fails, pc, pkt, dp, goal, back, chk, out>>

ReadFails ==
  /\ fsig # NoSig /\ ~Readable(Head(todo))
  /\ todo' = AfterFailure /\ fsig' = NoSig /\ ok' = FALSE
  /\ UNCHANGED <<env, hfile, bReload, conn, fails, pc, pkt, dp, goal, back, chk, out>>

\* The engine is at the step named l, with no reload check under way.
At(l) == pc = l /\ todo = <<>>

Reload(files, l) == todo' = files /\ ok' = TRUE /\ pc' = l
Goto(l) == pc' = l /\ UNCHANGED <<todo, ok, back>>

\* HostlistsReloadCheckForProfile of profile p, then on to the step named l.
HostlistsReloadCheck(p, l) == back' = l /\ Reload(Profile[p].hl, "hl")

(* Mutant of IncludeReloaded: the lists of exclusions are not looked at. *)
IncludeReloadedOnly ==
  /\ At("hl")
  /\ hfile' = IF ok THEN MakeAutolistsNonEmpty ELSE hfile
  /\ Goto(back)
  /\ UNCHANGED <<env, bReload, conn, fails, pkt, dp, goal, fsig, chk, out>>

IncludeReloaded ==
  /\ At("hl")
  /\ IF ok
     THEN hfile' = MakeAutolistsNonEmpty /\ Reload(Profile[dp].hlx, "hlx") /\ UNCHANGED back
     ELSE UNCHANGED hfile /\ Goto(back)
  /\ UNCHANGED <<env, bReload, conn, fails, pkt, dp, goal, fsig, chk, out>>

ExcludeReloaded ==
  /\ At("hlx")
  /\ hfile' = IF ok THEN MakeAutolistsNonEmpty ELSE hfile
  /\ Goto(back)
  /\ UNCHANGED <<env, bReload, conn, fails, pkt, dp, goal, fsig, chk, out>>

-----------------------------------------------------------------------------
(* A packet arrives *)

Packets ==
  [conn : Conn, kind : {"live", "hold", "replay"}, l7 : L7, host : Host \union {NoHost},
   seq : {"within", "beyond", "untracked"}]

NoPacket == CHOOSE p \in Packets : p.kind = "live" /\ p.l7 = "unknown" /\ p.host = NoHost

\* A packet is held only as part of a ClientHello, whatever host it shows, and
\* replayed when it was; its sequence number matters only while retransmissions
\* are counted.
CanArrive(p) ==
  /\ p.l7 = "unknown" => p.host = NoHost
  /\ p.kind # "live" => p.l7 = "tls"
  /\ p.kind = "hold" => p.host = NoHost
  /\ (p.kind = "replay") => conn[p.conn].held
  /\ p.seq # "untracked" =>
       /\ p.kind # "replay"
       /\ conn[p.conn].hostname_ah_check /\ conn[p.conn].req_retrans_counter >= 0

\* read() returned a packet; ReloadCheck runs before anything looks at it.
Recv ==
  /\ At("recv")
  /\ IF bReload
     THEN /\ hfile' = [f \in File |-> [hfile[f] EXCEPT !.sig = NoSig]]
          /\ Reload(Files, "reload") /\ UNCHANGED back
     ELSE /\ UNCHANGED hfile
          /\ Goto("lookup")
  /\ dirty' = {} /\ out' = NoOut
  /\ UNCHANGED <<disk, edits, bReload, conn, fails, pkt, dp, goal, fsig, chk>>

Idle ==
  /\ pc' = "recv" /\ back' = "recv" /\ todo' = <<>> /\ ok' = TRUE
  /\ pkt' = NoPacket /\ dp' = NoProfile /\ goal' = "none" /\ chk' = NoCheck

OnDisk == [f \in File |-> [list |-> disk[f].list, sig |-> disk[f].sig]]

Reloaded ==
  /\ At("reload")
  /\ IF ok
     THEN hfile' = MakeAutolistsNonEmpty /\ bReload' = FALSE /\ Goto("lookup")
     ELSE UNCHANGED <<hfile, bReload>> /\ Goto("exited")
  /\ UNCHANGED <<env, conn, fails, pkt, dp, goal, fsig, chk, out>>

\* launchd starts run.sh again, which puts the lists in place for the engine.
Restart ==
  /\ At("exited")
  /\ disk' = [f \in File |-> [disk[f] EXCEPT !.there = TRUE, !.readable = TRUE]]
  /\ hfile' = FillAutolists(OnDisk)
  /\ bReload' = FALSE
  /\ conn' = [x \in Conn |-> NoConn] /\ fails' = NoFails
  /\ out' = NoOut /\ dirty' = {}
  /\ Idle
  /\ UNCHANGED <<edits, fsig>>

\* ConntrackPoolPurge and HostFailPoolPurge.
Purge ==
  /\ At("recv")
  /\ \/ \E x \in Conn : conn' = [conn EXCEPT ![x] = NoConn] /\ UNCHANGED fails
     \/ \E p \in DOMAIN Profile, h \in Host :
          fails' = [fails EXCEPT ![p][h] = 0] /\ UNCHANGED conn
  /\ out' = NoOut
  /\ UNCHANGED <<env, hfile, bReload, pc, pkt, dp, goal, load, chk>>

-----------------------------------------------------------------------------
(* dp_find and dp_match                                                    *)

(* Mutant of Unchecked: the check of an earlier profile stays done. *)
StillChecked(k) == k
Unchecked(k) == [k EXCEPT !.done = FALSE]

\* dp_match of profile p begins with the reload of its host lists; k is what is
\* left of the check of the profile before it.
TryProfile(p, k) ==
  IF p \in DOMAIN Profile
  THEN /\ dp' = p /\ chk' = Unchecked(k)
       /\ HostlistsReloadCheck(p, "filter")
  ELSE /\ dp' = NoProfile /\ chk' = k
       /\ Goto("found")

TryNext == TryProfile(dp + 1, chk)

Search(why) == goal' = why /\ TryProfile(1, chk)

\* Without a host name a profile with host lists can win only by its automatic
\* list; a profile without ipsets takes every address.
PassesFilters ==
  /\ Profile[dp].filter_l7 # {} => conn[c].l7proto \in Profile[dp].filter_l7
  /\ Profile[dp].auto \/ hostname # NoHost \/ CollectionIsEmpty(Profile[dp].hl \o Profile[dp].hlx)

MatchFilters ==
  /\ At("filter")
  /\ IF ok /\ PassesFilters
     THEN Reload(Profile[dp].ips \o Profile[dp].ipsx, "match") /\ UNCHANGED <<back, dp, chk>>
     ELSE TryNext
  /\ UNCHANGED <<env, hfile, bReload, conn, fails, pkt, goal, fsig, out>>

\* The rest of dp_match: the address, then the host if there are host lists.
Match ==
  /\ At("match")
  /\ LET byHost == ~Profile[dp].auto /\ ~HostlistsEmpty(dp)
         fits == HostlistCheck(dp, hostname)
         check == IF byHost
                  THEN [done |-> TRUE, result |-> fits, excluded |-> Excluded(dp, hostname)]
                  ELSE chk
     IN  IF ~ok \/ ~IpsetCheck(dp) THEN TryNext
         ELSE IF byHost /\ ~fits THEN TryProfile(dp + 1, check)
         ELSE chk' = check /\ Goto("found") /\ UNCHANGED dp
  /\ UNCHANGED <<env, hfile, bReload, conn, fails, pkt, goal, fsig, out>>

-----------------------------------------------------------------------------
(* dpi_desync_tcp_packet_play *)

\* The packet is done with; fresh says that it was decided now and by lists that
\* loaded, not by what an earlier packet left in the entry.
Verdict(p, kind, fresh) ==
  /\ out' = [kind |-> kind, host |-> p.host, dp |-> dp, fresh |-> fresh /\ ok]
  /\ Idle

Continue(l) == Goto(l) /\ UNCHANGED <<pkt, dp, goal, chk, out>>

\* The cached profile, or a first search by what the entry knows.
Lookup(p) ==
  /\ At("lookup")
  /\ CanArrive(p)
  /\ IF conn[p.conn].dp # NoProfile
     THEN pkt' = p /\ dp' = conn[p.conn].dp /\ Goto("analyse") /\ UNCHANGED <<goal, chk, out>>
     ELSE IF conn[p.conn].dp_search_complete
     THEN Verdict(p, "passed", FALSE)
     ELSE pkt' = p /\ Search("first") /\ UNCHANGED out
  /\ UNCHANGED <<env, hfile, bReload, conn, fails, fsig>>

\* Only the search for what was discovered keeps the check of the host list.
Found ==
  /\ At("found")
  /\ conn' = [conn EXCEPT ![c].dp = dp, ![c].dp_search_complete = TRUE,
                          ![c].chk = IF goal = "discovered" THEN chk ELSE @]
  /\ IF dp = NoProfile
     THEN Verdict(pkt, "passed", FALSE)
     ELSE IF goal = "first"
     THEN chk' = NoCheck /\ Goto("analyse") /\ UNCHANGED <<pkt, dp, goal, out>>
     ELSE Continue("decide")
  /\ UNCHANGED <<env, hfile, bReload, fails, fsig>>

\* auto_hostlist_retrans: the packet is counted as a retransmission.
Counts == conn[c].hostname_ah_check /\ conn[c].req_retrans_counter # RETRANS_COUNTER_STOP

(* Mutant of Stops: counting goes on past the threshold. *)
StopsNot(fires) == pkt.seq = "beyond"
Stops(fires) == pkt.seq = "beyond" \/ fires

\* process_retrans_fail with auto_hostlist_failed up to its look at the list.
Retrans ==
  /\ At("analyse")
  /\ LET counter == conn[c].req_retrans_counter + 1
         counted == /\ pkt.kind # "replay" /\ hostname # NoHost
                    /\ Counts /\ pkt.seq # "untracked"
         fires == counted /\ pkt.seq = "within" /\ counter >= RetransThreshold
         stops == counted /\ Stops(fires)
         failed == fires /\ fails[dp][hostname] + 1 >= FailThreshold
     IN  /\ conn' = IF counted
                    THEN [conn EXCEPT ![c].req_retrans_counter =
                                        IF stops THEN RETRANS_COUNTER_STOP ELSE counter]
                    ELSE conn
         /\ fails' = IF fires /\ ~failed THEN [fails EXCEPT ![dp][hostname] = @ + 1]
                     ELSE IF stops THEN [fails EXCEPT ![dp][hostname] = 0] ELSE fails
         /\ IF failed THEN HostlistsReloadCheck(dp, "recheck") ELSE Goto("classify")
  /\ UNCHANGED <<env, hfile, bReload, pkt, dp, goal, fsig, chk, out>>

(* Mutant of OnSomeList: a host that is excluded by now is not on a list. *)
OnIncludeList == HostlistCheck(dp, hostname)
OnSomeList == HostlistCheck(dp, hostname) \/ Excluded(dp, hostname)

\* A failed reload counts as a host that is on no list.
Recheck ==
  /\ At("recheck")
  /\ Goto(IF ok /\ OnSomeList THEN "classify" ELSE "add")
  /\ UNCHANGED <<env, hfile, bReload, conn, fails, pkt, dp, goal, fsig, chk, out>>

AutoEntry == [name |-> hostname, strict |-> FALSE]
AutoList == Profile[dp].hostlist_auto

\* HostlistPoolAddStr leaves an entry of the same name as it is.
AddToPool ==
  /\ At("add")
  /\ hfile' = IF \E e \in hfile[AutoList].list : e.name = hostname THEN hfile
              ELSE [hfile EXCEPT ![AutoList].list = @ \union {AutoEntry}]
  /\ Goto("append")
  /\ UNCHANGED <<env, bReload, conn, fails, pkt, dp, goal, fsig, chk, out>>

\* append_to_list_file.
AppendToFile ==
  /\ At("append")
  /\ disk' = [disk EXCEPT ![AutoList].there = TRUE, ![AutoList].sig = NextSig(AutoList),
                          ![AutoList].list = @ \union {AutoEntry}]
  /\ Goto("sign")
  /\ UNCHANGED <<edits, dirty, hfile, bReload, conn, fails, pkt, dp, goal, fsig, chk, out>>

\* file_mod_signature into the list's own signature, reset when stat() fails.
SignList ==
  /\ At("sign")
  /\ hfile' = [hfile EXCEPT ![AutoList].sig = IF disk[AutoList].there THEN disk[AutoList].sig ELSE NoSig]
  /\ Goto("classify")
  /\ UNCHANGED <<env, bReload, conn, fails, pkt, dp, goal, fsig, chk, out>>

\* What the payload is, up to the packets kept back and those left alone; a
\* replayed packet is not entered as the protocol of the connection again.
Classify ==
  /\ At("classify")
  /\ conn' = [conn EXCEPT ![c].l7proto =
                IF pkt.kind # "replay" /\ @ = "unknown" THEN pkt.l7 ELSE @,
                          ![c].held = pkt.kind = "hold"]
  /\ IF pkt.kind = "hold" THEN Verdict(pkt, "held", FALSE)
     ELSE IF \/ pkt.l7 = "http" /\ pkt.host = NoHost
             \/ pkt.l7 = "tls" /\ pkt.host = NoHost /\ Profile[dp].skip_nosni
     THEN Verdict(pkt, "passed", FALSE)
     ELSE Continue("discover")
  /\ UNCHANGED <<env, hfile, bReload, fails, fsig>>

(* Mutant of NewL7: the protocol is discovered over and over. *)
NewL7Again == conn[c].l7proto # "unknown"
NewL7 == ~conn[c].l7proto_discovered /\ conn[c].l7proto # "unknown"

\* The first protocol and the first host name of the connection are entered,
\* each once, and the profiles searched again.
Discover ==
  LET newHost == pkt.host # NoHost /\ ~conn[c].hostname_discovered
  IN  /\ At("discover")
      /\ conn' = [conn EXCEPT ![c].l7proto_discovered = @ \/ NewL7,
                              ![c].hostname = IF newHost THEN pkt.host ELSE @,
                              ![c].hostname_discovered = @ \/ newHost]
      /\ IF NewL7 \/ newHost
         THEN Search("discovered")
         ELSE chk' = conn[c].chk /\ goal' = "none" /\ Goto("decide") /\ UNCHANGED dp
      /\ UNCHANGED <<env, hfile, bReload, fails, pkt, fsig, out>>

\* What follows the check of the host list, r, with the exclusion x.
StopRetrans(e) == IF e.hostname_ah_check THEN RETRANS_COUNTER_STOP ELSE e.req_retrans_counter

Apply(r, x, fresh) ==
  LET ah == IF r THEN conn[c].hostname_ah_check ELSE Profile[dp].auto /\ ~x
  IN  /\ conn' = [conn EXCEPT ![c].hostname_ah_check = ah,
                              ![c].req_retrans_counter = IF r THEN StopRetrans(conn[c]) ELSE @]
      /\ Verdict(pkt, IF r /\ Profile[dp].desync THEN "tampered" ELSE "passed", fresh)

ByHostlist == pkt.host # NoHost /\ ~HostlistsEmpty(dp)

Decide ==
  /\ At("decide")
  /\ IF ~ByHostlist
     THEN /\ Verdict(pkt, IF /\ pkt.l7 # "unknown" \/ Profile[dp].any_proto
                             /\ Profile[dp].desync
                          THEN "tampered" ELSE "passed", goal = "discovered")
          /\ UNCHANGED conn
     ELSE IF chk.done
     THEN Apply(chk.result, chk.excluded, goal = "discovered")
     ELSE HostlistsReloadCheck(dp, "check") /\ UNCHANGED <<conn, pkt, dp, goal, chk, out>>
  /\ UNCHANGED <<env, hfile, bReload, fails, fsig>>

\* HostlistCheck after its own reload check: FALSE when a list failed to load.
Check ==
  /\ At("check")
  /\ Apply(ok /\ HostlistCheck(dp, pkt.host), ok /\ Excluded(dp, pkt.host), TRUE)
  /\ UNCHANGED <<env, hfile, bReload, fails, fsig>>

-----------------------------------------------------------------------------

Init ==
  /\ \E l \in [File -> UNION {Content[f] : f \in File}] :
       /\ \A f \in File : l[f] \in Content[f]
       /\ disk = [f \in File |-> [there |-> TRUE, readable |-> TRUE, sig |-> 1, list |-> l[f]]]
  /\ hfile = FillAutolists(OnDisk)
  /\ conn = [x \in Conn |-> NoConn] /\ fails = NoFails
  /\ edits = 0 /\ dirty = {} /\ bReload = FALSE
  /\ pc = "recv" /\ back = "recv" /\ todo = <<>> /\ fsig = NoSig /\ ok = TRUE
  /\ pkt = NoPacket /\ dp = NoProfile /\ goal = "none" /\ chk = NoCheck /\ out = NoOut

Load == KeepList \/ StatChanged \/ ReadList \/ ReadFails
               \/ IncludeReloaded \/ ExcludeReloaded
DpFind == MatchFilters \/ Match \/ Found \/ \E p \in Packets : Lookup(p)
AutoHostlist == Retrans \/ Recheck \/ AddToPool \/ AppendToFile \/ SignList
Play == Classify \/ Discover \/ Decide \/ Check
Environment == (\E f \in File : Rewrite(f) \/ Remove(f) \/ Repair(f)) \/ onhup

Next == \/ Recv \/ Reloaded \/ Restart \/ Purge
        \/ Load \/ DpFind \/ AutoHostlist \/ Play \/ Environment

Spec == Init /\ [][Next]_vars

-----------------------------------------------------------------------------
(* Properties *)

Labels == {"recv", "reload", "lookup", "hl", "hlx", "filter", "match", "found", "analyse",
           "recheck", "add", "append", "sign", "classify", "discover", "decide", "check",
           "exited"}
Checks == [done : BOOLEAN, result : BOOLEAN, excluded : BOOLEAN]
Profiles == DOMAIN Profile \union {NoProfile}
DiskFile == [there : BOOLEAN, readable : BOOLEAN, sig : 1..MaxSig, list : List]
ListFile == [list : List, sig : 0..MaxSig]
Track == [dp : Profiles, dp_search_complete : BOOLEAN,
          hostname : Host \union {NoHost}, hostname_discovered : BOOLEAN,
          l7proto : L7, l7proto_discovered : BOOLEAN, hostname_ah_check : BOOLEAN,
          req_retrans_counter : RETRANS_COUNTER_STOP..RetransThreshold,
          held : BOOLEAN, chk : Checks]
Outcome == [kind : {"none", "passed", "held", "tampered"}, host : Host \union {NoHost},
            dp : Profiles, fresh : BOOLEAN]

\* The variables keep their types.
TypeOK ==
  /\ disk \in [File -> DiskFile] /\ edits \in 0..MaxEdits
  /\ hfile \in [File -> ListFile]
  /\ bReload \in BOOLEAN
  /\ conn \in [Conn -> Track]
  /\ fails \in [DOMAIN Profile -> [Host -> 0..FailThreshold]]
  /\ pc \in Labels /\ back \in Labels
  /\ pkt \in Packets
  /\ dp \in Profiles
  /\ goal \in {"none", "first", "discovered"}
  /\ todo \in Seq(File)
  /\ fsig \in 0..MaxSig
  /\ ok \in BOOLEAN
  /\ chk \in Checks
  /\ dirty \in SUBSET File
  /\ out \in Outcome

\* The first request of a connection is tampered with exactly when the lists of
\* the profile it ends up with, as they are in memory, say so: the check that
\* dp_match left behind is the check of that profile and of that host
\* (desync.c:1724, 1775).
DecisionFitsLists ==
  out.fresh /\ out.host # NoHost =>
    (out.kind = "tampered" <=> HostlistCheck(out.dp, out.host) /\ Profile[out.dp].desync)

\* A list whose signature in memory is that of the file is the list in the file,
\* whatever was written, removed or unreadable in between and however the
\* writing fell between stat() and the reading (hostlist.c:112-134).
LoadedIsOnDisk ==
  \A f \in File \ AutoFile :
    hfile[f].sig = disk[f].sig /\ ~(fsig # NoSig /\ f = Head(todo)) => hfile[f].list = disk[f].list

\* A request that is decided for the first time is decided by the lists as they
\* are on disk, but for files that changed while the packet was worked on.
DecidedByFreshLists ==
  out.fresh /\ out.host # NoHost =>
    \A i \in DOMAIN (Profile[out.dp].hl \o Profile[out.dp].hlx) :
      LET f == (Profile[out.dp].hl \o Profile[out.dp].hlx)[i]
      IN  f \notin dirty \union AutoFile /\ disk[f].there => hfile[f].list = disk[f].list

\* Where the code uses a profile unchecked there is one: the search never comes
\* back without (desync.c:1240, 1289, 1737), and a connection watched for failures
\* has one with an automatic list, to which auto_hostlist_failed writes
\* (desync.c:425), whatever was found for it since.
ProfileIsKnown ==
  /\ pc \in {"found", "analyse", "decide"} => dp # NoProfile
  /\ \A x \in Conn : conn[x].hostname_ah_check =>
       conn[x].dp # NoProfile /\ Profile[conn[x].dp].auto

\* The automatic lists are written by the engine alone, and each is a list of its
\* profile (nfqws.c, --hostlist-auto), not one of its exclusions.
AutoListsAreOurs ==
  /\ Editable \intersect AutoFile = {}
  /\ \A p \in DOMAIN Profile : Profile[p].auto =>
       /\ \E i \in DOMAIN Profile[p].hl : Profile[p].hl[i] = Profile[p].hostlist_auto
       /\ \A i \in DOMAIN Profile[p].hlx : Profile[p].hlx[i] # Profile[p].hostlist_auto

\* A host is written to the automatic list only when no list of the profile has
\* it, so at most once, unless a list failed to load at that moment.
AddedIsNew ==
  [][ \A f \in AutoFile : disk'[f].list # disk[f].list /\ ok =>
        /\ ~Excluded(dp, hostname)
        /\ \A e \in disk[f].list : e.name # hostname ]_vars

\* A host that the user excluded is left alone (docs/readme.md:26).
ExcludedIsLeftAlone ==
  edits = 0 /\ out.kind = "tampered" /\ out.host # NoHost => ~Excluded(out.dp, out.host)
==============================================================================
