------------------------ MODULE ProfileSelect_proofs ------------------------
(***************************************************************************)
(* Proofs about ProfileSelect, for any profiles, lists, hosts, connections *)
(* and thresholds: its types, and four of the invariants the run checks.   *)
(* One inductive invariant in parts; each part is shown to be kept by      *)
(* every step in a lemma of its own.                                       *)
(***************************************************************************)
EXTENDS ProfileSelect, TLAPS

(* The invariant, in parts. *)

Reloading(l) == pc \in {"hl", "hlx"} /\ back = l
Searching == pc \in {"filter", "match", "found"} \/ Reloading("filter")
Failing == pc \in {"recheck", "add", "append", "sign"} \/ Reloading("recheck")
Checking == pc = "check" \/ Reloading("check")
Settled == pc \in {"analyse", "classify", "discover", "decide"} \/ Failing \/ Checking

\* Where the engine is: it has a profile in hand, that of the entry once the
\* search is over, and the last profile has nothing to load and nothing to miss.
StepOK ==
  /\ pc \in {"hl", "hlx"} => back \in {"filter", "recheck", "check"}
  /\ Searching \/ Settled => dp \in DOMAIN Profile
  /\ Settled => conn[c].dp = dp
  /\ fsig # NoSig => todo # <<>>
  /\ dp = Len(Profile) /\ pc \in {"hl", "hlx", "filter", "match"} => ok /\ todo = <<>>

\* What an entry knows, and that only an entry that knows its host is watched.
EntryOK ==
  \A x \in Conn :
    /\ conn[x].hostname_discovered <=> conn[x].hostname # NoHost
    /\ conn[x].hostname_discovered => conn[x].l7proto_discovered
    /\ conn[x].held => conn[x].l7proto # "unknown"
    /\ conn[x].hostname_ah_check =>
         /\ conn[x].hostname_discovered
         /\ conn[x].dp \in DOMAIN Profile /\ Profile[conn[x].dp].auto

\* What the packet in hand has to do with its entry.
PacketOK ==
  /\ pkt.host # NoHost => pkt.l7 # "unknown"
  /\ pkt.kind = "hold" => pkt.l7 = "tls"
  /\ pkt.kind = "replay" => conn[c].l7proto # "unknown"
  /\ pc \in {"recv", "reload", "lookup", "exited"} => pkt = NoPacket
  /\ Searching => goal \in {"first", "discovered"} /\ ~conn[c].hostname_ah_check
  /\ Failing => hostname # NoHost /\ conn[c].hostname_ah_check
  /\ pc = "discover" /\ pkt.host # NoHost => conn[c].l7proto # "unknown"
  /\ Checking => pkt.host # NoHost
  /\ pkt.host # NoHost /\ (pc = "decide" \/ Checking \/ (Searching /\ goal = "discovered")) =>
       conn[c].hostname_discovered

\* The signatures in memory lag behind those of the files.
SignatureOK ==
  /\ \A f \in File : hfile[f].sig <= disk[f].sig
  /\ fsig # NoSig => hfile[Head(todo)].sig < fsig /\ fsig <= disk[Head(todo)].sig
  /\ LoadedIsOnDisk

\* The check that the search leaves behind.
CheckOK ==
  /\ pc \notin {"reload", "hl", "hlx", "match"} => todo = <<>>
  /\ Searching /\ pc # "found" => ~chk.done
  /\ pkt.host # NoHost /\ goal = "discovered" /\ (Searching \/ pc = "decide") => hostname = pkt.host
  /\ goal = "discovered" /\ pc \in {"found", "decide"} /\ chk.done =>
       chk.result /\ HostlistCheck(dp, hostname)
  /\ out.fresh => pc = "recv"
  /\ DecisionFitsLists

-----------------------------------------------------------------------------
(* Types *)

(* A profile of the list has the fields of one. *)
LEMMA ProfileTyped ==
  /\ Len(Profile) \in Nat /\ DOMAIN Profile = 1 .. Len(Profile)
  /\ NoProfile \notin DOMAIN Profile
  /\ \A p \in DOMAIN Profile : Profile[p] \in DesyncProfile
BY ProfileAssumption DEF NoProfile

(* There is a packet to stand for none, an ordinary one without a host. *)
LEMMA NoPacketTyped ==
  NoPacket \in Packets /\ NoPacket.kind = "live" /\ NoPacket.host = NoHost
<1>1. PICK x \in Conn : TRUE
  BY BoundAssumption
<1>2. [conn |-> x, kind |-> "live", l7 |-> "unknown", host |-> NoHost, seq |-> "untracked"] \in Packets
  BY DEF Packets, L7
<1> QED BY <1>2 DEF NoPacket

HFiles == [File -> ListFile]

(* Filling the automatic lists changes no signature and no other list. *)
LEMMA FillTyped ==
  ASSUME NEW m \in HFiles
  PROVE  /\ FillAutolists(m) \in HFiles
         /\ \A f \in File : FillAutolists(m)[f].sig = m[f].sig
         /\ \A f \in File \ AutoFile : FillAutolists(m)[f] = m[f]
<1>1. {[name |-> Impossible, strict |-> FALSE]} \in List
  BY NameAssumption DEF List, Entry
<1>2. ASSUME NEW f \in File
      PROVE  NonEmptyHostlist(m[f].list) \in List
  BY <1>1 DEF NonEmptyHostlist, HFiles, ListFile
<1> QED BY <1>2 DEF FillAutolists, HFiles, ListFile

(* Trying a profile keeps the types. *)
LEMMA TryTyped ==
  ASSUME NEW p \in Nat, NEW k \in Checks, TryProfile(p, k),
         todo \in Seq(File), ok \in BOOLEAN, back \in Labels
  PROVE  /\ dp' \in Profiles /\ chk' \in Checks
         /\ todo' \in Seq(File) /\ ok' \in BOOLEAN /\ pc' \in Labels /\ back' \in Labels
<1>1. CASE p \in DOMAIN Profile
  <2>1. Profile[p].hl \in Seq(File)
    BY <1>1, ProfileTyped DEF DesyncProfile
  <2> QED BY <1>1, <2>1 DEF TryProfile, HostlistsReloadCheck, Reload, Unchecked, Checks,
                            Profiles, Labels
<1>2. CASE p \notin DOMAIN Profile
  BY <1>2 DEF TryProfile, Goto, Profiles, Labels
<1> QED BY <1>1, <1>2

(* What the engine has in hand between packets is typed. *)
LEMMA IdleTyped ==
  ASSUME Idle
  PROVE  /\ pc' = "recv" /\ pc' \in Labels /\ back' \in Labels /\ todo' = <<>>
         /\ todo' \in Seq(File) /\ ok' \in BOOLEAN
         /\ pkt' = NoPacket /\ pkt' \in Packets
         /\ dp' \in Profiles /\ dp' = NoProfile
         /\ goal' = "none" /\ chk' \in Checks
BY NoPacketTyped DEF Idle, Labels, Profiles, NoCheck, NoConn, Checks

(* A verdict is typed. *)
LEMMA VerdictTyped ==
  ASSUME NEW p \in Packets, NEW kind \in {"passed", "held", "tampered"}, NEW fresh \in BOOLEAN,
         ok \in BOOLEAN, dp \in Profiles, Verdict(p, kind, fresh)
  PROVE  /\ Idle
         /\ out' \in Outcome
BY DEF Verdict, Packets, Outcome

(* The types hold at the start. *)
LEMMA InitTyped == Init => TypeOK
<1> SUFFICES ASSUME Init PROVE TypeOK
  OBVIOUS
<1>1. disk \in [File -> DiskFile]
  <2>1. PICK l \in [File -> UNION {Content[f] : f \in File}] :
          /\ \A f \in File : l[f] \in Content[f]
          /\ disk = [f \in File |-> [there |-> TRUE, readable |-> TRUE, sig |-> 1, list |-> l[f]]]
    BY DEF Init
  <2>2. \A f \in File : l[f] \in List
    BY <2>1, BoundAssumption
  <2> QED BY <2>1, <2>2, BoundAssumption DEF DiskFile
<1>2. OnDisk \in HFiles
  BY <1>1, BoundAssumption DEF OnDisk, HFiles, DiskFile, ListFile
<1>3. hfile \in HFiles
  BY <1>2, FillTyped DEF Init
<1>4. conn \in [Conn -> Track]
  BY BoundAssumption DEF Init, NoConn, Track, Profiles, L7, Checks, RETRANS_COUNTER_STOP
<1>5. fails \in [DOMAIN Profile -> [Host -> 0..FailThreshold]] /\ edits \in 0..MaxEdits
  BY BoundAssumption DEF Init, NoFails
<1>6. out \in Outcome /\ chk \in Checks
  BY DEF Init, NoOut, NoCheck, NoConn, Profiles, Checks, Outcome
<1>7. pkt \in Packets /\ dp \in Profiles
  BY NoPacketTyped DEF Init, Profiles
<1>8. /\ bReload \in BOOLEAN /\ pc \in Labels /\ back \in Labels
      /\ goal \in {"none", "first", "discovered"} /\ ok \in BOOLEAN
  BY DEF Init, Labels
<1>9. todo \in Seq(File) /\ dirty \in SUBSET File
  BY DEF Init
<1>10. fsig \in 0..MaxSig
  BY BoundAssumption DEF Init, NoSig
<1> QED BY <1>1, <1>3, <1>4, <1>5, <1>6, <1>7, <1>8, <1>9, <1>10, Zenon DEF TypeOK, HFiles

(* What the groups of steps leave alone. *)

Changed == \E f \in File : Rewrite(f) \/ Remove(f) \/ Repair(f)

(* What the steps of the reload leave alone. *)
LEMMA LoadFrame ==
  ASSUME Load
  PROVE  UNCHANGED <<env, bReload, conn, fails, pkt, dp, goal, chk, out>>
BY DEF Load, KeepList, StatChanged, ReadList, ReadFails, IncludeReloaded, ExcludeReloaded

(* What the steps of the search leave alone. *)
LEMMA DpFindFrame ==
  ASSUME DpFind
  PROVE  UNCHANGED <<env, hfile, bReload, fails, fsig>>
BY DEF DpFind, MatchFilters, Match, Found, Lookup

(* What the steps of the automatic list leave alone. *)
LEMMA AutoFrame ==
  ASSUME AutoHostlist
  PROVE  UNCHANGED <<edits, dirty, bReload, pkt, dp, goal, fsig, chk, out>>
BY DEF AutoHostlist, Retrans, Recheck, AddToPool, AppendToFile, SignList, env

(* What the steps of the packet handler leave alone. *)
LEMMA PlayFrame ==
  ASSUME Play
  PROVE  UNCHANGED <<env, hfile, bReload, fails, fsig>>
BY DEF Play, Classify, Discover, Decide, Check

(* What a change of a file leaves alone. *)
LEMMA ChangedFrame ==
  ASSUME Changed
  PROVE  UNCHANGED <<hfile, bReload, conn, fails, pc, pkt, dp, goal, todo, fsig, ok, back, chk, out>>
BY DEF Changed, Rewrite, Remove, Repair, Edit, Change, load

(* What a SIGHUP leaves alone. *)
LEMMA HupFrame ==
  ASSUME onhup
  PROVE  UNCHANGED <<disk, edits, dirty, hfile, conn, fails, pc, pkt, dp, goal, todo, fsig, ok,
                     back, chk, out>>
BY DEF onhup, load, env

(* A step of the system is one of these. *)
LEMMA NextCases ==
  ASSUME Next
  PROVE  Recv \/ Reloaded \/ Restart \/ Purge \/ Load \/ DpFind \/ AutoHostlist \/ Play
         \/ Changed \/ onhup
BY DEF Next, Environment, Changed

(* The files keep their types. *)
FilesOK == disk \in [File -> DiskFile] /\ edits \in 0..MaxEdits /\ dirty \in SUBSET File

(* When a host is about to be listed, the profile in hand has a list to put it on. *)
LEMMA AutoInHand ==
  ASSUME TypeOK, StepOK, EntryOK, PacketOK, Failing
  PROVE  /\ dp \in DOMAIN Profile /\ Profile[dp].auto
         /\ AutoList \in AutoFile /\ AutoList \in File
         /\ hostname \in Host /\ AutoEntry \in Entry
<1>1. dp \in DOMAIN Profile /\ conn[c].dp = dp
  BY DEF StepOK, Settled
<1>2. c \in Conn
  BY DEF TypeOK, Packets, c
<1>3. Profile[dp].auto
  BY <1>1, <1>2 DEF EntryOK, PacketOK
<1>4. hostname \in Host
  BY <1>2 DEF PacketOK, TypeOK, Track, hostname
<1>5. AutoEntry \in Entry
  BY <1>4, NameAssumption DEF AutoEntry, Entry
<1>6. AutoList \in AutoFile /\ AutoList \in File
  BY <1>1, <1>3, ProfileTyped DEF AutoList, AutoFile, DesyncProfile
<1> QED BY <1>1, <1>3, <1>4, <1>5, <1>6

(* The files stay typed. *)
LEMMA FilesTyped ==
  ASSUME TypeOK, StepOK, EntryOK, PacketOK, Next
  PROVE  FilesOK'
<1> USE DEF FilesOK
<1>1. CASE Changed
  <2>1. PICK f \in File : Rewrite(f) \/ Remove(f) \/ Repair(f)
    BY <1>1 DEF Changed
  <2>2. dirty' \in SUBSET File
    BY <2>1 DEF Rewrite, Remove, Repair, Edit, Change, TypeOK
  <2>3. edits' \in 0..MaxEdits
    BY <2>1, BoundAssumption DEF Rewrite, Remove, Repair, Edit, TypeOK
  <2>4. disk' \in [File -> DiskFile]
    <3>1. CASE Rewrite(f)
      <4>1. PICK l \in Content[f], r \in BOOLEAN :
              disk' = [disk EXCEPT ![f] = [there |-> TRUE, readable |-> r, sig |-> NextSig(f), list |-> l]]
        BY <3>1 DEF Rewrite
      <4>2. l \in List
        BY BoundAssumption
      <4>3. NextSig(f) \in 1..MaxSig
        BY <3>1, BoundAssumption DEF TypeOK, DiskFile, NextSig
      <4>4. [there |-> TRUE, readable |-> r, sig |-> NextSig(f), list |-> l] \in DiskFile
        BY <4>2, <4>3 DEF DiskFile
      <4> QED BY <4>1, <4>4 DEF TypeOK
    <3>2. CASE Remove(f) \/ Repair(f)
      <4>1. [disk[f] EXCEPT !.there = FALSE] \in DiskFile /\ [disk[f] EXCEPT !.readable = TRUE] \in DiskFile
        BY DEF TypeOK, DiskFile
      <4> QED BY <3>2, <4>1 DEF Remove, Repair, TypeOK
    <3> QED BY <2>1, <3>1, <3>2
  <2> QED BY <2>2, <2>3, <2>4
<1>2. CASE Restart
  BY <1>2 DEF Restart, TypeOK, DiskFile
<1>3. CASE AutoHostlist
  <2>1. CASE AppendToFile
    <3>1. AutoList \in File /\ AutoEntry \in Entry
      BY <2>1, AutoInHand DEF AppendToFile, At, Failing
    <3>2. NextSig(AutoList) \in 1..MaxSig
      BY <3>1, BoundAssumption DEF TypeOK, DiskFile, NextSig
    <3>3. disk[AutoList].list \union {AutoEntry} \in List
      BY <3>1 DEF TypeOK, DiskFile, List
    <3>4. [disk[AutoList] EXCEPT !.there = TRUE, !.sig = NextSig(AutoList),
                                 !.list = @ \union {AutoEntry}] \in DiskFile
      BY <3>1, <3>2, <3>3 DEF TypeOK, DiskFile
    <3>5. disk' \in [File -> DiskFile]
      BY <2>1, <3>1, <3>2, <3>3, <3>4 DEF AppendToFile, TypeOK, DiskFile
    <3> QED BY <1>3, <3>5, AutoFrame DEF TypeOK
  <2>2. CASE ~AppendToFile
    BY <1>3, <2>2 DEF AutoHostlist, Retrans, Recheck, AddToPool, SignList, env, TypeOK
  <2> QED BY <2>1, <2>2
<1>4. CASE Recv \/ Reloaded \/ Purge
  BY <1>4 DEF Recv, Reloaded, Purge, env, TypeOK
<1>5. CASE Load \/ DpFind \/ Play \/ onhup
  BY <1>5, LoadFrame, DpFindFrame, PlayFrame, HupFrame DEF env, TypeOK
<1> QED BY <1>1, <1>2, <1>3, <1>4, <1>5, NextCases

(* The lists in memory keep their types. *)
ListsOK == hfile \in HFiles /\ fsig \in 0..MaxSig /\ bReload \in BOOLEAN

(* The lists in memory stay typed. *)
LEMMA ListsTyped ==
  ASSUME TypeOK, StepOK, EntryOK, PacketOK, Next
  PROVE  ListsOK'
<1> USE DEF ListsOK
<1>0. ListsOK
  BY DEF TypeOK, HFiles
<1>1. CASE Recv
  <2>1. hfile' \in HFiles
    BY <1>0, <1>1, BoundAssumption DEF Recv, HFiles, ListFile, NoSig
  <2> QED BY <1>0, <1>1, <2>1 DEF Recv
<1>2. CASE Reloaded
  BY <1>0, <1>2, FillTyped DEF Reloaded, MakeAutolistsNonEmpty
<1>3. CASE Restart
  <2>1. OnDisk \in HFiles
    BY BoundAssumption DEF TypeOK, OnDisk, HFiles, DiskFile, ListFile
  <2> QED BY <1>0, <1>3, <2>1, FillTyped DEF Restart
<1>4. CASE Load
  <2>1. CASE KeepList
    BY <1>0, <2>1 DEF KeepList
  <2>2. CASE StatChanged
    <3>1. Head(todo) \in File
      BY <2>2 DEF StatChanged, TypeOK
    <3>2. disk[Head(todo)].sig \in 0..MaxSig
      BY <3>1, BoundAssumption DEF TypeOK, DiskFile
    <3>3. hfile' \in HFiles
      BY <1>0, <2>2, <3>1 DEF StatChanged, HFiles, ListFile, List
    <3> QED BY <1>0, <2>2, <3>2, <3>3 DEF StatChanged
  <2>3. CASE ReadList
    <3>1. Head(todo) \in File
      BY <2>3 DEF ReadList, TypeOK, StepOK
    <3>2. disk[Head(todo)].list \in List
      BY <3>1 DEF TypeOK, DiskFile
    <3>3. hfile' \in HFiles
      BY <1>0, <2>3, <3>1, <3>2 DEF ReadList, HFiles, ListFile
    <3> QED BY <1>0, <2>3, <3>3, BoundAssumption DEF ReadList, NoSig
  <2>4. CASE ReadFails
    BY <1>0, <2>4, BoundAssumption DEF ReadFails, NoSig
  <2>5. CASE IncludeReloaded \/ ExcludeReloaded
    BY <1>0, <2>5, FillTyped DEF IncludeReloaded, ExcludeReloaded, MakeAutolistsNonEmpty
  <2> QED BY <1>4, <2>1, <2>2, <2>3, <2>4, <2>5 DEF Load
<1>5. CASE AutoHostlist
  <2>1. CASE AddToPool
    <3>1. AutoList \in File /\ AutoEntry \in Entry
      BY <2>1, AutoInHand DEF AddToPool, At, Failing
    <3>2. hfile[AutoList].list \union {AutoEntry} \in List
      BY <1>0, <3>1 DEF HFiles, ListFile, List
    <3>3. hfile' \in HFiles
      BY <1>0, <2>1, <3>1, <3>2 DEF AddToPool, HFiles, ListFile
    <3> QED BY <1>0, <1>5, <3>3, AutoFrame
  <2>2. CASE SignList
    <3>1. AutoList \in File
      BY <2>2, AutoInHand DEF SignList, At, Failing
    <3>2. (IF disk[AutoList].there THEN disk[AutoList].sig ELSE NoSig) \in 0..MaxSig
      BY <3>1, BoundAssumption DEF TypeOK, DiskFile, NoSig
    <3>3. hfile' \in HFiles
      BY <1>0, <2>2, <3>1, <3>2 DEF SignList, HFiles, ListFile
    <3> QED BY <1>0, <1>5, <3>3, AutoFrame
  <2>3. CASE Retrans \/ Recheck \/ AppendToFile
    BY <1>0, <2>3 DEF Retrans, Recheck, AppendToFile
  <2> QED BY <1>5, <2>1, <2>2, <2>3 DEF AutoHostlist
<1>6. CASE Purge
  BY <1>0, <1>6 DEF Purge, load
<1>7. CASE DpFind \/ Play \/ Changed
  BY <1>0, <1>7, DpFindFrame, PlayFrame, ChangedFrame
<1>8. CASE onhup
  BY <1>0, <1>8, HupFrame DEF onhup
<1> QED BY <1>1, <1>2, <1>3, <1>4, <1>5, <1>6, <1>7, <1>8, NextCases

(* The entries and the failure counters keep their types. *)
EntriesOK == conn \in [Conn -> Track] /\ fails \in [DOMAIN Profile -> [Host -> 0..FailThreshold]]

(* A new entry is typed. *)
LEMMA NoConnTyped == NoConn \in Track
BY BoundAssumption DEF NoConn, Track, Profiles, L7, Checks, RETRANS_COUNTER_STOP

(* Entering the result of the host list check keeps the entries typed. *)
LEMMA ApplyTyped ==
  ASSUME TypeOK, dp \in DOMAIN Profile,
         NEW r \in BOOLEAN, NEW x \in BOOLEAN, NEW fresh \in BOOLEAN, Apply(r, x, fresh)
  PROVE  conn' \in [Conn -> Track]
<1>1. c \in Conn /\ conn[c] \in Track
  BY DEF TypeOK, Packets, c
<1>2. Profile[dp].auto \in BOOLEAN
  BY ProfileTyped DEF DesyncProfile
<1>3. StopRetrans(conn[c]) \in RETRANS_COUNTER_STOP..RetransThreshold
  BY <1>1, BoundAssumption DEF StopRetrans, Track, RETRANS_COUNTER_STOP
<1> DEFINE ah == IF r THEN conn[c].hostname_ah_check ELSE Profile[dp].auto /\ ~x
           n == IF r THEN StopRetrans(conn[c]) ELSE conn[c].req_retrans_counter
<1>4. ah \in BOOLEAN /\ n \in RETRANS_COUNTER_STOP..RetransThreshold
  BY <1>1, <1>2, <1>3 DEF Track
<1>5. conn' = [conn EXCEPT ![c].hostname_ah_check = ah, ![c].req_retrans_counter = n]
  BY Zenon DEF Apply
<1> HIDE DEF ah, n
<1> QED BY <1>1, <1>4, <1>5 DEF TypeOK, Track

(* The entries and the counters stay typed. *)
LEMMA EntriesTyped ==
  ASSUME TypeOK, StepOK, Next
  PROVE  EntriesOK'
<1> USE DEF EntriesOK
<1>0. EntriesOK /\ c \in Conn /\ conn[c] \in Track /\ pkt.l7 \in L7 /\ pkt.host \in Host \union {NoHost}
  BY DEF TypeOK, Packets, c
<1>1. CASE Restart
  <2>1. conn' = [x \in Conn |-> NoConn] /\ fails' = NoFails
    BY <1>1 DEF Restart
  <2>2. NoFails \in [DOMAIN Profile -> [Host -> 0..FailThreshold]]
    BY BoundAssumption DEF NoFails
  <2> QED BY <2>1, <2>2, NoConnTyped
<1>2. CASE Purge
  <2>1. CASE \E x \in Conn : conn' = [conn EXCEPT ![x] = NoConn] /\ UNCHANGED fails
    BY <1>0, <2>1, NoConnTyped
  <2>2. CASE \E p \in DOMAIN Profile, h \in Host :
                fails' = [fails EXCEPT ![p][h] = 0] /\ UNCHANGED conn
    BY <1>0, <2>2, BoundAssumption
  <2> QED BY <1>2, <2>1, <2>2 DEF Purge
<1>3. CASE DpFind
  <2>1. CASE Found
    <3>1. dp \in Profiles /\ chk \in Checks
      BY DEF TypeOK
    <3>2. conn' \in [Conn -> Track]
      BY <1>0, <2>1, <3>1 DEF Found, Track
    <3> QED BY <1>0, <1>3, <3>2, DpFindFrame
  <2>2. CASE ~Found
    BY <1>0, <1>3, <2>2 DEF DpFind, MatchFilters, Match, Lookup
  <2> QED BY <2>1, <2>2
<1>4. CASE AutoHostlist
  <2>1. CASE Retrans
    <3> DEFINE counter == conn[c].req_retrans_counter + 1
               counted == /\ pkt.kind # "replay" /\ hostname # NoHost
                          /\ Counts /\ pkt.seq # "untracked"
               fires == counted /\ pkt.seq = "within" /\ counter >= RetransThreshold
               stops == counted /\ Stops(fires)
               failed == fires /\ fails[dp][hostname] + 1 >= FailThreshold
               next == IF stops THEN RETRANS_COUNTER_STOP ELSE counter
    <3>1. hostname \in Host \union {NoHost} /\ conn[c].req_retrans_counter \in RETRANS_COUNTER_STOP..RetransThreshold
      BY <1>0 DEF Track, hostname
    <3>2. pkt.seq \in {"within", "beyond", "untracked"}
      BY DEF TypeOK, Packets
    <3>3. counted => next \in RETRANS_COUNTER_STOP..RetransThreshold
      BY <3>1, <3>2, BoundAssumption DEF Stops, RETRANS_COUNTER_STOP
    <3>4. conn' = IF counted THEN [conn EXCEPT ![c].req_retrans_counter = next] ELSE conn
      BY <2>1 DEF Retrans
    <3>5. conn' \in [Conn -> Track]
      BY <1>0, <3>3, <3>4 DEF Track
    <3>6. fails' = IF fires /\ ~failed THEN [fails EXCEPT ![dp][hostname] = @ + 1]
                   ELSE IF stops THEN [fails EXCEPT ![dp][hostname] = 0] ELSE fails
      BY <2>1 DEF Retrans
    <3>7. dp \in DOMAIN Profile /\ (fires \/ stops => hostname \in Host)
      BY <2>1, <3>1 DEF Retrans, At, StepOK, Settled
    <3>8. fires /\ ~failed => fails[dp][hostname] + 1 \in 0..FailThreshold
      BY <1>0, <3>7, BoundAssumption
    <3>9. fails' \in [DOMAIN Profile -> [Host -> 0..FailThreshold]]
      BY <1>0, <3>6, <3>7, <3>8, BoundAssumption
    <3> QED BY <3>5, <3>9
  <2>2. CASE ~Retrans
    BY <1>0, <1>4, <2>2 DEF AutoHostlist, Recheck, AddToPool, AppendToFile, SignList
  <2> QED BY <2>1, <2>2
<1>5. CASE Play
  <2>1. CASE Classify
    <3>1. conn' \in [Conn -> Track]
      BY <1>0, <2>1 DEF Classify, Track
    <3> QED BY <1>0, <1>5, <3>1, PlayFrame
  <2>2. CASE Discover
    <3>1. conn' \in [Conn -> Track]
      BY <1>0, <2>2 DEF Discover, NewL7, Track
    <3> QED BY <1>0, <1>5, <3>1, PlayFrame
  <2>3. CASE Decide
    <3>1. dp \in DOMAIN Profile
      BY <2>3 DEF Decide, At, StepOK, Settled
    <3>2. chk.result \in BOOLEAN /\ chk.excluded \in BOOLEAN
      BY DEF TypeOK, Checks
    <3>3. CASE UNCHANGED conn
      BY <1>0, <1>5, <3>3, PlayFrame
    <3>4. CASE Apply(chk.result, chk.excluded, goal = "discovered")
      BY <1>0, <1>5, <3>1, <3>2, <3>4, ApplyTyped, PlayFrame
    <3> QED BY <2>3, <3>3, <3>4 DEF Decide
  <2>4. CASE Check
    <3>1. dp \in DOMAIN Profile
      BY <2>4 DEF Check, At, StepOK, Settled, Checking
    <3>2. (ok /\ HostlistCheck(dp, pkt.host)) \in BOOLEAN /\ (ok /\ Excluded(dp, pkt.host)) \in BOOLEAN
      OBVIOUS
    <3> QED BY <1>0, <1>5, <2>4, <3>1, <3>2, ApplyTyped, PlayFrame DEF Check
  <2> QED BY <1>5, <2>1, <2>2, <2>3, <2>4 DEF Play
<1>6. CASE Recv \/ Reloaded
  BY <1>0, <1>6 DEF Recv, Reloaded
<1>7. CASE Load \/ Changed \/ onhup
  BY <1>0, <1>7, LoadFrame, ChangedFrame, HupFrame
<1> QED BY <1>1, <1>2, <1>3, <1>4, <1>5, <1>6, <1>7, NextCases

(* What the engine has in hand keeps its types. *)
HandOK ==
  /\ pc \in Labels /\ back \in Labels /\ todo \in Seq(File) /\ ok \in BOOLEAN
  /\ dp \in Profiles /\ chk \in Checks /\ pkt \in Packets
  /\ goal \in {"none", "first", "discovered"} /\ out \in Outcome

\* The part of it that a search leaves alone.
PacketTyped == pkt \in Packets /\ goal \in {"none", "first", "discovered"} /\ out \in Outcome

(* Idle leaves a typed packet, profile and check in hand. *)
LEMMA IdleHand ==
  ASSUME Idle, out' \in Outcome
  PROVE  HandOK'
BY IdleTyped DEF HandOK

(* So does a verdict. *)
LEMMA VerdictHand ==
  ASSUME HandOK, NEW p \in Packets, NEW kind \in {"passed", "held", "tampered"},
         NEW fresh \in BOOLEAN, Verdict(p, kind, fresh)
  PROVE  HandOK'
BY VerdictTyped, IdleHand DEF HandOK

(* So does the start of a search. *)
LEMMA SearchHand ==
  ASSUME HandOK, NEW p \in Nat, NEW k \in Checks, TryProfile(p, k), PacketTyped'
  PROVE  HandOK'
BY TryTyped DEF HandOK, PacketTyped

(* So does the reload check of a profile. *)
LEMMA ReloadHand ==
  ASSUME HandOK, NEW p \in DOMAIN Profile, NEW l \in Labels, HostlistsReloadCheck(p, l),
         UNCHANGED <<pkt, dp, goal, chk, out>>
  PROVE  HandOK'
<1>1. Profile[p].hl \in Seq(File)
  BY ProfileTyped DEF DesyncProfile
<1> QED BY <1>1 DEF HandOK, HostlistsReloadCheck, Reload, Labels

(* So does the result of the host list check. *)
LEMMA ApplyHand ==
  ASSUME HandOK, dp \in DOMAIN Profile,
         NEW r \in BOOLEAN, NEW x \in BOOLEAN, NEW fresh \in BOOLEAN, Apply(r, x, fresh)
  PROVE  HandOK'
<1> DEFINE kind == IF r /\ Profile[dp].desync THEN "tampered" ELSE "passed"
<1>1. Verdict(pkt, kind, fresh)
  BY DEF Apply
<1>2. kind \in {"passed", "held", "tampered"}
  OBVIOUS
<1> HIDE DEF kind
<1> QED BY <1>1, <1>2, VerdictHand DEF HandOK

(* What the engine has in hand stays typed. *)
LEMMA HandTyped ==
  ASSUME TypeOK, StepOK, Next
  PROVE  HandOK'
<1>0. /\ HandOK /\ PacketTyped /\ todo \in Seq(File) /\ dp \in Profiles /\ chk \in Checks
      /\ pkt \in Packets /\ ok \in BOOLEAN
  BY DEF TypeOK, HandOK, PacketTyped
<1>1. CASE Recv
  <2>1. NoOut \in Outcome
    BY DEF NoOut, Outcome, Profiles
  <2>2. Files \in Seq(File)
    BY ProfileAssumption
  <2>3. pc' \in Labels /\ back' \in Labels /\ todo' \in Seq(File) /\ ok' \in BOOLEAN
    BY <1>0, <1>1, <2>2 DEF Recv, Reload, Goto, Labels, HandOK
  <2> QED BY <1>0, <1>1, <2>1, <2>3 DEF Recv, HandOK
<1>2. CASE Reloaded
  BY <1>0, <1>2 DEF Reloaded, Goto, HandOK, Labels
<1>3. CASE Restart \/ Purge
  <2>1. NoOut \in Outcome
    BY DEF NoOut, Outcome, Profiles
  <2> QED BY <1>0, <1>3, <2>1, IdleHand DEF Restart, Purge, HandOK, load
<1>4. CASE Load
  <2>1. todo # <<>> => Tail(todo) \in Seq(File)
    BY <1>0
  <2>2. CASE KeepList \/ StatChanged \/ ReadList \/ ReadFails
    <3>1. todo # <<>> /\ (todo' = todo \/ todo' = Tail(todo) \/ todo' = <<>>)
      BY <2>2 DEF KeepList, StatChanged, ReadList, ReadFails, AfterFailure, StepOK
    <3>2. pc' = pc /\ back' = back /\ ok' \in BOOLEAN
      BY <1>0, <2>2 DEF KeepList, StatChanged, ReadList, ReadFails
    <3>3. todo' \in Seq(File)
      <4>1. <<>> \in Seq(File)
        OBVIOUS
      <4> QED BY <1>0, <2>1, <3>1, <4>1, Zenon
    <3> QED BY <1>0, <1>4, <3>2, <3>3, LoadFrame DEF HandOK
  <2>3. CASE IncludeReloaded
    <3>1. dp \in DOMAIN Profile
      BY <2>3 DEF IncludeReloaded, At, StepOK, Searching, Settled, Failing, Checking, Reloading
    <3>2. Profile[dp].hlx \in Seq(File)
      BY <3>1, ProfileTyped DEF DesyncProfile
    <3> QED BY <1>0, <2>3, <3>2 DEF IncludeReloaded, Reload, Goto, HandOK, Labels
  <2>4. CASE ExcludeReloaded
    BY <1>0, <2>4 DEF ExcludeReloaded, Goto, HandOK, Labels
  <2> QED BY <1>4, <2>2, <2>3, <2>4 DEF Load
<1>5. CASE DpFind
  <2>1. CASE MatchFilters
    <3>1. dp \in DOMAIN Profile /\ dp + 1 \in Nat
      BY <2>1, ProfileTyped DEF MatchFilters, At, StepOK, Searching
    <3>2. Profile[dp].ips \o Profile[dp].ipsx \in Seq(File)
      BY <3>1, ProfileTyped DEF DesyncProfile
    <3>3. CASE Reload(Profile[dp].ips \o Profile[dp].ipsx, "match") /\ UNCHANGED <<back, dp, chk>>
      BY <1>0, <2>1, <3>2, <3>3 DEF MatchFilters, Reload, HandOK, Labels
    <3>4. CASE TryNext
      <4>1. PacketTyped'
        BY <1>0, <2>1 DEF MatchFilters, PacketTyped
      <4> QED BY <1>0, <3>1, <3>4, <4>1, SearchHand DEF TryNext
    <3> QED BY <2>1, <3>3, <3>4 DEF MatchFilters
  <2>2. CASE Match
    <3> DEFINE byHost == ~Profile[dp].auto /\ ~HostlistsEmpty(dp)
               fits == HostlistCheck(dp, hostname)
               check == IF byHost
                        THEN [done |-> TRUE, result |-> fits, excluded |-> Excluded(dp, hostname)]
                        ELSE chk
    <3>1. dp + 1 \in Nat
      BY <2>2, ProfileTyped DEF Match, At, StepOK, Searching
    <3>2. fits \in BOOLEAN /\ Excluded(dp, hostname) \in BOOLEAN
      BY DEF HostlistCheck, Excluded, SearchAny
    <3>3. check \in Checks
      BY <1>0, <3>2 DEF Checks
    <3>4. PacketTyped'
      BY <1>0, <2>2 DEF Match, PacketTyped
    <3>5. TryNext \/ TryProfile(dp + 1, check) \/ (chk' = check /\ Goto("found") /\ UNCHANGED dp)
      BY <2>2 DEF Match
    <3> HIDE DEF byHost, fits, check
    <3>6. CASE TryNext \/ TryProfile(dp + 1, check)
      BY <1>0, <3>1, <3>3, <3>4, <3>6, SearchHand DEF TryNext
    <3>7. CASE chk' = check /\ Goto("found") /\ UNCHANGED dp
      BY <1>0, <2>2, <3>3, <3>7 DEF Match, HandOK, Goto, Labels
    <3> QED BY <3>5, <3>6, <3>7
  <2>3. CASE Found
    <3>1. CASE Verdict(pkt, "passed", FALSE)
      BY <1>0, <3>1, VerdictHand
    <3>2. CASE chk' = NoCheck /\ Goto("analyse") /\ UNCHANGED <<pkt, dp, goal, out>>
      BY <1>0, <3>2 DEF NoCheck, NoConn, Checks, HandOK, Goto, Labels
    <3>3. CASE Continue("decide")
      BY <1>0, <3>3 DEF Continue, HandOK, Goto, Labels
    <3> QED BY <2>3, <3>1, <3>2, <3>3 DEF Found
  <2>4. CASE \E p \in Packets : Lookup(p)
    <3>1. PICK p \in Packets : Lookup(p)
      BY <2>4
    <3>2. conn[p.conn].dp \in Profiles
      BY DEF TypeOK, Track, Packets
    <3>3. CASE pkt' = p /\ dp' = conn[p.conn].dp /\ Goto("analyse") /\ UNCHANGED <<goal, chk, out>>
      BY <1>0, <3>2, <3>3 DEF HandOK, Goto, Labels
    <3>4. CASE Verdict(p, "passed", FALSE)
      BY <1>0, <3>4, VerdictHand
    <3>5. CASE pkt' = p /\ Search("first") /\ UNCHANGED out
      <4>1. PacketTyped' /\ TryProfile(1, chk)
        BY <1>0, <3>5 DEF PacketTyped, Search
      <4> QED BY <1>0, <4>1, SearchHand
    <3> QED BY <3>1, <3>3, <3>4, <3>5 DEF Lookup
  <2> QED BY <1>5, <2>1, <2>2, <2>3, <2>4 DEF DpFind
<1>6. CASE AutoHostlist
  <2>1. CASE Retrans
    <3>1. dp \in DOMAIN Profile
      BY <2>1 DEF Retrans, At, StepOK, Settled
    <3>2. CASE HostlistsReloadCheck(dp, "recheck")
      <4>1. "recheck" \in Labels
        BY DEF Labels
      <4> QED BY <1>0, <2>1, <3>1, <3>2, <4>1, ReloadHand DEF Retrans
    <3>3. CASE Goto("classify")
      BY <1>0, <2>1, <3>3 DEF Retrans, HandOK, Goto, Labels
    <3> QED BY <2>1, <3>2, <3>3 DEF Retrans
  <2>2. CASE Recheck
    BY <1>0, <2>2 DEF Recheck, HandOK, Goto, Labels
  <2>3. CASE AddToPool \/ AppendToFile \/ SignList
    BY <1>0, <2>3 DEF AddToPool, AppendToFile, SignList, HandOK, Goto, Labels
  <2> QED BY <1>6, <2>1, <2>2, <2>3 DEF AutoHostlist
<1>7. CASE Play
  <2>1. CASE Classify
    BY <1>0, <2>1, VerdictHand DEF Classify, Continue, HandOK, Goto, Labels
  <2>2. CASE Discover
    <3>1. CASE Search("discovered")
      <4>1. PacketTyped' /\ TryProfile(1, chk)
        BY <1>0, <2>2, <3>1 DEF Discover, PacketTyped, Search
      <4> QED BY <1>0, <4>1, SearchHand
    <3>2. CASE chk' = conn[c].chk /\ goal' = "none" /\ Goto("decide") /\ UNCHANGED dp
      <4>1. conn[c].chk \in Checks
        BY DEF TypeOK, Track, Packets, c
      <4> QED BY <1>0, <2>2, <3>2, <4>1 DEF Discover, HandOK, Goto, Labels
    <3> QED BY <2>2, <3>1, <3>2 DEF Discover
  <2>3. CASE Decide
    <3>1. dp \in DOMAIN Profile
      BY <2>3 DEF Decide, At, StepOK, Settled
    <3>2. CASE ~ByHostlist
      BY <1>0, <2>3, <3>2, VerdictHand DEF Decide
    <3>3. CASE Apply(chk.result, chk.excluded, goal = "discovered")
      BY <1>0, <3>1, <3>3, ApplyHand DEF Checks
    <3>4. CASE HostlistsReloadCheck(dp, "check") /\ UNCHANGED <<conn, pkt, dp, goal, chk, out>>
      <4>1. "check" \in Labels
        BY DEF Labels
      <4> QED BY <1>0, <3>1, <3>4, <4>1, ReloadHand
    <3> QED BY <2>3, <3>2, <3>3, <3>4 DEF Decide
  <2>4. CASE Check
    <3>1. dp \in DOMAIN Profile
      BY <2>4 DEF Check, At, StepOK, Settled, Checking
    <3>2. (ok /\ HostlistCheck(dp, pkt.host)) \in BOOLEAN /\ (ok /\ Excluded(dp, pkt.host)) \in BOOLEAN
      OBVIOUS
    <3> QED BY <1>0, <2>4, <3>1, <3>2, ApplyHand DEF Check
  <2> QED BY <1>7, <2>1, <2>2, <2>3, <2>4 DEF Play
<1>8. CASE Changed \/ onhup
  BY <1>0, <1>8, ChangedFrame, HupFrame DEF HandOK
<1> QED BY <1>1, <1>2, <1>3, <1>4, <1>5, <1>6, <1>7, <1>8, NextCases

(* Every step keeps the types. *)
LEMMA NextTyped ==
  ASSUME TypeOK, StepOK, EntryOK, PacketOK, Next
  PROVE  TypeOK'
BY FilesTyped, ListsTyped, EntriesTyped, HandTyped, Zenon
   DEF FilesOK, ListsOK, EntriesOK, HandOK, HFiles, TypeOK

-----------------------------------------------------------------------------
(* Where the engine is *)


(* The default profile has no lists and no filters. *)
LEMMA LastProfile ==
  /\ Len(Profile) \in DOMAIN Profile
  /\ LET last == Profile[Len(Profile)]
     IN  /\ last.filter_l7 = {} /\ ~last.auto
         /\ last.hl = <<>> /\ last.hlx = <<>> /\ last.ips = <<>> /\ last.ipsx = <<>>
BY ProfileAssumption, ProfileTyped

(* Neither its filters nor its lists keep a connection from it. *)
LEMMA LastMatches ==
  ASSUME dp = Len(Profile)
  PROVE  PassesFilters /\ IpsetCheck(dp) /\ HostlistsEmpty(dp)
<1>1. \A m : CollectionIsEmpty(<<>>) /\ ~SearchAny(<<>>, m, FALSE)
  BY DEF CollectionIsEmpty, SearchAny
<1>2. <<>> \o <<>> = <<>>
  OBVIOUS
<1> QED BY <1>1, <1>2, LastProfile DEF PassesFilters, IpsetCheck, HostlistsEmpty

(* Trying a profile of the list: its reload is next. *)
LEMMA TryStep ==
  ASSUME NEW p \in DOMAIN Profile, NEW k, TryProfile(p, k)
  PROVE  /\ pc' = "hl" /\ back' = "filter" /\ dp' = p /\ chk' = Unchecked(k)
         /\ p = Len(Profile) => ok' /\ todo' = <<>>
BY LastProfile DEF TryProfile, HostlistsReloadCheck, Reload

(* Reloading the lists of a profile in hand. *)
LEMMA ReloadStep ==
  ASSUME NEW p \in DOMAIN Profile, NEW l, HostlistsReloadCheck(p, l)
  PROVE  /\ pc' = "hl" /\ back' = l
         /\ p = Len(Profile) => ok' /\ todo' = <<>>
BY LastProfile DEF HostlistsReloadCheck, Reload

(* The search goes from a profile on to one that there is. *)
LEMMA NextInHand ==
  ASSUME TypeOK, StepOK, pc \in {"filter", "match"}, dp # Len(Profile)
  PROVE  dp + 1 \in DOMAIN Profile
BY ProfileTyped DEF StepOK, Searching

(* Between packets nothing is left to load. *)
LEMMA IdleStep ==
  ASSUME Idle, fsig' = NoSig
  PROVE  StepOK'
BY DEF Idle, StepOK, Searching, Settled, Failing, Checking, Reloading

(* Every step keeps where the engine is. *)
LEMMA StepKept ==
  ASSUME TypeOK, StepOK, Next
  PROVE  StepOK'
<1> USE DEF Searching, Settled, Failing, Checking, Reloading
<1>0. c \in Conn /\ pkt.conn \in Conn
  BY DEF TypeOK, Packets, c
<1>1. CASE Recv \/ Reloaded
  BY <1>1 DEF Recv, Reloaded, At, Reload, Goto, StepOK
<1>2. CASE Restart
  BY <1>2, IdleStep DEF Restart, At, StepOK
<1>3. CASE Purge
  BY <1>3 DEF Purge, At, StepOK, load
<1>4. CASE Load
  <2>1. CASE KeepList \/ StatChanged \/ ReadList \/ ReadFails
    BY <2>1 DEF KeepList, StatChanged, ReadList, ReadFails, AfterFailure, StepOK, c
  <2>2. CASE IncludeReloaded
    BY <2>2, LastProfile DEF IncludeReloaded, At, Reload, Goto, StepOK, c
  <2>3. CASE ExcludeReloaded
    BY <2>3 DEF ExcludeReloaded, At, Goto, StepOK, c
  <2> QED BY <1>4, <2>1, <2>2, <2>3 DEF Load
<1>5. CASE MatchFilters
  <2>1. dp \in DOMAIN Profile /\ fsig' = NoSig
    BY <1>5 DEF MatchFilters, At, StepOK
  <2>2. CASE TryNext
    <3>1. dp # Len(Profile)
      BY <1>5, <2>2, LastMatches, ProfileTyped DEF MatchFilters, At, StepOK, TryNext, TryProfile, HostlistsReloadCheck, Reload
    <3>2. pc' = "hl" /\ back' = "filter" /\ dp' = dp + 1 /\ dp + 1 \in DOMAIN Profile
          /\ (dp + 1 = Len(Profile) => ok' /\ todo' = <<>>)
      BY <1>5, <2>2, <3>1, NextInHand, TryStep DEF MatchFilters, At, TryNext
    <3> QED BY <2>1, <3>2 DEF StepOK
  <2>3. CASE Reload(Profile[dp].ips \o Profile[dp].ipsx, "match") /\ UNCHANGED <<back, dp, chk>>
    <3>1. dp = Len(Profile) => Profile[dp].ips \o Profile[dp].ipsx = <<>>
      BY LastProfile
    <3> QED BY <2>1, <2>3, <3>1 DEF Reload, StepOK
  <2> QED BY <1>5, <2>2, <2>3 DEF MatchFilters
<1>6. CASE Match
  <2>1. dp \in DOMAIN Profile /\ fsig' = NoSig
    BY <1>6 DEF Match, At, StepOK
  <2>2. CASE dp = Len(Profile)
    <3>1. ok /\ IpsetCheck(dp) /\ HostlistsEmpty(dp)
      BY <1>6, <2>2, LastMatches DEF Match, At, StepOK
    <3>2. Goto("found") /\ dp' = dp
      BY <1>6, <3>1 DEF Match
    <3> QED BY <1>6, <2>1, <3>2 DEF Match, At, Goto, StepOK
  <2>3. CASE dp # Len(Profile)
    <3>1. dp + 1 \in DOMAIN Profile
      BY <1>6, <2>3, NextInHand DEF Match, At
    <3>2. (\E k : TryProfile(dp + 1, k)) \/ (Goto("found") /\ dp' = dp)
      BY <1>6, Zenon DEF Match, TryNext
    <3>3. CASE \E k : TryProfile(dp + 1, k)
      <4>1. pc' = "hl" /\ back' = "filter" /\ dp' = dp + 1 /\ (dp + 1 = Len(Profile) => ok' /\ todo' = <<>>)
        BY <3>1, <3>3, TryStep
      <4> QED BY <2>1, <3>1, <4>1 DEF StepOK
    <3>4. CASE Goto("found") /\ dp' = dp
      BY <1>6, <2>1, <3>4 DEF Match, At, Goto, StepOK
    <3> QED BY <3>2, <3>3, <3>4
  <2> QED BY <2>2, <2>3
<1>7. CASE Found
  <2>1. dp \in DOMAIN Profile /\ fsig' = NoSig /\ todo = <<>> /\ dp # NoProfile
    BY <1>7, ProfileTyped DEF Found, At, StepOK
  <2>2. conn'[c].dp = dp
    BY <1>0, <1>7 DEF Found, TypeOK, Track
  <2>3. pc' \in {"analyse", "decide"} /\ UNCHANGED <<todo, dp, pkt>>
    BY <1>7, <2>1 DEF Found, Goto, Continue
  <2> QED BY <2>1, <2>2, <2>3 DEF StepOK, c
<1>8. CASE \E p \in Packets : Lookup(p)
  <2>1. PICK p \in Packets : Lookup(p)
    BY <1>8
  <2>2. fsig' = NoSig /\ todo = <<>> /\ UNCHANGED conn
    BY <2>1 DEF Lookup, At, StepOK
  <2>3. CASE conn[p.conn].dp # NoProfile
    <3>1. pkt' = p /\ dp' = conn[p.conn].dp /\ Goto("analyse")
      BY <2>1, <2>3 DEF Lookup
    <3>2. dp' \in DOMAIN Profile
      BY <2>3, <3>1 DEF TypeOK, Track, Packets, Profiles
    <3> QED BY <2>2, <3>1, <3>2 DEF Goto, StepOK, c
  <2>4. CASE Verdict(p, "passed", FALSE)
    BY <2>2, <2>4, IdleStep DEF Verdict
  <2>5. CASE Search("first")
    <3>1. 1 \in DOMAIN Profile
      BY LastProfile, ProfileTyped
    <3>2. pc' = "hl" /\ back' = "filter" /\ dp' = 1 /\ (1 = Len(Profile) => ok' /\ todo' = <<>>)
      BY <2>5, <3>1, TryStep DEF Search
    <3> QED BY <2>2, <3>1, <3>2 DEF StepOK
  <2> QED BY <2>1, <2>3, <2>4, <2>5 DEF Lookup
<1>9. CASE Retrans
  <2>1. dp \in DOMAIN Profile /\ conn[c].dp = dp /\ fsig' = NoSig /\ todo = <<>>
    BY <1>9 DEF Retrans, At, StepOK
  <2>2. conn'[c].dp = conn[c].dp /\ UNCHANGED <<pkt, dp>>
    BY <1>0, <1>9 DEF Retrans, TypeOK, Track
  <2>3. CASE HostlistsReloadCheck(dp, "recheck")
    <3>1. pc' = "hl" /\ back' = "recheck" /\ (dp = Len(Profile) => ok' /\ todo' = <<>>)
      BY <2>1, <2>3, ReloadStep
    <3> QED BY <2>1, <2>2, <3>1 DEF StepOK, c
  <2>4. CASE Goto("classify")
    BY <2>1, <2>2, <2>4 DEF Goto, StepOK, c
  <2> QED BY <1>9, <2>3, <2>4 DEF Retrans
<1>10. CASE Recheck \/ AddToPool \/ AppendToFile \/ SignList
  BY <1>10 DEF Recheck, AddToPool, AppendToFile, SignList, At, Goto, StepOK, c
<1>11. CASE Classify
  <2>1. dp \in DOMAIN Profile /\ conn[c].dp = dp /\ fsig' = NoSig /\ todo = <<>>
    BY <1>11 DEF Classify, At, StepOK
  <2>2. conn'[c].dp = conn[c].dp
    BY <1>0, <1>11 DEF Classify, TypeOK, Track
  <2>3. CASE Idle
    BY <2>1, <2>3, IdleStep
  <2>4. CASE Continue("discover")
    BY <2>1, <2>2, <2>4 DEF Continue, Goto, StepOK, c
  <2> QED BY <1>11, <2>3, <2>4 DEF Classify, Verdict
<1>12. CASE Discover
  <2>1. dp \in DOMAIN Profile /\ conn[c].dp = dp /\ fsig' = NoSig /\ todo = <<>> /\ UNCHANGED pkt
    BY <1>12 DEF Discover, At, StepOK
  <2>2. conn'[c].dp = conn[c].dp
    BY <1>0, <1>12 DEF Discover, TypeOK, Track
  <2>3. CASE Search("discovered")
    <3>1. 1 \in DOMAIN Profile
      BY LastProfile, ProfileTyped
    <3>2. pc' = "hl" /\ back' = "filter" /\ dp' = 1 /\ (1 = Len(Profile) => ok' /\ todo' = <<>>)
      BY <2>3, <3>1, TryStep DEF Search
    <3> QED BY <2>1, <3>1, <3>2 DEF StepOK
  <2>4. CASE Goto("decide") /\ UNCHANGED dp
    BY <2>1, <2>2, <2>4 DEF Goto, StepOK, c
  <2> QED BY <1>12, <2>3, <2>4 DEF Discover
<1>13. CASE Decide \/ Check
  <2>1. dp \in DOMAIN Profile /\ conn[c].dp = dp /\ fsig' = NoSig /\ todo = <<>>
    BY <1>13 DEF Decide, Check, At, StepOK
  <2>2. CASE Idle
    BY <2>1, <2>2, IdleStep
  <2>3. CASE HostlistsReloadCheck(dp, "check") /\ UNCHANGED <<conn, pkt, dp, goal, chk, out>>
    <3>1. pc' = "hl" /\ back' = "check" /\ (dp = Len(Profile) => ok' /\ todo' = <<>>)
      BY <2>1, <2>3, ReloadStep
    <3> QED BY <2>1, <2>3, <3>1 DEF StepOK, c
  <2> QED BY <1>13, <2>2, <2>3 DEF Decide, Check, Apply, Verdict
<1>14. CASE Changed \/ onhup
  BY <1>14, ChangedFrame, HupFrame DEF StepOK, c
<1> QED BY <1>1, <1>2, <1>3, <1>4, <1>5, <1>6, <1>7, <1>8, <1>9, <1>10, <1>11, <1>12, <1>13, <1>14,
           NextCases DEF DpFind, AutoHostlist, Play

-----------------------------------------------------------------------------
(* What the entries know *)

\* One entry of EntryOK.
Known(e) ==
  /\ e.hostname_discovered <=> e.hostname # NoHost
  /\ e.hostname_discovered => e.l7proto_discovered
  /\ e.held => e.l7proto # "unknown"
  /\ e.hostname_ah_check =>
       /\ e.hostname_discovered
       /\ e.dp \in DOMAIN Profile /\ Profile[e.dp].auto

(* A step that changes the entry of its packet only keeps the others. *)
LEMMA EntryOfPacket ==
  ASSUME EntryOK, Known(conn'[c]), \A x \in Conn : x # c => conn'[x] = conn[x]
  PROVE  EntryOK'
BY DEF EntryOK, Known

(* The result of the host list check is entered on the profile in hand. *)
LEMMA ApplyEntry ==
  ASSUME TypeOK, StepOK, EntryOK, PacketOK, pc \in {"decide", "check"}, pkt.host # NoHost,
         NEW r \in BOOLEAN, NEW x \in BOOLEAN, NEW fresh, Apply(r, x, fresh)
  PROVE  EntryOK'
<1>1. c \in Conn /\ conn[c] \in Track
  BY DEF TypeOK, Packets, c
<1>2. dp \in DOMAIN Profile /\ conn[c].dp = dp /\ conn[c].hostname_discovered
  BY DEF StepOK, Settled, PacketOK, Checking
<1> DEFINE ah == IF r THEN conn[c].hostname_ah_check ELSE Profile[dp].auto /\ ~x
           n == IF r THEN StopRetrans(conn[c]) ELSE conn[c].req_retrans_counter
<1>3. conn' = [conn EXCEPT ![c].hostname_ah_check = ah, ![c].req_retrans_counter = n]
  BY Zenon DEF Apply
<1>4. ah => conn[c].hostname_ah_check \/ Profile[dp].auto
  OBVIOUS
<1>5. Known(conn[c])
  BY <1>1 DEF EntryOK, Known
<1> HIDE DEF ah, n
<1>6. Known(conn'[c])
  BY <1>1, <1>2, <1>3, <1>4, <1>5 DEF Known, TypeOK, Track
<1>7. \A y \in Conn : y # c => conn'[y] = conn[y]
  BY <1>1, <1>3 DEF TypeOK
<1> QED BY <1>6, <1>7, EntryOfPacket

(* Every step keeps what the entries know. *)
LEMMA EntryKept ==
  ASSUME TypeOK, StepOK, EntryOK, PacketOK, Next
  PROVE  EntryOK'
<1>0. /\ c \in Conn /\ conn[c] \in Track /\ Known(conn[c])
      /\ pkt.l7 \in L7 /\ pkt.host \in Host \union {NoHost}
  BY DEF TypeOK, Packets, c, EntryOK, Known
<1>1. CASE Restart \/ Purge
  <2>1. Known(NoConn)
    BY DEF Known, NoConn
  <2>2. \A y \in Conn : conn'[y] = NoConn \/ conn'[y] = conn[y]
    BY <1>1 DEF Restart, Purge, TypeOK
  <2>3. \A y \in Conn : Known(conn'[y])
    BY <2>1, <2>2 DEF EntryOK, Known
  <2> QED BY <2>3 DEF EntryOK, Known
<1>2. CASE Found
  <2>1. dp \in DOMAIN Profile /\ ~conn[c].hostname_ah_check
    BY <1>2 DEF Found, At, StepOK, PacketOK, Searching
  <2>2. Known(conn'[c])
    BY <1>0, <1>2, <2>1 DEF Found, Known, TypeOK, Track
  <2>3. \A y \in Conn : y # c => conn'[y] = conn[y]
    BY <1>0, <1>2 DEF Found, TypeOK
  <2> QED BY <2>2, <2>3, EntryOfPacket
<1>3. CASE Retrans
  <2>1. Known(conn'[c])
    BY <1>0, <1>3 DEF Retrans, Known, TypeOK, Track
  <2>2. \A y \in Conn : y # c => conn'[y] = conn[y]
    BY <1>0, <1>3 DEF Retrans, TypeOK
  <2> QED BY <2>1, <2>2, EntryOfPacket
<1>4. CASE Classify
  <2>1. Known(conn'[c])
    BY <1>0, <1>4 DEF Classify, PacketOK, Known, TypeOK, Track
  <2>2. \A y \in Conn : y # c => conn'[y] = conn[y]
    BY <1>0, <1>4 DEF Classify, TypeOK
  <2> QED BY <2>1, <2>2, EntryOfPacket
<1>5. CASE Discover
  <2>1. pkt.host # NoHost => conn[c].l7proto # "unknown"
    BY <1>5 DEF Discover, At, PacketOK
  <2>2. Known(conn'[c])
    BY <1>0, <1>5, <2>1 DEF Discover, NewL7, Known, TypeOK, Track
  <2>3. \A y \in Conn : y # c => conn'[y] = conn[y]
    BY <1>0, <1>5 DEF Discover, TypeOK
  <2> QED BY <2>2, <2>3, EntryOfPacket
<1>6. CASE Decide
  <2>1. CASE Apply(chk.result, chk.excluded, goal = "discovered") /\ ByHostlist
    <3>1. chk.result \in BOOLEAN /\ chk.excluded \in BOOLEAN
      BY DEF TypeOK, Checks
    <3> QED BY <1>6, <2>1, <3>1, ApplyEntry DEF Decide, At, ByHostlist
  <2>2. CASE UNCHANGED conn
    BY <2>2 DEF EntryOK
  <2> QED BY <1>6, <2>1, <2>2 DEF Decide
<1>7. CASE Check
  <2>1. (ok /\ HostlistCheck(dp, pkt.host)) \in BOOLEAN /\ (ok /\ Excluded(dp, pkt.host)) \in BOOLEAN
    OBVIOUS
  <2> QED BY <1>7, <2>1, ApplyEntry DEF Check, At, PacketOK, Checking
<1>8. CASE Recv \/ Reloaded \/ Load \/ MatchFilters \/ Match \/ (\E p \in Packets : Lookup(p))
           \/ Recheck \/ AddToPool \/ AppendToFile \/ SignList \/ Changed \/ onhup
  <2>1. UNCHANGED conn
    BY <1>8, LoadFrame, ChangedFrame, HupFrame
       DEF Recv, Reloaded, MatchFilters, Match, Lookup, Recheck, AddToPool, AppendToFile, SignList
  <2> QED BY <2>1 DEF EntryOK
<1> QED BY <1>1, <1>2, <1>3, <1>4, <1>5, <1>6, <1>7, <1>8, NextCases DEF DpFind, AutoHostlist, Play

-----------------------------------------------------------------------------
(* The packet in hand *)

(* Between packets there is none in hand. *)
LEMMA IdlePacket ==
  ASSUME Idle
  PROVE  PacketOK'
BY NoPacketTyped DEF Idle, PacketOK, Searching, Failing, Checking, Reloading

(* A search begins without an automatic list being filled. *)
LEMMA SearchPacket ==
  ASSUME TypeOK, PacketOK, UNCHANGED <<pkt, conn>>, pc \in {"filter", "match"},
         NEW p \in DOMAIN Profile, NEW k, TryProfile(p, k), UNCHANGED goal
  PROVE  PacketOK'
<1>1. pc' = "hl" /\ back' = "filter"
  BY TryStep
<1> QED BY <1>1 DEF PacketOK, Searching, Failing, Checking, Reloading, c, hostname

(* Every step keeps what the packet has to do with its entry. *)
LEMMA PacketKept ==
  ASSUME TypeOK, StepOK, EntryOK, PacketOK, Next
  PROVE  PacketOK'
<1> USE DEF Searching, Failing, Checking, Reloading
<1>0. /\ c \in Conn /\ conn[c] \in Track /\ Known(conn[c])
      /\ pkt.l7 \in L7 /\ pkt.host \in Host \union {NoHost}
  BY DEF TypeOK, Packets, c, EntryOK, Known
<1>1. CASE Recv \/ Reloaded \/ Purge
  BY <1>1, NoPacketTyped DEF Recv, Reloaded, Purge, At, Reload, Goto, load, PacketOK, c, hostname
<1>2. CASE Restart
  BY <1>2, IdlePacket DEF Restart
<1>3. CASE Load
  <2>1. CASE KeepList \/ StatChanged \/ ReadList \/ ReadFails
    BY <2>1 DEF KeepList, StatChanged, ReadList, ReadFails, PacketOK, c, hostname
  <2>2. CASE IncludeReloaded \/ ExcludeReloaded
    BY <2>2 DEF IncludeReloaded, ExcludeReloaded, At, Reload, Goto, PacketOK, StepOK, c, hostname
  <2> QED BY <1>3, <2>1, <2>2 DEF Load
<1>4. CASE MatchFilters
  <2>1. CASE TryNext
    <3>1. dp # Len(Profile)
      BY <1>4, <2>1, LastMatches, ProfileTyped DEF MatchFilters, At, StepOK, TryNext, TryProfile, HostlistsReloadCheck, Reload
    <3>2. dp + 1 \in DOMAIN Profile
      BY <1>4, <3>1, NextInHand DEF MatchFilters, At
    <3> QED BY <1>4, <2>1, <3>2, SearchPacket DEF MatchFilters, At, TryNext
  <2>2. CASE pc' = "match"
    BY <1>4, <2>2 DEF MatchFilters, At, PacketOK, c, hostname
  <2> QED BY <1>4, <2>1, <2>2 DEF MatchFilters, Reload
<1>5. CASE Match
  <2>1. CASE \E k : TryProfile(dp + 1, k) /\ dp # Len(Profile)
    <3>1. dp + 1 \in DOMAIN Profile
      BY <1>5, <2>1, NextInHand DEF Match, At
    <3> QED BY <1>5, <2>1, <3>1, SearchPacket DEF Match, At
  <2>2. CASE pc' = "found"
    BY <1>5, <2>2 DEF Match, At, PacketOK, c, hostname
  <2>3. dp = Len(Profile) => Goto("found")
    BY <1>5, LastMatches DEF Match, At, StepOK
  <2>4. (\E k : TryProfile(dp + 1, k)) \/ Goto("found")
    BY <1>5, Zenon DEF Match, TryNext
  <2> QED BY <2>1, <2>2, <2>3, <2>4 DEF Goto
<1>6. CASE Found
  <2>1. CASE Idle
    BY <2>1, IdlePacket
  <2>2. CASE ~Idle
    <3>1. pc' = (IF goal = "first" THEN "analyse" ELSE "decide") /\ UNCHANGED <<pkt, goal>>
      BY <1>6, <2>2 DEF Found, Verdict, Continue, Goto
    <3>2. /\ conn'[c].l7proto = conn[c].l7proto
          /\ conn'[c].hostname_discovered = conn[c].hostname_discovered
      BY <1>0, <1>6 DEF Found, TypeOK, Track
    <3> QED BY <1>6, <3>1, <3>2 DEF Found, At, PacketOK, c, hostname
  <2> QED BY <2>1, <2>2
<1>7. CASE \E p \in Packets : Lookup(p)
  <2>1. PICK p \in Packets : Lookup(p)
    BY <1>7
  <2>2. CASE Idle
    BY <2>2, IdlePacket
  <2>3. CASE ~Idle
    <3>1. pkt' = p /\ UNCHANGED conn /\ CanArrive(p) /\ p.conn \in Conn /\ Known(conn[p.conn])
      BY <2>1, <2>3 DEF Lookup, Verdict, EntryOK, Known, Packets
    <3>2. CASE pc' = "analyse"
      BY <2>1, <3>1, <3>2 DEF Lookup, CanArrive, PacketOK, Known, c, hostname
    <3>3. CASE conn[p.conn].dp = NoProfile /\ Search("first")
      <4>1. 1 \in DOMAIN Profile /\ NoProfile \notin DOMAIN Profile
        BY LastProfile, ProfileTyped
      <4>2. pc' = "hl" /\ back' = "filter" /\ goal' = "first"
        BY <3>3, <4>1, TryStep DEF Search
      <4>3. ~conn[p.conn].hostname_ah_check
        BY <3>1, <3>3, <4>1 DEF Known
      <4> QED BY <2>1, <3>1, <4>2, <4>3 DEF CanArrive, PacketOK, Known, c, hostname
    <3> QED BY <2>1, <2>3, <3>2, <3>3 DEF Lookup, Verdict, Goto
  <2> QED BY <2>2, <2>3
<1>8. CASE Retrans
  <2>1. /\ conn'[c].l7proto = conn[c].l7proto
        /\ conn'[c].hostname_discovered = conn[c].hostname_discovered
        /\ conn'[c].hostname = conn[c].hostname
        /\ conn'[c].hostname_ah_check = conn[c].hostname_ah_check
    BY <1>0, <1>8 DEF Retrans, TypeOK, Track
  <2>2. \/ pc' = "hl" /\ back' = "recheck" /\ hostname # NoHost /\ conn[c].hostname_ah_check
        \/ pc' = "classify"
    BY <1>8 DEF Retrans, HostlistsReloadCheck, Reload, Goto, Counts
  <2> QED BY <1>8, <2>1, <2>2 DEF Retrans, At, PacketOK, c, hostname
<1>9. CASE Recheck \/ AddToPool \/ AppendToFile \/ SignList
  BY <1>9 DEF Recheck, AddToPool, AppendToFile, SignList, At, Goto, PacketOK, c, hostname
<1>10. CASE Classify
  <2>1. CASE Idle
    BY <2>1, IdlePacket
  <2>2. CASE ~Idle
    <3>1. pc' = "discover" /\ UNCHANGED <<pkt, goal>>
      BY <1>10, <2>2 DEF Classify, Verdict, Continue, Goto
    <3>2. /\ conn'[c].l7proto = IF pkt.kind # "replay" /\ conn[c].l7proto = "unknown" THEN pkt.l7 ELSE conn[c].l7proto
      BY <1>0, <1>10 DEF Classify, TypeOK, Track
    <3> QED BY <1>10, <3>1, <3>2 DEF Classify, At, PacketOK, c, hostname
  <2> QED BY <2>1, <2>2
<1>11. CASE Discover
  <2>1. /\ conn'[c].l7proto = conn[c].l7proto
        /\ conn'[c].hostname_discovered = (conn[c].hostname_discovered \/ pkt.host # NoHost)
        /\ conn'[c].hostname_ah_check = conn[c].hostname_ah_check
    BY <1>0, <1>11 DEF Discover, TypeOK, Track
  <2>2. CASE Search("discovered")
    <3>1. 1 \in DOMAIN Profile
      BY LastProfile, ProfileTyped
    <3>2. pc' = "hl" /\ back' = "filter" /\ goal' = "discovered"
      BY <2>2, <3>1, TryStep DEF Search
    <3>3. NewL7 \/ (pkt.host # NoHost /\ ~conn[c].hostname_discovered) => ~conn[c].hostname_ah_check
      BY <1>0 DEF Known, NewL7
    <3>4. ~conn[c].hostname_ah_check
      BY <1>11, <2>2, <3>3 DEF Discover, Search
    <3> QED BY <1>11, <2>1, <3>2, <3>4 DEF Discover, PacketOK, c, hostname
  <2>3. CASE Goto("decide")
    BY <1>11, <2>1, <2>3 DEF Discover, Goto, PacketOK, c, hostname
  <2> QED BY <1>11, <2>2, <2>3 DEF Discover
<1>12. CASE Decide \/ Check
  <2>1. CASE Idle
    BY <2>1, IdlePacket
  <2>2. CASE ~Idle
    <3>1. /\ HostlistsReloadCheck(dp, "check") /\ UNCHANGED <<conn, pkt, dp, goal, chk, out>>
          /\ pkt.host # NoHost /\ pc = "decide"
      BY <1>12, <2>2 DEF Decide, Check, Apply, Verdict, ByHostlist, At
    <3>2. pc' = "hl" /\ back' = "check"
      BY <3>1 DEF HostlistsReloadCheck, Reload
    <3> QED BY <3>1, <3>2 DEF PacketOK, c, hostname
  <2> QED BY <2>1, <2>2
<1>13. CASE Changed \/ onhup
  BY <1>13, ChangedFrame, HupFrame DEF PacketOK, c, hostname
<1> QED BY <1>1, <1>2, <1>3, <1>4, <1>5, <1>6, <1>7, <1>8, <1>9, <1>10, <1>11, <1>12, <1>13,
           NextCases DEF DpFind, AutoHostlist, Play

-----------------------------------------------------------------------------
(* Signatures *)

(* The signatures are numbers, the one on disk never that of an unread list. *)
LEMMA SigTyped ==
  ASSUME TypeOK
  PROVE  /\ \A f \in File : hfile[f].sig \in Nat /\ disk[f].sig \in Nat \ {0}
         /\ fsig \in Nat /\ hfile \in HFiles
BY BoundAssumption DEF TypeOK, DiskFile, ListFile, HFiles

(* Filling the automatic lists changes nothing of what SignatureOK says. *)
LEMMA FillSignature ==
  ASSUME TypeOK, SignatureOK, fsig = NoSig, fsig' = NoSig, UNCHANGED disk,
         hfile' = MakeAutolistsNonEmpty
  PROVE  SignatureOK'
<1>1. /\ \A f \in File : hfile'[f].sig = hfile[f].sig
      /\ \A f \in File \ AutoFile : hfile'[f] = hfile[f]
  BY FillTyped, SigTyped DEF MakeAutolistsNonEmpty
<1> QED BY <1>1 DEF SignatureOK, LoadedIsOnDisk

(* Every step keeps what the signatures say. *)
LEMMA SignatureKept ==
  ASSUME TypeOK, StepOK, EntryOK, PacketOK, SignatureOK, Next
  PROVE  SignatureOK'
<1>0. /\ \A f \in File : hfile[f].sig \in Nat /\ disk[f].sig \in Nat \ {0}
      /\ fsig \in Nat /\ hfile \in HFiles
  BY SigTyped
<1>1. CASE Recv
  <2>1. fsig = NoSig /\ fsig' = NoSig /\ UNCHANGED disk
    BY <1>1 DEF Recv, At, StepOK
  <2>2. CASE UNCHANGED hfile
    BY <2>1, <2>2 DEF SignatureOK, LoadedIsOnDisk
  <2>3. CASE hfile' = [f \in File |-> [hfile[f] EXCEPT !.sig = NoSig]]
    <3>1. \A f \in File : hfile'[f].sig = NoSig
      BY <1>0, <2>3 DEF HFiles, ListFile
    <3> QED BY <1>0, <2>1, <3>1 DEF SignatureOK, LoadedIsOnDisk, NoSig
  <2> QED BY <1>1, <2>2, <2>3 DEF Recv
<1>2. CASE Reloaded
  <2>1. fsig = NoSig /\ fsig' = NoSig /\ UNCHANGED disk
    BY <1>2 DEF Reloaded, At, StepOK, env
  <2>2. CASE UNCHANGED hfile
    BY <2>1, <2>2 DEF SignatureOK, LoadedIsOnDisk
  <2> QED BY <1>2, <2>1, <2>2, FillSignature DEF Reloaded
<1>3. CASE Restart
  <2>1. fsig' = NoSig
    BY <1>3 DEF Restart, At, StepOK
  <2>2. OnDisk \in HFiles
    BY BoundAssumption DEF TypeOK, OnDisk, HFiles, DiskFile, ListFile
  <2>3. /\ \A f \in File : hfile'[f].sig = disk[f].sig
        /\ \A f \in File \ AutoFile : hfile'[f].list = disk[f].list
    <3>1. hfile' = FillAutolists(OnDisk)
      BY <1>3 DEF Restart
    <3>2. /\ \A f \in File : hfile'[f].sig = OnDisk[f].sig
          /\ \A f \in File \ AutoFile : hfile'[f] = OnDisk[f]
      BY <2>2, <3>1, FillTyped
    <3>3. \A f \in File : OnDisk[f].sig = disk[f].sig /\ OnDisk[f].list = disk[f].list
      BY DEF OnDisk
    <3> QED BY <3>2, <3>3, Zenon
  <2>4. \A f \in File : disk'[f].sig = disk[f].sig /\ disk'[f].list = disk[f].list
    BY <1>3 DEF Restart, TypeOK, DiskFile
  <2> QED BY <1>0, <2>1, <2>3, <2>4 DEF SignatureOK, LoadedIsOnDisk
<1>4. CASE Load
  <2>0. UNCHANGED disk
    BY <1>4, LoadFrame DEF env
  <2>1. CASE KeepList
    BY <2>0, <2>1 DEF KeepList, SignatureOK, LoadedIsOnDisk
  <2>2. CASE StatChanged
    <3> DEFINE f == Head(todo)
    <3>1. f \in File /\ fsig = NoSig /\ fsig' = disk[f].sig /\ todo' = todo
      BY <2>2 DEF StatChanged, TypeOK
    <3>2. hfile[f].sig < disk[f].sig
      BY <1>0, <2>2, <3>1 DEF StatChanged, SignatureOK
    <3>3. /\ \A g \in File : hfile'[g].sig = hfile[g].sig
          /\ \A g \in File \ {f} : hfile'[g] = hfile[g]
      BY <1>0, <2>2, <3>1 DEF StatChanged, HFiles, ListFile
    <3> HIDE DEF f
    <3>4. \A g \in File : hfile'[g].sig <= disk'[g].sig
      BY <2>0, <3>3 DEF SignatureOK
    <3>5. fsig' # NoSig => hfile'[f].sig < fsig' /\ fsig' <= disk'[f].sig
      BY <1>0, <2>0, <3>1, <3>2, <3>3
    <3>6. LoadedIsOnDisk'
      BY <1>0, <2>0, <3>1, <3>3 DEF SignatureOK, LoadedIsOnDisk, NoSig, f
    <3> QED BY <3>1, <3>4, <3>5, <3>6 DEF SignatureOK, f
  <2>3. CASE ReadList
    <3> DEFINE f == Head(todo)
    <3>1. f \in File /\ fsig' = NoSig /\ fsig # NoSig
      BY <2>3 DEF ReadList, TypeOK, StepOK
    <3>2. /\ hfile'[f].sig = fsig /\ hfile'[f].list = disk[f].list
          /\ \A g \in File \ {f} : hfile'[g] = hfile[g]
      BY <1>0, <2>3, <3>1 DEF ReadList, HFiles, ListFile
    <3>3. fsig <= disk[f].sig
      BY <3>1 DEF SignatureOK
    <3> HIDE DEF f
    <3>4. \A g \in File \ {f} : hfile[g].sig = disk[g].sig => (g \in AutoFile \/ hfile[g].list = disk[g].list)
      BY DEF SignatureOK, LoadedIsOnDisk, f
    <3> QED BY <2>0, <3>1, <3>2, <3>3, <3>4 DEF SignatureOK, LoadedIsOnDisk
  <2>4. CASE ReadFails
    <3> DEFINE f == Head(todo)
    <3>1. fsig' = NoSig /\ fsig # NoSig /\ UNCHANGED hfile /\ f \in File
      BY <2>4 DEF ReadFails, TypeOK, StepOK
    <3>2. hfile[f].sig # disk[f].sig
      BY <1>0, <3>1 DEF SignatureOK
    <3> HIDE DEF f
    <3>3. LoadedIsOnDisk'
      BY <2>0, <3>1, <3>2 DEF SignatureOK, LoadedIsOnDisk, f
    <3> QED BY <2>0, <3>1, <3>3 DEF SignatureOK
  <2>5. CASE IncludeReloaded \/ ExcludeReloaded
    <3>1. fsig = NoSig /\ fsig' = NoSig /\ (UNCHANGED hfile \/ hfile' = MakeAutolistsNonEmpty)
      BY <2>5 DEF IncludeReloaded, ExcludeReloaded, At, StepOK
    <3>2. CASE UNCHANGED hfile
      BY <2>0, <3>1, <3>2 DEF SignatureOK, LoadedIsOnDisk
    <3> QED BY <2>0, <3>1, <3>2, FillSignature
  <2> QED BY <1>4, <2>1, <2>2, <2>3, <2>4, <2>5 DEF Load
<1>5. CASE AddToPool \/ AppendToFile \/ SignList
  <2>1. AutoList \in File /\ AutoList \in AutoFile /\ fsig = NoSig /\ fsig' = NoSig
    BY <1>5, AutoInHand DEF AddToPool, AppendToFile, SignList, At, Failing, StepOK
  <2>2. /\ \A f \in File \ {AutoList} : hfile'[f] = hfile[f] /\ disk'[f] = disk[f]
        /\ hfile'[AutoList].sig <= disk'[AutoList].sig
    <3>1. CASE AddToPool
      <4>1. UNCHANGED disk /\ hfile'[AutoList].sig = hfile[AutoList].sig
            /\ \A f \in File \ {AutoList} : hfile'[f] = hfile[f]
        BY <1>0, <2>1, <3>1 DEF AddToPool, HFiles, ListFile, env
      <4> QED BY <2>1, <4>1 DEF SignatureOK
    <3>2. CASE AppendToFile
      <4>1. UNCHANGED hfile /\ disk'[AutoList].sig = NextSig(AutoList)
            /\ \A f \in File \ {AutoList} : disk'[f] = disk[f]
        BY <2>1, <3>2 DEF AppendToFile, TypeOK, DiskFile
      <4>2. disk[AutoList].sig <= NextSig(AutoList) /\ NextSig(AutoList) \in Nat
        BY <1>0, <2>1 DEF NextSig
      <4>3. hfile[AutoList].sig <= disk[AutoList].sig
        BY <2>1 DEF SignatureOK
      <4>4. hfile[AutoList].sig <= NextSig(AutoList)
        BY <1>0, <2>1, <4>2, <4>3
      <4> QED BY <4>1, <4>4
    <3>3. CASE SignList
      <4>1. UNCHANGED disk /\ hfile'[AutoList].sig \in {disk[AutoList].sig, NoSig}
            /\ \A f \in File \ {AutoList} : hfile'[f] = hfile[f]
        BY <1>0, <2>1, <3>3 DEF SignList, HFiles, ListFile, env
      <4> QED BY <1>0, <2>1, <4>1 DEF NoSig
    <3> QED BY <1>5, <3>1, <3>2, <3>3
  <2> QED BY <2>1, <2>2 DEF SignatureOK, LoadedIsOnDisk
<1>6. CASE Changed
  <2>1. PICK f \in File : Rewrite(f) \/ Remove(f) \/ Repair(f)
    BY <1>6 DEF Changed
  <2>2. UNCHANGED <<hfile, fsig, todo>>
    BY <1>6, ChangedFrame
  <2>3. CASE Rewrite(f)
    <3>1. disk'[f].sig = disk[f].sig + 1 /\ \A g \in File \ {f} : disk'[g] = disk[g]
      BY <1>0, <2>3, BoundAssumption DEF Rewrite, NextSig, TypeOK, DiskFile
    <3>2. \A g \in File : hfile'[g].sig <= disk'[g].sig /\ disk[g].sig <= disk'[g].sig
      BY <1>0, <2>2, <3>1 DEF SignatureOK
    <3>3. fsig # NoSig => Head(todo) \in File
      BY DEF StepOK, TypeOK
    <3>4. fsig' # NoSig => hfile'[Head(todo)].sig < fsig' /\ fsig' <= disk'[Head(todo)].sig
      BY <1>0, <2>2, <3>1, <3>2, <3>3 DEF SignatureOK
    <3>5. hfile[f].sig # disk'[f].sig
      BY <1>0, <3>1 DEF SignatureOK
    <3>6. LoadedIsOnDisk'
      BY <2>2, <3>1, <3>5 DEF SignatureOK, LoadedIsOnDisk
    <3> QED BY <2>2, <3>2, <3>4, <3>6 DEF SignatureOK
  <2>4. CASE Remove(f) \/ Repair(f)
    <3>1. \A g \in File : disk'[g].sig = disk[g].sig /\ disk'[g].list = disk[g].list
      <4>1. disk \in [File -> DiskFile]
        BY DEF TypeOK
      <4>2. CASE disk' = [disk EXCEPT ![f].there = FALSE]
        BY <4>1, <4>2 DEF DiskFile
      <4>3. CASE disk' = [disk EXCEPT ![f].readable = TRUE]
        BY <4>1, <4>3 DEF DiskFile
      <4> QED BY <2>4, <4>2, <4>3 DEF Remove, Repair
    <3>2. fsig # NoSig => Head(todo) \in File
      BY DEF StepOK, TypeOK
    <3> QED BY <2>2, <3>1, <3>2 DEF SignatureOK, LoadedIsOnDisk
  <2> QED BY <2>1, <2>3, <2>4
<1>7. CASE Purge \/ DpFind \/ Retrans \/ Recheck \/ Play \/ onhup
  <2>1. UNCHANGED <<disk, hfile, fsig>>
    BY <1>7, DpFindFrame, PlayFrame, HupFrame DEF Purge, Retrans, Recheck, load, env
  <2>2. fsig # NoSig => UNCHANGED todo
    BY <1>7, HupFrame DEF Purge, DpFind, MatchFilters, Match, Found, Lookup, Retrans, Recheck, Play,
                Classify, Discover, Decide, Check, At, StepOK, load
  <2> QED BY <2>1, <2>2 DEF SignatureOK, LoadedIsOnDisk
<1> QED BY <1>1, <1>2, <1>3, <1>4, <1>5, <1>6, <1>7, NextCases DEF AutoHostlist

-----------------------------------------------------------------------------
(* The check that a search leaves behind *)

(* Lists that are all empty let every host pass. *)
LEMMA EmptyListsPass ==
  ASSUME NEW p \in DOMAIN Profile, NEW n, HostlistsEmpty(p)
  PROVE  HostlistCheck(p, n)
BY DEF HostlistsEmpty, HostlistCheck, Excluded, SearchAny, CollectionIsEmpty, SearchHostList

(* What the lists say of a host changes with the lists only. *)
LEMMA SameLists ==
  ASSUME UNCHANGED hfile
  PROVE  \A p, n : HostlistCheck(p, n)' <=> HostlistCheck(p, n)
BY DEF HostlistCheck, Excluded, SearchAny, CollectionIsEmpty

(* A verdict that stays fits the lists when they stay. *)
LEMMA SameDecision ==
  ASSUME UNCHANGED <<hfile, out>>, DecisionFitsLists
  PROVE  DecisionFitsLists'
BY SameLists DEF DecisionFitsLists

(* A new verdict fits the lists when it says what they say. *)
LEMMA NewDecision ==
  ASSUME UNCHANGED hfile,
         out'.fresh /\ out'.host # NoHost =>
           (out'.kind = "tampered" <=> HostlistCheck(out'.dp, out'.host) /\ Profile[out'.dp].desync)
  PROVE  DecisionFitsLists'
BY SameLists DEF DecisionFitsLists

(* Before the verdict there is no outcome that could be called fresh. *)
LEMMA Unfresh ==
  ASSUME ~out'.fresh
  PROVE  DecisionFitsLists'
BY DEF DecisionFitsLists

(* Between packets there is no check left. *)
LEMMA IdleCheck ==
  ASSUME Idle, DecisionFitsLists'
  PROVE  CheckOK'
BY NoPacketTyped DEF Idle, CheckOK, Searching, Reloading, NoCheck, NoConn

(* A verdict that is reached by the lists in memory, or not by lists. *)
LEMMA VerdictCheck ==
  ASSUME UNCHANGED hfile, NEW p \in Packets, NEW kind, NEW fresh \in BOOLEAN, Verdict(p, kind, fresh),
         fresh /\ ok /\ p.host # NoHost =>
           (kind = "tampered" <=> HostlistCheck(dp, p.host) /\ Profile[dp].desync)
  PROVE  CheckOK'
<1>1. /\ out'.kind = kind /\ out'.host = p.host /\ out'.dp = dp
      /\ out'.fresh = (fresh /\ ok) /\ Idle
  BY DEF Verdict
<1>2. DecisionFitsLists'
  BY <1>1, NewDecision
<1> QED BY <1>1, <1>2, IdleCheck

(* The result of the host list check is the verdict. *)
LEMMA ApplyCheck ==
  ASSUME UNCHANGED hfile, pkt \in Packets, dp \in DOMAIN Profile,
         NEW r \in BOOLEAN, NEW x, NEW fresh \in BOOLEAN, Apply(r, x, fresh),
         fresh /\ ok => (r <=> HostlistCheck(dp, pkt.host))
  PROVE  CheckOK'
<1> DEFINE kind == IF r /\ Profile[dp].desync THEN "tampered" ELSE "passed"
<1>1. Verdict(pkt, kind, fresh)
  BY DEF Apply
<1>2. kind = "tampered" <=> r /\ Profile[dp].desync
  OBVIOUS
<1> HIDE DEF kind
<1> QED BY <1>1, <1>2, VerdictCheck

(* A step of the search that tries a profile leaves no check done. *)
LEMMA TryCheck ==
  ASSUME ~out.fresh, UNCHANGED out, NEW p \in DOMAIN Profile, NEW k \in Checks, TryProfile(p, k),
         (pkt.host # NoHost /\ goal = "discovered" => hostname = pkt.host)'
  PROVE  CheckOK'
<1>1. pc' = "hl" /\ ~chk'.done
  BY TryStep DEF Unchecked, Checks
<1>2. DecisionFitsLists' /\ ~out'.fresh
  BY Unfresh
<1> QED BY <1>1, <1>2 DEF CheckOK, Searching, Reloading

(* Every step keeps what the check says. *)
LEMMA CheckKept ==
  ASSUME TypeOK, StepOK, EntryOK, PacketOK, CheckOK, Next
  PROVE  CheckOK'
<1> USE DEF Searching, Reloading
<1>0. /\ c \in Conn /\ conn[c] \in Track /\ Known(conn[c]) /\ pkt \in Packets /\ chk \in Checks
      /\ pkt.l7 \in L7 /\ pkt.host \in Host \union {NoHost}
  BY DEF TypeOK, Packets, c, EntryOK, Known
<1>1. CASE Recv
  <2>1. ~out'.fresh /\ DecisionFitsLists'
    BY <1>1, Unfresh DEF Recv, NoOut
  <2> QED BY <1>1, <2>1 DEF Recv, Reload, Goto, At, CheckOK
<1>2. CASE Restart
  <2>1. DecisionFitsLists' /\ Idle
    BY <1>2, Unfresh DEF Restart, NoOut
  <2> QED BY <2>1, IdleCheck
<1>3. CASE Purge
  <2>1. ~out'.fresh /\ DecisionFitsLists'
    BY <1>3, Unfresh DEF Purge, NoOut
  <2> QED BY <1>3, <2>1 DEF Purge, At, load, CheckOK
<1>4. CASE Reloaded
  <2>1. ~out'.fresh /\ DecisionFitsLists'
    BY <1>4, Unfresh DEF Reloaded, At, CheckOK
  <2> QED BY <1>4, <2>1 DEF Reloaded, Goto, At, CheckOK
<1>5. CASE Load
  <2>1. ~out'.fresh /\ DecisionFitsLists'
    BY <1>5, Unfresh DEF Load, KeepList, StatChanged, ReadList, ReadFails, IncludeReloaded,
                    ExcludeReloaded, At, CheckOK, StepOK
  <2>2. CASE KeepList \/ StatChanged \/ ReadList \/ ReadFails
    <3>1. pc \in {"reload", "hl", "hlx", "match"}
      BY <2>2 DEF KeepList, StatChanged, ReadList, ReadFails, CheckOK, StepOK
    <3>2. UNCHANGED <<pc, back, chk, pkt, conn, goal>>
      BY <2>2 DEF KeepList, StatChanged, ReadList, ReadFails
    <3> QED BY <2>1, <3>1, <3>2 DEF CheckOK, c, hostname
  <2>3. CASE IncludeReloaded \/ ExcludeReloaded
    <3>1. /\ pc \in {"hl", "hlx"} /\ (pc' = "hlx" \/ (pc' = back /\ todo' = <<>>))
          /\ UNCHANGED <<back, chk, pkt, conn, goal>>
      BY <2>3 DEF IncludeReloaded, ExcludeReloaded, At, Reload, Goto
    <3>2. back \in {"filter", "recheck", "check"}
      BY <3>1 DEF StepOK
    <3> QED BY <2>1, <3>1, <3>2 DEF CheckOK, c, hostname
  <2> QED BY <1>5, <2>2, <2>3 DEF Load
<1>6. CASE MatchFilters
  <2>1. ~out.fresh /\ UNCHANGED <<out, pkt, goal, conn>>
    BY <1>6 DEF MatchFilters, At, CheckOK
  <2>2. CASE TryNext
    <3>1. dp # Len(Profile)
      BY <1>6, <2>2, LastMatches, ProfileTyped DEF MatchFilters, At, StepOK, TryNext, TryProfile, HostlistsReloadCheck, Reload
    <3>2. dp + 1 \in DOMAIN Profile
      BY <1>6, <3>1, NextInHand DEF MatchFilters, At
    <3>3. (pkt.host # NoHost /\ goal = "discovered" => hostname = pkt.host)'
      BY <1>6, <2>1 DEF MatchFilters, At, CheckOK, c, hostname
    <3> QED BY <1>0, <2>1, <2>2, <3>2, <3>3, TryCheck DEF TryNext
  <2>3. CASE pc' = "match" /\ UNCHANGED <<back, dp, chk>>
    <3>1. DecisionFitsLists' /\ ~out'.fresh
      BY <2>1, Unfresh
    <3> QED BY <1>6, <2>1, <2>3, <3>1 DEF MatchFilters, At, CheckOK, c, hostname
  <2> QED BY <1>6, <2>2, <2>3 DEF MatchFilters, Reload
<1>7. CASE Match
  <2> DEFINE byHost == ~Profile[dp].auto /\ ~HostlistsEmpty(dp)
             fits == HostlistCheck(dp, hostname)
             check == IF byHost
                      THEN [done |-> TRUE, result |-> fits, excluded |-> Excluded(dp, hostname)]
                      ELSE chk
  <2>1. ~out.fresh /\ ~chk.done /\ todo = <<>> /\ UNCHANGED <<out, pkt, goal, conn, hfile>>
    BY <1>7 DEF Match, At, CheckOK
  <2>2. (pkt.host # NoHost /\ goal = "discovered" => hostname = pkt.host)'
    BY <1>7, <2>1 DEF Match, At, CheckOK, c, hostname
  <2>3. check \in Checks
    <3>1. fits \in BOOLEAN /\ Excluded(dp, hostname) \in BOOLEAN
      BY DEF HostlistCheck, Excluded, SearchAny
    <3> QED BY <1>0, <3>1 DEF Checks
  <2>4. CASE \E k \in Checks : TryProfile(dp + 1, k) /\ dp # Len(Profile)
    <3>1. dp + 1 \in DOMAIN Profile
      BY <1>7, <2>4, NextInHand DEF Match, At
    <3> QED BY <2>1, <2>2, <2>4, <3>1, TryCheck
  <2>5. CASE chk' = check /\ Goto("found") /\ UNCHANGED dp /\ (byHost => fits)
    <3>1. DecisionFitsLists' /\ ~out'.fresh
      BY <2>1, Unfresh
    <3>2. chk'.done => chk'.result /\ HostlistCheck(dp, hostname)
      BY <2>1, <2>5
    <3>3. hostname' = hostname /\ dp' = dp
      BY <2>1, <2>5 DEF hostname, c
    <3>4. chk'.done => chk'.result /\ HostlistCheck(dp, hostname)'
      BY <2>1, <3>2, <3>3, SameLists
    <3> QED BY <2>1, <2>2, <2>5, <3>1, <3>4 DEF Goto, CheckOK
  <2>6. dp = Len(Profile) => chk' = check /\ Goto("found") /\ UNCHANGED dp /\ ~byHost
    BY <1>7, LastMatches DEF Match, At, StepOK
  <2>7. TryProfile(dp + 1, chk) \/ TryProfile(dp + 1, check)
        \/ (chk' = check /\ Goto("found") /\ UNCHANGED dp /\ (byHost => fits))
    BY <1>7, Zenon DEF Match, TryNext
  <2> HIDE DEF byHost, fits, check
  <2> QED BY <1>0, <2>3, <2>4, <2>5, <2>6, <2>7
<1>8. CASE Found
  <2>1. ~out.fresh /\ UNCHANGED hfile
    BY <1>8 DEF Found, At, CheckOK
  <2>2. CASE Verdict(pkt, "passed", FALSE)
    BY <1>0, <2>1, <2>2, VerdictCheck
  <2>3. CASE ~Verdict(pkt, "passed", FALSE)
    <3>1. /\ UNCHANGED <<out, pkt, dp, goal, todo>> /\ todo = <<>>
          /\ pc' = (IF goal = "first" THEN "analyse" ELSE "decide")
          /\ goal = "first" \/ UNCHANGED chk
      BY <1>8, <2>3 DEF Found, Goto, Continue, At
    <3>2. conn'[c].hostname = conn[c].hostname
      BY <1>0, <1>8 DEF Found, TypeOK, Track
    <3>3. DecisionFitsLists' /\ ~out'.fresh
      BY <2>1, <3>1, Unfresh
    <3>4. hostname' = hostname
      BY <3>1, <3>2 DEF hostname, c
    <3>5. goal = "discovered" /\ chk.done => chk.result /\ HostlistCheck(dp, hostname)
      BY <1>8 DEF Found, At, CheckOK
    <3>6. goal' = "discovered" /\ pc' = "decide" /\ chk'.done => chk'.result /\ HostlistCheck(dp, hostname)'
      BY <2>1, <3>1, <3>4, <3>5, SameLists
    <3>7. pkt.host # NoHost /\ goal = "discovered" => hostname = pkt.host
      BY <1>8 DEF Found, At, CheckOK
    <3> QED BY <3>1, <3>3, <3>4, <3>6, <3>7 DEF CheckOK
  <2> QED BY <2>2, <2>3
<1>9. CASE \E p \in Packets : Lookup(p)
  <2>1. PICK p \in Packets : Lookup(p)
    BY <1>9
  <2>2. ~out.fresh /\ UNCHANGED <<hfile, conn>> /\ todo = <<>>
    BY <2>1 DEF Lookup, At, CheckOK
  <2>3. CASE Verdict(p, "passed", FALSE)
    BY <2>2, <2>3, VerdictCheck
  <2>4. CASE Goto("analyse") /\ UNCHANGED out
    <3>1. DecisionFitsLists' /\ ~out'.fresh
      BY <2>2, <2>4, Unfresh
    <3> QED BY <2>2, <2>4, <3>1 DEF Goto, CheckOK
  <2>5. CASE Search("first") /\ UNCHANGED out
    <3>1. 1 \in DOMAIN Profile /\ TryProfile(1, chk) /\ goal' = "first"
      BY <2>5, LastProfile, ProfileTyped DEF Search
    <3> QED BY <1>0, <2>2, <2>5, <3>1, TryCheck
  <2> QED BY <2>1, <2>3, <2>4, <2>5 DEF Lookup
<1>10. CASE AutoHostlist
  <2>1. ~out.fresh /\ UNCHANGED out /\ todo = <<>>
    BY <1>10 DEF AutoHostlist, Retrans, Recheck, AddToPool, AppendToFile, SignList, At, CheckOK
  <2>2. DecisionFitsLists' /\ ~out'.fresh
    BY <2>1, Unfresh
  <2>3. \/ pc' \in {"classify", "add", "append", "sign"} /\ todo' = <<>>
        \/ pc' = "hl" /\ back' = "recheck"
    BY <1>10, <2>1 DEF AutoHostlist, Retrans, Recheck, AddToPool, AppendToFile, SignList, Goto,
                       HostlistsReloadCheck, Reload
  <2> QED BY <2>2, <2>3 DEF CheckOK
<1>11. CASE Classify
  <2>1. ~out.fresh /\ UNCHANGED hfile /\ todo = <<>>
    BY <1>11 DEF Classify, At, CheckOK
  <2>2. CASE Verdict(pkt, "held", FALSE) \/ Verdict(pkt, "passed", FALSE)
    BY <1>0, <2>1, <2>2, VerdictCheck
  <2>3. CASE Continue("discover")
    <3>1. DecisionFitsLists' /\ ~out'.fresh
      BY <2>1, <2>3, Unfresh DEF Continue
    <3> QED BY <2>1, <2>3, <3>1 DEF Continue, Goto, CheckOK
  <2> QED BY <1>11, <2>2, <2>3 DEF Classify
<1>12. CASE Discover
  <2>1. ~out.fresh /\ UNCHANGED <<hfile, out, pkt>> /\ todo = <<>>
    BY <1>12 DEF Discover, At, CheckOK
  <2>2. CASE Search("discovered") /\ (NewL7 \/ (pkt.host # NoHost /\ ~conn[c].hostname_discovered))
    <3>1. pkt.host # NoHost => ~conn[c].hostname_discovered
      BY <1>0, <2>2 DEF Known, NewL7
    <3>2. pkt.host # NoHost => conn'[c].hostname = pkt.host
      BY <1>0, <1>12, <3>1 DEF Discover, TypeOK, Track
    <3>3. 1 \in DOMAIN Profile /\ TryProfile(1, chk)
      BY <2>2, LastProfile, ProfileTyped DEF Search
    <3>4. (pkt.host # NoHost /\ goal = "discovered" => hostname = pkt.host)'
      BY <2>1, <3>2 DEF hostname, c
    <3> QED BY <1>0, <2>1, <3>3, <3>4, TryCheck
  <2>3. CASE goal' = "none" /\ Goto("decide")
    <3>1. DecisionFitsLists' /\ ~out'.fresh
      BY <2>1, Unfresh
    <3> QED BY <2>1, <2>3, <3>1 DEF Goto, CheckOK
  <2> QED BY <1>12, <2>2, <2>3 DEF Discover
<1>13. CASE Decide
  <2>1. ~out.fresh /\ UNCHANGED hfile /\ todo = <<>> /\ dp \in DOMAIN Profile
    BY <1>13 DEF Decide, At, CheckOK, StepOK, Settled
  <2>2. CASE ~ByHostlist
    <3> DEFINE kind == IF /\ pkt.l7 # "unknown" \/ Profile[dp].any_proto
                          /\ Profile[dp].desync
                       THEN "tampered" ELSE "passed"
    <3>1. Verdict(pkt, kind, goal = "discovered")
      BY <1>13, <2>2 DEF Decide
    <3>2. pkt.host # NoHost => pkt.l7 # "unknown" /\ HostlistCheck(dp, pkt.host)
      BY <2>1, <2>2, EmptyListsPass DEF ByHostlist, PacketOK
    <3>3. pkt.host # NoHost => (kind = "tampered" <=> HostlistCheck(dp, pkt.host) /\ Profile[dp].desync)
      BY <3>2
    <3> HIDE DEF kind
    <3> QED BY <1>0, <2>1, <3>1, <3>3, VerdictCheck
  <2>3. CASE ByHostlist /\ chk.done /\ Apply(chk.result, chk.excluded, goal = "discovered")
    <3>1. goal = "discovered" => chk.result /\ HostlistCheck(dp, pkt.host)
      BY <1>13, <2>3 DEF Decide, At, CheckOK, ByHostlist
    <3>2. chk.result \in BOOLEAN
      BY <1>0 DEF Checks
    <3> QED BY <1>0, <2>1, <2>3, <3>1, <3>2, ApplyCheck
  <2>4. CASE HostlistsReloadCheck(dp, "check") /\ UNCHANGED out
    <3>1. DecisionFitsLists' /\ ~out'.fresh
      BY <2>1, <2>4, Unfresh
    <3> QED BY <2>4, <3>1 DEF HostlistsReloadCheck, Reload, CheckOK
  <2> QED BY <1>13, <2>2, <2>3, <2>4 DEF Decide
<1>14. CASE Check
  <2>1. UNCHANGED hfile /\ dp \in DOMAIN Profile
    BY <1>14 DEF Check, At, StepOK, Settled, Checking
  <2>2. (ok /\ HostlistCheck(dp, pkt.host)) \in BOOLEAN
    OBVIOUS
  <2>3. Apply(ok /\ HostlistCheck(dp, pkt.host), ok /\ Excluded(dp, pkt.host), TRUE)
    BY <1>14 DEF Check
  <2> QED BY <1>0, <2>1, <2>2, <2>3, ApplyCheck
<1>15. CASE Changed \/ onhup
  <2>1. UNCHANGED <<hfile, out, pc, back, todo, chk, pkt, conn, goal, dp>>
    BY <1>15, ChangedFrame, HupFrame
  <2>2. DecisionFitsLists'
    BY <2>1, SameDecision DEF CheckOK
  <2>3. hostname' = hostname
    BY <2>1 DEF hostname, c
  <2>4. HostlistCheck(dp, hostname)' <=> HostlistCheck(dp, hostname)
    BY <2>1, <2>3, SameLists
  <2> QED BY <2>1, <2>2, <2>3, <2>4 DEF CheckOK
<1> QED BY <1>1, <1>2, <1>3, <1>4, <1>5, <1>6, <1>7, <1>8, <1>9, <1>10, <1>11, <1>12, <1>13, <1>14,
           <1>15, NextCases DEF DpFind, Play

-----------------------------------------------------------------------------
(* Verdicts by the lists as they are on disk *)

Included(p) == {Profile[p].hl[i] : i \in DOMAIN Profile[p].hl}
Exclusions(p) == {Profile[p].hlx[i] : i \in DOMAIN Profile[p].hlx}
HostFiles(p) == Included(p) \union Exclusions(p)
Pending == {todo[j] : j \in DOMAIN todo}

\* The files whose list in memory is the one on disk, but for those of which the
\* engine cannot know it.
Fresh ==
  {f \in File : \/ f \in dirty \union AutoFile \/ ~disk[f].there
                \/ hfile[f].sig = disk[f].sig /\ hfile[f].list = disk[f].list}

\* What a reload check that has not failed has made sure of, and how long it lasts.
FreshOK ==
  /\ fsig # NoSig => Head(todo) \in dirty \union AutoFile \/ fsig = disk[Head(todo)].sig
  /\ pc = "hl" /\ ok => Included(dp) \subseteq Fresh \union Pending
  /\ pc = "hlx" /\ ok => HostFiles(dp) \subseteq Fresh \union Pending
  /\ pc \in {"filter", "check"} /\ ok => HostFiles(dp) \subseteq Fresh
  /\ pc \in {"match", "found"} => HostFiles(dp) \subseteq Fresh
  /\ pc = "decide" /\ goal = "discovered" => HostFiles(dp) \subseteq Fresh
  /\ out.fresh => pc = "recv" /\ out.dp \in DOMAIN Profile /\ HostFiles(out.dp) \subseteq Fresh

(* The lists of a profile are files. *)
LEMMA HostFilesTyped ==
  ASSUME NEW p \in DOMAIN Profile
  PROVE  HostFiles(p) \subseteq File
BY ProfileTyped DEF HostFiles, Included, Exclusions, DesyncProfile

(* Taking the first file off the list leaves the others. *)
LEMMA TailPending ==
  ASSUME todo \in Seq(File), todo # <<>>, todo' = Tail(todo)
  PROVE  Pending \subseteq Pending' \union {Head(todo)}
<1> SUFFICES ASSUME NEW j \in DOMAIN todo
             PROVE  todo[j] \in Pending' \union {Head(todo)}
  BY DEF Pending
<1>1. CASE j = 1
  BY <1>1
<1>2. CASE j # 1
  <2>1. j - 1 \in DOMAIN todo' /\ todo'[j - 1] = todo[j]
    BY <1>2
  <2> QED BY <2>1 DEF Pending
<1> QED BY <1>1, <1>2

(* A file that is fresh stays so, until the next packet or a restart. *)
LEMMA FreshStays ==
  ASSUME TypeOK, StepOK, EntryOK, PacketOK, SignatureOK, FreshOK, Next, ~Recv, ~Restart
  PROVE  Fresh \subseteq Fresh'
<1>0. hfile \in HFiles
  BY SigTyped
<1>1. ASSUME UNCHANGED <<disk, dirty, hfile>>
      PROVE  Fresh \subseteq Fresh'
  BY <1>1 DEF Fresh
<1>2. ASSUME UNCHANGED <<disk, dirty>>, hfile' = MakeAutolistsNonEmpty
      PROVE  Fresh \subseteq Fresh'
  <2>1. \A f \in File \ AutoFile : hfile'[f] = hfile[f]
    BY <1>0, <1>2, FillTyped DEF MakeAutolistsNonEmpty
  <2> QED BY <1>2, <2>1 DEF Fresh
<1>3. CASE Reloaded
  BY <1>1, <1>2, <1>3 DEF Reloaded, env
<1>4. CASE Load
  <2>0. UNCHANGED <<disk, dirty>>
    BY <1>4, LoadFrame DEF env
  <2>1. CASE KeepList \/ ReadFails
    BY <1>1, <2>0, <2>1 DEF KeepList, ReadFails
  <2>2. CASE IncludeReloaded \/ ExcludeReloaded
    BY <1>1, <1>2, <2>0, <2>2 DEF IncludeReloaded, ExcludeReloaded
  <2>3. CASE StatChanged
    <3>1. /\ Head(todo) \in File /\ disk[Head(todo)].there
          /\ hfile[Head(todo)].sig # disk[Head(todo)].sig
      BY <2>3 DEF StatChanged, TypeOK
    <3>2. \A g \in File \ {Head(todo)} : hfile'[g] = hfile[g]
      BY <1>0, <2>3, <3>1 DEF StatChanged, HFiles
    <3> QED BY <2>0, <3>1, <3>2 DEF Fresh
  <2>4. CASE ReadList
    <3>1. Head(todo) \in File /\ fsig # NoSig
      BY <2>4 DEF ReadList, TypeOK, StepOK
    <3>2. /\ hfile'[Head(todo)].sig = fsig /\ hfile'[Head(todo)].list = disk[Head(todo)].list
          /\ \A g \in File \ {Head(todo)} : hfile'[g] = hfile[g]
      BY <1>0, <2>4, <3>1 DEF ReadList, HFiles
    <3>3. Head(todo) \in dirty \union AutoFile \/ fsig = disk[Head(todo)].sig
      BY <3>1 DEF FreshOK
    <3> QED BY <2>0, <3>1, <3>2, <3>3 DEF Fresh
  <2> QED BY <1>4, <2>1, <2>2, <2>3, <2>4 DEF Load
<1>5. CASE AddToPool \/ AppendToFile \/ SignList
  <2>1. AutoList \in AutoFile /\ AutoList \in File
    BY <1>5, AutoInHand DEF AddToPool, AppendToFile, SignList, At, Failing
  <2>2. \A g \in File \ {AutoList} : hfile'[g] = hfile[g] /\ disk'[g] = disk[g]
    BY <1>0, <1>5, <2>1 DEF AddToPool, AppendToFile, SignList, HFiles, TypeOK, env
  <2>3. UNCHANGED dirty
    BY <1>5 DEF AddToPool, AppendToFile, SignList, env
  <2> QED BY <2>1, <2>2, <2>3 DEF Fresh
<1>6. CASE Changed
  <2>1. PICK f \in File : Rewrite(f) \/ Remove(f) \/ Repair(f)
    BY <1>6 DEF Changed
  <2>2. dirty' = dirty \union {f} /\ UNCHANGED hfile
    BY <2>1 DEF Rewrite, Remove, Repair, Edit, Change
  <2>3. \A g \in File \ {f} : disk'[g] = disk[g]
    BY <2>1 DEF Rewrite, Remove, Repair, TypeOK
  <2> QED BY <2>2, <2>3 DEF Fresh
<1>7. CASE Purge \/ DpFind \/ Retrans \/ Recheck \/ Play \/ onhup
  BY <1>1, <1>7, DpFindFrame, PlayFrame, HupFrame DEF Purge, Retrans, Recheck, env
<1> QED BY <1>3, <1>4, <1>5, <1>6, <1>7, NextCases DEF AutoHostlist

(* The signature that a file is read under is the one it has, unless someone  *)
(* changed the file since stat().                                             *)
LEMMA ReadUnderSignature ==
  ASSUME TypeOK, StepOK, EntryOK, PacketOK, FreshOK, Next
  PROVE  fsig' # NoSig =>
           Head(todo') \in dirty' \union AutoFile \/ fsig' = disk'[Head(todo')].sig
<1>1. CASE fsig = NoSig /\ ~StatChanged
  BY <1>1, NextCases, DpFindFrame, AutoFrame, PlayFrame, ChangedFrame, HupFrame
     DEF Recv, Reloaded, Restart, Purge, load, Load, KeepList, ReadList, ReadFails,
         IncludeReloaded, ExcludeReloaded
<1>2. CASE StatChanged
  BY <1>2 DEF StatChanged, env
<1>3. CASE fsig # NoSig /\ ~StatChanged
  <2>1. todo # <<>> /\ Head(todo) \in File
    BY <1>3 DEF StepOK, TypeOK
  <2>2. CASE ReadList \/ ReadFails
    BY <2>2 DEF ReadList, ReadFails
  <2>3. CASE Changed
    <3>1. PICK f \in File : Rewrite(f) \/ Remove(f) \/ Repair(f)
      BY <2>3 DEF Changed
    <3>2. dirty' = dirty \union {f} /\ UNCHANGED <<todo, fsig>>
      BY <3>1 DEF Rewrite, Remove, Repair, Edit, Change, load
    <3>3. \A g \in File \ {f} : disk'[g] = disk[g]
      BY <3>1 DEF Rewrite, Remove, Repair, TypeOK
    <3> QED BY <1>3, <2>1, <3>2, <3>3 DEF FreshOK
  <2>4. CASE onhup
    BY <1>3, <2>4, HupFrame DEF FreshOK
  <2> QED BY <1>3, <2>1, <2>2, <2>3, <2>4, NextCases
          DEF Recv, Reloaded, Restart, Purge, At, Load, KeepList, IncludeReloaded,
              ExcludeReloaded, DpFind, MatchFilters, Match, Found, Lookup, AutoHostlist, Retrans,
              Recheck, AddToPool, AppendToFile, SignList, Play, Classify, Discover, Decide, Check
<1> QED BY <1>1, <1>2, <1>3

\* What FreshOK says of where the engine is.
InHandOK ==
  /\ pc = "hl" /\ ok => Included(dp) \subseteq Fresh \union Pending
  /\ pc = "hlx" /\ ok => HostFiles(dp) \subseteq Fresh \union Pending
  /\ pc \in {"filter", "check"} /\ ok => HostFiles(dp) \subseteq Fresh
  /\ pc \in {"match", "found"} => HostFiles(dp) \subseteq Fresh
  /\ pc = "decide" /\ goal = "discovered" => HostFiles(dp) \subseteq Fresh
VerdictOK ==
  out.fresh => pc = "recv" /\ out.dp \in DOMAIN Profile /\ HostFiles(out.dp) \subseteq Fresh

(* At the steps that keep no files in mind nothing is said of them. *)
LEMMA NoFiles ==
  ASSUME pc' \notin {"hl", "hlx", "filter", "check", "match", "found", "decide"}
  PROVE  InHandOK'
BY DEF InHandOK

(* A reload check of a profile begins with all its included lists ahead. *)
LEMMA ReloadBegins ==
  ASSUME NEW l \in Labels, dp' \in DOMAIN Profile, HostlistsReloadCheck(dp', l)
  PROVE  InHandOK'
<1>1. pc' = "hl" /\ todo' = Profile[dp'].hl
  BY DEF HostlistsReloadCheck, Reload
<1>2. Included(dp)' \subseteq Pending'
  BY <1>1 DEF Included, Pending
<1> QED BY <1>1, <1>2 DEF InHandOK

(* So does the trial of a profile. *)
LEMMA TrialBegins ==
  ASSUME NEW p \in DOMAIN Profile, NEW k, TryProfile(p, k)
  PROVE  InHandOK'
<1>1. dp' = p /\ HostlistsReloadCheck(p, "filter")
  BY DEF TryProfile
<1> QED BY <1>1, ReloadBegins DEF Labels

(* A search begins with the first profile, and goes on as long as there is one. *)
LEMMA FirstProfile == 1 \in DOMAIN Profile
BY ProfileTyped, ProfileAssumption

(* A verdict leaves no reload check behind. *)
LEMMA VerdictEnds ==
  ASSUME NEW p, NEW kind, NEW fresh, Verdict(p, kind, fresh)
  PROVE  InHandOK'
BY NoFiles DEF Verdict, Idle

(* The trial of a profile that may not be there, but is. *)
LEMMA TrialGoesOn ==
  ASSUME NEW p, NEW k, TryProfile(p, k), StepOK'
  PROVE  InHandOK'
<1>1. CASE p \in DOMAIN Profile
  BY <1>1, TrialBegins
<1>2. CASE p \notin DOMAIN Profile
  <2>1. pc' = "found" /\ dp' = NoProfile
    BY <1>2 DEF TryProfile, Goto
  <2> QED BY <2>1, ProfileTyped DEF StepOK, Searching
<1> QED BY <1>1, <1>2

(* Every step keeps what is known of the files of the profile in hand. *)
LEMMA InHandKept ==
  ASSUME TypeOK, StepOK, EntryOK, PacketOK, SignatureOK, CheckOK, FreshOK, Next, StepOK'
  PROVE  InHandOK'
<1>0. ~Recv /\ ~Restart => Fresh \subseteq Fresh'
  BY FreshStays
<1>1. CASE Recv \/ Restart \/ Purge \/ Reloaded
  BY <1>1, NoFiles DEF Recv, Reload, Goto, Restart, Idle, Purge, At, Reloaded
<1>2. CASE KeepList \/ ReadList \/ StatChanged
  <2>1. UNCHANGED <<pc, dp, goal, ok>> /\ Head(todo) \in File
    BY <1>2 DEF KeepList, ReadList, StatChanged, TypeOK, StepOK
  <2>2. Fresh \subseteq Fresh'
    BY <1>0, <1>2, <2>1 DEF KeepList, ReadList, StatChanged, Recv, Restart, At, StepOK
  <2>3. Pending \subseteq Pending' \union Fresh'
    <3>1. CASE KeepList
      <4>1. Head(todo) \in Fresh
        BY <2>1, <3>1 DEF KeepList, SignatureOK, LoadedIsOnDisk, Fresh
      <4> QED BY <2>2, <3>1, <4>1, TailPending DEF KeepList, TypeOK
    <3>2. CASE ReadList
      <4>1. UNCHANGED <<disk, dirty>> /\ fsig # NoSig /\ todo # <<>> /\ todo' = Tail(todo)
        BY <3>2 DEF ReadList, env, StepOK
      <4>2. hfile'[Head(todo)].sig = fsig /\ hfile'[Head(todo)].list = disk[Head(todo)].list
        BY <2>1, <3>2, SigTyped DEF ReadList, HFiles
      <4>3. Head(todo) \in Fresh'
        BY <2>1, <4>1, <4>2 DEF FreshOK, Fresh
      <4> QED BY <4>1, <4>3, TailPending DEF TypeOK
    <3>3. CASE StatChanged
      BY <3>3 DEF StatChanged, Pending
    <3> QED BY <1>2, <3>1, <3>2, <3>3
  <2> QED BY <2>1, <2>2, <2>3 DEF FreshOK, InHandOK, HostFiles, Included, Exclusions
<1>3. CASE ReadFails
  <2>1. UNCHANGED <<pc, dp, goal>> /\ ok' = FALSE
    BY <1>3 DEF ReadFails
  <2>2. Fresh \subseteq Fresh' /\ pc # "decide"
    BY <1>0, <1>3 DEF ReadFails, Recv, Restart, At, StepOK, CheckOK
  <2> QED BY <2>1, <2>2 DEF FreshOK, InHandOK, HostFiles, Included, Exclusions
<1>4. CASE IncludeReloaded
  <2>1. pc = "hl" /\ Pending = {} /\ dp' = dp /\ Fresh \subseteq Fresh'
    BY <1>0, <1>4 DEF IncludeReloaded, At, Recv, Restart, Pending
  <2>2. CASE ok
    <3>1. pc' = "hlx" /\ todo' = Profile[dp].hlx
      BY <1>4, <2>2 DEF IncludeReloaded, Reload
    <3>2. Exclusions(dp) \subseteq Pending' /\ Included(dp) \subseteq Fresh'
      BY <2>1, <2>2, <3>1 DEF Exclusions, Pending, FreshOK
    <3> QED BY <2>1, <3>1, <3>2 DEF InHandOK, HostFiles, Included, Exclusions
  <2>3. CASE ~ok
    <3>1. pc' \in {"filter", "recheck", "check"} /\ ~ok'
      BY <1>4, <2>1, <2>3 DEF IncludeReloaded, Goto, StepOK
    <3> QED BY <3>1 DEF InHandOK
  <2> QED BY <2>2, <2>3
<1>5. CASE ExcludeReloaded
  <2>1. pc = "hlx" /\ Pending = {} /\ UNCHANGED <<dp, ok>> /\ Fresh \subseteq Fresh'
    BY <1>0, <1>5 DEF ExcludeReloaded, At, Recv, Restart, Pending, Goto
  <2>2. pc' \in {"filter", "recheck", "check"}
    BY <1>5, <2>1 DEF ExcludeReloaded, Goto, StepOK
  <2> QED BY <2>1, <2>2 DEF InHandOK, FreshOK, HostFiles, Included, Exclusions
<1>6. CASE MatchFilters
  <2>1. Fresh \subseteq Fresh' /\ pc = "filter"
    BY <1>0, <1>6 DEF MatchFilters, At, Recv, Restart
  <2>2. CASE TryNext
    BY <2>2, TrialGoesOn DEF TryNext
  <2>3. CASE ok /\ pc' = "match" /\ UNCHANGED dp
    BY <2>1, <2>3 DEF InHandOK, FreshOK, HostFiles, Included, Exclusions
  <2> QED BY <1>6, <2>2, <2>3 DEF MatchFilters, Reload
<1>7. CASE Match
  <2>1. Fresh \subseteq Fresh' /\ pc = "match"
    BY <1>0, <1>7 DEF Match, At, Recv, Restart
  <2> DEFINE byHost == ~Profile[dp].auto /\ ~HostlistsEmpty(dp)
             fits == HostlistCheck(dp, hostname)
             check == IF byHost
                      THEN [done |-> TRUE, result |-> fits, excluded |-> Excluded(dp, hostname)]
                      ELSE chk
  <2>2. \/ TryNext
        \/ TryProfile(dp + 1, check)
        \/ chk' = check /\ Goto("found") /\ UNCHANGED dp
    BY <1>7, Zenon DEF Match
  <2> HIDE DEF check
  <2>3. CASE Goto("found") /\ UNCHANGED dp
    BY <2>1, <2>3 DEF InHandOK, FreshOK, HostFiles, Included, Exclusions, Goto
  <2> QED BY <2>2, <2>3, TrialGoesOn DEF TryNext
<1>8. CASE Found
  <2>1. Fresh \subseteq Fresh' /\ pc = "found"
    BY <1>0, <1>8 DEF Found, At, Recv, Restart
  <2>2. CASE Verdict(pkt, "passed", FALSE)
    BY <2>2, VerdictEnds
  <2>3. CASE pc' = "analyse"
    BY <2>3, NoFiles
  <2>4. CASE pc' = "decide" /\ UNCHANGED dp
    BY <2>1, <2>4 DEF InHandOK, FreshOK, HostFiles, Included, Exclusions
  <2> QED BY <1>8, <2>2, <2>3, <2>4 DEF Found, Goto, Continue
<1>9. ASSUME NEW p \in Packets, Lookup(p)
      PROVE  InHandOK'
  <2>1. CASE pc' = "analyse"
    BY <2>1, NoFiles
  <2>2. CASE Verdict(p, "passed", FALSE)
    BY <2>2, VerdictEnds
  <2>3. CASE Search("first")
    BY <2>3, TrialGoesOn DEF Search
  <2> QED BY <1>9, <2>1, <2>2, <2>3 DEF Lookup, Goto
<1>10. CASE Retrans
  <2>1. CASE pc' = "classify"
    BY <2>1, NoFiles
  <2>2. CASE HostlistsReloadCheck(dp, "recheck")
    <3>1. dp' \in DOMAIN Profile /\ dp' = dp
      BY <1>10 DEF Retrans, At, StepOK, Settled
    <3> QED BY <2>2, <3>1, ReloadBegins DEF Labels
  <2> QED BY <1>10, <2>1, <2>2 DEF Retrans, Goto
<1>11. CASE Recheck \/ AddToPool \/ AppendToFile \/ SignList
  BY <1>11, NoFiles DEF Recheck, AddToPool, AppendToFile, SignList, Goto
<1>12. CASE Classify
  <2>1. CASE \E kind : Verdict(pkt, kind, FALSE)
    BY <2>1, VerdictEnds
  <2> QED BY <1>12, <2>1, NoFiles DEF Classify, Continue, Goto
<1>13. CASE Discover
  <2>1. CASE Search("discovered")
    BY <2>1, TrialGoesOn DEF Search
  <2>2. CASE pc' = "decide" /\ goal' = "none"
    BY <2>2 DEF InHandOK
  <2> QED BY <1>13, <2>1, <2>2 DEF Discover, Goto
<1>14. CASE Decide
  <2>1. CASE \E kind, fresh : Verdict(pkt, kind, fresh)
    BY <2>1, VerdictEnds
  <2>2. CASE HostlistsReloadCheck(dp, "check") /\ UNCHANGED dp
    <3>1. dp' \in DOMAIN Profile
      BY <1>14, <2>2 DEF Decide, At, StepOK, Settled
    <3> QED BY <2>2, <3>1, ReloadBegins DEF Labels
  <2> QED BY <1>14, <2>1, <2>2 DEF Decide, Apply
<1>15. CASE Check
  <2>1. \E kind, fresh : Verdict(pkt, kind, fresh)
    BY <1>15 DEF Check, Apply
  <2> QED BY <2>1, VerdictEnds
<1>16. CASE Changed \/ onhup
  <2>1. UNCHANGED <<pc, dp, goal, ok, todo>> /\ ~Recv /\ ~Restart
    BY <1>16, ChangedFrame, HupFrame DEF Recv, Restart, At, Changed, Rewrite, Remove, Repair, Edit,
       Change, LooksAtFiles, onhup, Idle, Goto, Reload
  <2> QED BY <1>0, <2>1 DEF InHandOK, FreshOK, HostFiles, Included, Exclusions, Pending
<1> QED BY <1>1, <1>2, <1>3, <1>4, <1>5, <1>6, <1>7, <1>8, <1>9, <1>10, <1>11, <1>12, <1>13, <1>14,
           <1>15, <1>16, NextCases DEF Load, DpFind, AutoHostlist, Play

(* A verdict is fresh only when it was given by files that are. *)
LEMMA VerdictKept ==
  ASSUME TypeOK, StepOK, EntryOK, PacketOK, SignatureOK, CheckOK, FreshOK, Next
  PROVE  VerdictOK'
<1>0. ~Recv /\ ~Restart => Fresh \subseteq Fresh'
  BY FreshStays
<1>1. ASSUME UNCHANGED out, pc # "recv"
      PROVE  VerdictOK'
  BY <1>1 DEF VerdictOK, FreshOK
<1>2. ASSUME UNCHANGED <<out, pc>>, Fresh \subseteq Fresh'
      PROVE  VerdictOK'
  BY <1>2 DEF VerdictOK, FreshOK, HostFiles, Included, Exclusions
<1>3. ASSUME NEW p, NEW kind, NEW fresh,
             Verdict(p, kind, fresh),
             fresh /\ ok => dp \in DOMAIN Profile /\ HostFiles(dp) \subseteq Fresh'
      PROVE  VerdictOK'
  <2>1. pc' = "recv" /\ out'.dp = dp /\ (out'.fresh <=> fresh /\ ok)
    BY <1>3 DEF Verdict, Idle
  <2> QED BY <1>3, <2>1 DEF VerdictOK, HostFiles, Included, Exclusions
<1>4. CASE Recv \/ Restart \/ Purge
  <2>1. out' = NoOut
    BY <1>4 DEF Recv, Restart, Purge
  <2> QED BY <2>1 DEF NoOut, VerdictOK
<1>5. CASE Reloaded
  BY <1>1, <1>5 DEF Reloaded, At
<1>6. CASE Load
  BY <1>1, <1>6, LoadFrame DEF Load, KeepList, StatChanged, ReadList, ReadFails, IncludeReloaded,
     ExcludeReloaded, At, CheckOK, StepOK
<1>7. CASE MatchFilters \/ Match
  BY <1>1, <1>7 DEF MatchFilters, Match, At
<1>8. CASE Found
  BY <1>1, <1>3, <1>8 DEF Found, At, Continue
<1>9. CASE \E p \in Packets : Lookup(p)
  BY <1>1, <1>3, <1>9 DEF Lookup, At
<1>10. CASE AutoHostlist
  BY <1>1, <1>10, AutoFrame DEF AutoHostlist, Retrans, Recheck, AddToPool, AppendToFile, SignList, At
<1>11. CASE Classify \/ Discover
  BY <1>1, <1>3, <1>11 DEF Classify, Discover, At, Continue
<1>12. CASE Decide
  <2>1. Fresh \subseteq Fresh' /\ pc = "decide"
    BY <1>0, <1>12 DEF Decide, At, Recv, Restart
  <2>2. goal = "discovered" => HostFiles(dp) \subseteq Fresh'
    BY <2>1 DEF FreshOK
  <2>4. dp \in DOMAIN Profile
    BY <2>1 DEF StepOK, Settled
  <2>3. UNCHANGED out \/ \E kind : Verdict(pkt, kind, goal = "discovered")
    BY <1>12, Zenon DEF Decide, Apply
  <2> QED BY <1>1, <1>3, <2>1, <2>2, <2>3, <2>4
<1>13. CASE Check
  <2>1. Fresh \subseteq Fresh' /\ pc = "check"
    BY <1>0, <1>13 DEF Check, At, Recv, Restart
  <2>2. ok => HostFiles(dp) \subseteq Fresh'
    BY <2>1 DEF FreshOK
  <2>4. dp \in DOMAIN Profile
    BY <2>1 DEF StepOK, Settled, Checking
  <2>3. \E kind : Verdict(pkt, kind, TRUE)
    BY <1>13, Zenon DEF Check, Apply
  <2> QED BY <1>3, <2>2, <2>3, <2>4
<1>14. CASE Changed \/ onhup
  <2>1. UNCHANGED <<pc, out>> /\ ~Recv /\ ~Restart
    BY <1>14, ChangedFrame, HupFrame DEF Recv, Restart, At, Changed, Rewrite, Remove, Repair, Edit,
       Change, LooksAtFiles, onhup, Idle, Goto, Reload
  <2> QED BY <1>0, <1>2, <2>1
<1> QED BY <1>4, <1>5, <1>6, <1>7, <1>8, <1>9, <1>10, <1>11, <1>12, <1>13, <1>14, NextCases
        DEF DpFind, Play

(* Every step keeps what is known of the files. *)
LEMMA FreshKept ==
  ASSUME TypeOK, StepOK, EntryOK, PacketOK, SignatureOK, CheckOK, FreshOK, Next, StepOK'
  PROVE  FreshOK'
BY InHandKept, VerdictKept, ReadUnderSignature DEF FreshOK, InHandOK, VerdictOK

-----------------------------------------------------------------------------
(* What is added to an automatic list *)

Listed(l) == {e.name : e \in l}

\* Where nobody else writes to them, the automatic lists in memory have all that
\* is on disk, and a host on its way to the list is on none.
AutoOK ==
  AutoListsAreOurs =>
    /\ \A f \in AutoFile :
         /\ disk[f].there /\ disk[f].readable
         /\ ~(fsig # NoSig /\ f = Head(todo)) => Listed(disk[f].list) \subseteq Listed(hfile[f].list)
    /\ pc = "append" => hostname \in Listed(hfile[AutoList].list)
    /\ pc \in {"add", "append"} /\ ok =>
         ~Excluded(dp, hostname) /\ hostname \notin Listed(disk[AutoList].list)

(* An automatic list is a file. *)
LEMMA AutoFileTyped == AutoFile \subseteq File
BY ProfileTyped DEF AutoFile, DesyncProfile

(* Filling the automatic lists takes nothing from a list. *)
LEMMA FillKeepsNames ==
  ASSUME NEW m \in HFiles, NEW f \in File
  PROVE  Listed(m[f].list) \subseteq Listed(FillAutolists(m)[f].list)
<1>1. FillAutolists(m)[f] \in {m[f], [m[f] EXCEPT !.list = NonEmptyHostlist(@)]}
  BY DEF FillAutolists
<1>2. [m[f] EXCEPT !.list = NonEmptyHostlist(@)].list = NonEmptyHostlist(m[f].list)
  BY DEF HFiles, ListFile
<1>3. Listed(m[f].list) \subseteq Listed(NonEmptyHostlist(m[f].list))
  BY DEF NonEmptyHostlist, Listed
<1> QED BY <1>1, <1>2, <1>3

(* A host is on its way to the list only where no reload is under way. *)
LEMMA NotAdding ==
  ASSUME pc' \notin {"add", "append"},
         \A f \in AutoFile :
           /\ disk'[f].there /\ disk'[f].readable
           /\ ~(fsig' # NoSig /\ f = Head(todo')) =>
                Listed(disk'[f].list) \subseteq Listed(hfile'[f].list)
  PROVE  AutoOK'
BY DEF AutoOK

(* Only the failure of a connection sends a host on its way to the list. *)
LEMMA PcAfter ==
  ASSUME Purge \/ DpFind \/ Retrans \/ Play, StepOK
  PROVE  pc' \notin {"add", "append"}
<1>1. ASSUME NEW p, NEW k, TryProfile(p, k)
      PROVE  pc' \notin {"add", "append"}
  BY <1>1 DEF TryProfile, HostlistsReloadCheck, Reload, Goto
<1>2. ASSUME NEW p, NEW kind, NEW fresh, Verdict(p, kind, fresh)
      PROVE  pc' \notin {"add", "append"}
  BY <1>2 DEF Verdict, Idle
<1>3. CASE Purge
  BY <1>3 DEF Purge, At
<1>4. CASE MatchFilters
  BY <1>1, <1>4 DEF MatchFilters, TryNext, Reload
<1>5. CASE Match
  <2> DEFINE byHost == ~Profile[dp].auto /\ ~HostlistsEmpty(dp)
             fits == HostlistCheck(dp, hostname)
             check == IF byHost
                      THEN [done |-> TRUE, result |-> fits, excluded |-> Excluded(dp, hostname)]
                      ELSE chk
  <2>1. TryNext \/ TryProfile(dp + 1, check) \/ Goto("found")
    BY <1>5, Zenon DEF Match
  <2> HIDE DEF check
  <2> QED BY <1>1, <2>1 DEF TryNext, Goto
<1>6. CASE Found
  BY <1>2, <1>6 DEF Found, Goto, Continue
<1>7. CASE \E p \in Packets : Lookup(p)
  BY <1>1, <1>2, <1>7 DEF Lookup, Search, Goto
<1>8. CASE Retrans
  BY <1>8 DEF Retrans, HostlistsReloadCheck, Reload, Goto
<1>9. CASE Classify
  BY <1>2, <1>9 DEF Classify, Continue, Goto
<1>10. CASE Discover
  BY <1>1, <1>10 DEF Discover, Search, Goto
<1>11. CASE Decide
  BY <1>2, <1>11 DEF Decide, Apply, HostlistsReloadCheck, Reload
<1>12. CASE Check
  BY <1>2, <1>12 DEF Check, Apply
<1> QED BY <1>3, <1>4, <1>5, <1>6, <1>7, <1>8, <1>9, <1>10, <1>11, <1>12 DEF DpFind, Play

(* Every step keeps the automatic lists in memory complete. *)
LEMMA AutoKept ==
  ASSUME TypeOK, StepOK, EntryOK, PacketOK, SignatureOK, CheckOK, AutoOK, Next
  PROVE  AutoOK'
<1> SUFFICES ASSUME AutoListsAreOurs PROVE AutoOK'
  BY DEF AutoOK
<1>0. /\ hfile \in HFiles /\ disk \in [File -> DiskFile] /\ AutoFile \subseteq File
      /\ \A f \in AutoFile :
           /\ disk[f].there /\ disk[f].readable
           /\ ~(fsig # NoSig /\ f = Head(todo)) => Listed(disk[f].list) \subseteq Listed(hfile[f].list)
  BY SigTyped, AutoFileTyped DEF AutoOK, TypeOK
<1>1. ASSUME UNCHANGED disk, fsig = NoSig, fsig' = NoSig, pc' \notin {"add", "append"},
             UNCHANGED hfile \/ hfile' = MakeAutolistsNonEmpty
      PROVE  AutoOK'
  <2>1. \A f \in AutoFile : Listed(hfile[f].list) \subseteq Listed(hfile'[f].list)
    BY <1>0, <1>1, FillKeepsNames DEF MakeAutolistsNonEmpty
  <2> QED BY <1>0, <1>1, <2>1, NotAdding
<1>2. CASE Recv
  <2>1. fsig = NoSig /\ fsig' = NoSig /\ UNCHANGED disk /\ pc' \notin {"add", "append"}
    BY <1>2 DEF Recv, At, StepOK, Reload, Goto
  <2>2. \A f \in AutoFile : hfile'[f].list = hfile[f].list
    BY <1>0, <1>2 DEF Recv, HFiles, ListFile
  <2> QED BY <1>0, <2>1, <2>2, NotAdding
<1>3. CASE Reloaded
  BY <1>1, <1>3 DEF Reloaded, At, StepOK, env, Goto
<1>4. CASE Restart
  <2>1. OnDisk \in HFiles
    BY <1>0, BoundAssumption DEF OnDisk, HFiles, DiskFile, ListFile
  <2>2. \A f \in AutoFile : Listed(OnDisk[f].list) \subseteq Listed(hfile'[f].list)
    BY <1>0, <1>4, <2>1, FillKeepsNames DEF Restart
  <2>3. \A f \in AutoFile : OnDisk[f].list = disk[f].list
    BY <1>0 DEF OnDisk
  <2>4. \A f \in AutoFile : disk'[f].there /\ disk'[f].readable /\ disk'[f].list = disk[f].list
    BY <1>0, <1>4 DEF Restart, DiskFile
  <2>5. pc' = "recv"
    BY <1>4 DEF Restart, Idle
  <2>6. \A f \in AutoFile : Listed(disk'[f].list) \subseteq Listed(hfile'[f].list)
    BY <2>2, <2>3, <2>4
  <2> QED BY <2>4, <2>5, <2>6, NotAdding
<1>5. CASE KeepList
  <2>1. pc' \notin {"add", "append"} /\ UNCHANGED <<disk, hfile>> /\ fsig = NoSig /\ fsig' = NoSig
    BY <1>5 DEF KeepList, CheckOK, env
  <2> QED BY <1>1, <2>1
<1>6. CASE StatChanged
  <2>1. /\ pc' \notin {"add", "append"} /\ UNCHANGED <<disk, todo>> /\ Head(todo) \in File
        /\ fsig = NoSig /\ fsig' # NoSig
    BY <1>6, SigTyped DEF StatChanged, CheckOK, env, TypeOK, NoSig
  <2>2. \A g \in File \ {Head(todo)} : hfile'[g] = hfile[g]
    BY <1>0, <1>6, <2>1 DEF StatChanged, HFiles
  <2> QED BY <1>0, <2>1, <2>2, NotAdding
<1>7. CASE ReadList
  <2>1. /\ pc' \notin {"add", "append"} /\ UNCHANGED disk /\ Head(todo) \in File /\ fsig' = NoSig
    BY <1>7 DEF ReadList, CheckOK, env, TypeOK, StepOK
  <2>2. /\ \A g \in File \ {Head(todo)} : hfile'[g] = hfile[g]
        /\ hfile'[Head(todo)].list = disk[Head(todo)].list
    BY <1>0, <1>7, <2>1 DEF ReadList, HFiles
  <2> QED BY <1>0, <2>1, <2>2, NotAdding
<1>8. CASE ReadFails
  <2>1. /\ pc' \notin {"add", "append"} /\ UNCHANGED <<disk, hfile>> /\ fsig' = NoSig
        /\ Head(todo) \notin AutoFile
    BY <1>0, <1>8 DEF ReadFails, CheckOK, env, StepOK, Readable
  <2> QED BY <1>0, <2>1, NotAdding
<1>9. CASE IncludeReloaded \/ ExcludeReloaded
  BY <1>1, <1>9 DEF IncludeReloaded, ExcludeReloaded, At, Reload, Goto, StepOK, env
<1>10. CASE Recheck
  <2>1. /\ UNCHANGED <<disk, hfile, conn, pkt, dp>> /\ fsig = NoSig /\ fsig' = NoSig
        /\ pc' \in {"classify", "add"} /\ UNCHANGED ok
    BY <1>10 DEF Recheck, At, StepOK, Goto, env
  <2>2. CASE pc' = "classify"
    BY <1>1, <2>1, <2>2
  <2>3. CASE pc' = "add"
    <3>1. ok => ~OnSomeList
      BY <1>10, <2>3 DEF Recheck, Goto
    <3>2. /\ dp \in DOMAIN Profile /\ Profile[dp].auto /\ AutoList \in AutoFile /\ AutoList \in File
      BY <1>10, AutoInHand DEF Recheck, At, Failing
    <3>3. ok => ~Excluded(dp, hostname) /\ ~SearchAny(Profile[dp].hl, hostname, hostname \in HostIsIp)
      BY <3>1 DEF OnSomeList, HostlistCheck
    <3>4. PICK i \in DOMAIN Profile[dp].hl : Profile[dp].hl[i] = AutoList
      BY <3>2 DEF AutoListsAreOurs, AutoList
    <3>5. ok => \A e \in hfile[AutoList].list : e.name # hostname
      BY <3>3, <3>4 DEF SearchAny, SearchHostList
    <3>6. ok => hostname \notin Listed(disk[AutoList].list)
      BY <1>0, <2>1, <3>2, <3>5 DEF Listed
    <3>7. Excluded(dp, hostname)' <=> Excluded(dp, hostname)
      BY <2>1 DEF Excluded, SearchAny, hostname, c
    <3>8. AutoList' = AutoList /\ hostname' = hostname
      BY <2>1 DEF AutoList, hostname, c
    <3> QED BY <1>0, <2>1, <2>3, <3>3, <3>6, <3>7, <3>8 DEF AutoOK
  <2> QED BY <2>1, <2>2, <2>3
<1>11. CASE AddToPool
  <2>1. /\ UNCHANGED <<disk, conn, pkt, dp, ok>> /\ fsig = NoSig /\ fsig' = NoSig
        /\ pc = "add" /\ pc' = "append"
    BY <1>11 DEF AddToPool, At, StepOK, Goto, env
  <2>2. /\ dp \in DOMAIN Profile /\ Profile[dp].auto /\ AutoList \in AutoFile /\ AutoList \in File
    BY <2>1, AutoInHand DEF Failing
  <2>3. /\ hfile'[AutoList].list \in {hfile[AutoList].list, hfile[AutoList].list \union {AutoEntry}}
        /\ \A g \in File \ {AutoList} : hfile'[g] = hfile[g]
    BY <1>0, <1>11, <2>2 DEF AddToPool, HFiles, ListFile
  <2>4. hostname \in Listed(hfile'[AutoList].list)
    <3>1. CASE \E e \in hfile[AutoList].list : e.name = hostname
      BY <1>11, <3>1 DEF AddToPool, Listed
    <3>2. CASE ~\E e \in hfile[AutoList].list : e.name = hostname
      <4>1. hfile'[AutoList].list = hfile[AutoList].list \union {AutoEntry}
        BY <1>0, <1>11, <2>2, <3>2 DEF AddToPool, HFiles, ListFile
      <4>2. AutoEntry.name = hostname
        BY DEF AutoEntry
      <4> QED BY <4>1, <4>2 DEF Listed
    <3> QED BY <3>1, <3>2
  <2>5. \A f \in AutoFile : Listed(disk'[f].list) \subseteq Listed(hfile'[f].list)
    BY <1>0, <2>1, <2>2, <2>3 DEF Listed
  <2>6. AutoList' = AutoList /\ hostname' = hostname
    BY <2>1 DEF AutoList, hostname, c
  <2>7. Excluded(dp, hostname)' <=> Excluded(dp, hostname)
    <3>1. \A i \in DOMAIN Profile[dp].hlx : hfile'[Profile[dp].hlx[i]] = hfile[Profile[dp].hlx[i]]
      <4>1. \A i \in DOMAIN Profile[dp].hlx :
              Profile[dp].hlx[i] \in File /\ Profile[dp].hlx[i] # AutoList
        BY <2>2, ProfileTyped DEF AutoListsAreOurs, AutoList, DesyncProfile
      <4> QED BY <2>3, <4>1
    <3> QED BY <2>1, <2>6, <3>1 DEF Excluded, SearchAny
  <2> QED BY <1>0, <2>1, <2>4, <2>5, <2>6, <2>7 DEF AutoOK
<1>12. CASE AppendToFile \/ SignList
  <2>1. pc' \in {"sign", "classify"} /\ fsig = NoSig
    BY <1>12 DEF AppendToFile, SignList, Goto, At, StepOK
  <2>2. AutoList \in AutoFile /\ AutoList \in File
    BY <1>12, AutoInHand DEF AppendToFile, SignList, At, Failing
  <2>3. CASE AppendToFile
    <3>1. UNCHANGED hfile /\ \A g \in File \ {AutoList} : disk'[g] = disk[g]
      BY <1>0, <2>2, <2>3 DEF AppendToFile
    <3>2. /\ disk'[AutoList].there /\ disk'[AutoList].readable = disk[AutoList].readable
          /\ disk'[AutoList].list = disk[AutoList].list \union {AutoEntry}
      BY <1>0, <2>2, <2>3 DEF AppendToFile, DiskFile
    <3>3. hostname \in Listed(hfile[AutoList].list) /\ AutoEntry.name = hostname
      BY <2>3 DEF AppendToFile, At, AutoOK, AutoEntry
    <3>4. Listed(disk'[AutoList].list) \subseteq Listed(hfile'[AutoList].list)
      <4>1. Listed(disk'[AutoList].list) = Listed(disk[AutoList].list) \union {hostname}
        BY <3>2, <3>3 DEF Listed
      <4> QED BY <1>0, <2>1, <2>2, <3>1, <3>3, <4>1
    <3> QED BY <1>0, <2>1, <2>2, <3>1, <3>2, <3>4, NotAdding
  <2>4. CASE SignList
    <3>1. UNCHANGED disk /\ \A g \in File : hfile'[g].list = hfile[g].list
      BY <1>0, <2>2, <2>4 DEF SignList, HFiles, ListFile, env
    <3> QED BY <1>0, <2>1, <3>1, NotAdding
  <2> QED BY <1>12, <2>3, <2>4
<1>13. CASE Changed
  <2>1. PICK f \in File : Rewrite(f) \/ Remove(f) \/ Repair(f)
    BY <1>13 DEF Changed
  <2>2. f \notin AutoFile /\ \A g \in File \ {f} : disk'[g] = disk[g]
    BY <1>0, <2>1 DEF Rewrite, Remove, Repair, Edit, Change, AutoListsAreOurs
  <2>3. UNCHANGED <<hfile, conn, pc, pkt, dp, todo, fsig, ok>>
    BY <1>13, ChangedFrame
  <2>4. pc \in {"add", "append"} => AutoList \in AutoFile
    BY AutoInHand DEF Failing
  <2>5. AutoList' = AutoList /\ hostname' = hostname
    BY <2>3 DEF AutoList, hostname, c
  <2>6. Excluded(dp, hostname)' <=> Excluded(dp, hostname)
    BY <2>3, <2>5 DEF Excluded, SearchAny
  <2> QED BY <1>0, <2>2, <2>3, <2>4, <2>5, <2>6 DEF AutoOK
<1>14. CASE Purge \/ DpFind \/ Retrans \/ Play
  <2>1. UNCHANGED <<disk, hfile, fsig>> /\ todo = <<>> /\ fsig = NoSig
    BY <1>14, DpFindFrame, PlayFrame DEF Purge, DpFind, MatchFilters, Match, Found, Lookup, Retrans,
       Play, Classify, Discover, Decide, Check, At, StepOK, load, env
  <2>2. pc' \notin {"add", "append"}
    BY <1>14, PcAfter
  <2> QED BY <1>1, <2>1, <2>2
<1>15. CASE onhup
  <2>1. UNCHANGED <<disk, hfile, fsig, todo, pc>> /\ pc \in {"recv", "reload"}
    BY <1>15, HupFrame DEF onhup
  <2> QED BY <1>0, <2>1, NotAdding
<1> QED BY <1>2, <1>3, <1>4, <1>5, <1>6, <1>7, <1>8, <1>9, <1>10, <1>11, <1>12, <1>13, <1>14, <1>15,
           NextCases DEF Load, AutoHostlist

-----------------------------------------------------------------------------
(* Theorems *)

IInv ==
  TypeOK /\ StepOK /\ EntryOK /\ PacketOK /\ SignatureOK /\ CheckOK /\ FreshOK /\ AutoOK

(* The invariant holds at the start. *)
LEMMA InitInv == Init => IInv
<1> SUFFICES ASSUME Init PROVE IInv
  OBVIOUS
<1>1. TypeOK
  BY InitTyped
<1>2. StepOK
  BY DEF Init, StepOK, Searching, Settled, Failing, Checking, Reloading
<1>3. EntryOK
  BY DEF Init, EntryOK, NoConn
<1>4. PacketOK
  BY NoPacketTyped DEF Init, PacketOK, Searching, Failing, Checking, Reloading
<1>5. SignatureOK
  <2>1. \A f \in File : disk[f].sig = 1 /\ OnDisk[f].list = disk[f].list /\ OnDisk[f].sig = disk[f].sig
    BY DEF Init, OnDisk
  <2>2. OnDisk \in HFiles
    BY <1>1, BoundAssumption DEF TypeOK, OnDisk, HFiles, DiskFile, ListFile
  <2>3. hfile = FillAutolists(OnDisk) /\ fsig = NoSig
    BY DEF Init
  <2>4. /\ \A f \in File : hfile[f].sig = OnDisk[f].sig
        /\ \A f \in File \ AutoFile : hfile[f] = OnDisk[f]
    BY <2>2, <2>3, FillTyped
  <2>5. \A f \in File : hfile[f].sig = 1
    BY <2>1, <2>4, Zenon
  <2>6. \A f \in File \ AutoFile : hfile[f].list = disk[f].list
    BY <2>1, <2>4, Zenon
  <2> QED BY <2>1, <2>3, <2>5, <2>6 DEF SignatureOK, LoadedIsOnDisk
<1>6. CheckOK
  BY DEF Init, CheckOK, Searching, Reloading, NoOut, DecisionFitsLists
<1>7. FreshOK
  BY DEF Init, FreshOK, NoOut
<1>8. AutoOK
  <2>1. PICK l \in [File -> UNION {Content[f] : f \in File}] :
          disk = [f \in File |-> [there |-> TRUE, readable |-> TRUE, sig |-> 1, list |-> l[f]]]
    BY DEF Init
  <2>2. OnDisk \in HFiles /\ hfile = FillAutolists(OnDisk)
    BY <1>1, BoundAssumption DEF Init, TypeOK, OnDisk, HFiles, DiskFile, ListFile
  <2>3. \A f \in File : OnDisk[f].list = disk[f].list
    BY DEF OnDisk
  <2>4. \A f \in AutoFile : Listed(disk[f].list) \subseteq Listed(hfile[f].list)
    BY <2>2, <2>3, AutoFileTyped, FillKeepsNames
  <2>5. \A f \in AutoFile : disk[f].there /\ disk[f].readable
    BY <2>1, AutoFileTyped
  <2> QED BY <2>4, <2>5 DEF Init, AutoOK
<1> QED BY <1>1, <1>2, <1>3, <1>4, <1>5, <1>6, <1>7, <1>8 DEF IInv

(* Every step keeps the invariant. *)
LEMMA StepInv == IInv /\ [Next]_vars => IInv'
<1> SUFFICES ASSUME IInv, [Next]_vars PROVE IInv'
  OBVIOUS
<1>1. CASE Next
  BY <1>1, NextTyped, StepKept, EntryKept, PacketKept, SignatureKept, CheckKept, FreshKept,
     AutoKept DEF IInv
<1>2. CASE UNCHANGED vars
  <2> USE <1>2 DEF IInv, vars
  <2>1. TypeOK'
    BY DEF TypeOK
  <2>2. StepOK'
    BY DEF StepOK, Searching, Settled, Failing, Checking, Reloading, c
  <2>3. EntryOK'
    BY DEF EntryOK
  <2>4. PacketOK'
    BY DEF PacketOK, Searching, Failing, Checking, Reloading, c, hostname
  <2>5. SignatureOK'
    BY DEF SignatureOK, LoadedIsOnDisk
  <2>6. CheckOK'
    <3>1. DecisionFitsLists' /\ UNCHANGED hfile /\ hostname' = hostname /\ dp' = dp
      BY SameDecision DEF CheckOK, hostname, c
    <3>2. HostlistCheck(dp, hostname)' <=> HostlistCheck(dp, hostname)
      BY <3>1, SameLists
    <3> QED BY <3>1, <3>2 DEF CheckOK, Searching, Reloading
  <2>7. FreshOK'
    BY DEF FreshOK, Fresh, Pending, HostFiles, Included, Exclusions
  <2>8. AutoOK'
    BY DEF AutoOK, Excluded, SearchAny, hostname, c, AutoList
  <2> QED BY <2>1, <2>2, <2>3, <2>4, <2>5, <2>6, <2>7, <2>8
<1> QED BY <1>1, <1>2

(* The invariant of the engine's search, its entries and its lists. *)
THEOREM Invariant == Spec => []IInv
BY InitInv, StepInv, PTL DEF Spec

(* Every variable keeps its type, for any profiles, lists and connections. *)
THEOREM TypeCorrect == Spec => []TypeOK
BY Invariant, PTL DEF IInv

(* A list whose signature in memory is that of its file is the list in the file, *)
(* whatever happens to the file between stat() and its reading.                  *)
THEOREM LoadedListIsOnDisk == Spec => []LoadedIsOnDisk
<1>1. IInv => LoadedIsOnDisk
  BY DEF IInv, SignatureOK
<1> QED BY <1>1, Invariant, PTL

(* A fresh verdict on a request is what the lists of its profile say of its host. *)
THEOREM DecisionsFitLists == Spec => []DecisionFitsLists
<1>1. IInv => DecisionFitsLists
  BY DEF IInv, CheckOK
<1> QED BY <1>1, Invariant, PTL

(* A request that is decided for the first time is decided by the lists as they *)
(* are on disk, but for files that changed while the packet was worked on.      *)
THEOREM DecidedByListsOnDisk == Spec => []DecidedByFreshLists
<1>1. IInv => DecidedByFreshLists
  <2> SUFFICES ASSUME IInv, out.fresh, out.host # NoHost,
                      NEW i \in DOMAIN (Profile[out.dp].hl \o Profile[out.dp].hlx)
               PROVE  LET f == (Profile[out.dp].hl \o Profile[out.dp].hlx)[i]
                      IN  f \notin dirty \union AutoFile /\ disk[f].there => hfile[f].list = disk[f].list
    BY DEF DecidedByFreshLists
  <2>1. out.dp \in DOMAIN Profile
    BY DEF IInv, FreshOK
  <2>2. Profile[out.dp].hl \in Seq(File) /\ Profile[out.dp].hlx \in Seq(File)
    BY <2>1, ProfileTyped DEF DesyncProfile
  <2>3. (Profile[out.dp].hl \o Profile[out.dp].hlx)[i] \in HostFiles(out.dp)
    <3> DEFINE h == Profile[out.dp].hl
               x == Profile[out.dp].hlx
    <3>0. h \in Seq(File) /\ x \in Seq(File) /\ i \in DOMAIN (h \o x)
      BY <2>2
    <3> HIDE DEF h, x
    <3>1. \/ (h \o x)[i] = h[i] /\ i \in DOMAIN h
          \/ (h \o x)[i] = x[i - Len(h)] /\ i - Len(h) \in DOMAIN x
      <4>1. /\ i \in 1..(Len(h) + Len(x)) /\ Len(h) \in Nat /\ Len(x) \in Nat
            /\ (h \o x)[i] = IF i <= Len(h) THEN h[i] ELSE x[i - Len(h)]
        BY <3>0
      <4>2. CASE i <= Len(h)
        BY <3>0, <4>1, <4>2
      <4>3. CASE ~(i <= Len(h))
        BY <3>0, <4>1, <4>3
      <4> QED BY <4>2, <4>3
    <3> QED BY <3>1 DEF h, x, HostFiles, Included, Exclusions
  <2> QED BY <2>3 DEF IInv, FreshOK, Fresh
<1> QED BY <1>1, Invariant, PTL

(* Where the automatic lists are left to the engine, a host is added to one only *)
(* when no list of the profile has it, unless a list failed to load just then.   *)
THEOREM AddedToListIsNew == AutoListsAreOurs => (Spec => AddedIsNew)
<1> SUFFICES ASSUME AutoListsAreOurs PROVE Spec => AddedIsNew
  OBVIOUS
<1>1. IInv /\ [Next]_vars =>
        [\A f \in AutoFile : disk'[f].list # disk[f].list /\ ok =>
           /\ ~Excluded(dp, hostname)
           /\ \A e \in disk[f].list : e.name # hostname]_vars
  <2> SUFFICES ASSUME IInv, Next,
                      NEW f \in AutoFile, disk'[f].list # disk[f].list, ok
               PROVE  ~Excluded(dp, hostname) /\ \A e \in disk[f].list : e.name # hostname
    OBVIOUS
  <2>1. f \in File /\ disk \in [File -> DiskFile]
    BY AutoFileTyped DEF IInv, TypeOK
  <2>2. ~Restart
    BY <2>1 DEF Restart, DiskFile
  <2>3. ~Changed
    <3> SUFFICES ASSUME NEW g \in File, Rewrite(g) \/ Remove(g) \/ Repair(g) PROVE FALSE
      BY DEF Changed
    <3>1. g # f
      BY DEF Rewrite, Remove, Repair, Edit, Change, AutoListsAreOurs
    <3> QED BY <2>1, <3>1 DEF Rewrite, Remove, Repair
  <2>4. AppendToFile
    BY <2>2, <2>3, NextCases, LoadFrame, DpFindFrame, PlayFrame, HupFrame
       DEF Recv, Reloaded, Purge, AutoHostlist, Retrans, Recheck, AddToPool, SignList, env
  <2>5. AutoList \in File /\ pc = "append"
    BY <2>4, AutoInHand DEF IInv, AppendToFile, At, Failing
  <2>6. f = AutoList
    BY <2>1, <2>4, <2>5 DEF AppendToFile
  <2> QED BY <2>5, <2>6 DEF IInv, AutoOK, Listed
<1> QED BY <1>1, Invariant, PTL DEF Spec, AddedIsNew

(* The search always finds a profile, whichever lists fail to load on the way, *)
(* and a connection that is watched for failures has one with an automatic list. *)
THEOREM ProfileKnown == Spec => []ProfileIsKnown
<1>1. IInv => ProfileIsKnown
  <2>1. IInv => (pc \in {"found", "analyse", "decide"} => dp # NoProfile)
    BY ProfileTyped DEF IInv, StepOK, Searching, Settled
  <2>2. IInv => \A x \in Conn : conn[x].hostname_ah_check =>
                  conn[x].dp # NoProfile /\ Profile[conn[x].dp].auto
    BY ProfileTyped DEF IInv, EntryOK
  <2> QED BY <2>1, <2>2 DEF ProfileIsKnown
<1> QED BY <1>1, Invariant, PTL
=============================================================================
