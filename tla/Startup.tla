-------------------------------- MODULE Startup --------------------------------
(* nfqws.c from main to the loop that serves packets: the command line becomes *)
(* profiles, the lists are registered and read, the privileged descriptors are *)
(* opened, root is dropped, the process becomes a daemon.                      *)
(*                                                                             *)
(* No other process changes the lists meanwhile: the application writes them   *)
(* by renaming, and what a reload finds is the subject of ProfileSelect.       *)
EXTENDS CommandLine

CONSTANTS
  Lines,       \* the command lines tried, sequences of options
  Config,      \* the files that hold a command line, with the line
  Disks,       \* who can read which list, at the start
  Gzipped,     \* the lists that are compressed
  Creatable,   \* the names under which a file can be created
  Subnets,     \* the words that are an address or a subnet
  Passwd,      \* the users and their numbers
  None         \* no name

ASSUME NoneAssumption == \A d \in Disks : None \notin DOMAIN d

(* The lines are words and numbers, and it is known of every list that they    *)
(* name who can read it.                                                       *)
Option == [opt : STRING, arg : Seq([w : STRING, n : Seq(Int)])]
CanBe(l) ==
  /\ l \in Seq(Option)
  /\ \A d \in Disks, i \in DOMAIN l :
       l[i].opt \in ListOption \ ItemOption /\ l[i].arg # <<>> => l[i].arg[1].w \in DOMAIN d
ASSUME LineAssumption ==
  (\A l \in Lines : CanBe(l)) /\ \A f \in DOMAIN Config : CanBe(Config[f])
ASSUME DiskAssumption == \A d \in Disks : d \in [DOMAIN d -> SUBSET {"root", "user"}]

VARIABLES
  line,        \* the command line in use
  k,           \* the next option
  profiles,    \* params.desync_profiles
  skip, dry,   \* bSkip, bDry
  anon,        \* anon_hl, anon_hl_exclude, anon_ips, anon_ips_exclude; 0 - NULL
  files,       \* params.hostlists and params.ipsets
  params,      \* what holds for the process
  disk,        \* who can read a list; nobody - it is not there
  me,          \* who the process runs as
  loaded,      \* lists whose content was read
  fds,         \* descriptors that only root can open
  pidfile,     \* what the pid file holds
  pid,         \* 1 - the process started, 2 - its child
  phase, code  \* where main is; what it returns

lineVars == <<line, k, profiles, skip, dry, anon, files, params>>
processVars == <<disk, me, loaded, fds, pidfile, pid>>
vars == <<lineVars, processVars, phase, code>>

Collections == {"hl", "hl_exclude", "ips", "ips_exclude"}
NoAnon == [c \in Collections |-> 0]
Who(uid) == IF uid = 0 THEN "root" ELSE "user"
Nobody == 2147483647

DefaultParams(root) ==
  [debug |-> FALSE, target |-> "console", daemon |-> FALSE, pidfile |-> None, user |-> None,
   uid |-> IF root THEN Nobody ELSE 0, gids |-> IF root THEN 1 ELSE 0, droproot |-> root,
   timeouts |-> <<60, 300, 60, 60>>, ctrack_disable |-> FALSE, ipcache_lifetime |-> 7200,
   cache_hostname |-> FALSE, autottl_present |-> FALSE, auto_debuglog |-> None]

Init ==
  /\ line \in Lines
  /\ k = 1 /\ skip = FALSE /\ dry = FALSE
  /\ profiles = <<[dp_init EXCEPT !.n = 1]>>
  /\ anon = NoAnon
  /\ files = [host |-> <<>>, ip |-> <<>>]
  /\ me \in {"root", "user"}
  /\ params = DefaultParams(me = "root")
  /\ disk \in Disks
  /\ loaded = {} /\ fds = {} /\ pidfile = 0 /\ pid = 1
  /\ phase = "start" /\ code = 0

Goto(p) == phase' = p /\ UNCHANGED code
Exit(c) == phase' = "exit" /\ code' = c

--------------------------------------------------------------------------------
(* The command line. *)

(* A first word @<file> puts the words of the file in place of the line. *)
ReadConfig ==
  /\ phase = "start"
  /\ IF line # <<>> /\ line[1].opt = "@"
       THEN line' = (IF line[1].arg[1].w \in DOMAIN Config THEN Config[line[1].arg[1].w] ELSE <<>>)
       ELSE UNCHANGED line
  /\ IF line' = <<>> THEN Exit(1) ELSE Goto("options")
  /\ UNCHANGED <<k, profiles, skip, dry, anon, files, params, processVars>>

(* The option at hand *)
Reading(options) == phase = "options" /\ k <= Len(line) /\ WellFormed(line[k]) /\ line[k].opt \in options
o == line[k]
dp == Last(profiles)
Next1 == k' = k + 1 /\ UNCHANGED <<line, phase, code>>

(* Help, or silence for a dry run; both end it. *)
Unknown ==
  /\ phase = "options" /\ k <= Len(line) /\ ~WellFormed(o)
  /\ Exit(1) /\ UNCHANGED <<lineVars, processVars>>

Version ==
  /\ Reading({"version"})
  /\ Exit(0) /\ UNCHANGED <<lineVars, processVars>>

DryRun ==
  /\ Reading({"dry-run"})
  /\ dry' = TRUE /\ Next1
  /\ UNCHANGED <<profiles, skip, anon, files, params, processVars>>

Skip ==
  /\ Reading({"skip"})
  /\ skip' = TRUE /\ Next1
  /\ UNCHANGED <<profiles, dry, anon, files, params, processVars>>

(* A mutant: the profile of a skipped section is taken again as it is. *)
NewKeepsSkipped ==
  /\ Reading({"new"})
  /\ profiles' = IF skip THEN profiles ELSE Append(profiles, [dp_init EXCEPT !.n = Len(profiles) + 1])
  /\ skip' = FALSE /\ anon' = NoAnon /\ Next1
  /\ UNCHANGED <<dry, files, params, processVars>>

(* A profile that is skipped gives its place to the next one. *)
New ==
  /\ Reading({"new"})
  /\ profiles' = IF skip THEN [profiles EXCEPT ![Len(profiles)] = [dp_init EXCEPT !.n = Len(profiles)]]
                 ELSE Append(profiles, [dp_init EXCEPT !.n = Len(profiles) + 1])
  /\ skip' = FALSE /\ anon' = NoAnon /\ Next1
  /\ UNCHANGED <<dry, files, params, processVars>>

AutottlOption ==
  {"dup-autottl", "dup-autottl6", "orig-autottl", "orig-autottl6", "dpi-desync-autottl",
   "dpi-desync-autottl6"}

Assign ==
  /\ Reading(ProfileOption)
  /\ \E p \in Assigned(o, dp) : profiles' = [profiles EXCEPT ![Len(profiles)] = p]
  /\ params' = [params EXCEPT !.autottl_present = @ \/ o.opt \in AutottlOption]
  /\ Next1 /\ UNCHANGED <<skip, dry, anon, files, processVars>>

AssignRefused ==
  /\ Reading(ProfileOption) /\ Assigned(o, dp) = {}
  /\ Exit(1) /\ UNCHANGED <<lineVars, processVars>>

MaxGids == 64
(* What an option of the process makes of its parameters *)
Globals ==
  LET w == o.arg[1].w
      number == Unsigned(o.arg)
  IN
  CASE o.opt = "debug" /\ o.arg = <<>> -> {[params EXCEPT !.debug = TRUE, !.target = "console"]}
    [] o.opt = "debug" /\ o.arg # <<>> ->
         IF w = "syslog" THEN {[params EXCEPT !.debug = TRUE, !.target = "syslog"]}
         ELSE IF w \in Creatable THEN {[params EXCEPT !.debug = TRUE, !.target = "file"]}
         ELSE {[params EXCEPT !.debug = (d = 1), !.target = "console"] : d \in number \cap {0, 1}}
    [] o.opt = "comment" -> {params}
    [] o.opt = "port" ->    \* of the divert socket, which the utun build has none of
         {params : p \in {Atoi(o.arg)} \cap 1 .. MaxPort}
    [] o.opt = "daemon" -> {[params EXCEPT !.daemon = TRUE]}
    [] o.opt = "pidfile" -> {[params EXCEPT !.pidfile = w]}
    [] o.opt = "user" ->
         {[params EXCEPT !.user = u, !.uid = Passwd[u], !.gids = 1, !.droproot = TRUE] :
            u \in {w} \cap DOMAIN Passwd}
    [] o.opt = "uid" ->     \* <uid>[:<gid>,...], the first group beside the user
         {[params EXCEPT !.user = None, !.uid = u, !.gids = Max({1, Len(o.arg) + Len(o.arg[1].n) - 2}),
                         !.droproot = TRUE] :
            u \in {u \in number : Len(o.arg) + Len(o.arg[1].n) - 2 <= MaxGids}}
    [] o.opt = "ctrack-timeouts" ->
         {[params EXCEPT !.timeouts = t \o SubSeq(@, Len(t) + 1, 4)] :
            t \in {t \in {o.arg[1].n} : Len(t) \in {3, 4}}}
    [] o.opt = "ctrack-disable" -> {[params EXCEPT !.ctrack_disable = Switch(o.arg)]}
    [] o.opt = "ipcache-lifetime" -> {[params EXCEPT !.ipcache_lifetime = v] : v \in number}
    [] o.opt = "ipcache-hostname" -> {[params EXCEPT !.cache_hostname = Switch(o.arg)]}
    [] o.opt = "hostlist-auto-debug" -> {[params EXCEPT !.auto_debuglog = f] : f \in {w} \cap Creatable}

SetGlobal ==
  /\ Reading(GlobalOption)
  /\ params' \in Globals
  /\ Next1 /\ UNCHANGED <<profiles, skip, dry, anon, files, processVars>>

GlobalRefused ==
  /\ Reading(GlobalOption) /\ Globals = {}
  /\ Exit(1) /\ UNCHANGED <<lineVars, processVars>>

--------------------------------------------------------------------------------
(* Lists. A list in a file is registered once for the process and once for a  *)
(* collection of a profile; the items of a line share one list without a name.*)

Kind(opt) == IF opt \in {"ipset", "ipset-ip", "ipset-exclude", "ipset-exclude-ip"} THEN "ip" ELSE "host"
CollectionOf(opt) ==
  CASE opt \in {"hostlist", "hostlist-domains", "hostlist-auto"} -> "hl"
    [] opt \in {"hostlist-exclude", "hostlist-exclude-domains"} -> "hl_exclude"
    [] opt \in {"ipset", "ipset-ip"} -> "ips"
    [] OTHER -> "ips_exclude"

(* A set of addresses has to be there, an automatic list is made: once in a   *)
(* profile, and plain. Nothing is asked of a list of hosts yet.               *)
ListFits(opt, name) ==
  CASE Kind(opt) = "ip" -> disk[name] # {}
    [] opt = "hostlist-auto" ->
         dp.auto = 0 /\ name \notin Gzipped /\ IF disk[name] = {} THEN name \in Creatable ELSE me \in disk[name]
    [] OTHER -> TRUE

ListSkipped ==
  /\ Reading(ListOption) /\ skip
  /\ Next1 /\ UNCHANGED <<profiles, skip, dry, anon, files, params, processVars>>

Register(list, name) ==
  IF \E i \in DOMAIN list : list[i].name = name THEN list ELSE Append(list, [name |-> name, has |-> {}])

RegisterFile ==
  /\ Reading(ListOption \ ItemOption) /\ ~skip
  /\ LET name == o.arg[1].w
         list == Register(files[Kind(o.opt)], name)
         at == CHOOSE i \in DOMAIN list : list[i].name = name
     IN  /\ ListFits(o.opt, name)
         /\ files' = [files EXCEPT ![Kind(o.opt)] = list]
         /\ profiles' = [profiles EXCEPT ![Len(profiles)] =
                           [dp EXCEPT ![CollectionOf(o.opt)] = @ \cup {at},
                                      !.auto = IF o.opt = "hostlist-auto" THEN at ELSE @]]
         /\ disk' = IF o.opt = "hostlist-auto" /\ disk[name] = {}
                      THEN [disk EXCEPT ![name] = {"root", "user"}] ELSE disk
  /\ Next1 /\ UNCHANGED <<skip, dry, anon, params, me, loaded, fds, pidfile, pid>>

RegisterRefused ==
  /\ Reading(ListOption \ ItemOption) /\ ~skip
  /\ ~ListFits(o.opt, o.arg[1].w)
  /\ Exit(1) /\ UNCHANGED <<lineVars, processVars>>

(* A word that is not a subnet is reported and left out. *)
RegisterItems ==
  /\ Reading(ItemOption) /\ ~skip
  /\ LET c == CollectionOf(o.opt)
         list == files[Kind(o.opt)]
         at == IF anon[c] = 0 THEN Len(list) + 1 ELSE anon[c]
         words == IF Kind(o.opt) = "ip" THEN Words(o.arg) \cap Subnets ELSE Words(o.arg) \ {""}
     IN  /\ files' = [files EXCEPT ![Kind(o.opt)] =
                        IF anon[c] = 0 THEN Append(list, [name |-> None, has |-> words])
                        ELSE [list EXCEPT ![at].has = @ \cup words]]
         /\ profiles' = [profiles EXCEPT ![Len(profiles)][c] = @ \cup {at}]
         /\ anon' = [anon EXCEPT ![c] = at]
  /\ Next1 /\ UNCHANGED <<skip, dry, params, processVars>>

EndOfOptions ==
  /\ phase = "options" /\ k > Len(line)
  /\ profiles' = Append(IF skip THEN Front(profiles) ELSE profiles, dp_init)
  /\ Goto("finalise") /\ UNCHANGED <<line, k, skip, dry, anon, files, params, processVars>>

--------------------------------------------------------------------------------
(* From the profiles to the loop. *)

Usable(p) == split_compat(p) /\ onetime_tls_mod(Finished(p))

(* Automatic lists are given to the user the engine is going to run as. *)
Autolists == {files.host[p.auto].name : p \in {p \in ToSet(profiles) : p.auto # 0}}
Finalise ==
  /\ phase = "finalise" /\ {p \in ToSet(profiles) : ~Usable(p)} = {}
  /\ profiles' = [i \in DOMAIN profiles |-> Finished(profiles[i])]
  /\ disk' = IF params.droproot /\ me = "root"
               THEN [f \in DOMAIN disk |-> disk[f] \cup IF f \in Autolists THEN {Who(params.uid)} ELSE {}]
               ELSE disk
  /\ Goto("test")
  /\ UNCHANGED <<line, k, skip, dry, anon, files, params, me, loaded, fds, pidfile, pid>>

FinaliseRefused ==
  /\ phase = "finalise" /\ {p \in ToSet(profiles) : ~Usable(p)} # {}
  /\ Exit(1) /\ UNCHANGED <<lineVars, processVars>>

(* Every list in a file can be opened. *)
ListFiles(kind) == {f.name : f \in ToSet(files[kind])} \ {None}
test_list_files(who) == \A f \in ListFiles("host") \cup ListFiles("ip") : who \in disk[f]

TestLists ==
  /\ phase = "test"
  /\ IF test_list_files(me) THEN Goto("hostlists") ELSE Exit(1)
  /\ UNCHANGED <<lineVars, processVars>>

(* A list that is not there stays as it is, one that is cannot but be read    *)
(* whole: memory and decompression may fail.                                  *)
Load(kind) ==
  LET there == {f \in ListFiles(kind) : disk[f] # {}}
  IN  /\ \A f \in there : me \in disk[f]
      /\ loaded' = loaded \cup there
LoadFails(kind) == ListFiles(kind) # {} /\ UNCHANGED loaded /\ Exit(1)

LoadAllHostLists ==
  /\ phase = "hostlists"
  /\ (Load("host") /\ Goto("ipsets")) \/ LoadFails("host")
  /\ UNCHANGED <<lineVars, disk, me, fds, pidfile, pid>>

LoadAllIpsets ==
  /\ phase = "ipsets"
  /\ (Load("ip") /\ Goto(IF dry THEN "dry" ELSE "pidfile")) \/ LoadFails("ip")
  /\ UNCHANGED <<lineVars, disk, me, fds, pidfile, pid>>

(* Only root can become someone else, and even that can fail. *)
droproot == params.gids >= 1 /\ me = "root" /\ me' = Who(params.uid)

DryEnds ==
  /\ phase = "dry"
  /\ \/ params.droproot /\ droproot /\ Exit(IF test_list_files(me') THEN 0 ELSE 1)
     \/ params.droproot /\ UNCHANGED me /\ Exit(1)
     \/ ~params.droproot /\ UNCHANGED me /\ Exit(0)
  /\ UNCHANGED <<lineVars, disk, loaded, fds, pidfile, pid>>

CreatePidfile ==
  /\ phase = "pidfile"
  /\ \/ params.pidfile = None /\ UNCHANGED pidfile /\ Goto("utun")
     \/ params.pidfile # None /\ pidfile' = 0 /\ Goto("utun")
     \/ params.pidfile # None /\ UNCHANGED pidfile /\ Exit(1)
  /\ UNCHANGED <<lineVars, disk, me, loaded, fds, pid>>

(* The interface and the sender are opened while the process is root. *)
Open(fd, here, next) ==
  /\ phase = here
  /\ \/ me = "root" /\ fds' = fds \cup {fd} /\ Goto(next)
     \/ fds' = {} /\ Exit(1)
  /\ UNCHANGED <<lineVars, disk, me, loaded, pidfile, pid>>
macos_utun_open == Open("utun", "utun", "bpf")
rawsend_preinit == Open("bpf", "bpf", "drop")

(* A mutant: the lists are not tried again by whom root becomes. *)
DropRootUntested ==
  /\ phase = "drop" /\ params.droproot
  /\ \/ droproot /\ UNCHANGED fds /\ Goto("daemonize")
     \/ UNCHANGED me /\ fds' = {} /\ Exit(1)
  /\ UNCHANGED <<lineVars, disk, loaded, pidfile, pid>>

(* Who opened the interface is root, and params.droproot holds. *)
DropRoot ==
  /\ phase = "drop" /\ params.droproot
  /\ \/ /\ droproot
        /\ IF test_list_files(me') THEN UNCHANGED fds /\ Goto("daemonize") ELSE fds' = {} /\ Exit(1)
     \/ UNCHANGED me /\ fds' = {} /\ Exit(1)
  /\ UNCHANGED <<lineVars, disk, loaded, pidfile, pid>>

(* The child goes on, the parent is gone; without a child nobody is left. *)
Daemonize ==
  /\ phase = "daemonize"
  /\ \/ ~params.daemon /\ UNCHANGED <<pid, fds>> /\ Goto("writepid")
     \/ params.daemon /\ pid' = 2 /\ UNCHANGED fds /\ Goto("writepid")
     \/ params.daemon /\ fds' = {} /\ UNCHANGED pid /\ Exit(2)
  /\ UNCHANGED <<lineVars, disk, me, loaded, pidfile>>

WritePid ==
  /\ phase = "writepid"
  /\ \/ params.pidfile = None /\ UNCHANGED <<pidfile, fds>> /\ Goto("serving")
     \/ params.pidfile # None /\ pidfile' = pid /\ UNCHANGED fds /\ Goto("serving")
     \/ params.pidfile # None /\ UNCHANGED pidfile /\ fds' = {} /\ Exit(1)
  /\ UNCHANGED <<lineVars, disk, me, loaded, pid>>

(* The loop ends only with an error of a read or of a write. *)
LoopEnds ==
  /\ phase = "serving"
  /\ fds' = {} /\ Exit(1)
  /\ UNCHANGED <<lineVars, disk, me, loaded, pidfile, pid>>

CommandLineStep ==
  \/ ReadConfig \/ Unknown \/ Version \/ DryRun \/ Skip \/ New
  \/ Assign \/ AssignRefused \/ SetGlobal \/ GlobalRefused
  \/ ListSkipped \/ RegisterFile \/ RegisterRefused \/ RegisterItems
  \/ EndOfOptions \/ Finalise \/ FinaliseRefused
ProcessStep ==
  \/ TestLists \/ LoadAllHostLists \/ LoadAllIpsets \/ DryEnds
  \/ CreatePidfile \/ macos_utun_open \/ rawsend_preinit \/ DropRoot
  \/ Daemonize \/ WritePid \/ LoopEnds

Next == CommandLineStep \/ ProcessStep

Spec == Init /\ [][Next]_vars


--------------------------------------------------------------------------------
(* Properties. *)

(* Every variable stays in its range: a profile has the fields of dp_init and  *)
(* no more positions than fit, and a collection names lists that are there.    *)
TypeOK ==
  /\ line \in Lines \cup {Config[f] : f \in DOMAIN Config} \cup {<<>>}
  /\ k \in 1 .. Len(line) + 1
  /\ \A p \in ToSet(profiles) :
       /\ DOMAIN p = DOMAIN dp_init
       /\ p.n \in 0 .. Len(profiles) /\ Len(p.splits) <= MaxSplits
       /\ p.hl \cup p.hl_exclude \subseteq DOMAIN files.host
       /\ p.ips \cup p.ips_exclude \subseteq DOMAIN files.ip
       /\ p.auto \in {0} \cup p.hl
  /\ skip \in BOOLEAN /\ dry \in BOOLEAN
  /\ \A c \in Collections : anon[c] \in 0 .. Len(files.host) + Len(files.ip)
  /\ DOMAIN params = DOMAIN DefaultParams(TRUE)
  /\ disk \in [DOMAIN disk -> SUBSET {"root", "user"}]
  /\ me \in {"root", "user"} /\ fds \subseteq {"utun", "bpf"}
  /\ loaded \subseteq DOMAIN disk
  /\ pidfile \in 0 .. 2 /\ pid \in {1, 2} /\ code \in 0 .. 2
  /\ phase \in {"start", "options", "finalise", "test", "hostlists", "ipsets", "dry", "pidfile",
                "utun", "bpf", "drop", "daemonize", "writepid", "serving", "exit"}

(* The sections of a line: the first begins with it, and every --new begins     *)
(* another. A section is the set of the positions of its options.              *)
Begins(l) == {0} \cup {b \in DOMAIN l : l[b].opt = "new"}
Section(l, b) == {j \in DOMAIN l : j > b /\ \A i \in b + 1 .. j : l[i].opt # "new"}
Given(l, s, options) == {j \in s : l[j].opt \in options}

(* The sections that --skip does not give up, and the place of one among them *)
Kept(l) == {b \in Begins(l) : Given(l, Section(l, b), {"skip"}) = {}}
Place(l, b) == Cardinality({c \in Kept(l) : c <= b})
Parsed == phase \notin {"start", "options", "exit"}

(* The words of the options of a section, and the files that they name *)
WordsOf(l, s, options) == UNION {Words(l[j].arg) : j \in Given(l, s, options)}
FilesOf(l, s, options) == {l[j].arg[1].w : j \in Given(l, s, options)}

(* What the options of a section, up to a position of the line, would make of *)
(* a profile if the section were the only one of the line                     *)
MadeBy(l, s) ==
  LET made[j \in 0 .. Len(l)] ==
        IF j = 0 THEN {dp_init}
        ELSE IF j \in Given(l, s, ProfileOption) THEN UNION {Assigned(l[j], p) : p \in made[j - 1]}
        ELSE made[j - 1]
  IN  made
Named(kind, indices) == {files[kind][i].name : i \in indices} \ {None}
Items0(kind, indices) == UNION {files[kind][i].has : i \in indices}

(* The lists of a profile are those that the options of its section name *)
ListsMean(s, p) ==
  /\ Named("host", p.hl) = FilesOf(line, s, {"hostlist", "hostlist-auto"})
  /\ Named("host", p.hl_exclude) = FilesOf(line, s, {"hostlist-exclude"})
  /\ Named("ip", p.ips) = FilesOf(line, s, {"ipset"})
  /\ Named("ip", p.ips_exclude) = FilesOf(line, s, {"ipset-exclude"})
  /\ Items0("host", p.hl) = WordsOf(line, s, {"hostlist-domains"}) \ {""}
  /\ Items0("host", p.hl_exclude) = WordsOf(line, s, {"hostlist-exclude-domains"}) \ {""}
  /\ Items0("ip", p.ips) = WordsOf(line, s, {"ipset-ip"}) \cap Subnets
  /\ Items0("ip", p.ips_exclude) = WordsOf(line, s, {"ipset-exclude-ip"}) \cap Subnets
  /\ IF p.auto = 0 THEN Given(line, s, {"hostlist-auto"}) = {}
     ELSE files.host[p.auto].name \in FilesOf(line, s, {"hostlist-auto"})

(* MULTI-STRATEGY of the help (nfqws.c:1915): every section of the line that   *)
(* is not skipped is one profile, in order, numbered from one, and holds what  *)
(* its own options say and nothing of another section, skipped or not; the     *)
(* last profile is the empty one with number zero.                             *)
ProfilesAreSections ==
  Parsed =>
    LET Done(p) == IF phase = "finalise" THEN p ELSE Finished(p)
        Own(p) == [p EXCEPT !.hl = {}, !.hl_exclude = {}, !.ips = {}, !.ips_exclude = {}, !.auto = 0]
    IN  /\ Len(profiles) = Cardinality(Kept(line)) + 1
        /\ Last(profiles) = Done(dp_init)
        /\ \A b \in Kept(line) :
             LET i == Place(line, b)
                 s == Section(line, b)
             IN  /\ Own(profiles[i]) \in {Done([m EXCEPT !.n = i]) : m \in MadeBy(line, s)[Len(line)]}
                 /\ ListsMean(s, profiles[i])

(* Does the item of a port filter hold for a port? 0 holds for none, negated or *)
(* not ("deny all case", helpers.c:438).                                       *)
Holds(i, port) == Last(i.n) # 0 /\ ((port \in i.n[1] .. Last(i.n)) # (i.w = "~"))
PortsOf(l, s, opt) == UNION {Items(l[j].arg) : j \in Given(l, s, {opt})}
(* "setting tcp and not setting udp filter denies udp" (nfqws.c:1916), and the *)
(* other way round. *)
Wanted(l, s, mine, other, port) ==
  IF PortsOf(l, s, mine) = {} THEN PortsOf(l, s, other) = {}
  ELSE \E i \in PortsOf(l, s, mine) : Holds(i, port)
Probes == {1, 79, 80, 443, 444, 65535}
FiltersMean(l, s, p) ==
  \A port \in Probes :
    /\ port_filters_in_range(p.pf_tcp, port) = Wanted(l, s, "filter-tcp", "filter-udp", port)
    /\ port_filters_in_range(p.pf_udp, port) = Wanted(l, s, "filter-udp", "filter-tcp", port)

(* The port filters of a profile admit what its section says, in whatever      *)
(* order and however often --filter-tcp and --filter-udp are given. "*" is left *)
(* out: whether it is negated is not said by the code (parse_pf_list).         *)
PortFiltersMean ==
  Parsed =>
    \A b \in Kept(line) :
      "*" \notin WordsOf(line, Section(line, b), {"filter-tcp", "filter-udp"}) =>
        FiltersMean(line, Section(line, b), profiles[Place(line, b)])

(* The mod list given last, and the name given last, by the lists at some      *)
(* positions of a line                                                         *)
LastMods(l, lists) == Words(l[Max(lists)].arg) \ {"none"}
NameGiven(arg) == arg[Max({i \in DOMAIN arg : arg[i].w = "sni"})].n[1]
Naming(l, lists) == {j \in lists : "sni" \in Words(l[j].arg)}

(* A fake ClientHello carries the mods that were given last before the next    *)
(* fake of its section, and a name if one of the mod lists so far gave it;     *)
(* without any mods a payload of the user is sent as it is, and the built-in   *)
(* one is randomised.                                                          *)
ModsReachFakes ==
  (Parsed /\ phase # "finalise") =>
    \A b \in Kept(line) :
      LET fakes == Given(line, Section(line, b), {"dpi-desync-fake-tls"})
          mods == Given(line, Section(line, b), {"dpi-desync-fake-tls-mod"})
          sent == profiles[Place(line, b)].fake_tls
      IN  /\ Len(sent) = IF fakes = {} THEN 1 ELSE Cardinality(fakes)
          /\ \A f \in DOMAIN sent :
               LET lists == {j \in mods : Cardinality({i \in fakes : i < j}) <= f}
                   names == Naming(line, lists)
               IN  /\ sent[f].mod \ SavedMods =
                         IF lists # {} THEN LastMods(line, lists)
                         ELSE IF fakes = {} THEN {"rnd", "rndsni", "dupsid"} ELSE {}
                   /\ names # {} => sent[f].sni = NameGiven(line[Max(names)].arg)

(* An engine that serves is not root unless it was told to be, could open every *)
(* list of its profiles as who it now is and has read it, holds both privileged *)
(* descriptors, and its pid file names the process that serves.                 *)
RunsReady ==
  phase = "serving" =>
    /\ me = Who(params.uid)
    /\ fds = {"utun", "bpf"}
    /\ \A p \in ToSet(profiles) :
         \A f \in Named("host", p.hl \cup p.hl_exclude) \cup Named("ip", p.ips \cup p.ips_exclude) :
           f \in loaded /\ me \in disk[f]
    /\ params.pidfile # None => pidfile = pid
    /\ (pid = 2) = params.daemon

================================================================================
