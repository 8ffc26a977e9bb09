------------------------------ MODULE Supervisor ------------------------------
(***************************************************************************)
(* How the packet engine is run on macOS: the launchd job                  *)
(* io.github.flowseal.zapretmac, its program run.sh, the watchdog run.sh   *)
(* starts, and the scripts the application runs as root to control the job *)
(* (stop.sh, install.sh, restart.sh), with what they share: the rules of   *)
(* the pf anchor that route traffic to utun50, the reference that keeps pf *)
(* enabled and the file it is noted in, the keepinit sysctl and the file   *)
(* its former value is saved in.                                           *)
(*                                                                         *)
(* A script is a sequence of commands, a process a position in a script;   *)
(* every command that touches what is shared is a step of its own.  The    *)
(* engine is a process that makes utun50 some time after it was started    *)
(* and takes it along when it ends.  What run.sh copies into the engine's  *)
(* configuration is the matter of ControlPanel.                            *)
(***************************************************************************)
EXTENDS Integers, Sequences, FiniteSets

CONSTANTS
  Token,       \* references to pf, as pfctl -E hands them out
  NoToken,     \* an empty TOKEN, or no token file
  Route,       \* default routes of the machine
  MaxScripts,  \* bound: scripts run by the application
  MaxFaults    \* bound: crashes, failing commands, changes of route, reboots

ASSUME BoundAssumption == MaxScripts \in Nat /\ MaxFaults \in Nat
ASSUME TokenAssumption == NoToken \notin Token
ASSUME RouteAssumption == Route # {}

VARIABLES
  at,         \* position of each process in its script
  back,       \* where run.sh goes on after cleanup, Idle if it exits
  trap,       \* run.sh's trap is set
  term,       \* a SIGTERM run.sh has not handled yet
  pids,       \* which of ENGINE_PID and WATCHDOG_PID run.sh has set
  TOKEN,      \* the shell variable of that name of each process
  PHYSICAL_IFACE, GATEWAY,  \* the route run.sh found when it started
  borrowed,   \* (history) it found pf enabled, and by another program alone
  engine,     \* utunws: not running, starting, or up, with utun50
  rules,      \* the anchor routes traffic to utun50
  tokens,     \* references to pf handed out and not released
  tokenFile,  \* /var/run/zapret-macos.pf-token
  others,     \* another program keeps pf enabled
  keepinit,   \* net.inet.tcp.keepinit: the user's value or ours
  keepFile,   \* /var/db/zapret-macos.keepinit
  plist,      \* the job's plist is installed
  enabled,    \* launchd's override for the job
  loaded,     \* the job as launchd has it: no, yes, or leaving
  due,        \* launchd is to start the job
  ending,     \* launchd has sent SIGTERM and waits for run.sh to end
  route,      \* the default route
  scripts, faults           \* what is left of the bounds

shared == <<rules, tokens, tokenFile, keepinit, keepFile>>
shell == <<at, back, trap, term, pids, TOKEN>>
found == <<PHYSICAL_IFACE, GATEWAY, borrowed>>
job == <<plist, enabled, loaded, due, ending>>
world == <<others, route, scripts, faults>>
vars == <<shell, found, engine, shared, job, world>>

Process == {"run", "dog", "ctl"}

(* The scripts.  Cleanup is the function run.sh traps signals and its exit *)
(* with; the watchdog, stop.sh and it release the pf reference in the same *)
(* way, by read, drop and rm.                                              *)
RunSh ==
  <<"keepinit", "trap", "flush", "pkill", "iface", "gateway", "engine", "enginepid", "utun",
    "ifconfig", "dog", "dogpid", "pfinfo", "pfenable", "record", "rules", "loop">>
Cleanup == <<"flush", "killdog", "killengine", "read", "drop", "rm", "return">>
WatchdogSh == <<"watch", "flush", "pkill", "read", "drop", "rm">>

(* Mutant of StopSh: the anchor is flushed before the job is gone. *)
StopShFlushesFirst ==
  <<"disable", "flush", "bootout", "pkill", "read", "drop", "rm", "restore", "forget">>

StopSh ==
  <<"disable", "bootout", "flush", "pkill", "read", "drop", "rm", "restore", "forget">>
InstallSh ==
  <<"bootout", "flush", "pkill", "copy", "save", "raise", "enable", "bootstrap", "kickstart",
    "await">>
RestartSh == <<"enable", "bootstrap", "kickstart">>

Program ==
  [idle |-> <<"idle">>, run |-> RunSh, cleanup |-> Cleanup, watchdog |-> WatchdogSh,
   stop |-> StopSh, install |-> InstallSh, restart |-> RestartSh]

Start(s) == [script |-> s, n |-> 1]
Idle == Start("idle")
Running(p) == at[p] # Idle
Command(p) == Program[at[p].script][at[p].n]

(* The position k commands further on *)
Further(pos, k) ==
  IF pos.n + k <= Len(Program[pos.script]) THEN [pos EXCEPT !.n = @ + k] ELSE Idle

(* p is at command c; it goes on to the next, or skips k - 1 commands.     *)
Does(p, c) == Running(p) /\ Command(p) = c
Skips(p, k) == at' = [at EXCEPT ![p] = Further(@, k)] /\ UNCHANGED <<back, trap, term, pids>>
Steps(p) == Skips(p, 1)

------------------------------------------------------------------------------
(* Commands of more than one script *)

(* pfctl -a com.apple/zapret-macos -F all *)
Flush(p) ==
  /\ Does(p, "flush")
  /\ rules' = FALSE
  /\ Steps(p)
  /\ UNCHANGED <<TOKEN, found, engine, tokens, tokenFile, keepinit, keepFile, job, world>>

(* pkill -9 -x utunws; the watchdog kills the process it was told of *)
KillEngine(p) ==
  /\ Does(p, "pkill")
  /\ engine' = "none"
  /\ Steps(p)
  /\ UNCHANGED <<TOKEN, found, shared, job, world>>

(* if [ -s "$TOKEN_FILE" ]; then TOKEN=$(cat ...) *)
ReadToken(p) ==
  /\ Does(p, "read")
  /\ TOKEN' = [TOKEN EXCEPT ![p] = tokenFile]
  /\ Skips(p, IF tokenFile = NoToken THEN 3 ELSE 1)
  /\ UNCHANGED <<found, engine, shared, job, world>>

(* pfctl -X "$TOKEN" *)
DropToken(p) ==
  /\ Does(p, "drop")
  /\ tokens' = tokens \ {TOKEN[p]}
  /\ TOKEN' = [TOKEN EXCEPT ![p] = NoToken]
  /\ Steps(p)
  /\ UNCHANGED <<found, engine, rules, tokenFile, keepinit, keepFile, job, world>>

(* rm -f "$TOKEN_FILE" *)
RemoveToken(p) ==
  /\ Does(p, "rm")
  /\ tokenFile' = NoToken
  /\ Steps(p)
  /\ UNCHANGED <<TOKEN, found, engine, rules, tokens, keepinit, keepFile, job, world>>

------------------------------------------------------------------------------
(* run.sh *)

(* run.sh comes to an end, always with a failure; the trap on EXIT, if it  *)
(* is still set, runs cleanup first.                                       *)
Ended == due' = TRUE /\ ending' = FALSE /\ UNCHANGED <<plist, enabled, loaded>>
Exit ==
  /\ back' = Idle
  /\ term' = FALSE
  /\ trap' = FALSE
  /\ IF trap
     THEN at' = [at EXCEPT !["run"] = Start("cleanup")] /\ UNCHANGED <<TOKEN, job>>
     ELSE /\ at' = [at EXCEPT !["run"] = Idle]
          /\ TOKEN' = [TOKEN EXCEPT !["run"] = NoToken]
          /\ Ended
  /\ UNCHANGED <<pids, found, engine, shared>>

RaiseKeepinit ==
  /\ Does("run", "keepinit")
  /\ keepinit' = IF keepFile = "none" THEN keepinit ELSE "ours"
  /\ Steps("run")
  /\ UNCHANGED <<TOKEN, found, engine, rules, tokens, tokenFile, keepFile, job, world>>

SetTrap ==
  /\ Does("run", "trap")
  /\ trap' = TRUE
  /\ at' = [at EXCEPT !["run"] = Further(@, 1)]
  /\ UNCHANGED <<back, term, pids, TOKEN, found, engine, shared, job, world>>

(* The interface and the gateway come from two calls of route. *)
FindInterface ==
  /\ Does("run", "iface")
  /\ PHYSICAL_IFACE' = route
  /\ Steps("run")
  /\ UNCHANGED <<TOKEN, GATEWAY, borrowed, engine, shared, job, world>>

FindGateway ==
  /\ Does("run", "gateway")
  /\ GATEWAY' = route
  /\ Steps("run")
  /\ UNCHANGED <<TOKEN, PHYSICAL_IFACE, borrowed, engine, shared, job, world>>

StartEngine ==
  /\ Does("run", "engine")
  /\ engine' = "starting"
  /\ Steps("run")
  /\ UNCHANGED <<TOKEN, found, shared, job, world>>

(* ENGINE_PID=$!, WATCHDOG_PID=$!: until then cleanup does not know of them. *)
NotePid(c, child) ==
  /\ Does("run", c)
  /\ pids' = pids \cup {child}
  /\ at' = [at EXCEPT !["run"] = Further(@, 1)]
  /\ UNCHANGED <<back, trap, term, TOKEN, found, engine, shared, job, world>>

(* Wait for utun50, as long as the engine lives. *)
SeeUtun ==
  /\ Does("run", "utun")
  /\ engine = "up"
  /\ Steps("run")
  /\ UNCHANGED <<TOKEN, found, engine, shared, job, world>>
MissUtun ==
  /\ Does("run", "utun")
  /\ engine = "none"
  /\ Exit
  /\ UNCHANGED world

(* ifconfig utun50 ... up *)
ConfigureUtun ==
  /\ Does("run", "ifconfig")
  /\ engine = "up"
  /\ Steps("run")
  /\ UNCHANGED <<TOKEN, found, engine, shared, job, world>>
NoUtunToConfigure ==
  /\ Does("run", "ifconfig")
  /\ engine # "up"
  /\ Exit
  /\ UNCHANGED world

StartWatchdog ==
  /\ Does("run", "dog")
  /\ at' = [at EXCEPT !["run"] = Further(@, 1), !["dog"] = Start("watchdog")]
  /\ UNCHANGED <<back, trap, term, pids, TOKEN, found, engine, shared, job, world>>

PfDisabled == tokens = {} /\ ~ others

(* Mutant of SeePf: pf is enabled once more, whether it is or not. *)
SeePfAnyway ==
  /\ Does("run", "pfinfo")
  /\ borrowed' = (others /\ tokens = {})
  /\ Steps("run")
  /\ UNCHANGED <<TOKEN, PHYSICAL_IFACE, GATEWAY, engine, shared, job, world>>

(* if pfctl -s info | grep '^Status: Disabled' *)
SeePf ==
  /\ Does("run", "pfinfo")
  /\ borrowed' = (others /\ tokens = {})
  /\ Skips("run", IF PfDisabled THEN 1 ELSE 3)
  /\ UNCHANGED <<TOKEN, PHYSICAL_IFACE, GATEWAY, engine, shared, job, world>>

FreshTokens == Token \ (tokens \cup {tokenFile} \cup {TOKEN[p] : p \in Process})

(* TOKEN=$(pfctl -E) *)
EnablePf ==
  /\ Does("run", "pfenable")
  /\ FreshTokens # {}
  /\ LET t == CHOOSE t \in FreshTokens : TRUE
     IN  /\ TOKEN' = [TOKEN EXCEPT !["run"] = t]
         /\ tokens' = tokens \cup {t}
  /\ Steps("run")
  /\ UNCHANGED <<found, engine, rules, tokenFile, keepinit, keepFile, job, world>>

(* echo "$TOKEN" >"$TOKEN_FILE" *)
RecordToken ==
  /\ Does("run", "record")
  /\ tokenFile' = TOKEN["run"]
  /\ TOKEN' = [TOKEN EXCEPT !["run"] = NoToken]
  /\ Steps("run")
  /\ UNCHANGED <<found, engine, rules, tokens, keepinit, keepFile, job, world>>

LoadRules ==
  /\ Does("run", "rules")
  /\ rules' = TRUE
  /\ Steps("run")
  /\ UNCHANGED <<TOKEN, found, engine, tokens, tokenFile, keepinit, keepFile, job, world>>

(* Mutants of Lost: the loop looks at the route only, or not at the interface. *)
LostRoute == PHYSICAL_IFACE # route \/ GATEWAY # route
LostGateway == engine = "none" \/ GATEWAY # route

(* What ends the loop: the engine is gone or the default route is another. *)
Lost == engine = "none" \/ PHYSICAL_IFACE # route \/ GATEWAY # route

LeaveLoop ==
  /\ Does("run", "loop")
  /\ Lost
  /\ Exit
  /\ UNCHANGED world

(* Mutant of TakeTrap: cleanup does not reset the trap. *)
TakeTrapAgain ==
  /\ Running("run") /\ term /\ trap
  /\ back' = at["run"]
  /\ term' = FALSE
  /\ at' = [at EXCEPT !["run"] = Start("cleanup")]
  /\ UNCHANGED <<trap, pids, TOKEN, found, engine, shared, job, world>>

(* A SIGTERM that came is handled between two commands: the trap runs      *)
(* cleanup, which does not exit, so that run.sh goes on where it was.      *)
TakeTrap ==
  /\ Running("run") /\ term /\ trap
  /\ back' = at["run"]
  /\ trap' = FALSE
  /\ term' = FALSE
  /\ at' = [at EXCEPT !["run"] = Start("cleanup")]
  /\ UNCHANGED <<pids, TOKEN, found, engine, shared, job, world>>

KillWatchdog ==
  /\ Does("run", "killdog")
  /\ at' = [at EXCEPT !["dog"] = IF "dog" \in pids THEN Idle ELSE @,
                      !["run"] = Further(@, 1)]
  /\ TOKEN' = [TOKEN EXCEPT !["dog"] = IF "dog" \in pids THEN NoToken ELSE @]
  /\ UNCHANGED <<back, trap, term, pids, found, engine, shared, job, world>>

KillOwnEngine ==
  /\ Does("run", "killengine")
  /\ engine' = IF "engine" \in pids THEN "none" ELSE engine
  /\ Steps("run")
  /\ UNCHANGED <<TOKEN, found, shared, job, world>>

(* Back to where the signal was taken, or to the end of run.sh. *)
ReturnFromCleanup ==
  /\ Does("run", "return")
  /\ at' = [at EXCEPT !["run"] = back]
  /\ back' = Idle
  /\ IF back = Idle THEN Ended ELSE UNCHANGED job
  /\ UNCHANGED <<trap, term, pids, TOKEN, found, engine, shared, world>>

Run ==
  \/ RaiseKeepinit \/ SetTrap \/ FindInterface \/ FindGateway \/ StartEngine
  \/ NotePid("enginepid", "engine") \/ NotePid("dogpid", "dog")
  \/ SeeUtun \/ MissUtun \/ ConfigureUtun \/ NoUtunToConfigure \/ StartWatchdog
  \/ SeePf \/ EnablePf \/ RecordToken \/ LoadRules \/ LeaveLoop
  \/ TakeTrap \/ KillWatchdog \/ KillOwnEngine \/ ReturnFromCleanup

(* watchdog.sh: while run.sh and the engine are alive *)
SeeDeath ==
  /\ Does("dog", "watch")
  /\ ~ Running("run") \/ engine = "none"
  /\ Steps("dog")
  /\ UNCHANGED <<TOKEN, found, engine, shared, job, world>>

Shared(p) ==
  Flush(p) \/ KillEngine(p) \/ ReadToken(p) \/ DropToken(p) \/ RemoveToken(p)

(* utunws makes its interface. *)
EngineUp ==
  /\ engine = "starting"
  /\ engine' = "up"
  /\ UNCHANGED <<shell, found, shared, job, world>>

------------------------------------------------------------------------------
(* launchd *)

(* SIGTERM ends run.sh at once while no trap is set, SIGKILL always does.  *)
Die(pos) ==
  /\ at' = [pos EXCEPT !["run"] = Idle]
  /\ TOKEN' = [TOKEN EXCEPT !["run"] = NoToken]
  /\ back' = Idle
  /\ trap' = FALSE
  /\ term' = FALSE
  /\ ending' = FALSE
  /\ UNCHANGED pids
Terminate(pos) ==
  \/ /\ Running("run") /\ trap
     /\ term' = TRUE
     /\ ending' = TRUE
     /\ at' = pos
     /\ UNCHANGED <<back, trap, pids, TOKEN>>
  \/ /\ Running("run") /\ ~ trap
     /\ Die(pos)
  \/ /\ ~ Running("run")
     /\ at' = pos
     /\ UNCHANGED <<back, trap, term, pids, TOKEN, ending>>

(* launchd waits for a while, then sends SIGKILL. *)
KillSlow ==
  /\ ending /\ Running("run")
  /\ Die(at)
  /\ due' = TRUE
  /\ UNCHANGED <<found, engine, shared, plist, enabled, loaded, world>>

(* When run.sh has ended launchd ends what is left of its process group    *)
(* (the plist does not set AbandonProcessGroup).                           *)
Reap ==
  /\ ~ Running("run")
  /\ Running("dog") \/ engine # "none"
  /\ at' = [at EXCEPT !["dog"] = Idle]
  /\ TOKEN' = [TOKEN EXCEPT !["dog"] = NoToken]
  /\ engine' = "none"
  /\ UNCHANGED <<back, trap, term, pids, found, shared, job, world>>

Gone == ~ Running("run") /\ ~ Running("dog") /\ engine = "none"

(* RunAtLoad, kickstart, and KeepAlive after a failure *)
Spawn ==
  /\ loaded = "yes" /\ due /\ Gone
  /\ due' = FALSE
  /\ at' = [at EXCEPT !["run"] = Start("run")]
  /\ pids' = {}
  /\ UNCHANGED <<back, trap, term, TOKEN, found, engine, shared, plist, enabled, loaded, ending,
                 world>>

(* A bootout is over when the job has ended. *)
Leave ==
  /\ loaded = "leaving" /\ Gone
  /\ loaded' = "no"
  /\ due' = FALSE
  /\ UNCHANGED <<shell, found, engine, shared, plist, enabled, ending, world>>

Launchd == KillSlow \/ Reap \/ Spawn \/ Leave

------------------------------------------------------------------------------
(* The scripts that control the job.  The application runs one at a time.  *)

RunScript(s) ==
  /\ ~ Running("ctl")
  /\ scripts > 0
  /\ s = "restart" => plist
  /\ scripts' = scripts - 1
  /\ at' = [at EXCEPT !["ctl"] = Start(s)]
  /\ UNCHANGED <<back, trap, term, pids, TOKEN, found, engine, shared, job, others, route, faults>>

Fails(s) ==
  /\ at' = [at EXCEPT !["ctl"] = Start(s)]
  /\ UNCHANGED <<back, trap, term, pids, TOKEN>>

Override(c, on) ==
  /\ Does("ctl", c)
  /\ enabled' = on
  /\ Steps("ctl")
  /\ UNCHANGED <<TOKEN, found, engine, shared, plist, loaded, due, ending, world>>

(* launchctl bootout signals the job and returns when it is gone. *)
Bootout ==
  /\ Does("ctl", "bootout")
  /\ loaded = "yes"
  /\ loaded' = "leaving"
  /\ due' = FALSE
  /\ Terminate(at)
  /\ UNCHANGED <<found, engine, shared, plist, enabled, world>>
BootoutDone ==
  /\ Does("ctl", "bootout")
  /\ loaded = "no"
  /\ Steps("ctl")
  /\ UNCHANGED <<TOKEN, found, engine, shared, job, world>>

(* The payload and the plist; set -e ends install.sh if that fails. *)
CopyPayload ==
  /\ Does("ctl", "copy")
  /\ \/ Steps("ctl") /\ plist' = TRUE
     \/ Fails("idle") /\ UNCHANGED plist
  /\ UNCHANGED <<TOKEN, found, engine, shared, enabled, loaded, due, ending, world>>

(* Mutant of SaveKeepinit: saved whether a value is saved already or not. *)
SaveKeepinitAgain ==
  /\ Does("ctl", "save")
  /\ keepFile' = keepinit
  /\ Steps("ctl")
  /\ UNCHANGED <<TOKEN, found, engine, rules, tokens, tokenFile, keepinit, job, world>>

(* if [ ! -s "$KEEPINIT_FILE" ] *)
SaveKeepinit ==
  /\ Does("ctl", "save")
  /\ keepFile' = IF keepFile = "none" THEN keepinit ELSE keepFile
  /\ Steps("ctl")
  /\ UNCHANGED <<TOKEN, found, engine, rules, tokens, tokenFile, keepinit, job, world>>

SetKeepinit ==
  /\ Does("ctl", "raise")
  /\ keepinit' = "ours"
  /\ Steps("ctl")
  /\ UNCHANGED <<TOKEN, found, engine, rules, tokens, tokenFile, keepFile, job, world>>

RestoreKeepinit ==
  /\ Does("ctl", "restore")
  /\ keepinit' = IF keepFile = "none" THEN keepinit ELSE keepFile
  /\ Steps("ctl")
  /\ UNCHANGED <<TOKEN, found, engine, rules, tokens, tokenFile, keepFile, job, world>>

ForgetKeepinit ==
  /\ Does("ctl", "forget")
  /\ keepFile' = "none"
  /\ Steps("ctl")
  /\ UNCHANGED <<TOKEN, found, engine, rules, tokens, tokenFile, keepinit, job, world>>

(* restart.sh skips it if the job is there; install.sh gives up in the end *)
(* and stops everything.                                                   *)
Bootstrap ==
  /\ Does("ctl", "bootstrap")
  /\ \/ /\ loaded = "no" /\ enabled
        /\ loaded' = "yes"
        /\ due' = TRUE
        /\ Steps("ctl")
     \/ /\ loaded = "yes" /\ at["ctl"].script = "restart"
        /\ Steps("ctl")
        /\ UNCHANGED <<loaded, due>>
     \/ /\ loaded = "no" \/ at["ctl"].script = "install"
        /\ Fails(IF at["ctl"].script = "install" THEN "stop" ELSE "idle")
        /\ UNCHANGED <<loaded, due>>
  /\ UNCHANGED <<TOKEN, found, engine, shared, plist, enabled, ending, world>>

(* launchctl kickstart -k: the job that runs is ended first. *)
Kickstart ==
  /\ Does("ctl", "kickstart")
  /\ loaded = "yes"
  /\ due' = TRUE
  /\ LET pos == [at EXCEPT !["ctl"] = Further(@, 1)] IN Terminate(pos) \/ Die(pos)
  /\ UNCHANGED <<found, engine, shared, plist, enabled, loaded, world>>

(* install.sh waits ten seconds for utun50. *)
Await ==
  /\ Does("ctl", "await")
  /\ \/ engine = "up" /\ Steps("ctl")
     \/ engine # "up" /\ Fails("stop")
  /\ UNCHANGED <<TOKEN, found, engine, shared, job, world>>

Control ==
  \/ Override("disable", FALSE) \/ Override("enable", TRUE)
  \/ Bootout \/ BootoutDone \/ CopyPayload
  \/ SaveKeepinit \/ SetKeepinit \/ RestoreKeepinit \/ ForgetKeepinit
  \/ Bootstrap \/ Kickstart \/ Await

------------------------------------------------------------------------------
(* What goes wrong *)

Fault == faults > 0 /\ faults' = faults - 1 /\ UNCHANGED scripts

EngineDies ==
  /\ Fault
  /\ engine # "none"
  /\ engine' = "none"
  /\ UNCHANGED <<shell, found, shared, job, others, route>>

(* SIGKILL, by launchd when run.sh is slow to end or by anyone else *)
RunKilled ==
  /\ Fault
  /\ Running("run")
  /\ Die(at)
  /\ due' = TRUE
  /\ UNCHANGED <<found, engine, shared, plist, enabled, loaded, others, route>>

(* No default route, no address of the gateway, a list that is missing, an *)
(* engine that does not make utun50 in time, pfctl that refuses the rules. *)
RunFails ==
  /\ Fault
  /\ Running("run")
  /\ Command("run") \in {"iface", "gateway", "engine", "utun", "ifconfig", "rules"}
  /\ at["run"].script = "run"
  /\ Exit
  /\ UNCHANGED <<others, route>>

RouteChanges ==
  /\ Fault
  /\ \E r \in Route \ {route} : route' = r
  /\ UNCHANGED <<shell, found, engine, shared, job, others>>

OthersUsePf ==
  /\ Fault
  /\ others' = ~ others
  /\ UNCHANGED <<shell, found, engine, shared, job, route>>

(* Files under /var/db stay, what is in the kernel or in /var/run does not. *)
Reboot ==
  /\ Fault
  /\ at' = [p \in Process |-> Idle]
  /\ TOKEN' = [p \in Process |-> NoToken]
  /\ back' = Idle /\ trap' = FALSE /\ term' = FALSE /\ pids' = {}
  /\ ending' = FALSE
  /\ engine' = "none"
  /\ rules' = FALSE /\ tokens' = {} /\ tokenFile' = NoToken
  /\ keepinit' = "user"
  /\ loaded' = IF plist /\ enabled THEN "yes" ELSE "no"
  /\ due' = (plist /\ enabled)
  /\ UNCHANGED <<found, keepFile, plist, enabled, others, route>>

Faults == EngineDies \/ RunKilled \/ RunFails \/ RouteChanges \/ OthersUsePf \/ Reboot

------------------------------------------------------------------------------
(* A machine the application has not been used on, or one that has just    *)
(* been started with the job installed.                                    *)
Init ==
  /\ at = [p \in Process |-> Idle]
  /\ TOKEN = [p \in Process |-> NoToken]
  /\ back = Idle /\ trap = FALSE /\ term = FALSE /\ pids = {} /\ ending = FALSE
  /\ route \in Route /\ PHYSICAL_IFACE = route /\ GATEWAY = route
  /\ engine = "none"
  /\ rules = FALSE /\ tokens = {} /\ tokenFile = NoToken
  /\ others \in BOOLEAN /\ borrowed = FALSE
  /\ keepinit = "user"
  /\ plist \in BOOLEAN /\ enabled = TRUE
  /\ loaded = (IF plist THEN "yes" ELSE "no")
  /\ due = plist
  /\ keepFile = (IF plist THEN "user" ELSE "none")
  /\ scripts = MaxScripts /\ faults = MaxFaults

Next ==
  \/ Run
  \/ SeeDeath
  \/ \E p \in Process : Shared(p)
  \/ EngineUp
  \/ Launchd
  \/ \E s \in {"stop", "install", "restart"} : RunScript(s)
  \/ Control
  \/ Faults

Spec == Init /\ [][Next]_vars

(* Each process runs on, the engine comes up, launchd does its work.  No   *)
(* one has to run a script and nothing has to go wrong.                    *)
Fairness ==
  /\ WF_vars(Run \/ Shared("run"))
  /\ WF_vars(SeeDeath \/ Shared("dog"))
  /\ WF_vars(Control \/ Shared("ctl"))
  /\ WF_vars(EngineUp)
  /\ WF_vars(Launchd)

LiveSpec == Spec /\ Fairness

------------------------------------------------------------------------------
(* Properties. *)

Position(s) == [script : {s}, n : 1 .. Len(Program[s])]
RunPosition == Position("idle") \cup Position("run") \cup Position("cleanup")
DogPosition == Position("idle") \cup Position("watchdog")
CtlPosition ==
  Position("idle") \cup Position("stop") \cup Position("install") \cup Position("restart")

ShellOK ==
  /\ at \in [Process -> RunPosition \cup DogPosition \cup CtlPosition]
  /\ at["run"] \in RunPosition /\ at["dog"] \in DogPosition /\ at["ctl"] \in CtlPosition
  /\ back \in Position("idle") \cup Position("run")
  /\ trap => at["run"].script # "cleanup"
  /\ trap \in BOOLEAN /\ term \in BOOLEAN
  /\ pids \in SUBSET {"engine", "dog"}
  /\ TOKEN \in [Process -> Token \cup {NoToken}]

MachineOK ==
  /\ PHYSICAL_IFACE \in Route /\ GATEWAY \in Route /\ route \in Route
  /\ engine \in {"none", "starting", "up"}
  /\ rules \in BOOLEAN /\ others \in BOOLEAN /\ borrowed \in BOOLEAN
  /\ tokens \in SUBSET Token /\ tokenFile \in Token \cup {NoToken}
  /\ keepinit \in {"user", "ours"} /\ keepFile \in {"none", "user", "ours"}

JobOK ==
  /\ plist \in BOOLEAN /\ enabled \in BOOLEAN /\ due \in BOOLEAN /\ ending \in BOOLEAN
  /\ loaded \in {"no", "yes", "leaving"}
  /\ scripts \in 0 .. MaxScripts /\ faults \in 0 .. MaxFaults

TypeOK == ShellOK /\ MachineOK /\ JobOK

(* The user's keepinit is never lost: it is set, or it is saved.  Every    *)
(* install of a service that runs meets our value, and run.sh may be at    *)
(* any command when stop.sh restores (install.sh, stop.sh, run.sh).        *)
KeepinitIsKept == keepinit = "user" \/ keepFile = "user"

(* Once no script runs and the job is gone, traffic is not routed to utun  *)
(* and no engine is left, whatever run.sh was doing when it was ended: its *)
(* cleanup does not end it, and it may load the rules after it.            *)
StoppedIsClean == ~ Running("ctl") /\ loaded = "no" => ~ rules /\ engine = "none"

(* However often run.sh is killed between enabling pf and noting the       *)
(* reference, it never holds more than one: pf that is enabled is not      *)
(* enabled again.                                                          *)
OneReference == Cardinality(tokens) <= 1

(* Traffic is not routed to an interface nobody reads for ever.            *)
NoBlackHole == (rules /\ engine # "up") ~> (~ rules \/ engine = "up")

(* A job that stays loaded serves in the end, over the route the machine   *)
(* then has, whatever failed before: traffic is routed to an engine that   *)
(* is up, and pf is enabled.  run.sh enables pf when it finds it disabled; *)
(* where it found it enabled by another program alone it takes no          *)
(* reference and never looks again, and pf is that program's (run.sh:108). *)
Serving ==
  /\ rules /\ engine = "up" /\ PHYSICAL_IFACE = route /\ GATEWAY = route
  /\ PfDisabled => borrowed
ServesInTheEnd == <>[](loaded = "yes") => <>[]Serving
==============================================================================
