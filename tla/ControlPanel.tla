----------------------------- MODULE ControlPanel -----------------------------
(***************************************************************************)
(* The application (ZapretService) and what it controls the service with:  *)
(* the selected strategy and IPSet mode, which it keeps in files run.sh    *)
(* reads when it starts, the scripts it runs as root one at a time, and    *)
(* the test of all strategies (test-strategies.sh), a script that selects  *)
(* strategies itself, restores the selection in the end, and is cancelled  *)
(* by a file.                                                              *)
(*                                                                         *)
(* Scripts outlive the application: what it was running when the user      *)
(* chose to quit goes on as the orphan.  The service is only as detailed   *)
(* as what it reads when: Supervisor has the rest.                         *)
(***************************************************************************)
EXTENDS Integers, Sequences

CONSTANTS
  Strategies,   \* the strategies, in the order of strategies.tsv
  Modes,        \* IPSet modes besides "any"
  Unknown,      \* see settled
  MaxEdits,     \* bound: edits of the lists
  MaxCommands   \* bound: what the user does

ASSUME BoundAssumption == MaxEdits \in Nat /\ MaxCommands \in Nat

Strategy == {Strategies[i] : i \in DOMAIN Strategies}
Mode == Modes \cup {"any"}
Settings == [strategy : Strategy, mode : Mode]

ASSUME StrategyAssumption == Strategies \in Seq(Strategy) /\ Strategies # <<>>
ASSUME UnknownAssumption == Unknown \notin Settings

VARIABLES
  open,               \* the application runs
  isRunning, isBusy, isTesting, isCancellingTest,  \* of ZapretService
  selectedStrategyID, selectedIPSetMode,           \* what it shows as selected
  files,              \* what selected-strategy and ipset-mode hold
  lists,              \* version of the list files
  cancelFile,         \* strategy-test-cancel exists
  service,            \* down, up, or what run.sh is about to read
  config,             \* what run.sh has read
  job,                \* the script of the application, and of one that was quit
  missed,             \* (history) selections made without a restart
  promised,           \* (history) the strategy was selected last while the
                      \* service was up, and its restart was not refused
  settled,            \* (history) what files held when no test ran, if the
                      \* user has not selected anything since, else Unknown
  overlap,            \* (history) one test began during another
  asked,              \* (history) the lists when the user selected something
  commands            \* what is left of the bound

app == <<open, isRunning, isBusy, isTesting, isCancellingTest, selectedStrategyID,
         selectedIPSetMode>>
history == <<missed, promised, settled, overlap, asked>>
vars == <<app, files, lists, cancelFile, service, config, job, history, commands>>

Owner == {"app", "orphan"}
NoJob == [script |-> "none", step |-> "none", next |-> 0, installed |-> FALSE,
          running |-> FALSE, original |-> Unknown]
Running == service = "up"
Ended(o) == job[o].step \in {"done", "failed"}
At(o, s) == job[o].step = s
GoTo(o, s) == job' = [job EXCEPT ![o].step = s]

(* A test that has begun and not ended *)
Tests == {o \in Owner : job[o].script = "test" /\ job[o].step \notin {"begin", "done", "failed"}}

------------------------------------------------------------------------------
(* run.sh, started by launchd, reads the strategy, the lists and the mode. *)

Service(from, to) ==
  /\ service = from
  /\ service' = to
  /\ UNCHANGED <<app, files, lists, cancelFile, job, promised, settled, overlap, asked,
                 commands>>

ReadStrategy ==
  /\ Service("strategy", "lists")
  /\ config' = [config EXCEPT !.strategy = files.strategy]
  /\ missed' = missed \ {"strategy"}

ReadLists ==
  /\ Service("lists", "mode")
  /\ config' = [config EXCEPT !.lists = lists]
  /\ UNCHANGED missed

ReadMode ==
  /\ Service("mode", "up")
  /\ config' = [config EXCEPT !.mode = files.mode]
  /\ missed' = missed \ {"mode"}

(* run.sh fails or is killed: launchd starts it again. *)
KeepAlive ==
  /\ service # "down"
  /\ service' = "strategy"
  /\ UNCHANGED <<app, files, lists, cancelFile, config, job, history, commands>>

------------------------------------------------------------------------------
(* The scripts *)

Script(o) == UNCHANGED <<app, files, lists, cancelFile, config, history, commands>>

StopSh(o) ==
  /\ job[o].script = "stop" /\ At(o, "start")
  /\ service' = "down"
  /\ GoTo(o, "done")
  /\ Script(o)

(* Mutant of Started: a job that is loaded is not started again. *)
StartedUnlessLoaded == IF service = "down" THEN "strategy" ELSE service

(* bootout and bootstrap, or kickstart -k: run.sh is started anew. *)
Started == "strategy"

RestartSh(o) ==
  /\ job[o].script = "restart" /\ At(o, "start")
  /\ service' = Started
  /\ GoTo(o, "done")
  /\ Script(o)

InstallSh(o) ==
  /\ job[o].script = "install" /\ At(o, "start")
  /\ service' = Started
  /\ GoTo(o, "await")
  /\ Script(o)

(* install.sh waits ten seconds for the service, then stops it. *)
Installed(o) ==
  /\ At(o, "await") /\ Running
  /\ job' = [job EXCEPT ![o] = [@ EXCEPT
                !.installed = TRUE,
                !.step = CASE job[o].script = "install" -> "done"
                           [] job[o].next = 0 -> "tidy"
                           [] OTHER -> "wait"]]
  /\ UNCHANGED service
  /\ Script(o)
NotInstalled(o) ==
  /\ At(o, "await") /\ ~ Running
  /\ service' = "down"
  /\ GoTo(o, CASE job[o].script = "install" -> "failed"
               [] job[o].next = 0 -> "tidy"
               [] OTHER -> "next")
  /\ Script(o)

------------------------------------------------------------------------------
(* test-strategies.sh *)

Testing(o, s) == job[o].script = "test" /\ At(o, s)

BeginTest(o) ==
  /\ Testing(o, "begin")
  /\ job' = [job EXCEPT ![o] = [@ EXCEPT !.original = files, !.running = Running,
                                         !.step = "stop"]]
  /\ overlap' = (Tests # {})
  /\ UNCHANGED <<app, files, lists, cancelFile, service, config, missed, promised, settled,
                 asked, commands>>

StopForTest(o) ==
  /\ Testing(o, "stop")
  /\ service' = "down"
  /\ GoTo(o, "discover")
  /\ Script(o)

(* The test is over at once if it is cancelled or no target answers. *)
Discover(o) ==
  /\ Testing(o, "discover")
  /\ \/ ~ cancelFile /\ GoTo(o, "next")
     \/ GoTo(o, "restore")
  /\ UNCHANGED service
  /\ Script(o)

NextStrategy(o) ==
  /\ Testing(o, "next")
  /\ IF cancelFile \/ job[o].next = Len(Strategies)
     THEN GoTo(o, "restore")
     ELSE job' = [job EXCEPT ![o] = [@ EXCEPT !.next = job[o].next + 1, !.step = "strategy"]]
  /\ UNCHANGED service
  /\ Script(o)

Writes(o, s, value) ==
  /\ files' = value
  /\ GoTo(o, s)
  /\ UNCHANGED <<app, lists, cancelFile, service, config, history, commands>>

WriteStrategy(o) ==
  /\ Testing(o, "strategy")
  /\ Writes(o, "mode", [files EXCEPT !.strategy = Strategies[job[o].next]])

WriteMode(o) ==
  /\ Testing(o, "mode")
  /\ Writes(o, "launch", [files EXCEPT !.mode = "any"])

(* The first strategy installs the service, the others restart it. *)
Launch(o) ==
  /\ Testing(o, "launch")
  /\ service' = Started
  /\ GoTo(o, IF job[o].installed THEN "wait" ELSE "await")
  /\ Script(o)

(* Mutant of WaitForEngine: it waits for as long as the engine takes. *)
WaitForEngineForever(o) ==
  /\ Testing(o, "wait") /\ Running
  /\ GoTo(o, "next")
  /\ UNCHANGED service
  /\ Script(o)

(* The engine is up and measured, or the test is cancelled, or eight       *)
(* seconds are over.                                                       *)
WaitForEngine(o) ==
  /\ Testing(o, "wait")
  /\ GoTo(o, "next")
  /\ UNCHANGED service
  /\ Script(o)

RestoreStrategy(o) ==
  /\ Testing(o, "restore")
  /\ Writes(o, "restoremode", [files EXCEPT !.strategy = job[o].original.strategy])

(* Mutant of RestoreMode: the mode is left at any. *)
RestoreModeNot(o) ==
  /\ Testing(o, "restoremode")
  /\ Writes(o, "resume", files)

RestoreMode(o) ==
  /\ Testing(o, "restoremode")
  /\ Writes(o, "resume", [files EXCEPT !.mode = job[o].original.mode])

(* The service is restarted, or installed if this test has not done so, or *)
(* stopped.  With next back at 0 the install is the last one.              *)
Resume(o) ==
  /\ Testing(o, "resume")
  /\ IF job[o].running
     THEN /\ service' = Started
          /\ job' = [job EXCEPT ![o] = [@ EXCEPT
                        !.next = 0, !.step = IF job[o].installed THEN "tidy" ELSE "await"]]
     ELSE service' = "down" /\ GoTo(o, "tidy")
  /\ Script(o)

Tidy(o) ==
  /\ Testing(o, "tidy")
  /\ cancelFile' = FALSE
  /\ job' = [job EXCEPT ![o] = [NoJob EXCEPT !.script = "test", !.step = "done"]]
  /\ IF Tests = {o}
     THEN settled' = files /\ overlap' = FALSE
     ELSE UNCHANGED <<settled, overlap>>
  /\ UNCHANGED <<app, files, lists, service, config, missed, promised, asked, commands>>

TestSh(o) ==
  \/ BeginTest(o) \/ StopForTest(o) \/ Discover(o) \/ NextStrategy(o)
  \/ WriteStrategy(o) \/ WriteMode(o) \/ Launch(o) \/ WaitForEngine(o)
  \/ RestoreStrategy(o) \/ RestoreMode(o) \/ Resume(o) \/ Tidy(o)

RunsScript(o) ==
  StopSh(o) \/ RestartSh(o) \/ InstallSh(o) \/ Installed(o) \/ NotInstalled(o) \/ TestSh(o)

------------------------------------------------------------------------------
(* The application *)

User == commands > 0 /\ commands' = commands - 1
Command == open /\ User

(* Mutant of RunPrivileged: the application does not know it is busy. *)
RunPrivilegedUnmarked(script, step) ==
  /\ isBusy' = isBusy
  /\ job' = [job EXCEPT !["app"] = [NoJob EXCEPT !.script = script, !.step = step]]

(* runPrivileged: nothing happens while a script runs. *)
RunPrivileged(script, step) ==
  /\ isBusy' = TRUE
  /\ job' = [job EXCEPT !["app"] = [NoJob EXCEPT !.script = script, !.step = step]]

(* The timer looks whether the engine runs. *)
RefreshRunningState ==
  /\ open /\ isRunning # Running
  /\ isRunning' = Running
  /\ UNCHANGED <<open, isBusy, isTesting, isCancellingTest, selectedStrategyID,
                 selectedIPSetMode, files, lists, cancelFile, service, config, job, history,
                 commands>>

(* The button is disabled while a script runs. *)
ToggleService ==
  /\ Command
  /\ ~ isBusy /\ ~ isTesting
  /\ RunPrivileged(IF isRunning THEN "stop" ELSE "install", "start")
  /\ UNCHANGED <<open, isRunning, isTesting, isCancellingTest, selectedStrategyID,
                 selectedIPSetMode, files, lists, cancelFile, service, config, history>>

(* writeState and applyIfRunning *)
Select(field, value) ==
  /\ files' = [files EXCEPT ![field] = value]
  /\ settled' = IF Tests = {} THEN files' ELSE Unknown
  /\ asked' = IF isRunning /\ ~ isBusy THEN lists ELSE asked
  /\ promised' = IF field = "strategy" THEN Running ELSE promised
  /\ IF isRunning /\ ~ isBusy
     THEN RunPrivileged("restart", "start") /\ UNCHANGED missed
     ELSE missed' = missed \cup {field} /\ UNCHANGED <<isBusy, job>>
  /\ UNCHANGED <<open, isRunning, isTesting, isCancellingTest, lists, cancelFile, service,
                 config, overlap>>

(* The picker of strategies is always enabled, that of modes is not. *)
SelectStrategy(id) ==
  /\ Command
  /\ id # selectedStrategyID
  /\ selectedStrategyID' = id
  /\ Select("strategy", id)
  /\ UNCHANGED selectedIPSetMode

SelectIPSetMode(mode) ==
  /\ Command
  /\ ~ isBusy /\ ~ isTesting
  /\ mode # selectedIPSetMode
  /\ selectedIPSetMode' = mode
  /\ Select("mode", mode)
  /\ UNCHANGED selectedStrategyID

(* guard selectedStrategyID != id: nothing happens. *)
SelectAgain ==
  /\ Command
  /\ asked' = IF isRunning /\ ~ isBusy THEN lists ELSE asked
  /\ UNCHANGED <<app, files, lists, cancelFile, service, config, job, missed, promised, settled,
                 overlap>>

(* Mutant of StartStrategyTest: a cancel file that is left is not removed. *)
StartStrategyTestAsIs ==
  /\ Command
  /\ ~ isTesting /\ ~ isBusy
  /\ isTesting' = TRUE
  /\ isCancellingTest' = FALSE
  /\ RunPrivileged("test", "begin")
  /\ UNCHANGED <<open, isRunning, selectedStrategyID, selectedIPSetMode, files, lists,
                 cancelFile, service, config, history>>

StartStrategyTest ==
  /\ Command
  /\ ~ isTesting /\ ~ isBusy
  /\ cancelFile' = FALSE
  /\ isTesting' = TRUE
  /\ isCancellingTest' = FALSE
  /\ RunPrivileged("test", "begin")
  /\ UNCHANGED <<open, isRunning, selectedStrategyID, selectedIPSetMode, files, lists, service,
                 config, history>>

CancelStrategyTest ==
  /\ Command
  /\ isTesting /\ ~ isCancellingTest
  /\ cancelFile' = TRUE
  /\ isCancellingTest' = TRUE
  /\ UNCHANGED <<open, isRunning, isBusy, isTesting, selectedStrategyID, selectedIPSetMode,
                 files, lists, service, config, job, history>>

(* The user does not authorize the script. *)
Denied ==
  /\ open /\ At("app", IF isTesting THEN "begin" ELSE "start")
  /\ GoTo("app", "failed")
  /\ missed' = missed \cup {"strategy", "mode"}
  /\ promised' = (promised /\ job["app"].script # "restart")
  /\ UNCHANGED <<app, files, lists, cancelFile, service, config, settled, overlap, asked,
                 commands>>

RefreshSelectionFromDisk ==
  selectedStrategyID' = files.strategy /\ selectedIPSetMode' = files.mode

(* The script is over: on the main queue, with the completion of a test.   *)
ScriptDone ==
  /\ open /\ Ended("app")
  /\ isBusy' = FALSE
  /\ isRunning' = Running
  /\ isTesting' = FALSE
  /\ isCancellingTest' = FALSE
  /\ cancelFile' = IF isTesting THEN FALSE ELSE cancelFile
  /\ IF isTesting /\ (isCancellingTest \/ At("app", "failed"))
     THEN UNCHANGED <<selectedStrategyID, selectedIPSetMode>>
     ELSE RefreshSelectionFromDisk
  /\ job' = [job EXCEPT !["app"] = NoJob]
  /\ UNCHANGED <<open, files, lists, service, config, history, commands>>

(* What the application was and showed is gone.  Bound: one      *)
(* script is left running by the application at a time.                    *)
Quit ==
  /\ Command
  /\ job["app"] = NoJob \/ job["orphan"] = NoJob
  /\ open' = FALSE /\ isRunning' = FALSE
  /\ isBusy' = FALSE /\ isTesting' = FALSE /\ isCancellingTest' = FALSE
  /\ selectedStrategyID' = Strategies[1] /\ selectedIPSetMode' = "any"
  /\ job' = IF job["app"] = NoJob THEN job ELSE [app |-> NoJob, orphan |-> job["app"]]
  /\ UNCHANGED <<files, lists, cancelFile, service, config, history>>

OrphanEnds ==
  /\ Ended("orphan")
  /\ job' = [job EXCEPT !["orphan"] = NoJob]
  /\ UNCHANGED <<app, files, lists, cancelFile, service, config, history, commands>>

Bootstrap ==
  /\ ~ open
  /\ open' = TRUE
  /\ isRunning' = Running
  /\ RefreshSelectionFromDisk
  /\ UNCHANGED <<isBusy, isTesting, isCancellingTest, files, lists, cancelFile, service, config,
                 job, history, commands>>

(* The user edits a list. *)
EditList ==
  /\ User
  /\ lists < MaxEdits
  /\ lists' = lists + 1
  /\ UNCHANGED <<app, files, cancelFile, service, config, job, history>>

Use ==
  \/ ToggleService \/ SelectAgain \/ StartStrategyTest \/ CancelStrategyTest \/ Denied
  \/ (\E id \in Strategy : SelectStrategy(id)) \/ (\E mode \in Mode : SelectIPSetMode(mode))
  \/ Quit \/ Bootstrap \/ EditList

------------------------------------------------------------------------------
(* The application is not open, the service off or serving what is         *)
(* selected; a cancel file may be left from a session that was quit.       *)
Init ==
  /\ open = FALSE /\ isRunning = FALSE
  /\ isBusy = FALSE /\ isTesting = FALSE /\ isCancellingTest = FALSE
  /\ selectedStrategyID = Strategies[1] /\ selectedIPSetMode = "any"
  /\ files \in {[strategy |-> Strategies[1], mode |-> m] : m \in Modes}
  /\ lists = 0 /\ cancelFile \in BOOLEAN
  /\ service \in {"down", "up"}
  /\ config = [strategy |-> files.strategy, mode |-> files.mode, lists |-> 0]
  /\ job = [o \in Owner |-> NoJob]
  /\ missed = {} /\ promised = FALSE /\ settled = files /\ overlap = FALSE /\ asked = 0
  /\ commands = MaxCommands

Next ==
  \/ ReadStrategy \/ ReadLists \/ ReadMode \/ KeepAlive
  \/ \E o \in Owner : RunsScript(o)
  \/ RefreshRunningState \/ ScriptDone \/ OrphanEnds
  \/ Use

Spec == Init /\ [][Next]_vars

(* The scripts run on and the main queue is served.  Nothing is asked of   *)
(* run.sh or the engine: they may never come up.                           *)
Fairness == (\A o \in Owner : WF_vars(RunsScript(o))) /\ WF_vars(ScriptDone)

LiveSpec == Spec /\ Fairness

------------------------------------------------------------------------------
(* Properties. *)

Step == {"none", "start", "await", "done", "failed", "begin", "stop", "discover", "next",
         "strategy", "mode", "launch", "wait", "restore", "restoremode", "resume", "tidy"}
Job == [script : {"none", "install", "restart", "stop", "test"}, step : Step,
        next : 0 .. Len(Strategies), installed : BOOLEAN, running : BOOLEAN,
        original : Settings \cup {Unknown}]

FlagsOK ==
  /\ open \in BOOLEAN /\ isRunning \in BOOLEAN /\ isBusy \in BOOLEAN
  /\ isTesting \in BOOLEAN /\ isCancellingTest \in BOOLEAN
  /\ cancelFile \in BOOLEAN /\ overlap \in BOOLEAN /\ promised \in BOOLEAN

SettingsOK ==
  /\ selectedStrategyID \in Strategy /\ selectedIPSetMode \in Mode
  /\ files \in Settings /\ settled \in Settings \cup {Unknown}
  /\ missed \in SUBSET {"strategy", "mode"}

ServiceOK ==
  /\ service \in {"down", "strategy", "lists", "mode", "up"}
  /\ config \in [strategy : Strategy, mode : Mode, lists : 0 .. MaxEdits]
  /\ lists \in 0 .. MaxEdits /\ asked \in 0 .. MaxEdits /\ commands \in 0 .. MaxCommands

JobsOK == job \in [Owner -> Job]

TypeOK ==
  FlagsOK /\ SettingsOK /\ ServiceOK /\ JobsOK /\ isBusy = (job["app"] # NoJob)

(* A test is never cancelled by a file an earlier one has left: while a    *)
(* test of this application runs, the file is there only if its user asked *)
(* for it (startStrategyTest, cancelStrategyTest, restore).                *)
CancelIsOurs == isTesting /\ cancelFile => isCancellingTest

(* A test that ran alone, however it ended, leaves the settings as it      *)
(* found them, unless the user selected something meanwhile (restore).     *)
Restored == settled # Unknown => files' = settled
TestRestores == [][Tests # {} /\ Tests' = {} /\ ~ overlap => Restored]_vars

(* The service that is up runs as the files say, unless a script is about  *)
(* to restart it, however it read them while tests wrote them.  Left out   *)
(* are selections that start no restart, as the application was busy, took *)
(* the service for stopped, or was refused (applyIfRunning): of these      *)
(* SelectionIsApplied speaks.                                              *)
RunsAsSelected ==
  Running /\ Tests = {} /\ (\A o \in Owner : ~ At(o, "start")) =>
    /\ config.strategy = files.strategy \/ "strategy" \in missed
    /\ config.mode = files.mode \/ "mode" \in missed

(* The application does not stay busy, whatever the scripts run into.      *)
BusyEnds == isBusy ~> ~ isBusy

(* What docs/readme.md promises: after a list was edited, selecting the    *)
(* current strategy or mode again restarts the service with it.            *)
ListsAreApplied ==
  open /\ ~ isBusy /\ Running /\ (\A o \in Owner : job[o] = NoJob) => config.lists >= asked

(* What StrategiesView promises: a strategy selected while the service is  *)
(* up is applied by the application, which is not refused to.              *)
SelectionIsApplied ==
  open /\ ~ isBusy /\ Running /\ (\A o \in Owner : job[o] = NoJob) /\ promised =>
    config.strategy = files.strategy

(* What TestingView promises: the settings are restored when tests end.    *)
SettingsAreRestored == [][Tests # {} /\ Tests' = {} => Restored]_vars
==============================================================================
