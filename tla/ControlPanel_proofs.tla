------------------------- MODULE ControlPanel_proofs -------------------------
(***************************************************************************)
(* Proofs about ControlPanel, for any strategies and modes and any number  *)
(* of commands and edits.                                                  *)
(***************************************************************************)
EXTENDS ControlPanel, TLAPS

------------------------------------------------------------------------------
(* What the steps do to the jobs. *)

(* No job is a job. *)
LEMMA NoJobIsJob == NoJob \in Job
  BY DEF NoJob, Job, Step

(* A job that goes to another step. *)
LEMMA GoToJob ==
  ASSUME NEW o \in Owner, NEW s \in Step, JobsOK, GoTo(o, s)
  PROVE  /\ JobsOK'
         /\ \A q \in Owner \ {o} : job'[q] = job[q]
         /\ job'[o].script = job[o].script /\ job'[o].next = job[o].next
         /\ job'[o].original = job[o].original /\ job'[o].step = s
<1>1. [job[o] EXCEPT !.step = s] \in Job
  BY DEF JobsOK, Job
<1>2. job' = [job EXCEPT ![o] = [job[o] EXCEPT !.step = s]]
  BY DEF GoTo
<1> QED BY <1>1, <1>2 DEF JobsOK, Job

(* A script the application runs. *)
LEMMA RunPrivilegedJob ==
  ASSUME NEW script \in {"install", "restart", "stop", "test"}, NEW step \in {"start", "begin"},
         JobsOK, RunPrivileged(script, step)
  PROVE  /\ JobsOK'
         /\ \A q \in Owner \ {"app"} : job'[q] = job[q]
         /\ job'["app"].script = script /\ job'["app"].step = step
         /\ job'["app"].next = 0
         /\ isBusy' = (job'["app"] # NoJob)
<1> DEFINE named == [NoJob EXCEPT !.script = script]
           new == [named EXCEPT !.step = step]
<1>1. job' = [job EXCEPT !["app"] = new] /\ isBusy' = TRUE
  BY DEF RunPrivileged
<1>2. named \in Job /\ named.script = script /\ named.next = 0
  BY NoJobIsJob DEF NoJob, Job
<1> HIDE DEF named
<1>3. new \in Job /\ new.script = script /\ new.step = step /\ new.next = 0
  BY <1>2 DEF Job, Step
<1>4. new # NoJob
  BY <1>3 DEF NoJob
<1> HIDE DEF new
<1>5. job'["app"] = new /\ \A q \in Owner \ {"app"} : job'[q] = job[q]
  BY <1>1 DEF JobsOK, Owner
<1>6. JobsOK'
  BY <1>1, <1>3 DEF JobsOK, Owner
<1> QED BY <1>1, <1>3, <1>4, <1>5, <1>6

(* A job that is replaced. *)
LEMMA JobReplaced ==
  ASSUME NEW o \in Owner, NEW j \in Job, JobsOK, job' = [job EXCEPT ![o] = j]
  PROVE  JobsOK' /\ job'[o] = j /\ \A q \in Owner \ {o} : job'[q] = job[q]
  BY DEF JobsOK

(* The step at which install.sh has seen the service. *)
LEMMA InstalledJob ==
  ASSUME NEW o \in Owner, JobsOK, Installed(o)
  PROVE  /\ JobsOK'
         /\ \A q \in Owner \ {o} : job'[q] = job[q]
         /\ job'[o].script = job[o].script /\ job'[o].next = job[o].next
         /\ job'[o].original = job[o].original
         /\ job'[o].step = CASE job[o].script = "install" -> "done"
                             [] job[o].next = 0 -> "tidy"
                             [] OTHER -> "wait"
<1> DEFINE to == CASE job[o].script = "install" -> "done"
                   [] job[o].next = 0 -> "tidy"
                   [] OTHER -> "wait"
           first == [job[o] EXCEPT !.installed = TRUE]
           new == [first EXCEPT !.step = to]
<1>1. job' = [job EXCEPT ![o] = new]
  BY DEF Installed
<1>2. to \in Step
  BY DEF Step
<1>3. first \in Job /\ first.script = job[o].script /\ first.next = job[o].next
      /\ first.original = job[o].original
  BY DEF Job, JobsOK
<1> HIDE DEF to, first
<1>4. new \in Job /\ new.script = first.script /\ new.next = first.next
      /\ new.original = first.original /\ new.step = to
  BY <1>2, <1>3 DEF Job
<1> HIDE DEF new
<1> QED BY <1>1, <1>3, <1>4, JobReplaced DEF to

(* The first step of a test. *)
LEMMA BeginTestJob ==
  ASSUME NEW o \in Owner, JobsOK, files \in Settings, BeginTest(o)
  PROVE  /\ JobsOK'
         /\ \A q \in Owner \ {o} : job'[q] = job[q]
         /\ job'[o].script = "test" /\ job'[o].next = job[o].next
         /\ job'[o].original = files /\ job'[o].step = "stop"
<1> DEFINE first == [job[o] EXCEPT !.original = files]
           second == [first EXCEPT !.running = Running]
           new == [second EXCEPT !.step = "stop"]
<1>1. job' = [job EXCEPT ![o] = new] /\ job[o].script = "test"
  BY DEF BeginTest, Testing
<1>2. first \in Job /\ first.script = job[o].script /\ first.next = job[o].next
      /\ first.original = files
  BY DEF Job, JobsOK
<1>3. Running \in BOOLEAN
  BY DEF Running
<1> HIDE DEF first, Running
<1>4. second \in Job /\ second.script = first.script /\ second.next = first.next
      /\ second.original = first.original
  BY <1>2, <1>3 DEF Job
<1> HIDE DEF second
<1>5. new \in Job /\ new.script = second.script /\ new.next = second.next
      /\ new.original = second.original /\ new.step = "stop"
  BY <1>4 DEF Job, Step
<1> HIDE DEF new
<1> QED BY <1>1, <1>2, <1>4, <1>5, JobReplaced

(* A test takes the next strategy, or goes on to restore. *)
LEMMA NextStrategyJob ==
  ASSUME NEW o \in Owner, JobsOK, NextStrategy(o)
  PROVE  /\ JobsOK'
         /\ \A q \in Owner \ {o} : job'[q] = job[q]
         /\ job'[o].script = job[o].script /\ job'[o].original = job[o].original
         /\ \/ job'[o].step = "restore"
            \/ job'[o].step = "strategy" /\ job'[o].next # 0
<1>1. CASE GoTo(o, "restore")
  BY <1>1, GoToJob DEF Step
<1>2. CASE ~ GoTo(o, "restore")
  <2> DEFINE first == [job[o] EXCEPT !.next = job[o].next + 1]
             new == [first EXCEPT !.step = "strategy"]
  <2>1. job' = [job EXCEPT ![o] = new] /\ job[o].next # Len(Strategies)
    BY <1>2 DEF NextStrategy
  <2>2. job[o].next + 1 \in 0 .. Len(Strategies) /\ job[o].next + 1 # 0
    <3>1. Len(Strategies) \in Nat
      BY StrategyAssumption
    <3>2. job[o].next \in 0 .. Len(Strategies)
      BY DEF Job, JobsOK
    <3> QED BY <2>1, <3>1, <3>2
  <2>3. first \in Job /\ first.script = job[o].script /\ first.next # 0
        /\ first.original = job[o].original
    BY <2>2 DEF Job, JobsOK
  <2> HIDE DEF first
  <2>4. new \in Job /\ new.script = first.script /\ new.next = first.next
        /\ new.original = first.original /\ new.step = "strategy"
    BY <2>3 DEF Job, Step
  <2> HIDE DEF new
  <2> QED BY <2>1, <2>3, <2>4, JobReplaced
<1> QED BY <1>1, <1>2

(* A test has seen to the service. *)
LEMMA ResumeJob ==
  ASSUME NEW o \in Owner, JobsOK, Resume(o)
  PROVE  /\ JobsOK'
         /\ \A q \in Owner \ {o} : job'[q] = job[q]
         /\ job'[o].script = job[o].script /\ job'[o].original = job[o].original
         /\ \/ job'[o].step = "tidy"
            \/ job'[o].step = "await" /\ job'[o].next = 0
<1>1. CASE GoTo(o, "tidy")
  BY <1>1, GoToJob DEF Step
<1>2. CASE ~ GoTo(o, "tidy")
  <2> DEFINE to == IF job[o].installed THEN "tidy" ELSE "await"
             first == [job[o] EXCEPT !.next = 0]
             new == [first EXCEPT !.step = to]
  <2>1. job' = [job EXCEPT ![o] = new]
    BY <1>2 DEF Resume
  <2>2. to \in {"tidy", "await"} /\ to \in Step
    BY DEF Step
  <2>3. first \in Job /\ first.script = job[o].script /\ first.next = 0
        /\ first.original = job[o].original
    BY StrategyAssumption DEF Job, JobsOK
  <2> HIDE DEF to, first
  <2>4. new \in Job /\ new.script = first.script /\ new.next = first.next
        /\ new.original = first.original /\ new.step = to
    BY <2>2, <2>3 DEF Job
  <2> HIDE DEF new
  <2> QED BY <2>1, <2>2, <2>3, <2>4, JobReplaced
<1> QED BY <1>1, <1>2

(* A test that ends, and a script that is over. *)
LEMMA TidyJob ==
  ASSUME NEW o \in Owner, JobsOK, Tidy(o)
  PROVE  /\ JobsOK'
         /\ \A q \in Owner \ {o} : job'[q] = job[q]
         /\ job'[o].script = "test" /\ job'[o].step = "done"
         /\ (job'["app"] = NoJob) = (job["app"] = NoJob)
<1> DEFINE first == [NoJob EXCEPT !.script = "test"]
           new == [first EXCEPT !.step = "done"]
<1>1. job' = [job EXCEPT ![o] = new] /\ job[o].script = "test"
  BY DEF Tidy, Testing
<1>2. first \in Job /\ first.script = "test"
  BY NoJobIsJob DEF Job, NoJob
<1> HIDE DEF first
<1>3. new \in Job /\ new.script = first.script /\ new.step = "done"
  BY <1>2 DEF Job, Step
<1> HIDE DEF new
<1>4. /\ JobsOK' /\ job'[o].script = "test" /\ job'[o].step = "done"
      /\ \A q \in Owner \ {o} : job'[q] = job[q]
  BY <1>1, <1>2, <1>3, JobReplaced
<1>5. NoJob.script # "test"
  BY DEF NoJob
<1> QED BY <1>1, <1>4, <1>5 DEF Owner

(* The actions of a test whose step only is another. *)
GoesOn(o) ==
  \/ StopForTest(o) \/ Discover(o) \/ WriteStrategy(o) \/ WriteMode(o) \/ Launch(o)
  \/ WaitForEngine(o) \/ RestoreStrategy(o) \/ RestoreMode(o)

(* The step a script goes to from another. *)
LEMMA GoesOnJob ==
  ASSUME NEW o \in Owner, GoesOn(o)
  PROVE  /\ o \in Tests /\ job[o].script = "test"
         /\ \E s \in {"discover", "next", "restore", "mode", "launch", "wait", "await",
                       "restoremode", "resume"} :
              /\ GoTo(o, s)
              /\ s \in {"mode", "launch"} => At(o, "strategy") \/ At(o, "mode")
              /\ s = "await" => At(o, "launch")
  BY DEF GoesOn, StopForTest, Discover, WriteStrategy, WriteMode, Launch, WaitForEngine,
         RestoreStrategy, RestoreMode, Testing, Writes, At, Tests

(* A step of a script leaves the other job, and the one that runs it does  *)
(* not turn into none.                                                     *)
LEMMA ScriptJobs ==
  ASSUME NEW o \in Owner, JobsOK, files \in Settings, RunsScript(o)
  PROVE  /\ JobsOK'
         /\ \A q \in Owner \ {o} : job'[q] = job[q]
         /\ job'[o].script = job[o].script
         /\ job[o].step # "none" /\ job'[o].step # "none"
<1>1. CASE GoesOn(o)
  <2>1. PICK s \in {"discover", "next", "restore", "mode", "launch", "wait", "await",
                    "restoremode", "resume"} : GoTo(o, s)
    BY <1>1, GoesOnJob
  <2>2. s \in Step /\ s # "none"
    BY DEF Step
  <2>3. job[o].step # "none"
    BY <1>1 DEF GoesOn, StopForTest, Discover, WriteStrategy, WriteMode, Launch,
                WaitForEngine, RestoreStrategy, RestoreMode, Testing, At
  <2> QED BY <2>1, <2>2, <2>3, GoToJob
<1>2. CASE StopSh(o) \/ RestartSh(o)
  <2>1. GoTo(o, "done") /\ "done" \in Step /\ job[o].step # "none"
    BY <1>2 DEF StopSh, RestartSh, At, Step
  <2> QED BY <2>1, GoToJob
<1>3. CASE InstallSh(o)
  <2>1. GoTo(o, "await") /\ "await" \in Step /\ job[o].step # "none"
    BY <1>3 DEF InstallSh, At, Step
  <2> QED BY <2>1, GoToJob
<1>4. CASE Installed(o)
  <2>1. job[o].step # "none"
    BY <1>4 DEF Installed, At
  <2>2. job'[o].step \in {"done", "tidy", "wait"}
    BY <1>4, InstalledJob
  <2> QED BY <1>4, <2>1, <2>2, InstalledJob
<1>5. CASE NotInstalled(o)
  <2> DEFINE to == CASE job[o].script = "install" -> "failed"
                     [] job[o].next = 0 -> "tidy"
                     [] OTHER -> "next"
  <2>1. GoTo(o, to) /\ job[o].step # "none"
    BY <1>5 DEF NotInstalled, At
  <2>2. to \in Step /\ to # "none"
    BY DEF Step
  <2> HIDE DEF to
  <2> QED BY <2>1, <2>2, GoToJob
<1>6. CASE BeginTest(o)
  BY <1>6, BeginTestJob DEF BeginTest, Testing, At
<1>7. CASE NextStrategy(o)
  BY <1>7, NextStrategyJob DEF NextStrategy, Testing, At
<1>8. CASE Resume(o)
  BY <1>8, ResumeJob DEF Resume, Testing, At
<1>9. CASE Tidy(o)
  BY <1>9, TidyJob DEF Tidy, Testing, At
<1> QED BY <1>1, <1>2, <1>3, <1>4, <1>5, <1>6, <1>7, <1>8, <1>9 DEF RunsScript, TestSh, GoesOn

------------------------------------------------------------------------------
(* The types. *)

(* What a script writes to the settings is of their type. *)
StepInv ==
  \A o \in Owner : job[o].script = "test" =>
    /\ ~ At(o, "start")
    /\ At(o, "strategy") \/ At(o, "mode") \/ At(o, "launch") => job[o].next # 0
    /\ o \in Tests => job[o].original \in Settings

(* Steps of run.sh. *)
LEMMA ServiceTypeOK ==
  ASSUME TypeOK, ReadStrategy \/ ReadLists \/ ReadMode \/ KeepAlive
  PROVE  TypeOK'
<1> USE DEF app, history
<1>1. FlagsOK' /\ UNCHANGED <<isBusy, job>>
  BY DEF TypeOK, FlagsOK, ReadStrategy, ReadLists, ReadMode, KeepAlive, Service
<1>2. SettingsOK'
  BY DEF TypeOK, SettingsOK, ReadStrategy, ReadLists, ReadMode, KeepAlive, Service
<1>3. ServiceOK'
  BY DEF TypeOK, ServiceOK, SettingsOK, Settings, ReadStrategy, ReadLists, ReadMode, KeepAlive,
         Service
<1>4. JobsOK'
  BY <1>1 DEF TypeOK, JobsOK
<1> QED BY <1>1, <1>2, <1>3, <1>4 DEF TypeOK

(* Steps of the scripts. *)
LEMMA ScriptTypeOK ==
  ASSUME NEW o \in Owner, TypeOK, StepInv, RunsScript(o)
  PROVE  TypeOK'
<1> USE DEF app, history
<1>1. UNCHANGED <<app, lists, config, missed, promised, asked, commands>>
  BY DEF RunsScript, StopSh, RestartSh, InstallSh, Installed, NotInstalled, TestSh, BeginTest,
         StopForTest, Discover, NextStrategy, WriteStrategy, WriteMode, Launch, WaitForEngine,
         RestoreStrategy, RestoreMode, Resume, Tidy, Script, Writes
<1>2. FlagsOK'
  <2>1. cancelFile' = cancelFile \/ cancelFile' = FALSE
    BY DEF RunsScript, StopSh, RestartSh, InstallSh, Installed, NotInstalled, TestSh, BeginTest,
           StopForTest, Discover, NextStrategy, WriteStrategy, WriteMode, Launch, WaitForEngine,
           RestoreStrategy, RestoreMode, Resume, Tidy, Script, Writes
  <2>2. overlap' = overlap \/ overlap' = FALSE \/ overlap' = (Tests # {})
    BY DEF RunsScript, StopSh, RestartSh, InstallSh, Installed, NotInstalled, TestSh, BeginTest,
           StopForTest, Discover, NextStrategy, WriteStrategy, WriteMode, Launch, WaitForEngine,
           RestoreStrategy, RestoreMode, Resume, Tidy, Script, Writes
  <2> QED BY <1>1, <2>1, <2>2, Zenon DEF TypeOK, FlagsOK
<1>3. files' \in Settings /\ settled' \in Settings \cup {Unknown}
  <2>1. CASE WriteStrategy(o)
    <3>1. job[o].next \in DOMAIN Strategies
      <4>1. job[o].next \in 0 .. Len(Strategies) /\ job[o].next # 0
        BY <2>1 DEF TypeOK, JobsOK, Job, StepInv, WriteStrategy, Testing
      <4> QED BY <4>1, StrategyAssumption
    <3>2. Strategies[job[o].next] \in Strategy
      BY <3>1 DEF Strategy
    <3>3. files \in Settings /\ settled \in Settings \cup {Unknown}
      BY DEF TypeOK, SettingsOK
    <3> QED BY <2>1, <3>2, <3>3 DEF WriteStrategy, Writes, Settings
  <2>2. CASE RestoreStrategy(o) \/ RestoreMode(o)
    <3>1. job[o].original \in Settings
      BY <2>2 DEF StepInv, RestoreStrategy, RestoreMode, Testing, At, Tests
    <3> QED BY <2>2, <3>1 DEF TypeOK, SettingsOK, Settings, RestoreStrategy, RestoreMode, Writes
  <2>3. CASE WriteMode(o)
    BY <2>3 DEF TypeOK, SettingsOK, Settings, WriteMode, Writes, Mode
  <2>4. CASE UNCHANGED files /\ (settled' = settled \/ settled' = files)
    BY <2>4 DEF TypeOK, SettingsOK
  <2> QED
    BY <2>1, <2>2, <2>3, <2>4
    DEF RunsScript, StopSh, RestartSh, InstallSh, Installed, NotInstalled, TestSh, BeginTest,
        StopForTest, Discover, NextStrategy, Launch, WaitForEngine, Resume, Tidy, Script
<1>4. SettingsOK'
  BY <1>1, <1>3 DEF TypeOK, SettingsOK
<1>5. ServiceOK'
  <2>1. service' \in {service, "down", "strategy"}
    BY DEF RunsScript, StopSh, RestartSh, InstallSh, Installed, NotInstalled, TestSh, BeginTest,
           StopForTest, Discover, NextStrategy, WriteStrategy, WriteMode, Launch, WaitForEngine,
           RestoreStrategy, RestoreMode, Resume, Tidy, Script, Writes, Started
  <2> QED BY <1>1, <2>1 DEF TypeOK, ServiceOK
<1>6. JobsOK' /\ (job'["app"] = NoJob) = (job["app"] = NoJob)
  <2>1. /\ JobsOK'
        /\ \A q \in Owner \ {o} : job'[q] = job[q]
        /\ job[o].step # "none" /\ job'[o].step # "none"
    BY ScriptJobs DEF TypeOK, SettingsOK
  <2>2. NoJob.step = "none"
    BY DEF NoJob
  <2> QED BY <2>1, <2>2 DEF Owner
<1>7. isBusy' = (job'["app"] # NoJob)
  <2>1. isBusy' = isBusy /\ isBusy = (job["app"] # NoJob)
    BY <1>1 DEF TypeOK
  <2> QED BY <1>6, <2>1, Zenon
<1> QED BY <1>2, <1>4, <1>5, <1>6, <1>7 DEF TypeOK

(* The application starts, by default it shows the first strategy. *)
LEMMA FirstStrategy == Strategies[1] \in Strategy /\ "any" \in Mode
  BY StrategyAssumption DEF Strategy, Mode

(* Selecting a strategy or a mode keeps the types. *)
LEMMA SelectTypeOK ==
  ASSUME TypeOK, NEW field \in {"strategy", "mode"}, NEW value, Select(field, value),
         field = "strategy" => value \in Strategy, field = "mode" => value \in Mode
  PROVE  /\ FlagsOK' /\ JobsOK' /\ isBusy' = (job'["app"] # NoJob)
         /\ files' \in Settings /\ settled' \in Settings \cup {Unknown}
         /\ missed' \in SUBSET {"strategy", "mode"}
         /\ asked' \in 0 .. MaxEdits /\ UNCHANGED <<lists, service, config>>
<1>1. files' \in Settings
  BY DEF TypeOK, SettingsOK, Settings, Select
<1>2. settled' \in Settings \cup {Unknown}
  BY <1>1 DEF Select
<1>3. asked' \in 0 .. MaxEdits /\ UNCHANGED <<lists, service, config>>
  BY DEF TypeOK, ServiceOK, Select
<1>4. missed' \in SUBSET {"strategy", "mode"}
  BY DEF TypeOK, SettingsOK, Select
<1>5. JobsOK' /\ isBusy' = (job'["app"] # NoJob) /\ isBusy' \in BOOLEAN
  <2>1. CASE RunPrivileged("restart", "start")
    <3>1. isBusy' = TRUE
      BY <2>1 DEF RunPrivileged
    <3>2. JobsOK' /\ isBusy' = (job'["app"] # NoJob)
      BY <2>1, RunPrivilegedJob DEF TypeOK
    <3> QED BY <3>1, <3>2
  <2>2. CASE UNCHANGED <<isBusy, job>>
    BY <2>2 DEF TypeOK, JobsOK, FlagsOK
  <2> QED BY <2>1, <2>2 DEF Select
<1>6. FlagsOK'
  <2>1. promised' \in BOOLEAN
    BY DEF TypeOK, FlagsOK, Select, Running
  <2>2. UNCHANGED <<open, isRunning, isTesting, isCancellingTest, cancelFile, overlap>>
    BY DEF Select
  <2> QED BY <1>5, <2>1, <2>2, Zenon DEF TypeOK, FlagsOK
<1> QED BY <1>1, <1>2, <1>3, <1>4, <1>5, <1>6

(* Steps of the application and of its user. *)
LEMMA ApplicationTypeOK ==
  ASSUME TypeOK, RefreshRunningState \/ ScriptDone \/ OrphanEnds \/ Use
  PROVE  TypeOK'
<1> USE DEF app, history
<1>1. CASE RefreshRunningState
  <2>1. /\ UNCHANGED <<open, isBusy, isTesting, isCancellingTest, cancelFile, overlap, promised>>
        /\ isRunning' \in BOOLEAN
    BY <1>1 DEF RefreshRunningState, Running
  <2>2. FlagsOK' BY <2>1, Zenon DEF TypeOK, FlagsOK
  <2>3. SettingsOK' BY <1>1 DEF TypeOK, SettingsOK, RefreshRunningState
  <2>4. ServiceOK' BY <1>1 DEF TypeOK, ServiceOK, RefreshRunningState
  <2>5. JobsOK' /\ isBusy' = (job'["app"] # NoJob)
    BY <1>1 DEF TypeOK, JobsOK, RefreshRunningState
  <2> QED BY <2>2, <2>3, <2>4, <2>5 DEF TypeOK
<1>2. CASE ScriptDone
  <2>1. FlagsOK'
    BY <1>2 DEF TypeOK, FlagsOK, ScriptDone, Running
  <2>2. SettingsOK'
    BY <1>2 DEF TypeOK, SettingsOK, ScriptDone, RefreshSelectionFromDisk, Settings
  <2>3. ServiceOK' BY <1>2 DEF TypeOK, ServiceOK, ScriptDone
  <2>4. JobsOK' /\ job'["app"] = NoJob
    BY <1>2, NoJobIsJob, JobReplaced DEF TypeOK, ScriptDone, Owner
  <2>5. isBusy' = FALSE
    BY <1>2 DEF ScriptDone
  <2> QED BY <2>1, <2>2, <2>3, <2>4, <2>5 DEF TypeOK
<1>3. CASE OrphanEnds
  <2>1. FlagsOK' BY <1>3 DEF TypeOK, FlagsOK, OrphanEnds
  <2>2. SettingsOK' BY <1>3 DEF TypeOK, SettingsOK, OrphanEnds
  <2>3. ServiceOK' BY <1>3 DEF TypeOK, ServiceOK, OrphanEnds
  <2>4. JobsOK' /\ job'["app"] = job["app"] /\ isBusy' = isBusy
    BY <1>3, NoJobIsJob, JobReplaced DEF TypeOK, OrphanEnds, Owner
  <2> QED BY <2>1, <2>2, <2>3, <2>4 DEF TypeOK
<1>4. CASE ToggleService
  <2>1. /\ UNCHANGED <<open, isRunning, isTesting, isCancellingTest, cancelFile, overlap, promised>>
        /\ isBusy' = TRUE
    BY <1>4 DEF ToggleService, RunPrivileged
  <2>2. FlagsOK' BY <2>1 DEF TypeOK, FlagsOK
  <2>3. SettingsOK' BY <1>4 DEF TypeOK, SettingsOK, ToggleService
  <2>4. ServiceOK' BY <1>4, BoundAssumption DEF TypeOK, ServiceOK, ToggleService, Command, User
  <2>5. JobsOK' /\ isBusy' = (job'["app"] # NoJob)
    <3>1. PICK s \in {"install", "restart", "stop", "test"} : RunPrivileged(s, "start")
      BY <1>4 DEF ToggleService
    <3> QED BY <3>1, RunPrivilegedJob DEF TypeOK
  <2> QED BY <2>2, <2>3, <2>4, <2>5 DEF TypeOK
<1>5. CASE SelectAgain
  <2>1. FlagsOK' BY <1>5 DEF TypeOK, FlagsOK, SelectAgain
  <2>2. SettingsOK' BY <1>5 DEF TypeOK, SettingsOK, SelectAgain
  <2>3. ServiceOK' BY <1>5, BoundAssumption DEF TypeOK, ServiceOK, SelectAgain, Command, User
  <2>4. JobsOK' /\ isBusy' = (job'["app"] # NoJob)
    BY <1>5 DEF TypeOK, JobsOK, SelectAgain
  <2> QED BY <2>1, <2>2, <2>3, <2>4 DEF TypeOK
<1>6. CASE StartStrategyTest
  <2>1. FlagsOK'
    BY <1>6 DEF TypeOK, FlagsOK, StartStrategyTest, RunPrivileged
  <2>2. SettingsOK' BY <1>6 DEF TypeOK, SettingsOK, StartStrategyTest
  <2>3. ServiceOK'
    BY <1>6, BoundAssumption DEF TypeOK, ServiceOK, StartStrategyTest, Command, User
  <2>4. JobsOK' /\ isBusy' = (job'["app"] # NoJob)
    BY <1>6, RunPrivilegedJob DEF TypeOK, StartStrategyTest
  <2> QED BY <2>1, <2>2, <2>3, <2>4 DEF TypeOK
<1>7. CASE CancelStrategyTest
  <2>1. FlagsOK' BY <1>7 DEF TypeOK, FlagsOK, CancelStrategyTest
  <2>2. SettingsOK' BY <1>7 DEF TypeOK, SettingsOK, CancelStrategyTest
  <2>3. ServiceOK'
    BY <1>7, BoundAssumption DEF TypeOK, ServiceOK, CancelStrategyTest, Command, User
  <2>4. JobsOK' /\ isBusy' = (job'["app"] # NoJob)
    BY <1>7 DEF TypeOK, JobsOK, CancelStrategyTest
  <2> QED BY <2>1, <2>2, <2>3, <2>4 DEF TypeOK
<1>8. CASE Denied
  <2>1. FlagsOK' BY <1>8 DEF TypeOK, FlagsOK, Denied
  <2>2. SettingsOK' BY <1>8 DEF TypeOK, SettingsOK, Denied
  <2>3. ServiceOK' BY <1>8 DEF TypeOK, ServiceOK, Denied
  <2>4. /\ JobsOK' /\ job["app"].step # "none" /\ job'["app"].step # "none"
    <3>1. GoTo("app", "failed") /\ "failed" \in Step /\ job["app"].step # "none"
      BY <1>8 DEF Denied, At, Step
    <3> QED BY <3>1, GoToJob DEF TypeOK, Owner
  <2>5. job["app"] # NoJob /\ job'["app"] # NoJob
    BY <2>4 DEF NoJob
  <2>6. isBusy' = isBusy
    BY <1>8 DEF Denied
  <2> QED BY <2>1, <2>2, <2>3, <2>4, <2>5, <2>6 DEF TypeOK
<1>9. CASE \E id \in Strategy : SelectStrategy(id)
  <2>1. PICK id \in Strategy : SelectStrategy(id)
    BY <1>9
  <2>2. Select("strategy", id)
    BY <2>1 DEF SelectStrategy
  <2>3. /\ selectedStrategyID' \in Strategy /\ selectedIPSetMode' \in Mode
        /\ commands' \in 0 .. MaxCommands
    BY <2>1, BoundAssumption DEF TypeOK, SettingsOK, ServiceOK, SelectStrategy, Command, User
  <2> QED BY <2>2, <2>3, SelectTypeOK DEF TypeOK, SettingsOK, ServiceOK
<1>10. CASE \E mode \in Mode : SelectIPSetMode(mode)
  <2>1. PICK mode \in Mode : SelectIPSetMode(mode)
    BY <1>10
  <2>2. Select("mode", mode)
    BY <2>1 DEF SelectIPSetMode
  <2>3. /\ selectedStrategyID' \in Strategy /\ selectedIPSetMode' \in Mode
        /\ commands' \in 0 .. MaxCommands
    BY <2>1, BoundAssumption DEF TypeOK, SettingsOK, ServiceOK, SelectIPSetMode, Command, User
  <2> QED BY <2>2, <2>3, SelectTypeOK DEF TypeOK, SettingsOK, ServiceOK
<1>11. CASE Quit
  <2>1. FlagsOK' BY <1>11 DEF TypeOK, FlagsOK, Quit
  <2>2. SettingsOK' BY <1>11, FirstStrategy DEF TypeOK, SettingsOK, Quit
  <2>3. ServiceOK' BY <1>11, BoundAssumption DEF TypeOK, ServiceOK, Quit, Command, User
  <2>4. JobsOK' /\ job'["app"] = NoJob
    BY <1>11, NoJobIsJob DEF TypeOK, JobsOK, Quit, Owner
  <2>5. isBusy' = FALSE
    BY <1>11 DEF Quit
  <2> QED BY <2>1, <2>2, <2>3, <2>4, <2>5 DEF TypeOK
<1>12. CASE Bootstrap
  <2>1. FlagsOK' BY <1>12 DEF TypeOK, FlagsOK, Bootstrap, Running
  <2>2. SettingsOK'
    BY <1>12 DEF TypeOK, SettingsOK, Settings, Bootstrap, RefreshSelectionFromDisk
  <2>3. ServiceOK' BY <1>12 DEF TypeOK, ServiceOK, Bootstrap
  <2>4. JobsOK' /\ isBusy' = (job'["app"] # NoJob)
    BY <1>12 DEF TypeOK, JobsOK, Bootstrap
  <2> QED BY <2>1, <2>2, <2>3, <2>4 DEF TypeOK
<1>13. CASE EditList
  <2>1. FlagsOK' BY <1>13 DEF TypeOK, FlagsOK, EditList
  <2>2. SettingsOK' BY <1>13 DEF TypeOK, SettingsOK, EditList
  <2>3. ServiceOK' BY <1>13, BoundAssumption DEF TypeOK, ServiceOK, EditList, User
  <2>4. JobsOK' /\ isBusy' = (job'["app"] # NoJob)
    BY <1>13 DEF TypeOK, JobsOK, EditList
  <2> QED BY <2>1, <2>2, <2>3, <2>4 DEF TypeOK
<1> QED BY <1>1, <1>2, <1>3, <1>4, <1>5, <1>6, <1>7, <1>8, <1>9, <1>10, <1>11, <1>12, <1>13
        DEF Use

------------------------------------------------------------------------------
(* What a test is about. *)

(* Only jobs that have changed can disturb it. *)
LEMMA StepInvFrame ==
  ASSUME NEW o \in Owner, StepInv, \A q \in Owner \ {o} : job'[q] = job[q],
         job'[o].script = "test" =>
           /\ job'[o].step # "start"
           /\ job'[o].step \in {"strategy", "mode", "launch"} => job'[o].next # 0
           /\ job'[o].step \notin {"begin", "done", "failed"} => job'[o].original \in Settings
  PROVE  StepInv'
  BY DEF StepInv, At, Tests

(* Steps of the scripts. *)
LEMMA ScriptStepInv ==
  ASSUME NEW o \in Owner, TypeOK, StepInv, RunsScript(o)
  PROVE  StepInv'
<1>1. JobsOK /\ files \in Settings
  BY DEF TypeOK, SettingsOK
<1>2. CASE GoesOn(o)
  <2>1. PICK s \in {"discover", "next", "restore", "mode", "launch", "wait", "await",
                    "restoremode", "resume"} :
          GoTo(o, s) /\ (s \in {"mode", "launch"} => At(o, "strategy") \/ At(o, "mode"))
    BY <1>2, GoesOnJob
  <2>2. o \in Tests /\ job[o].script = "test"
    BY <1>2, GoesOnJob
  <2>3. s \in Step
    BY DEF Step
  <2>4. /\ \A q \in Owner \ {o} : job'[q] = job[q]
        /\ job'[o].next = job[o].next /\ job'[o].original = job[o].original
        /\ job'[o].step = s
    BY <1>1, <2>1, <2>3, GoToJob
  <2> QED BY <2>1, <2>2, <2>4, StepInvFrame DEF StepInv
<1>3. CASE StopSh(o) \/ RestartSh(o) \/ InstallSh(o)
  <2>1. job'[o].script # "test" /\ \A q \in Owner \ {o} : job'[q] = job[q]
    BY <1>1, <1>3, ScriptJobs DEF RunsScript, StopSh, RestartSh, InstallSh
  <2> QED BY <2>1, StepInvFrame
<1>4. CASE Installed(o)
  <2>1. /\ \A q \in Owner \ {o} : job'[q] = job[q]
        /\ job'[o].script = job[o].script /\ job'[o].original = job[o].original
        /\ job'[o].step \in {"done", "tidy", "wait"}
    BY <1>1, <1>4, InstalledJob
  <2>2. job[o].script = "test" => o \in Tests
    BY <1>4 DEF Installed, At, Tests
  <2> QED BY <2>1, <2>2, StepInvFrame DEF StepInv
<1>5. CASE NotInstalled(o)
  <2> DEFINE to == CASE job[o].script = "install" -> "failed"
                     [] job[o].next = 0 -> "tidy"
                     [] OTHER -> "next"
  <2>1. GoTo(o, to) /\ (job[o].script = "test" => o \in Tests)
    BY <1>5 DEF NotInstalled, At, Tests
  <2>2. to \in Step /\ to \in {"failed", "tidy", "next"}
    BY DEF Step
  <2> HIDE DEF to
  <2>3. /\ \A q \in Owner \ {o} : job'[q] = job[q]
        /\ job'[o].script = job[o].script /\ job'[o].original = job[o].original
        /\ job'[o].step \in {"failed", "tidy", "next"}
    BY <1>1, <2>1, <2>2, GoToJob
  <2> QED BY <2>1, <2>3, StepInvFrame DEF StepInv
<1>6. CASE BeginTest(o)
  BY <1>1, <1>6, BeginTestJob, StepInvFrame
<1>7. CASE NextStrategy(o)
  <2>1. o \in Tests /\ job[o].script = "test"
    BY <1>7 DEF NextStrategy, Testing, At, Tests
  <2> QED BY <1>1, <1>7, <2>1, NextStrategyJob, StepInvFrame DEF StepInv
<1>8. CASE Resume(o)
  <2>1. o \in Tests /\ job[o].script = "test"
    BY <1>8 DEF Resume, Testing, At, Tests
  <2> QED BY <1>1, <1>8, <2>1, ResumeJob, StepInvFrame DEF StepInv
<1>9. CASE Tidy(o)
  BY <1>1, <1>9, TidyJob, StepInvFrame
<1> QED BY <1>2, <1>3, <1>4, <1>5, <1>6, <1>7, <1>8, <1>9 DEF RunsScript, TestSh, GoesOn

(* What the application does to the jobs: nothing, it runs a script, or is *)
(* not authorized to, a script is over, or is left to itself.              *)
Starts ==
  /\ job["app"] = NoJob /\ job'["orphan"] = job["orphan"]
  /\ job'["app"].script = "test" <=> job'["app"].step = "begin"
  /\ job'["app"].step \in {"begin", "start"}
Fails ==
  /\ job'["orphan"] = job["orphan"] /\ job["app"].step \in {"begin", "start"}
  /\ job'["app"].step = "failed"
  /\ missed' = {"strategy", "mode"}
IsOver(o) ==
  /\ Ended(o) /\ job'[o] = NoJob /\ \A q \in Owner \ {o} : job'[q] = job[q]
IsLeft ==
  /\ job["orphan"] = NoJob /\ job'["app"] = NoJob /\ job'["orphan"] = job["app"]

(* A script that is run while the application is not busy. *)
LEMMA RunPrivilegedStarts ==
  ASSUME TypeOK, NEW script \in {"install", "restart", "stop", "test"}, ~ isBusy,
         RunPrivileged(script, IF script = "test" THEN "begin" ELSE "start")
  PROVE  Starts
<1> DEFINE step == IF script = "test" THEN "begin" ELSE "start"
<1>1. step \in {"start", "begin"} /\ (script = "test" <=> step = "begin")
  OBVIOUS
<1>2. job["app"] = NoJob
  BY DEF TypeOK
<1>3. RunPrivileged(script, step)
  OBVIOUS
<1> HIDE DEF step
<1> QED BY <1>1, <1>2, <1>3, RunPrivilegedJob DEF TypeOK, Starts, Owner

(* There is nothing else it does. *)
LEMMA ApplicationJobs ==
  ASSUME TypeOK, RefreshRunningState \/ ScriptDone \/ OrphanEnds \/ Use
  PROVE  UNCHANGED job \/ Starts \/ Fails \/ (\E o \in Owner : IsOver(o)) \/ IsLeft
<1>1. CASE ScriptDone
  <2>1. IsOver("app")
    BY <1>1, NoJobIsJob, JobReplaced DEF TypeOK, ScriptDone, Owner, IsOver
  <2> QED BY <2>1 DEF Owner
<1>2. CASE OrphanEnds
  <2>1. IsOver("orphan")
    BY <1>2, NoJobIsJob, JobReplaced DEF TypeOK, OrphanEnds, Owner, IsOver
  <2> QED BY <2>1 DEF Owner
<1>3. CASE ToggleService
  <2>1. PICK s \in {"install", "restart", "stop", "test"} : s # "test" /\ RunPrivileged(s, "start")
    BY <1>3 DEF ToggleService
  <2>2. ~ isBusy
    BY <1>3 DEF ToggleService
  <2> QED BY <2>1, <2>2, RunPrivilegedStarts
<1>4. CASE StartStrategyTest
  <2>1. ~ isBusy /\ RunPrivileged("test", "begin")
    BY <1>4 DEF StartStrategyTest
  <2> QED BY <2>1, RunPrivilegedStarts
<1>5. ASSUME NEW field, NEW value, Select(field, value)
      PROVE  UNCHANGED job \/ Starts
  <2>1. CASE ~ isBusy /\ RunPrivileged("restart", "start")
    BY <2>1, RunPrivilegedStarts
  <2> QED BY <1>5, <2>1 DEF Select
<1>6. CASE Denied
  <2>1. GoTo("app", "failed") /\ "failed" \in Step /\ job["app"].step \in {"begin", "start"}
    BY <1>6 DEF Denied, At, Step
  <2>2. missed' = {"strategy", "mode"}
    BY <1>6 DEF TypeOK, SettingsOK, Denied
  <2> QED BY <2>1, <2>2, GoToJob DEF TypeOK, Owner, Fails
<1>7. CASE Quit
  <2>1. CASE job["app"] = NoJob
    BY <1>7, <2>1 DEF Quit
  <2>2. CASE job["app"] # NoJob
    BY <1>7, <2>2 DEF Quit, IsLeft
  <2> QED BY <2>1, <2>2
<1> QED
  BY <1>1, <1>2, <1>3, <1>4, <1>5, <1>6, <1>7
  DEF Use, RefreshRunningState, SelectAgain, CancelStrategyTest, Bootstrap, EditList,
      SelectStrategy, SelectIPSetMode

(* Steps of run.sh and of the application. *)
LEMMA OtherStepInv ==
  ASSUME TypeOK, StepInv,
         \/ ReadStrategy \/ ReadLists \/ ReadMode \/ KeepAlive
         \/ RefreshRunningState \/ ScriptDone \/ OrphanEnds \/ Use
  PROVE  StepInv'
<1>1. CASE UNCHANGED job
  BY <1>1 DEF StepInv, At, Tests
<1>2. CASE Starts \/ Fails \/ IsOver("app")
  BY <1>2, StepInvFrame DEF Starts, Fails, IsOver, Owner, NoJob
<1>3. CASE IsOver("orphan")
  BY <1>3, StepInvFrame DEF IsOver, Owner, NoJob
<1>4. CASE IsLeft
  <2>1. job'["app"].script # "test" /\ job'["orphan"] = job["app"]
    BY <1>4 DEF IsLeft, NoJob
  <2> QED BY <2>1 DEF StepInv, At, Tests, Owner
<1> QED BY <1>1, <1>2, <1>3, <1>4, ApplicationJobs
  DEF ReadStrategy, ReadLists, ReadMode, KeepAlive, Service, Owner

------------------------------------------------------------------------------
(* The cancel file of the user. *)

(* A script does not write it, and removes it after a test; the            *)
(* application removes it before a test and when the test is over.         *)
LEMMA CancelIsOursNext ==
  ASSUME CancelIsOurs, [Next]_vars
  PROVE  CancelIsOurs'
<1> USE DEF app, history
<1>1. ASSUME NEW o \in Owner, RunsScript(o)
      PROVE  CancelIsOurs'
  <2>1. UNCHANGED <<isTesting, isCancellingTest>>
    BY <1>1
    DEF RunsScript, StopSh, RestartSh, InstallSh, Installed, NotInstalled, TestSh, BeginTest,
        StopForTest, Discover, NextStrategy, WriteStrategy, WriteMode, Launch, WaitForEngine,
        RestoreStrategy, RestoreMode, Resume, Tidy, Script, Writes
  <2>2. cancelFile' = cancelFile \/ cancelFile' = FALSE
    BY <1>1
    DEF RunsScript, StopSh, RestartSh, InstallSh, Installed, NotInstalled, TestSh, BeginTest,
        StopForTest, Discover, NextStrategy, WriteStrategy, WriteMode, Launch, WaitForEngine,
        RestoreStrategy, RestoreMode, Resume, Tidy, Script, Writes
  <2> QED BY <2>1, <2>2 DEF CancelIsOurs
<1>2. CASE ScriptDone
  BY <1>2 DEF CancelIsOurs, ScriptDone
<1>3. CASE StartStrategyTest
  BY <1>3 DEF CancelIsOurs, StartStrategyTest
<1>4. CASE CancelStrategyTest
  BY <1>4 DEF CancelIsOurs, CancelStrategyTest
<1>5. CASE Quit
  BY <1>5 DEF CancelIsOurs, Quit
<1>6. CASE UNCHANGED <<isTesting, isCancellingTest, cancelFile>>
  BY <1>6 DEF CancelIsOurs
<1>7. ASSUME \/ UNCHANGED vars \/ ReadStrategy \/ ReadLists \/ ReadMode \/ KeepAlive
             \/ RefreshRunningState \/ OrphanEnds \/ ToggleService \/ SelectAgain \/ Denied
             \/ (\E id \in Strategy : SelectStrategy(id))
             \/ (\E mode \in Mode : SelectIPSetMode(mode))
             \/ Bootstrap \/ EditList
      PROVE  UNCHANGED <<isTesting, isCancellingTest, cancelFile>>
  BY <1>7
  DEF vars, ReadStrategy, ReadLists, ReadMode, KeepAlive, Service, RefreshRunningState, OrphanEnds,
      ToggleService, SelectAgain, Denied, SelectStrategy, SelectIPSetMode, Select, Bootstrap,
      EditList
<1> QED BY <1>1, <1>2, <1>3, <1>4, <1>5, <1>6, <1>7 DEF Next, Use

------------------------------------------------------------------------------
(* What the service runs as. *)

(* A test that may still start the service with other settings than those  *)
(* it will leave, or is about to start it with those.                      *)
Settling(o) == o \in Tests /\ ~ At(o, "tidy") /\ ~ (At(o, "await") /\ job[o].next = 0)
Settled == \A o \in Owner : ~ Settling(o) /\ ~ At(o, "start")

(* What run.sh has read, at each point of its way, is what the files hold. *)
AsSelected ==
  /\ service \in {"lists", "mode", "up"} =>
       config.strategy = files.strategy \/ "strategy" \in missed
  /\ service = "up" => config.mode = files.mode \/ "mode" \in missed

RunInv == Settled => AsSelected

(* A script that is at work, or changes the settings, is not settled after *)
(* its step, or has the service down or reading anew.                      *)
LEMMA ScriptRunInv ==
  ASSUME NEW o \in Owner, TypeOK, RunInv, RunsScript(o)
  PROVE  RunInv'
<1> USE DEF app, history
<1>1. JobsOK /\ files \in Settings
  BY DEF TypeOK, SettingsOK
<1>2. CASE service' \in {"down", "strategy"}
  BY <1>2 DEF RunInv, AsSelected
<1>3. ASSUME job'[o].script = "test",
             job'[o].step \in {"stop", "discover", "next", "restore", "mode", "launch", "wait",
                             "restoremode", "resume", "strategy"}
      PROVE  RunInv'
  BY <1>3 DEF RunInv, Settled, Settling, Tests, At
<1>4. CASE GoesOn(o) /\ service' \notin {"down", "strategy"}
  <2>1. PICK s \in {"discover", "next", "restore", "mode", "launch", "wait", "await",
                    "restoremode", "resume"} : GoTo(o, s) /\ (s = "await" => At(o, "launch"))
    BY <1>4, GoesOnJob
  <2>2. s \in Step /\ job[o].script = "test"
    BY <1>4, GoesOnJob DEF Step
  <2>3. ~ At(o, "launch")
    BY <1>4 DEF GoesOn, StopForTest, Discover, WriteStrategy, WriteMode, Launch,
                WaitForEngine, RestoreStrategy, RestoreMode, Testing, At, Started
  <2>4. job'[o].script = "test" /\ job'[o].step = s
    BY <1>1, <2>1, <2>2, GoToJob
  <2> QED BY <1>3, <2>1, <2>3, <2>4
<1>5. CASE Installed(o)
  <2>1. UNCHANGED <<service, config, files, missed>> /\ job[o].step = "await"
    BY <1>5 DEF Installed, Script, At
  <2>2. Settled' => Settled
    BY <1>1, <1>5, <2>1, InstalledJob DEF Settled, Settling, Tests, At
  <2> QED BY <2>1, <2>2 DEF RunInv, AsSelected
<1>6. CASE BeginTest(o)
  BY <1>1, <1>3, <1>6, BeginTestJob
<1>7. CASE NextStrategy(o)
  BY <1>1, <1>3, <1>7, NextStrategyJob DEF NextStrategy, Testing
<1>8. CASE Tidy(o)
  <2>1. UNCHANGED <<service, config, files, missed>> /\ job[o].step = "tidy"
    BY <1>8 DEF Tidy, Testing, At
  <2>2. Settled' => Settled
    BY <1>1, <1>8, <2>1, TidyJob DEF Settled, Settling, Tests, At
  <2> QED BY <2>1, <2>2 DEF RunInv, AsSelected
<1>9. ASSUME StopSh(o) \/ RestartSh(o) \/ InstallSh(o) \/ NotInstalled(o) \/ Resume(o)
      PROVE  service' \in {"down", "strategy"}
  BY <1>9 DEF StopSh, RestartSh, InstallSh, NotInstalled, Resume, Started
<1> QED BY <1>2, <1>4, <1>5, <1>6, <1>7, <1>8, <1>9 DEF RunsScript, TestSh, GoesOn

(* run.sh reads what the files hold. *)
LEMMA ServiceRunInv ==
  ASSUME TypeOK, RunInv, ReadStrategy \/ ReadLists \/ ReadMode \/ KeepAlive
  PROVE  RunInv'
<1>1. Settled' => Settled
  BY DEF ReadStrategy, ReadLists, ReadMode, KeepAlive, Service, Settled, Settling, Tests, At
<1>2. AsSelected => AsSelected'
  BY DEF TypeOK, ServiceOK, SettingsOK, ReadStrategy, ReadLists, ReadMode, KeepAlive, Service,
         AsSelected, history
<1> QED BY <1>1, <1>2 DEF RunInv

(* What the user selects is noted as missed, or a restart is run.          *)
LEMMA SelectRunInv ==
  ASSUME TypeOK, RunInv, NEW field \in {"strategy", "mode"}, NEW value, Select(field, value)
  PROVE  RunInv'
<1>1. CASE RunPrivileged("restart", "start")
  <2>1. job'["app"].step = "start"
    BY <1>1, RunPrivilegedJob DEF TypeOK
  <2> QED BY <2>1 DEF RunInv, Settled, At, Owner
<1>2. CASE missed' = missed \cup {field} /\ UNCHANGED job
  <2>1. Settled' => Settled
    BY <1>2 DEF Settled, Settling, Tests, At
  <2>2. files' = [files EXCEPT ![field] = value] /\ UNCHANGED <<service, config>>
    BY DEF Select
  <2>3. \A f \in {"strategy", "mode"} : files'[f] = files[f] \/ f \in missed'
    BY <1>2, <2>2 DEF TypeOK, SettingsOK, Settings
  <2>4. AsSelected => AsSelected'
    BY <1>2, <2>2, <2>3 DEF AsSelected
  <2> QED BY <2>1, <2>4 DEF RunInv
<1> QED BY <1>1, <1>2 DEF Select

(* Steps of the application and of its user. *)
LEMMA ApplicationRunInv ==
  ASSUME TypeOK, RunInv, RefreshRunningState \/ ScriptDone \/ OrphanEnds \/ Use
  PROVE  RunInv'
<1> USE DEF app, history
<1>1. CASE Denied
  BY <1>1 DEF TypeOK, SettingsOK, Denied, RunInv, AsSelected
<1>2. ASSUME \/ RefreshRunningState \/ ScriptDone \/ OrphanEnds \/ ToggleService
             \/ SelectAgain \/ StartStrategyTest \/ CancelStrategyTest
             \/ Quit \/ Bootstrap \/ EditList
      PROVE  RunInv'
  <2>1. UNCHANGED <<files, service, config, missed>>
    BY <1>2
    DEF RefreshRunningState, ScriptDone, OrphanEnds, ToggleService, SelectAgain,
        StartStrategyTest, CancelStrategyTest, Quit, Bootstrap, EditList
  <2>2. AsSelected => AsSelected'
    BY <2>1 DEF AsSelected
  <2>3. CASE UNCHANGED job
    BY <2>2, <2>3 DEF RunInv, Settled, Settling, Tests, At
  <2>4. CASE Starts
    BY <2>2, <2>4 DEF Starts, RunInv, Settled, Settling, Tests, At, Owner, NoJob
  <2>5. CASE Fails
    <3>1. missed = {"strategy", "mode"}
      BY <2>1, <2>5 DEF Fails
    <3> QED BY <2>1, <3>1 DEF RunInv, AsSelected
  <2>6. ASSUME NEW o \in Owner, IsOver(o)
        PROVE  Settled' => Settled
    BY <2>6 DEF IsOver, Settled, Settling, Tests, At, Ended
  <2>7. CASE IsLeft
    BY <2>2, <2>7 DEF IsLeft, RunInv, Settled, Settling, Tests, At, Owner, NoJob
  <2> QED BY <1>2, <2>2, <2>3, <2>4, <2>5, <2>6, <2>7, ApplicationJobs DEF Use, RunInv
<1>3. ASSUME NEW id \in Strategy, SelectStrategy(id)
      PROVE  RunInv'
  BY <1>3, SelectRunInv DEF SelectStrategy
<1>4. ASSUME NEW mode \in Mode, SelectIPSetMode(mode)
      PROVE  RunInv'
  BY <1>4, SelectRunInv DEF SelectIPSetMode
<1> QED BY <1>1, <1>2, <1>3, <1>4 DEF Use

------------------------------------------------------------------------------
(* What a test restores. *)

(* With no test the settings are what they were or what the user selected; *)
(* a test that runs alone knows them, and has put them back when it is     *)
(* about to end.                                                           *)
Alone == ~ overlap => \A p, q \in Tests : p = q
Knows(o) ==
  ~ overlap /\ settled # Unknown =>
    /\ job[o].original = settled
    /\ At(o, "restoremode") => files.strategy = settled.strategy
    /\ At(o, "resume") \/ At(o, "tidy") \/ (At(o, "await") /\ job[o].next = 0) => files = settled
RestoreInv ==
  /\ Tests = {} => settled = files
  /\ Alone
  /\ \A o \in Tests : Knows(o)

(* Of the tests only one has to know. *)
LEMMA OneKnows ==
  ASSUME NEW o, o \in Tests', Alone', Knows(o)'
  PROVE  RestoreInv'
<1>1. ASSUME NEW q \in Tests'
      PROVE  Knows(q)'
  <2>1. CASE overlap'
    BY <2>1 DEF Knows
  <2>2. CASE ~ overlap'
    <3>1. q = o
      BY <1>1, <2>2 DEF Alone
    <3> QED BY <3>1
  <2> QED BY <2>1, <2>2
<1> QED BY <1>1 DEF RestoreInv

(* A test goes on. *)
LEMMA GoesOnRestoreInv ==
  ASSUME NEW o \in Owner, TypeOK, StepInv, RestoreInv, GoesOn(o)
  PROVE  RestoreInv' /\ Tests' = Tests
<1>1. PICK s \in {"discover", "next", "restore", "mode", "launch", "wait", "await",
                  "restoremode", "resume"} : GoTo(o, s) /\ (s = "await" => At(o, "launch"))
  BY GoesOnJob
<1>2. s \in Step /\ job[o].script = "test" /\ o \in Tests
  BY GoesOnJob DEF Step
<1>3. /\ \A q \in Owner \ {o} : job'[q] = job[q]
      /\ job'[o].script = "test" /\ job'[o].step = s
      /\ job'[o].next = job[o].next /\ job'[o].original = job[o].original
  BY <1>1, <1>2, GoToJob DEF TypeOK
<1>4. Tests' = Tests
  BY <1>2, <1>3 DEF Tests
<1>5. UNCHANGED <<settled, overlap>>
  BY DEF GoesOn, StopForTest, Discover, WriteStrategy, WriteMode, Launch, WaitForEngine,
         RestoreStrategy, RestoreMode, Script, Writes, history
<1>6. Alone'
  BY <1>4, <1>5 DEF RestoreInv, Alone
<1>7. ASSUME ~ overlap, settled # Unknown
      PROVE  Knows(o) /\ job[o].original = settled /\ settled \in Settings /\ files \in Settings
  BY <1>2, <1>7 DEF RestoreInv, Knows, TypeOK, SettingsOK
<1>8. ~ (s = "await" /\ job[o].next = 0)
  BY <1>1, <1>2 DEF StepInv
<1>9. Knows(o)'
  <2>1. CASE RestoreStrategy(o)
    <3>1. s = "restoremode"
      BY <1>3, <2>1, GoToJob DEF RestoreStrategy, Writes, TypeOK, Step
    <3>2. files' = [files EXCEPT !.strategy = job[o].original.strategy]
      BY <2>1 DEF RestoreStrategy, Writes
    <3>3. ~ overlap /\ settled # Unknown => files'.strategy = settled.strategy
      BY <1>7, <3>2 DEF Settings
    <3> QED BY <1>3, <1>5, <1>7, <3>1, <3>3 DEF Knows, At
  <2>2. CASE RestoreMode(o)
    <3>1. s = "resume" /\ At(o, "restoremode")
      BY <1>3, <2>2, GoToJob DEF RestoreMode, Writes, TypeOK, Step, Testing
    <3>2. files' = [files EXCEPT !.mode = job[o].original.mode]
      BY <2>2 DEF RestoreMode, Writes
    <3>3. ASSUME ~ overlap, settled # Unknown
          PROVE  files' = settled
      <4>1. files.strategy = settled.strategy
        BY <1>7, <3>1, <3>3 DEF Knows
      <4> QED BY <1>7, <3>2, <3>3, <4>1 DEF Settings
    <3> QED BY <1>3, <1>5, <1>7, <3>1, <3>3 DEF Knows, At
  <2>3. CASE ~ RestoreStrategy(o) /\ ~ RestoreMode(o)
    <3>1. \E t \in {"discover", "next", "restore", "mode", "launch", "wait", "await"} : GoTo(o, t)
      BY <2>3 DEF GoesOn, StopForTest, Discover, WriteStrategy, WriteMode, Launch,
                  WaitForEngine, Writes
    <3>2. s \notin {"restoremode", "resume", "tidy"}
      BY <1>3, <3>1, GoToJob DEF TypeOK, Step
    <3> QED BY <1>3, <1>5, <1>7, <1>8, <3>2 DEF Knows, At
  <2> QED BY <2>1, <2>2, <2>3
<1> QED BY <1>2, <1>4, <1>6, <1>9, OneKnows

(* Nothing is written, and no test begins or ends. *)
LEMMA NoTestRestoreInv ==
  ASSUME RestoreInv, UNCHANGED <<files, settled, overlap>>, Tests' = Tests,
         \A o \in Tests : UNCHANGED job[o]
  PROVE  RestoreInv'
  BY DEF RestoreInv, Alone, Knows, At

(* Steps of the other scripts, and those at which install.sh has waited.   *)
LEMMA InstallRestoreInv ==
  ASSUME NEW o \in Owner, TypeOK, RestoreInv,
         StopSh(o) \/ RestartSh(o) \/ InstallSh(o) \/ Installed(o) \/ NotInstalled(o)
  PROVE  RestoreInv' /\ Tests' = Tests
<1>1. UNCHANGED <<files, settled, overlap>>
  BY DEF StopSh, RestartSh, InstallSh, Installed, NotInstalled, Script, history
<1>2. JobsOK /\ files \in Settings
  BY DEF TypeOK, SettingsOK
<1>3. /\ \A q \in Owner \ {o} : job'[q] = job[q]
      /\ job'[o].script = job[o].script
  BY <1>2, ScriptJobs DEF RunsScript
<1>4. CASE job[o].script # "test"
  <2>1. Tests' = Tests /\ o \notin Tests
    BY <1>3, <1>4 DEF Tests
  <2> QED BY <1>1, <1>3, <2>1, NoTestRestoreInv DEF Tests
<1>5. CASE job[o].script = "test"
  <2>1. Installed(o) \/ NotInstalled(o)
    BY <1>5 DEF StopSh, RestartSh, InstallSh
  <2>2. /\ job'[o].step \in {"tidy", "wait", "next"}
        /\ job'[o].step = "tidy" => job[o].next = 0
        /\ job'[o].original = job[o].original
    <3>1. CASE Installed(o)
      BY <1>2, <1>5, <3>1, InstalledJob
    <3>2. CASE NotInstalled(o)
      <4> DEFINE to == CASE job[o].script = "install" -> "failed"
                         [] job[o].next = 0 -> "tidy"
                         [] OTHER -> "next"
      <4>1. GoTo(o, to)
        BY <3>2 DEF NotInstalled
      <4>2. to \in {"tidy", "next"} /\ (to = "tidy" => job[o].next = 0)
        BY <1>5
      <4>3. to \in Step
        BY <4>2 DEF Step
      <4> HIDE DEF to
      <4> QED BY <1>2, <4>1, <4>2, <4>3, GoToJob
    <3> QED BY <2>1, <3>1, <3>2
  <2>3. At(o, "await") /\ o \in Tests
    BY <1>5, <2>1 DEF Installed, NotInstalled, At, Tests
  <2>4. Tests' = Tests
    BY <1>3, <1>5, <2>2, <2>3 DEF Tests
  <2>5. Alone'
    BY <1>1, <2>4 DEF RestoreInv, Alone
  <2>6. Knows(o)'
    BY <1>1, <2>2, <2>3 DEF RestoreInv, Knows, At
  <2> QED BY <2>3, <2>4, <2>5, <2>6, OneKnows
<1> QED BY <1>4, <1>5

(* Steps of a test that do not just go on. *)
LEMMA TestRestoreInv ==
  ASSUME NEW o \in Owner, TypeOK, RestoreInv,
         BeginTest(o) \/ NextStrategy(o) \/ Resume(o)
  PROVE  RestoreInv' /\ o \in Tests'
<1>1. JobsOK /\ files \in Settings
  BY DEF TypeOK, SettingsOK
<1>2. CASE BeginTest(o)
  <2>1. /\ \A q \in Owner \ {o} : job'[q] = job[q]
        /\ job'[o].script = "test" /\ job'[o].step = "stop" /\ job'[o].original = files
    BY <1>1, <1>2, BeginTestJob
  <2>2. UNCHANGED <<files, settled>> /\ overlap' = (Tests # {})
    BY <1>2 DEF BeginTest
  <2>3. Tests' = Tests \cup {o}
    BY <2>1 DEF Tests
  <2>4. Alone'
    BY <2>2, <2>3 DEF Alone
  <2>5. Knows(o)'
    BY <2>1, <2>2 DEF RestoreInv, Knows, At
  <2> QED BY <2>3, <2>4, <2>5, OneKnows
<1>3. CASE NextStrategy(o)
  <2>1. o \in Tests /\ job[o].script = "test" /\ UNCHANGED <<files, settled, overlap>>
    BY <1>3 DEF NextStrategy, Testing, At, Tests, Script, history
  <2>2. /\ \A q \in Owner \ {o} : job'[q] = job[q]
        /\ job'[o].script = "test" /\ job'[o].step \in {"restore", "strategy"}
        /\ job'[o].original = job[o].original
    BY <1>1, <1>3, <2>1, NextStrategyJob
  <2>3. Tests' = Tests
    BY <2>1, <2>2 DEF Tests
  <2>4. Alone' /\ Knows(o)'
    BY <2>1, <2>2, <2>3 DEF RestoreInv, Alone, Knows, At
  <2> QED BY <2>1, <2>3, <2>4, OneKnows
<1>4. CASE Resume(o)
  <2>1. /\ o \in Tests /\ At(o, "resume") /\ job[o].script = "test"
        /\ UNCHANGED <<files, settled, overlap>>
    BY <1>4 DEF Resume, Testing, At, Tests, Script, history
  <2>2. /\ \A q \in Owner \ {o} : job'[q] = job[q]
        /\ job'[o].script = "test" /\ job'[o].step \in {"tidy", "await"}
        /\ job'[o].original = job[o].original
    BY <1>1, <1>4, <2>1, ResumeJob
  <2>3. Tests' = Tests
    BY <2>1, <2>2 DEF Tests
  <2>4. Alone' /\ Knows(o)'
    BY <2>1, <2>2, <2>3 DEF RestoreInv, Alone, Knows, At
  <2> QED BY <2>1, <2>3, <2>4, OneKnows
<1> QED BY <1>2, <1>3, <1>4

(* The last step of a test. *)
LEMMA TidyRestores ==
  ASSUME NEW o \in Owner, TypeOK, RestoreInv, Tidy(o)
  PROVE  /\ RestoreInv'
         /\ Tests' = {} /\ ~ overlap => Restored
<1>1. /\ \A q \in Owner \ {o} : job'[q] = job[q]
      /\ job'[o].step = "done"
  BY TidyJob DEF TypeOK
<1>2. o \in Tests /\ At(o, "tidy") /\ UNCHANGED files
  BY DEF Tidy, Testing, At, Tests
<1>3. Tests' = Tests \ {o}
  BY <1>1 DEF Tests
<1>4. Restored \/ overlap
  BY <1>2 DEF RestoreInv, Knows, Restored
<1>5. CASE Tests = {o}
  <2>1. Tests' = {} /\ settled' = files'
    BY <1>2, <1>3, <1>5 DEF Tidy
  <2>2. Alone'
    BY <2>1 DEF Alone
  <2> QED BY <1>4, <2>1, <2>2 DEF RestoreInv
<1>6. CASE Tests # {o}
  <2>1. UNCHANGED <<settled, overlap>>
    BY <1>6 DEF Tidy
  <2>2. PICK q \in Tests : q # o
    BY <1>2, <1>6
  <2>3. overlap
    BY <1>2, <2>2 DEF RestoreInv, Alone
  <2>4. Tests' # {}
    BY <1>3, <2>2
  <2>5. Alone' /\ \A p \in Tests' : Knows(p)'
    BY <2>1, <2>3 DEF Alone, Knows
  <2> QED BY <2>4, <2>5 DEF RestoreInv
<1> QED BY <1>5, <1>6

(* What the user selects is not to be restored. *)
LEMMA SelectRestoreInv ==
  ASSUME TypeOK, RestoreInv, NEW field, NEW value, Select(field, value)
  PROVE  RestoreInv' /\ Tests' = Tests
<1>1. UNCHANGED job \/ Starts
  <2>1. CASE ~ isBusy /\ RunPrivileged("restart", "start")
    BY <2>1, RunPrivilegedStarts
  <2> QED BY <2>1 DEF Select
<1>2. Tests' = Tests
  BY <1>1 DEF Starts, Tests, Owner, NoJob
<1>3. overlap' = overlap /\ settled' = IF Tests = {} THEN files' ELSE Unknown
  BY DEF Select
<1>4. Alone'
  BY <1>2, <1>3 DEF RestoreInv, Alone
<1>5. CASE Tests = {}
  BY <1>2, <1>3, <1>4, <1>5 DEF RestoreInv
<1>6. CASE Tests # {}
  <2>1. \A o \in Tests' : Knows(o)'
    BY <1>3, <1>6 DEF Knows
  <2> QED BY <1>2, <1>4, <1>6, <2>1 DEF RestoreInv
<1> QED BY <1>2, <1>5, <1>6

(* Steps of the application, of its user and of run.sh. *)
LEMMA OtherRestoreInv ==
  ASSUME TypeOK, StepInv, RestoreInv,
         \/ ReadStrategy \/ ReadLists \/ ReadMode \/ KeepAlive
         \/ RefreshRunningState \/ ScriptDone \/ OrphanEnds \/ Use
  PROVE  RestoreInv' /\ (Tests' = {} => Tests = {})
<1> USE DEF app, history
<1>1. ASSUME NEW id \in Strategy, SelectStrategy(id)
      PROVE  RestoreInv' /\ Tests' = Tests
  BY <1>1, SelectRestoreInv DEF SelectStrategy
<1>2. ASSUME NEW mode \in Mode, SelectIPSetMode(mode)
      PROVE  RestoreInv' /\ Tests' = Tests
  BY <1>2, SelectRestoreInv DEF SelectIPSetMode
<1>3. ASSUME \/ ReadStrategy \/ ReadLists \/ ReadMode \/ KeepAlive
             \/ RefreshRunningState \/ ScriptDone \/ OrphanEnds \/ ToggleService
             \/ SelectAgain \/ StartStrategyTest \/ CancelStrategyTest \/ Denied
             \/ Quit \/ Bootstrap \/ EditList
      PROVE  RestoreInv' /\ (Tests' = {} => Tests = {})
  <2>1. UNCHANGED <<files, settled, overlap>>
    BY <1>3
    DEF ReadStrategy, ReadLists, ReadMode, KeepAlive, Service, RefreshRunningState, ScriptDone,
        OrphanEnds, ToggleService, SelectAgain, StartStrategyTest, CancelStrategyTest, Denied,
        Quit, Bootstrap, EditList
  <2>2. \/ UNCHANGED job \/ Starts \/ Fails \/ (\E o \in Owner : IsOver(o)) \/ IsLeft
    BY <1>3, ApplicationJobs
    DEF Use, ReadStrategy, ReadLists, ReadMode, KeepAlive, Service
  <2>3. CASE UNCHANGED job \/ Starts \/ Fails \/ (\E o \in Owner : IsOver(o))
    <3>1. Tests' = Tests /\ \A o \in Tests : UNCHANGED job[o]
      <4>1. CASE UNCHANGED job
        BY <4>1 DEF Tests
      <4>2. CASE Starts
        BY <4>2 DEF Starts, Tests, Owner, NoJob
      <4>3. CASE Fails
        BY <4>3 DEF Fails, Tests, Owner, StepInv, At
      <4>4. ASSUME NEW o \in Owner, IsOver(o)
            PROVE  Tests' = Tests /\ \A q \in Tests : UNCHANGED job[q]
        BY <4>4 DEF IsOver, Tests, Ended, NoJob
      <4> QED BY <2>3, <4>1, <4>2, <4>3, <4>4
    <3> QED BY <2>1, <3>1, NoTestRestoreInv
  <2>4. CASE IsLeft
    <3>1. "orphan" \in Tests' <=> "app" \in Tests
      BY <2>4 DEF IsLeft, Tests, Owner
    <3>2. Tests \in SUBSET {"app"} /\ Tests' \in SUBSET {"orphan"}
      BY <2>4 DEF IsLeft, Tests, Owner, NoJob
    <3>3. CASE "app" \in Tests
      <4>1. "orphan" \in Tests' /\ Alone'
        BY <3>1, <3>2, <3>3 DEF Alone
      <4>2. Knows("orphan")'
        BY <2>1, <2>4, <3>3 DEF RestoreInv, Knows, IsLeft, At
      <4> QED BY <4>1, <4>2, OneKnows
    <3>4. CASE "app" \notin Tests
      <4>1. Tests = {} /\ Tests' = {}
        BY <3>1, <3>2, <3>4
      <4> QED BY <2>1, <4>1 DEF RestoreInv, Alone
    <3> QED BY <3>3, <3>4
  <2> QED BY <2>2, <2>3, <2>4
<1> QED BY <1>1, <1>2, <1>3 DEF Use

------------------------------------------------------------------------------
(* The theorems. *)

IInv == TypeOK /\ StepInv /\ CancelIsOurs /\ RunInv /\ RestoreInv

(* It holds at the start: no test runs, and no cancel file is of a test.   *)
LEMMA InitInv == Init => IInv
<1> SUFFICES ASSUME Init
             PROVE  IInv
  OBVIOUS
<1>1. job = [o \in Owner |-> NoJob] /\ job["app"] = NoJob
  BY DEF Init, Owner
<1>2. Tests = {}
  BY <1>1 DEF Tests, NoJob
<1>3. FlagsOK
  BY DEF Init, FlagsOK
<1>4. SettingsOK
  BY FirstStrategy DEF Init, SettingsOK, Settings, Mode
<1>5. ServiceOK
  BY BoundAssumption, <1>4 DEF Init, ServiceOK, SettingsOK, Settings
<1>6. JobsOK
  BY <1>1, NoJobIsJob DEF JobsOK
<1>7. TypeOK
  BY <1>1, <1>3, <1>4, <1>5, <1>6 DEF Init, TypeOK
<1>8. StepInv
  BY <1>1, <1>2 DEF StepInv, NoJob
<1>9. CancelIsOurs
  BY DEF Init, CancelIsOurs
<1>10. RunInv
  BY DEF Init, RunInv, AsSelected
<1>11. RestoreInv
  BY <1>2 DEF Init, RestoreInv, Alone
<1> QED BY <1>7, <1>8, <1>9, <1>10, <1>11 DEF IInv

(* Every step keeps it, and the last step of a test that ran alone has     *)
(* restored the settings.                                                  *)
LEMMA NextInv ==
  ASSUME IInv, [Next]_vars
  PROVE  /\ IInv'
         /\ Tests # {} /\ Tests' = {} /\ ~ overlap => Restored
<1> USE DEF IInv
<1>1. CancelIsOurs'
  BY CancelIsOursNext
<1>2. ASSUME NEW o \in Owner, RunsScript(o)
      PROVE  /\ IInv' /\ (Tests # {} /\ Tests' = {} /\ ~ overlap => Restored)
  <2>1. TypeOK'
    BY <1>2, ScriptTypeOK
  <2>2. StepInv'
    BY <1>2, ScriptStepInv
  <2>3. RunInv'
    BY <1>2, ScriptRunInv
  <2>4. RestoreInv' /\ (Tests # {} /\ Tests' = {} /\ ~ overlap => Restored)
    BY <1>2, GoesOnRestoreInv, InstallRestoreInv, TestRestoreInv, TidyRestores
    DEF RunsScript, TestSh, GoesOn
  <2> QED BY <1>1, <2>1, <2>2, <2>3, <2>4
<1>3. ASSUME \/ ReadStrategy \/ ReadLists \/ ReadMode \/ KeepAlive
             \/ RefreshRunningState \/ ScriptDone \/ OrphanEnds \/ Use
      PROVE  IInv' /\ (Tests' = {} => Tests = {})
  BY <1>1, <1>3, ServiceTypeOK, ApplicationTypeOK, OtherStepInv, ServiceRunInv, ApplicationRunInv,
     OtherRestoreInv
<1>4. CASE UNCHANGED vars
  <2>1. Tests' = Tests
    BY <1>4 DEF vars, Tests
  <2>2. TypeOK'
    BY <1>4
    DEF vars, app, history, TypeOK, FlagsOK, SettingsOK, ServiceOK, JobsOK
  <2>3. StepInv'
    BY <1>4, <2>1 DEF vars, StepInv, At
  <2>4. RunInv'
    BY <1>4, <2>1 DEF vars, app, history, RunInv, AsSelected, Settled, Settling, At
  <2>5. RestoreInv'
    BY <1>4, <2>1, NoTestRestoreInv DEF vars, app, history
  <2> QED BY <1>1, <2>1, <2>2, <2>3, <2>4, <2>5
<1> QED BY <1>2, <1>3, <1>4 DEF Next

(* The inductive invariant holds throughout. *)
THEOREM Invariance == Spec => []IInv
<1>1. IInv /\ [Next]_vars => IInv'
  BY NextInv
<1> QED BY InitInv, <1>1, PTL DEF Spec

(* Everything the service and the scripts hold has its type. *)
THEOREM Typing == Spec => []TypeOK
<1>1. IInv => TypeOK
  BY DEF IInv
<1> QED BY Invariance, <1>1, PTL

(* A cancel file that an earlier test has left does not end the next:      *)
(* startStrategyTest removes it before isTesting.                          *)
THEOREM TestsAreNotCancelledByOthers == Spec => []CancelIsOurs
<1>1. IInv => CancelIsOurs
  BY DEF IInv
<1> QED BY Invariance, <1>1, PTL

(* A service that is up and not about to be restarted runs with what is    *)
(* selected, unless a selection was made that does not restart it.         *)
THEOREM ServiceRunsAsSelected == Spec => []RunsAsSelected
<1>1. IInv => RunsAsSelected
  BY DEF IInv, RunInv, RunsAsSelected, Settled, Settling, AsSelected, Running
<1> QED BY Invariance, <1>1, PTL

(* A test that ran alone leaves the selection as it was. *)
THEOREM TestsRestoreSettings == Spec => TestRestores
<1>1. IInv /\ [Next]_vars => [Tests # {} /\ Tests' = {} /\ ~ overlap => Restored]_vars
  BY NextInv
<1> QED BY Invariance, <1>1, PTL DEF Spec, TestRestores
==============================================================================
