-------------------------- MODULE Supervisor_proofs --------------------------
(***************************************************************************)
(* Proofs about Supervisor, for any number of scripts, faults, references  *)
(* and routes: its types, and the three invariants the runs check.  First  *)
(* where a position goes, then the typing of every step, then one          *)
(* inductive invariant for each property.                                  *)
(***************************************************************************)
EXTENDS Supervisor, FiniteSetTheorems, TLAPS

(* How long the scripts are; a script has a first command. *)

LEMMA Lengths ==
  /\ Len(Program["idle"]) = 1 /\ Len(Program["run"]) = 17 /\ Len(Program["cleanup"]) = 7
  /\ Len(Program["watchdog"]) = 6 /\ Len(Program["stop"]) = 9
  /\ Len(Program["install"]) = 10 /\ Len(Program["restart"]) = 3
  BY DEF Program, RunSh, Cleanup, WatchdogSh, StopSh, InstallSh, RestartSh

Script == {"idle", "run", "cleanup", "watchdog", "stop", "install", "restart"}

(* Every script has a first command. *)
LEMMA LengthsPositive ==
  ASSUME NEW s \in Script
  PROVE  Len(Program[s]) \in Nat /\ 1 <= Len(Program[s])
<1>1. CASE s = "idle" BY <1>1, Lengths
<1>2. CASE s = "run" BY <1>2, Lengths
<1>3. CASE s = "cleanup" BY <1>3, Lengths
<1>4. CASE s = "watchdog" BY <1>4, Lengths
<1>5. CASE s = "stop" BY <1>5, Lengths
<1>6. CASE s = "install" BY <1>6, Lengths
<1>7. CASE s = "restart" BY <1>7, Lengths
<1> QED BY <1>1, <1>2, <1>3, <1>4, <1>5, <1>6, <1>7 DEF Script

(* A script starts at one of its positions. *)
LEMMA Starts ==
  ASSUME NEW s \in Script
  PROVE  Start(s) \in Position(s)
<1>1. 1 \in 1 .. Len(Program[s])
  BY LengthsPositive
<1> QED BY <1>1 DEF Start, Position

(* Moving on stays in the script, or ends it. *)
LEMMA FurtherInScript ==
  ASSUME NEW s \in Script, NEW pos \in Position(s), NEW k \in {1, 3}
  PROVE  Further(pos, k) \in Position(s) \cup Position("idle")
<1>1. CASE pos.n + k <= Len(Program[s])
  <2>1. pos.n + k \in 1 .. Len(Program[s])
    BY <1>1, LengthsPositive DEF Position
  <2>2. [pos EXCEPT !.n = @ + k] \in Position(s)
    BY <2>1 DEF Position
  <2> QED BY <1>1, <2>2 DEF Further, Position
<1>2. CASE ~ (pos.n + k <= Len(Program[s]))
  <2>1. Further(pos, k) = Idle
    BY <1>2 DEF Further, Position
  <2> QED BY <2>1, Starts DEF Idle, Script
<1> QED BY <1>1, <1>2

(* run.sh does not pass from one script to another by moving on. *)
LEMMA FurtherKeepsScript ==
  ASSUME NEW pos \in RunPosition, NEW k \in {1, 3}
  PROVE  Further(pos, k).script \in {pos.script, "idle"}
  BY FurtherInScript DEF RunPosition, Script, Position

(* A process that moves on keeps all positions in their scripts. *)
LEMMA SkipsShell ==
  ASSUME ShellOK, NEW p \in Process, NEW k \in {1, 3}, Skips(p, k)
  PROVE  /\ at' \in [Process -> RunPosition \cup DogPosition \cup CtlPosition]
         /\ at'["run"] \in RunPosition /\ at'["dog"] \in DogPosition
         /\ at'["ctl"] \in CtlPosition
         /\ \A q \in Process \ {p} : at'[q] = at[q]
         /\ at'["run"].script # "cleanup" \/ at["run"].script = "cleanup"
<1>1. p = "run" => Further(at[p], k) \in RunPosition
  BY FurtherInScript DEF ShellOK, RunPosition, Script
<1>2. p = "dog" => Further(at[p], k) \in DogPosition
  BY FurtherInScript DEF ShellOK, DogPosition, Script
<1>3. p = "ctl" => Further(at[p], k) \in CtlPosition
  BY FurtherInScript DEF ShellOK, CtlPosition, Script
<1>4. at' = [at EXCEPT ![p] = Further(at[p], k)]
  BY DEF Skips
<1>5. Further(at["run"], k).script # "cleanup" \/ at["run"].script = "cleanup"
  BY FurtherKeepsScript DEF ShellOK
<1> QED BY <1>1, <1>2, <1>3, <1>4, <1>5 DEF ShellOK, Process

(* Moving on keeps the types of the shells. *)
LEMMA SkipsShellOK ==
  ASSUME ShellOK, NEW p \in Process, NEW k \in {1, 3}, Skips(p, k),
         TOKEN' \in [Process -> Token \cup {NoToken}]
  PROVE  ShellOK'
  BY SkipsShell DEF ShellOK, Skips, RunPosition, DogPosition, CtlPosition, Position

(* Where processes start and end is among their positions. *)
LEMMA IdlePositions ==
  /\ Idle \in RunPosition /\ Idle \in DogPosition /\ Idle \in CtlPosition
  /\ Idle \in Position("idle")
  /\ Start("cleanup") \in RunPosition /\ Start("run") \in RunPosition
  /\ Start("watchdog") \in DogPosition
  /\ \A s \in {"idle", "stop", "install", "restart"} : Start(s) \in CtlPosition
  BY Starts DEF Idle, Script, RunPosition, DogPosition, CtlPosition

(* run.sh killed, or at its end, keeps the types. *)
LEMMA DieShellOK ==
  ASSUME ShellOK, NEW pos, Die(pos),
         pos \in [Process -> RunPosition \cup DogPosition \cup CtlPosition],
         pos["dog"] \in DogPosition, pos["ctl"] \in CtlPosition
  PROVE  ShellOK'
  BY IdlePositions DEF ShellOK, Die, Process, RunPosition, DogPosition, CtlPosition, Position

(* run.sh coming to its end keeps the types of shells and machine. *)
LEMMA ExitShellOK ==
  ASSUME TypeOK, Exit, UNCHANGED route, UNCHANGED others
  PROVE  ShellOK' /\ MachineOK'
<1>1. /\ at' \in [Process -> RunPosition \cup DogPosition \cup CtlPosition]
      /\ at'["run"] \in RunPosition /\ at'["dog"] \in DogPosition
      /\ at'["ctl"] \in CtlPosition
  BY IdlePositions DEF TypeOK, ShellOK, Exit, Process
<1>2. TOKEN' \in [Process -> Token \cup {NoToken}]
  BY DEF TypeOK, ShellOK, Exit, Process
<1>3. ShellOK'
  BY <1>1, <1>2, IdlePositions DEF TypeOK, ShellOK, Exit
<1>4. MachineOK'
  BY DEF TypeOK, MachineOK, Exit, shared, found
<1> QED BY <1>3, <1>4

(* run.sh coming to its end keeps the types. *)
LEMMA ExitTypeOK ==
  ASSUME TypeOK, Exit, UNCHANGED world
  PROVE  TypeOK'
<1>1. ShellOK' /\ MachineOK'
  BY ExitShellOK DEF world
<1>2. JobOK'
  BY DEF TypeOK, JobOK, Exit, Ended, job, world
<1> QED BY <1>1, <1>2 DEF TypeOK

(* run.sh sets its trap before cleanup, never in it. *)
LEMMA NotTrappedInCleanup ==
  ASSUME NEW pos \in RunPosition, Program[pos.script][pos.n] = "trap"
  PROVE  pos.script # "cleanup"
<1> SUFFICES ASSUME pos \in Position("cleanup") PROVE FALSE
  BY DEF RunPosition, Position
<1>1. pos.n \in 1 .. 7 /\ pos.script = "cleanup"
  BY Lengths DEF Position
<1> QED BY <1>1 DEF Program, Cleanup

------------------------------------------------------------------------------
(* Every step keeps the types. *)

(* The commands of run.sh keep the types. *)
LEMMA RunTypeOK ==
  ASSUME TypeOK, Run
  PROVE  TypeOK'
<1> USE DEF TypeOK
<1>1. CASE RaiseKeepinit
  <2>1. TOKEN' \in [Process -> Token \cup {NoToken}]
    BY <1>1 DEF RaiseKeepinit, ShellOK, MachineOK
  <2>2. ShellOK'
    BY <1>1, <2>1, SkipsShellOK DEF RaiseKeepinit, Steps, Process
  <2>3. MachineOK' /\ JobOK'
    BY <1>1 DEF RaiseKeepinit, MachineOK, JobOK, ShellOK, found, shared, job, world
  <2> QED BY <2>2, <2>3
<1>2. CASE FindInterface
  <2>1. TOKEN' \in [Process -> Token \cup {NoToken}]
    BY <1>2 DEF FindInterface, ShellOK, MachineOK
  <2>2. ShellOK'
    BY <1>2, <2>1, SkipsShellOK DEF FindInterface, Steps, Process
  <2>3. MachineOK' /\ JobOK'
    BY <1>2 DEF FindInterface, MachineOK, JobOK, ShellOK, found, shared, job, world
  <2> QED BY <2>2, <2>3
<1>3. CASE FindGateway
  <2>1. TOKEN' \in [Process -> Token \cup {NoToken}]
    BY <1>3 DEF FindGateway, ShellOK, MachineOK
  <2>2. ShellOK'
    BY <1>3, <2>1, SkipsShellOK DEF FindGateway, Steps, Process
  <2>3. MachineOK' /\ JobOK'
    BY <1>3 DEF FindGateway, MachineOK, JobOK, ShellOK, found, shared, job, world
  <2> QED BY <2>2, <2>3
<1>4. CASE StartEngine
  <2>1. TOKEN' \in [Process -> Token \cup {NoToken}]
    BY <1>4 DEF StartEngine, ShellOK, MachineOK
  <2>2. ShellOK'
    BY <1>4, <2>1, SkipsShellOK DEF StartEngine, Steps, Process
  <2>3. MachineOK' /\ JobOK'
    BY <1>4 DEF StartEngine, MachineOK, JobOK, ShellOK, found, shared, job, world
  <2> QED BY <2>2, <2>3
<1>5. CASE SeeUtun
  <2>1. TOKEN' \in [Process -> Token \cup {NoToken}]
    BY <1>5 DEF SeeUtun, ShellOK, MachineOK
  <2>2. ShellOK'
    BY <1>5, <2>1, SkipsShellOK DEF SeeUtun, Steps, Process
  <2>3. MachineOK' /\ JobOK'
    BY <1>5 DEF SeeUtun, MachineOK, JobOK, ShellOK, found, shared, job, world
  <2> QED BY <2>2, <2>3
<1>6. CASE ConfigureUtun
  <2>1. TOKEN' \in [Process -> Token \cup {NoToken}]
    BY <1>6 DEF ConfigureUtun, ShellOK, MachineOK
  <2>2. ShellOK'
    BY <1>6, <2>1, SkipsShellOK DEF ConfigureUtun, Steps, Process
  <2>3. MachineOK' /\ JobOK'
    BY <1>6 DEF ConfigureUtun, MachineOK, JobOK, ShellOK, found, shared, job, world
  <2> QED BY <2>2, <2>3
<1>7. CASE SeePf
  <2>1. TOKEN' \in [Process -> Token \cup {NoToken}]
    BY <1>7 DEF SeePf, ShellOK, MachineOK
  <2>2. ShellOK'
    BY <1>7, <2>1, SkipsShellOK DEF SeePf, Steps, Process
  <2>3. MachineOK' /\ JobOK'
    BY <1>7 DEF SeePf, MachineOK, JobOK, ShellOK, found, shared, job, world
  <2> QED BY <2>2, <2>3
<1>8. CASE EnablePf
  <2>1. TOKEN' \in [Process -> Token \cup {NoToken}]
    BY <1>8 DEF EnablePf, ShellOK, MachineOK, FreshTokens
  <2>2. ShellOK'
    BY <1>8, <2>1, SkipsShellOK DEF EnablePf, Steps, Process
  <2>3. MachineOK' /\ JobOK'
    BY <1>8 DEF EnablePf, MachineOK, JobOK, ShellOK, found, shared, job, world, FreshTokens
  <2> QED BY <2>2, <2>3
<1>9. CASE RecordToken
  <2>1. TOKEN' \in [Process -> Token \cup {NoToken}]
    BY <1>9 DEF RecordToken, ShellOK, MachineOK
  <2>2. ShellOK'
    BY <1>9, <2>1, SkipsShellOK DEF RecordToken, Steps, Process
  <2>3. MachineOK' /\ JobOK'
    BY <1>9 DEF RecordToken, MachineOK, JobOK, ShellOK, found, shared, job, world, Process
  <2> QED BY <2>2, <2>3
<1>10. CASE LoadRules
  <2>1. TOKEN' \in [Process -> Token \cup {NoToken}]
    BY <1>10 DEF LoadRules, ShellOK, MachineOK
  <2>2. ShellOK'
    BY <1>10, <2>1, SkipsShellOK DEF LoadRules, Steps, Process
  <2>3. MachineOK' /\ JobOK'
    BY <1>10 DEF LoadRules, MachineOK, JobOK, ShellOK, found, shared, job, world
  <2> QED BY <2>2, <2>3
<1>11. CASE KillOwnEngine
  <2>1. TOKEN' \in [Process -> Token \cup {NoToken}]
    BY <1>11 DEF KillOwnEngine, ShellOK, MachineOK
  <2>2. ShellOK'
    BY <1>11, <2>1, SkipsShellOK DEF KillOwnEngine, Steps, Process
  <2>3. MachineOK' /\ JobOK'
    BY <1>11 DEF KillOwnEngine, MachineOK, JobOK, ShellOK, found, shared, job, world
  <2> QED BY <2>2, <2>3
<1>12. CASE MissUtun
  BY <1>12, ExitTypeOK DEF MissUtun
<1>13. CASE NoUtunToConfigure
  BY <1>13, ExitTypeOK DEF NoUtunToConfigure
<1>14. CASE LeaveLoop
  BY <1>14, ExitTypeOK DEF LeaveLoop
<1>15. CASE SetTrap \/ NotePid("enginepid", "engine") \/ NotePid("dogpid", "dog")
  <2>1. Skips("run", 1) \/ at' = [at EXCEPT !["run"] = Further(@, 1)]
    BY <1>15 DEF SetTrap, NotePid
  <2>2. Further(at["run"], 1) \in RunPosition
    BY FurtherInScript DEF ShellOK, RunPosition, Script
  <2>3. Further(at["run"], 1).script \in {at["run"].script, "idle"}
    BY FurtherKeepsScript DEF ShellOK
  <2>4. SetTrap => at["run"].script # "cleanup"
    BY NotTrappedInCleanup DEF SetTrap, Does, Command, ShellOK
  <2>5. /\ at' \in [Process -> RunPosition \cup DogPosition \cup CtlPosition]
        /\ at'["run"] \in RunPosition /\ at'["dog"] \in DogPosition
        /\ at'["ctl"] \in CtlPosition
    BY <1>15, <2>2 DEF SetTrap, NotePid, ShellOK, Process
  <2>6. trap' => at'["run"].script # "cleanup"
    BY <1>15, <2>3, <2>4 DEF SetTrap, NotePid, ShellOK, Process
  <2>7. ShellOK'
    BY <1>15, <2>5, <2>6 DEF SetTrap, NotePid, ShellOK
  <2>8. MachineOK' /\ JobOK'
    BY <1>15 DEF SetTrap, NotePid, MachineOK, JobOK, found, shared, job, world
  <2> QED BY <2>7, <2>8
<1>16. CASE StartWatchdog \/ KillWatchdog
  <2>1. Further(at["run"], 1) \in RunPosition
    BY FurtherInScript DEF ShellOK, RunPosition, Script
  <2>2. Further(at["run"], 1).script \in {at["run"].script, "idle"}
    BY FurtherKeepsScript DEF ShellOK
  <2>3. /\ at' \in [Process -> RunPosition \cup DogPosition \cup CtlPosition]
        /\ at'["run"] \in RunPosition /\ at'["dog"] \in DogPosition
        /\ at'["ctl"] \in CtlPosition
        /\ at'["run"].script \in {at["run"].script, "idle"}
    BY <1>16, <2>1, <2>2, IdlePositions DEF StartWatchdog, KillWatchdog, ShellOK, Process
  <2>5. TOKEN' \in [Process -> Token \cup {NoToken}]
    BY <1>16 DEF StartWatchdog, KillWatchdog, ShellOK, Process
  <2>6. ShellOK'
    <3>1. UNCHANGED <<back, trap, term, pids>>
      BY <1>16 DEF StartWatchdog, KillWatchdog
    <3>2. trap' => at'["run"].script # "cleanup"
      BY <2>3, <3>1 DEF ShellOK
    <3> QED BY <2>3, <2>5, <3>1, <3>2 DEF ShellOK
  <2>4. MachineOK' /\ JobOK'
    BY <1>16 DEF StartWatchdog, KillWatchdog, MachineOK, JobOK, found, shared, job, world
  <2> QED BY <2>6, <2>4
<1>17. CASE TakeTrap
  <2>1. ShellOK'
    BY <1>17, IdlePositions DEF TakeTrap, ShellOK, Process, RunPosition, Position, Start
  <2>2. MachineOK' /\ JobOK'
    BY <1>17 DEF TakeTrap, MachineOK, JobOK, found, shared, job, world
  <2> QED BY <2>1, <2>2
<1>18. CASE ReturnFromCleanup
  <2>3. back \in RunPosition /\ back.script # "cleanup"
    BY DEF ShellOK, RunPosition, Position
  <2>4. /\ at' \in [Process -> RunPosition \cup DogPosition \cup CtlPosition]
        /\ at'["run"] \in RunPosition /\ at'["dog"] \in DogPosition
        /\ at'["ctl"] \in CtlPosition /\ at'["run"].script # "cleanup"
    BY <1>18, <2>3 DEF ReturnFromCleanup, ShellOK, Process
  <2>1. ShellOK'
    <3>1. UNCHANGED <<trap, term, pids, TOKEN>> /\ back' \in Position("idle")
      BY <1>18, IdlePositions DEF ReturnFromCleanup
    <3> QED BY <2>4, <3>1 DEF ShellOK
  <2>2. MachineOK' /\ JobOK'
    <3>1. MachineOK'
      BY <1>18 DEF ReturnFromCleanup, MachineOK, found, shared, world
    <3>2. CASE back = Idle
      BY <1>18, <3>1, <3>2 DEF ReturnFromCleanup, Ended, JobOK, world
    <3>3. CASE back # Idle
      BY <1>18, <3>1, <3>3 DEF ReturnFromCleanup, JobOK, job, world
    <3> QED BY <3>2, <3>3
  <2> QED BY <2>1, <2>2
<1> QED
  BY <1>1, <1>2, <1>3, <1>4, <1>5, <1>6, <1>7, <1>8, <1>9, <1>10, <1>11, <1>12, <1>13, <1>14,
     <1>15, <1>16, <1>17, <1>18 DEF Run

(* The commands several scripts share keep the types. *)
LEMMA SharedTypeOK ==
  ASSUME TypeOK, NEW p \in Process, Shared(p)
  PROVE  TypeOK'
<1> USE DEF TypeOK
<1>1. CASE Flush(p)
  <2>1. TOKEN' \in [Process -> Token \cup {NoToken}]
    BY <1>1 DEF Flush, ShellOK, MachineOK
  <2>2. ShellOK'
    BY <1>1, <2>1, SkipsShellOK DEF Flush, Steps, Process
  <2>3. MachineOK' /\ JobOK'
    <3>1. MachineOK'
      BY <1>1 DEF Flush, MachineOK, found, shared, job, world
    <3>2. JobOK'
      BY <1>1 DEF Flush, JobOK, found, shared, job, world
    <3> QED BY <3>1, <3>2
  <2> QED BY <2>2, <2>3
<1>2. CASE KillEngine(p)
  <2>1. TOKEN' \in [Process -> Token \cup {NoToken}]
    BY <1>2 DEF KillEngine, ShellOK, MachineOK
  <2>2. ShellOK'
    BY <1>2, <2>1, SkipsShellOK DEF KillEngine, Steps, Process
  <2>3. MachineOK' /\ JobOK'
    BY <1>2 DEF KillEngine, MachineOK, JobOK, found, shared, job, world
  <2> QED BY <2>2, <2>3
<1>3. CASE ReadToken(p)
  <2>1. TOKEN' \in [Process -> Token \cup {NoToken}]
    BY <1>3 DEF ReadToken, ShellOK, MachineOK
  <2>2. ShellOK'
    BY <1>3, <2>1, SkipsShellOK DEF ReadToken, Steps, Process
  <2>3. MachineOK' /\ JobOK'
    BY <1>3 DEF ReadToken, MachineOK, JobOK, found, shared, job, world
  <2> QED BY <2>2, <2>3
<1>4. CASE DropToken(p)
  <2>1. TOKEN' \in [Process -> Token \cup {NoToken}]
    BY <1>4 DEF DropToken, ShellOK, MachineOK
  <2>2. ShellOK'
    BY <1>4, <2>1, SkipsShellOK DEF DropToken, Steps, Process
  <2>3. MachineOK' /\ JobOK'
    BY <1>4 DEF DropToken, MachineOK, JobOK, found, shared, job, world
  <2> QED BY <2>2, <2>3
<1>5. CASE RemoveToken(p)
  <2>1. TOKEN' \in [Process -> Token \cup {NoToken}]
    BY <1>5 DEF RemoveToken, ShellOK, MachineOK
  <2>2. ShellOK'
    BY <1>5, <2>1, SkipsShellOK DEF RemoveToken, Steps, Process
  <2>3. MachineOK' /\ JobOK'
    BY <1>5 DEF RemoveToken, MachineOK, JobOK, found, shared, job, world
  <2> QED BY <2>2, <2>3
<1> QED BY <1>1, <1>2, <1>3, <1>4, <1>5 DEF Shared

(* Steps that leave the shells alone keep their types. *)
LEMMA KeepsShell ==
  ASSUME ShellOK, UNCHANGED shell
  PROVE  ShellOK'
  BY DEF ShellOK, shell

(* The watchdog waking up, the engine and launchd keep the types. *)
LEMMA LaunchdTypeOK ==
  ASSUME TypeOK, SeeDeath \/ EngineUp \/ Launchd
  PROVE  TypeOK'
<1> USE DEF TypeOK
<1>1. CASE SeeDeath
  <2>1. TOKEN' \in [Process -> Token \cup {NoToken}]
    BY <1>1 DEF SeeDeath, ShellOK, MachineOK
  <2>2. ShellOK'
    BY <1>1, <2>1, SkipsShellOK DEF SeeDeath, Steps, Process
  <2>3. MachineOK' /\ JobOK'
    BY <1>1 DEF SeeDeath, MachineOK, JobOK, found, shared, job, world
  <2> QED BY <2>2, <2>3
<1>2. CASE EngineUp \/ Leave
  <2>1. UNCHANGED shell
    BY <1>2 DEF EngineUp, Leave
  <2>2. MachineOK' /\ JobOK'
    <3>1. MachineOK'
      BY <1>2 DEF EngineUp, Leave, MachineOK, found, shared, job, world
    <3>2. JobOK'
      BY <1>2 DEF EngineUp, Leave, JobOK, found, shared, job, world
    <3> QED BY <3>1, <3>2
  <2> QED BY <2>1, <2>2, KeepsShell
<1>3. CASE KillSlow
  <2>1. ShellOK'
    BY <1>3, DieShellOK DEF KillSlow, ShellOK
  <2>2. MachineOK' /\ JobOK'
    BY <1>3 DEF KillSlow, Die, MachineOK, JobOK, found, shared, world
  <2> QED BY <2>1, <2>2
<1>4. CASE Reap
  <2>1. /\ at' \in [Process -> RunPosition \cup DogPosition \cup CtlPosition]
        /\ at'["run"] \in RunPosition /\ at'["dog"] \in DogPosition
        /\ at'["ctl"] \in CtlPosition
        /\ at'["run"].script # "cleanup" \/ at["run"].script = "cleanup"
    BY <1>4, IdlePositions DEF Reap, ShellOK, Process
  <2>2. TOKEN' \in [Process -> Token \cup {NoToken}]
    BY <1>4 DEF Reap, ShellOK, Process
  <2>3. UNCHANGED <<back, trap, term, pids>>
    BY <1>4 DEF Reap
  <2>4. ShellOK'
    BY <2>1, <2>2, <2>3 DEF ShellOK
  <2>5. MachineOK' /\ JobOK'
    BY <1>4 DEF Reap, MachineOK, JobOK, found, shared, job, world
  <2> QED BY <2>4, <2>5
<1>5. CASE Spawn
  <2>1. /\ at' \in [Process -> RunPosition \cup DogPosition \cup CtlPosition]
        /\ at'["run"] \in RunPosition /\ at'["dog"] \in DogPosition
        /\ at'["ctl"] \in CtlPosition
        /\ at'["run"].script # "cleanup" \/ at["run"].script = "cleanup"
    BY <1>5, IdlePositions DEF Spawn, ShellOK, Process, Start
  <2>3. UNCHANGED <<back, trap, term, TOKEN>> /\ pids' = {}
    BY <1>5 DEF Spawn
  <2>4. ShellOK'
    BY <2>1, <2>3 DEF ShellOK
  <2>5. MachineOK' /\ JobOK'
    <3>1. MachineOK'
      BY <1>5 DEF Spawn, MachineOK, found, shared, world
    <3>2. JobOK'
      BY <1>5 DEF Spawn, JobOK, world
    <3> QED BY <3>1, <3>2
  <2> QED BY <2>4, <2>5
<1> QED BY <1>1, <1>2, <1>3, <1>4, <1>5 DEF Launchd

(* A script of the application that fails, or starts, keeps the types. *)
LEMMA FailsShellOK ==
  ASSUME ShellOK, NEW s \in {"idle", "stop", "install", "restart"}, Fails(s)
  PROVE  ShellOK'
<1>1. /\ at' \in [Process -> RunPosition \cup DogPosition \cup CtlPosition]
      /\ at'["run"] = at["run"] /\ at'["dog"] = at["dog"]
      /\ at'["ctl"] \in CtlPosition
  BY IdlePositions DEF Fails, ShellOK, Process
<1>2. UNCHANGED <<back, trap, term, pids, TOKEN>>
  BY DEF Fails
<1> QED BY <1>1, <1>2 DEF ShellOK

(* A SIGTERM to run.sh keeps the types. *)
LEMMA TerminateShellOK ==
  ASSUME ShellOK, NEW pos, Terminate(pos), ending \in BOOLEAN,
         pos \in [Process -> RunPosition \cup DogPosition \cup CtlPosition],
         pos["run"] = at["run"], pos["dog"] \in DogPosition, pos["ctl"] \in CtlPosition
  PROVE  ShellOK' /\ ending' \in BOOLEAN
<1>1. CASE Die(pos)
  BY <1>1, DieShellOK DEF Die
<1>2. CASE at' = pos /\ UNCHANGED <<back, trap, pids, TOKEN>> /\ term' \in BOOLEAN
  BY <1>2 DEF ShellOK, Terminate, Die
<1> QED BY <1>1, <1>2 DEF Terminate, ShellOK

(* The scripts of the application keep the types. *)
LEMMA ControlTypeOK ==
  ASSUME TypeOK, Control
  PROVE  TypeOK'
<1> USE DEF TypeOK
<1>1. CASE Override("disable", FALSE)
  <2>1. TOKEN' \in [Process -> Token \cup {NoToken}]
    BY <1>1 DEF Override, ShellOK, MachineOK
  <2>2. ShellOK'
    BY <1>1, <2>1, SkipsShellOK DEF Override, Steps, Process
  <2>3. MachineOK' /\ JobOK'
    <3>1. MachineOK'
      BY <1>1 DEF Override, MachineOK, found, shared, job, world
    <3>2. JobOK'
      BY <1>1 DEF Override, JobOK, found, shared, job, world
    <3> QED BY <3>1, <3>2
  <2> QED BY <2>2, <2>3
<1>2. CASE Override("enable", TRUE)
  <2>1. TOKEN' \in [Process -> Token \cup {NoToken}]
    BY <1>2 DEF Override, ShellOK, MachineOK
  <2>2. ShellOK'
    BY <1>2, <2>1, SkipsShellOK DEF Override, Steps, Process
  <2>3. MachineOK' /\ JobOK'
    BY <1>2 DEF Override, MachineOK, JobOK, found, shared, job, world
  <2> QED BY <2>2, <2>3
<1>3. CASE BootoutDone
  <2>1. TOKEN' \in [Process -> Token \cup {NoToken}]
    BY <1>3 DEF BootoutDone, ShellOK, MachineOK
  <2>2. ShellOK'
    BY <1>3, <2>1, SkipsShellOK DEF BootoutDone, Steps, Process
  <2>3. MachineOK' /\ JobOK'
    BY <1>3 DEF BootoutDone, MachineOK, JobOK, found, shared, job, world
  <2> QED BY <2>2, <2>3
<1>4. CASE SaveKeepinit
  <2>1. TOKEN' \in [Process -> Token \cup {NoToken}]
    BY <1>4 DEF SaveKeepinit, ShellOK, MachineOK
  <2>2. ShellOK'
    BY <1>4, <2>1, SkipsShellOK DEF SaveKeepinit, Steps, Process
  <2>3. MachineOK' /\ JobOK'
    BY <1>4 DEF SaveKeepinit, MachineOK, JobOK, ShellOK, found, shared, job, world
  <2> QED BY <2>2, <2>3
<1>5. CASE SetKeepinit
  <2>1. TOKEN' \in [Process -> Token \cup {NoToken}]
    BY <1>5 DEF SetKeepinit, ShellOK, MachineOK
  <2>2. ShellOK'
    BY <1>5, <2>1, SkipsShellOK DEF SetKeepinit, Steps, Process
  <2>3. MachineOK' /\ JobOK'
    BY <1>5 DEF SetKeepinit, MachineOK, JobOK, ShellOK, found, shared, job, world
  <2> QED BY <2>2, <2>3
<1>6. CASE RestoreKeepinit
  <2>1. TOKEN' \in [Process -> Token \cup {NoToken}]
    BY <1>6 DEF RestoreKeepinit, ShellOK, MachineOK
  <2>2. ShellOK'
    BY <1>6, <2>1, SkipsShellOK DEF RestoreKeepinit, Steps, Process
  <2>3. MachineOK' /\ JobOK'
    BY <1>6 DEF RestoreKeepinit, MachineOK, JobOK, ShellOK, found, shared, job, world
  <2> QED BY <2>2, <2>3
<1>7. CASE ForgetKeepinit
  <2>1. TOKEN' \in [Process -> Token \cup {NoToken}]
    BY <1>7 DEF ForgetKeepinit, ShellOK, MachineOK
  <2>2. ShellOK'
    BY <1>7, <2>1, SkipsShellOK DEF ForgetKeepinit, Steps, Process
  <2>3. MachineOK' /\ JobOK'
    BY <1>7 DEF ForgetKeepinit, MachineOK, JobOK, ShellOK, found, shared, job, world
  <2> QED BY <2>2, <2>3
<1>8. CASE Bootout
  <2>1. ShellOK' /\ ending' \in BOOLEAN
    BY <1>8, TerminateShellOK DEF Bootout, ShellOK, JobOK
  <2>2. MachineOK' /\ JobOK'
    BY <1>8, <2>1 DEF Bootout, MachineOK, JobOK, found, shared, world
  <2> QED BY <2>1, <2>2
<1>9. CASE CopyPayload
  <2>1. ShellOK'
    BY <1>9, SkipsShellOK, FailsShellOK DEF CopyPayload, Steps, Process, ShellOK
  <2>2. MachineOK' /\ JobOK'
    <3>1. MachineOK'
      BY <1>9 DEF CopyPayload, MachineOK, found, shared, world
    <3>2. plist' \in BOOLEAN
      BY <1>9 DEF CopyPayload, JobOK
    <3>3. UNCHANGED <<enabled, loaded, due, ending, world>>
      BY <1>9 DEF CopyPayload
    <3> QED BY <3>1, <3>2, <3>3 DEF JobOK, world
  <2> QED BY <2>1, <2>2
<1>10. CASE Bootstrap
  <2>1. ShellOK'
    BY <1>10, SkipsShellOK, FailsShellOK DEF Bootstrap, Steps, Process, ShellOK
  <2>2. MachineOK' /\ JobOK'
    <3>1. MachineOK'
      BY <1>10 DEF Bootstrap, MachineOK, found, shared, world
    <3>2. loaded' \in {"no", "yes", "leaving"} /\ due' \in BOOLEAN
      BY <1>10 DEF Bootstrap, JobOK
    <3>3. UNCHANGED <<plist, enabled, ending, world>>
      BY <1>10 DEF Bootstrap
    <3> QED BY <3>1, <3>2, <3>3 DEF JobOK, world
  <2> QED BY <2>1, <2>2
<1>11. CASE Await
  <2>1. ShellOK'
    BY <1>11, SkipsShellOK, FailsShellOK DEF Await, Steps, Process, ShellOK
  <2>2. MachineOK' /\ JobOK'
    BY <1>11 DEF Await, MachineOK, JobOK, found, shared, job, world
  <2> QED BY <2>1, <2>2
<1>12. CASE Kickstart
  <2> DEFINE pos == [at EXCEPT !["ctl"] = Further(@, 1)]
  <2>1. /\ pos \in [Process -> RunPosition \cup DogPosition \cup CtlPosition]
        /\ pos["run"] = at["run"] /\ pos["dog"] \in DogPosition /\ pos["ctl"] \in CtlPosition
    BY FurtherInScript DEF ShellOK, CtlPosition, Script, Process
  <2>2. Terminate(pos) \/ Die(pos)
    BY <1>12 DEF Kickstart
  <2> HIDE DEF pos
  <2>3. ShellOK' /\ ending' \in BOOLEAN
    BY <2>1, <2>2, TerminateShellOK, DieShellOK DEF JobOK, Die
  <2>4. MachineOK' /\ JobOK'
    BY <1>12, <2>3 DEF Kickstart, MachineOK, JobOK, found, shared, world
  <2> QED BY <2>3, <2>4
<1> QED BY <1>1, <1>2, <1>3, <1>4, <1>5, <1>6, <1>7, <1>8, <1>9, <1>10, <1>11, <1>12 DEF Control

(* Faults only use up their bound. *)
LEMMA FaultBound ==
  ASSUME JobOK, Fault
  PROVE  faults' \in 0 .. MaxFaults /\ scripts' \in 0 .. MaxScripts
  BY BoundAssumption DEF Fault, JobOK

(* Faults keep the types. *)
LEMMA FaultsTypeOK ==
  ASSUME TypeOK, Faults
  PROVE  TypeOK'
<1> USE DEF TypeOK
<1>1. CASE EngineDies \/ RouteChanges \/ OthersUsePf
  <2>1. UNCHANGED shell
    BY <1>1 DEF EngineDies, RouteChanges, OthersUsePf
  <2>2. MachineOK' /\ JobOK'
    <3>1. Fault
      BY <1>1 DEF EngineDies, RouteChanges, OthersUsePf
    <3>2. UNCHANGED <<found, shared, job>> /\ engine' \in {"none", "starting", "up"}
      BY <1>1 DEF EngineDies, RouteChanges, OthersUsePf, MachineOK
    <3>3. others' \in BOOLEAN /\ route' \in Route
      BY <1>1 DEF EngineDies, RouteChanges, OthersUsePf, MachineOK
    <3>4. MachineOK'
      BY <3>2, <3>3 DEF MachineOK, found, shared
    <3>5. JobOK'
      BY <3>1, <3>2, FaultBound DEF JobOK, job
    <3> QED BY <3>4, <3>5
  <2> QED BY <2>1, <2>2, KeepsShell
<1>2. CASE RunKilled
  <2>1. ShellOK'
    BY <1>2, DieShellOK DEF RunKilled, ShellOK
  <2>2. MachineOK' /\ JobOK'
    <3>1. Fault /\ due' = TRUE /\ ending' = FALSE /\ UNCHANGED <<plist, enabled, loaded>>
      BY <1>2 DEF RunKilled, Die
    <3>2. MachineOK'
      BY <1>2 DEF RunKilled, MachineOK, found, shared
    <3> QED BY <3>1, <3>2, FaultBound DEF JobOK
  <2> QED BY <2>1, <2>2
<1>3. CASE RunFails
  <2>1. ShellOK' /\ MachineOK'
    BY <1>3, ExitShellOK DEF RunFails
  <2>2. JobOK'
    <3>1. Fault /\ UNCHANGED <<plist, enabled, loaded>>
      BY <1>3 DEF RunFails, Exit, Ended, job
    <3>2. due' \in BOOLEAN /\ ending' \in BOOLEAN
      BY <1>3 DEF RunFails, Exit, Ended, job, JobOK
    <3> QED BY <3>1, <3>2, FaultBound DEF JobOK
  <2> QED BY <2>1, <2>2
<1>4. CASE Reboot
  <2>1. ShellOK'
    BY <1>4, IdlePositions DEF Reboot, ShellOK, Process
  <2>2. MachineOK' /\ JobOK'
    <3>1. Fault /\ UNCHANGED <<plist, enabled>> /\ ending' = FALSE
      BY <1>4 DEF Reboot
    <3>2. loaded' \in {"no", "yes", "leaving"} /\ due' \in BOOLEAN
      BY <1>4 DEF Reboot, JobOK
    <3>3. MachineOK'
      BY <1>4 DEF Reboot, MachineOK, found
    <3> QED BY <3>1, <3>2, <3>3, FaultBound DEF JobOK
  <2> QED BY <2>1, <2>2
<1> QED BY <1>1, <1>2, <1>3, <1>4 DEF Faults

(* Every variable keeps its type, and cleanup runs with the trap reset     *)
(* (run.sh:34), whatever is killed and whatever fails.                     *)
THEOREM TypeCorrect == Spec => []TypeOK
<1>1. Init => TypeOK
  <2> SUFFICES ASSUME Init PROVE TypeOK
    OBVIOUS
  <2>1. ShellOK
    BY IdlePositions DEF Init, ShellOK, Process
  <2>2. MachineOK
    BY DEF Init, MachineOK
  <2>3. scripts \in 0 .. MaxScripts /\ faults \in 0 .. MaxFaults
    BY BoundAssumption DEF Init
  <2>4. JobOK
    BY <2>3 DEF Init, JobOK
  <2> QED BY <2>1, <2>2, <2>4 DEF TypeOK
<1>2. TypeOK /\ [Next]_vars => TypeOK'
  <2> SUFFICES ASSUME TypeOK, [Next]_vars PROVE TypeOK'
    OBVIOUS
  <2>1. CASE Run BY <2>1, RunTypeOK
  <2>2. CASE \E p \in Process : Shared(p) BY <2>2, SharedTypeOK
  <2>3. CASE SeeDeath \/ EngineUp \/ Launchd BY <2>3, LaunchdTypeOK
  <2>4. CASE Control BY <2>4, ControlTypeOK
  <2>5. CASE Faults BY <2>5, FaultsTypeOK
  <2>6. ASSUME NEW s \in {"stop", "install", "restart"}, RunScript(s)
        PROVE  TypeOK'
    <3>1. Fails(s) /\ UNCHANGED <<found, engine, shared, job, others, route, faults>>
      BY <2>6 DEF RunScript, Fails
    <3>2. ShellOK'
      BY <3>1, FailsShellOK DEF TypeOK
    <3>3. MachineOK' /\ JobOK'
      <4>1. scripts' \in 0 .. MaxScripts
        BY <2>6, BoundAssumption DEF RunScript, TypeOK, JobOK
      <4>2. MachineOK'
        BY <3>1 DEF TypeOK, MachineOK, found, shared
      <4> QED BY <3>1, <4>1, <4>2 DEF TypeOK, JobOK, job
    <3> QED BY <3>2, <3>3 DEF TypeOK
  <2>7. CASE UNCHANGED vars
    <3>1. ShellOK'
      BY <2>7, KeepsShell DEF TypeOK, vars
    <3>2. MachineOK' /\ JobOK'
      BY <2>7 DEF vars, TypeOK, MachineOK, JobOK, found, shared, job, world
    <3> QED BY <3>1, <3>2 DEF TypeOK
  <2> QED BY <2>1, <2>2, <2>3, <2>4, <2>5, <2>6, <2>7 DEF Next
<1> QED BY <1>1, <1>2, PTL DEF Spec

------------------------------------------------------------------------------
(* The inductive invariants. *)

CtlAt(s, ns) == at["ctl"].script = s /\ at["ctl"].n \in ns
EnablingAt(pos) == pos.script = "run" /\ pos.n = 14

(* A job that is gone has left nothing running; launchd keeps it leaving   *)
(* only while a script waits for that; the rules outlive it only until     *)
(* that script flushes them; stop.sh goes on when the job is gone.         *)
JobInv ==
  /\ loaded = "no" => Gone
  /\ loaded = "leaving" => CtlAt("stop", {2}) \/ CtlAt("install", {1})
  /\ loaded = "no" /\ rules => CtlAt("stop", {2, 3}) \/ CtlAt("install", {1, 2})
  /\ at["ctl"].script = "stop" /\ at["ctl"].n > 2 => loaded = "no"

(* What is saved is the user's value; while nothing is saved it is set;    *)
(* it is set when stop.sh removes the file, saved when install.sh sets     *)
(* ours.                                                                   *)
KeepInv ==
  /\ keepFile \in {"none", "user"}
  /\ keepFile = "none" => keepinit = "user"
  /\ CtlAt("stop", {9}) => keepinit = "user"
  /\ CtlAt("install", {6}) => keepFile = "user"

(* run.sh enables pf, now or after its cleanup, only while no reference    *)
(* is held; outside cleanup it has nowhere to return to.                   *)
RefInv ==
  /\ tokens = {} \/ \E t \in Token : tokens = {t}
  /\ EnablingAt(at["run"]) \/ EnablingAt(back) => tokens = {}
  /\ at["run"].script # "cleanup" => back = Idle

IInv == TypeOK /\ JobInv /\ KeepInv

------------------------------------------------------------------------------
(* Where a script is when it comes to a command. *)

(* A position that moves on stays in its script, or the script is over. *)
LEMMA FurtherMoves ==
  ASSUME NEW pos, NEW k, Further(pos, k) # Idle
  PROVE  /\ pos.n + k <= Len(Program[pos.script])
         /\ Further(pos, k) = [pos EXCEPT !.n = @ + k]
  BY DEF Further

(* The commands of stop.sh, install.sh and restart.sh that matter here. *)
LEMMA CtlCommands ==
  ASSUME at["ctl"] \in CtlPosition
  PROVE  /\ Command("ctl") = "bootout" => CtlAt("stop", {2}) \/ CtlAt("install", {1})
         /\ Command("ctl") = "flush" => CtlAt("stop", {3}) \/ CtlAt("install", {2})
         /\ Command("ctl") = "bootstrap" => at["ctl"].script \in {"install", "restart"}
         /\ CtlAt("stop", {2}) \/ CtlAt("install", {1}) => Command("ctl") = "bootout"
         /\ CtlAt("stop", {3}) \/ CtlAt("install", {2}) => Command("ctl") = "flush"
         /\ CtlAt("stop", {6}) => Command("ctl") = "drop"
         /\ Command("ctl") = "restore" <=> CtlAt("stop", {8})
         /\ Command("ctl") = "forget" <=> CtlAt("stop", {9})
         /\ Command("ctl") = "save" <=> CtlAt("install", {5})
         /\ Command("ctl") = "raise" <=> CtlAt("install", {6})
<1> DEFINE n == at["ctl"].n
<1>1. CASE at["ctl"] \in Position("idle")
  <2>1. n \in 1 .. 1 /\ at["ctl"].script = "idle"
    BY <1>1, Lengths DEF Position
  <2> QED BY <2>1 DEF Command, CtlAt, Program
<1>2. CASE at["ctl"] \in Position("stop")
  <2>1. n \in 1 .. 9 /\ at["ctl"].script = "stop"
    BY <1>2, Lengths DEF Position
  <2> QED BY <2>1 DEF Command, CtlAt, Program, StopSh
<1>3. CASE at["ctl"] \in Position("install")
  <2>1. n \in 1 .. 10 /\ at["ctl"].script = "install"
    BY <1>3, Lengths DEF Position
  <2> QED BY <2>1 DEF Command, CtlAt, Program, InstallSh
<1>4. CASE at["ctl"] \in Position("restart")
  <2>1. n \in 1 .. 3 /\ at["ctl"].script = "restart"
    BY <1>4, Lengths DEF Position
  <2> QED BY <2>1 DEF Command, CtlAt, Program, RestartSh
<1> QED BY <1>1, <1>2, <1>3, <1>4 DEF CtlPosition

(* What a script of the application does to its own position. *)
LEMMA CtlSkips ==
  ASSUME ShellOK, NEW k \in {1, 3}, Skips("ctl", k)
  PROVE  /\ at'["run"] = at["run"] /\ at'["dog"] = at["dog"]
         /\ \/ at'["ctl"] = Idle
            \/ at'["ctl"].script = at["ctl"].script /\ at'["ctl"].n = at["ctl"].n + k
         /\ at["ctl"].n \in Nat
<1>1. at'["ctl"] = Further(at["ctl"], k) /\ at'["run"] = at["run"] /\ at'["dog"] = at["dog"]
  BY DEF Skips, ShellOK, Process
<1>2. at["ctl"].n \in Nat /\ at["ctl"] = [script |-> at["ctl"].script, n |-> at["ctl"].n]
  BY LengthsPositive DEF ShellOK, CtlPosition, Position, Script
<1>3. CASE Further(at["ctl"], k) # Idle
  BY <1>1, <1>2, <1>3, FurtherMoves
<1> QED BY <1>1, <1>2, <1>3

------------------------------------------------------------------------------
(* Steps of run.sh, of the watchdog, of launchd ending them, of the engine: *)
(* they are taken only by a job that is there, and change neither launchd's *)
(* view of it nor the script of the application; run.sh raises keepinit     *)
(* only if the former value is saved.                                       *)
Engaged ==
  \/ Run \/ SeeDeath \/ Shared("run") \/ Shared("dog") \/ EngineUp \/ KillSlow \/ Reap
  \/ EngineDies \/ RunKilled \/ RunFails

LEMMA EngagedFrame ==
  ASSUME TypeOK, Engaged
  PROVE  /\ ~ Gone
         /\ loaded' = loaded /\ at'["ctl"] = at["ctl"] /\ keepFile' = keepFile
         /\ keepinit' = keepinit \/ (keepinit' = "ours" /\ keepFile # "none")
<1> USE DEF TypeOK, ShellOK, Process, Gone
<1>1. ASSUME Exit
      PROVE  /\ loaded' = loaded /\ at'["ctl"] = at["ctl"] /\ keepFile' = keepFile
             /\ keepinit' = keepinit
  BY <1>1 DEF Exit, Ended, job, shared
<1>2. CASE MissUtun \/ NoUtunToConfigure \/ LeaveLoop \/ RunFails
  BY <1>1, <1>2 DEF MissUtun, NoUtunToConfigure, LeaveLoop, RunFails, Does
<1>3. CASE RaiseKeepinit
  BY <1>3 DEF RaiseKeepinit, Does, Steps, Skips, job
<1>4. CASE SetTrap \/ FindInterface \/ FindGateway \/ StartEngine
  BY <1>4 DEF SetTrap, FindInterface, FindGateway, StartEngine, Does, Steps, Skips, job, shared
<1>5. CASE NotePid("enginepid", "engine") \/ NotePid("dogpid", "dog")
  BY <1>5 DEF NotePid, Does, job, shared
<1>6. CASE SeeUtun \/ ConfigureUtun \/ StartWatchdog
  BY <1>6 DEF SeeUtun, ConfigureUtun, StartWatchdog, Does, Steps, Skips, job, shared
<1>7. CASE SeePf \/ EnablePf \/ RecordToken \/ LoadRules
  BY <1>7 DEF SeePf, EnablePf, RecordToken, LoadRules, Does, Steps, Skips, job, shared
<1>8. CASE TakeTrap \/ KillWatchdog \/ KillOwnEngine
  BY <1>8 DEF TakeTrap, KillWatchdog, KillOwnEngine, Does, Steps, Skips, job, shared
<1>9. CASE ReturnFromCleanup
  BY <1>9 DEF ReturnFromCleanup, Ended, Does, job, shared
<1>10. CASE SeeDeath
  BY <1>10 DEF SeeDeath, Does, Steps, Skips, job, shared
<1>11. ASSUME NEW p \in {"run", "dog"}, Shared(p)
       PROVE  /\ ~ Gone
              /\ loaded' = loaded /\ at'["ctl"] = at["ctl"] /\ keepFile' = keepFile
              /\ keepinit' = keepinit
  BY <1>11 DEF Shared, Flush, KillEngine, ReadToken, DropToken, RemoveToken, Does, Steps, Skips,
     job, shared
<1>12. CASE EngineUp \/ Reap \/ EngineDies
  BY <1>12 DEF EngineUp, Reap, EngineDies, job, shared, shell
<1>13. CASE KillSlow \/ RunKilled
  BY <1>13 DEF KillSlow, RunKilled, Die, shared
<1> QED
  BY <1>2, <1>3, <1>4, <1>5, <1>6, <1>7, <1>8, <1>9, <1>10, <1>11, <1>12, <1>13
  DEF Engaged, Run

(* What a step of the application's script leaves alone, when it goes on.  *)
LEMMA CtlFrame ==
  ASSUME TypeOK, Shared("ctl")
  PROVE  /\ Skips("ctl", 1) \/ Skips("ctl", 3)
         /\ Command("ctl") \in {"flush", "pkill", "read", "drop", "rm"}
         /\ rules' \in {rules, FALSE} /\ (Command("ctl") = "flush" => rules' = FALSE)
         /\ engine' \in {engine, "none"}
         /\ loaded' = loaded /\ keepinit' = keepinit /\ keepFile' = keepFile
<1>1. CASE Flush("ctl")
  BY <1>1 DEF Flush, Does, Steps, job
<1>2. CASE KillEngine("ctl")
  BY <1>2 DEF KillEngine, Does, Steps, job, shared
<1>3. CASE ReadToken("ctl")
  BY <1>3 DEF ReadToken, Does, job, shared
<1>4. CASE DropToken("ctl") \/ RemoveToken("ctl")
  BY <1>4 DEF DropToken, RemoveToken, Does, Steps, job
<1> QED BY <1>1, <1>2, <1>3, <1>4 DEF Shared

------------------------------------------------------------------------------
(* JobInv is inductive. *)

(* The commands several scripts share keep JobInv. *)
LEMMA JobInvShared ==
  ASSUME TypeOK, JobInv, Shared("ctl")
  PROVE  JobInv'
<1> USE DEF JobInv
<1>1. PICK k \in {1, 3} : Skips("ctl", k)
  BY CtlFrame
<1>2. /\ at'["run"] = at["run"] /\ at'["dog"] = at["dog"] /\ at["ctl"].n \in Nat
      /\ \/ at'["ctl"] = Idle
         \/ at'["ctl"].script = at["ctl"].script /\ at'["ctl"].n = at["ctl"].n + k
  BY <1>1, CtlSkips DEF TypeOK
<1>3. Idle.script = "idle"
  BY DEF Idle, Start
<1>4. ~ CtlAt("stop", {2}) /\ ~ CtlAt("install", {1})
  BY CtlFrame, CtlCommands DEF TypeOK, ShellOK
<1>5. CtlAt("stop", {3}) \/ CtlAt("install", {2}) => rules' = FALSE
  BY CtlFrame, CtlCommands DEF TypeOK, ShellOK
<1>6. Gone => Gone'
  BY <1>2, CtlFrame DEF Gone, Running
<1>7. loaded' = "no" => Gone'
  BY <1>6, CtlFrame
<1>8. loaded' # "leaving"
  BY <1>4, CtlFrame
<1>9. ~ (loaded' = "no" /\ rules')
  BY <1>4, <1>5, CtlFrame DEF CtlAt
<1>10. at'["ctl"].script = "stop" /\ at'["ctl"].n > 2 => loaded' = "no"
  <2> SUFFICES ASSUME at'["ctl"].script = "stop", at'["ctl"].n > 2
               PROVE  loaded = "no"
    BY CtlFrame
  <2>1. at["ctl"].script = "stop" /\ at'["ctl"].n = at["ctl"].n + k
    BY <1>2, <1>3
  <2>2. CASE at["ctl"].n > 2
    BY <2>1, <2>2
  <2>3. CASE at["ctl"].n <= 2
    <3>1. at["ctl"].n = 1
      BY <1>2, <1>4, <2>1, <2>3, LengthsPositive DEF CtlAt, TypeOK, ShellOK, CtlPosition, Position
    <3>2. Command("ctl") = "disable"
      BY <2>1, <3>1 DEF Command, Program, StopSh
    <3> QED BY <3>2, CtlFrame
  <2> QED BY <1>2, <2>2, <2>3
<1> QED BY <1>7, <1>8, <1>9, <1>10

(* The scripts of the application keep JobInv. *)
LEMMA JobInvControl ==
  ASSUME TypeOK, JobInv, Control
  PROVE  JobInv'
<1> USE DEF JobInv
<1>0. Idle.script = "idle" /\ \A s : Start(s) = [script |-> s, n |-> 1]
  BY DEF Idle, Start
<1>1. CASE Override("disable", FALSE) \/ Override("enable", TRUE) \/ SaveKeepinit \/ SetKeepinit
           \/ RestoreKeepinit \/ ForgetKeepinit
  <2>1. Skips("ctl", 1) /\ UNCHANGED <<loaded, rules, engine>>
    BY <1>1 DEF Override, SaveKeepinit, SetKeepinit, RestoreKeepinit, ForgetKeepinit, Steps,
       shared, job
  <2>2. Command("ctl") \notin {"bootout", "flush"}
    BY <1>1 DEF Override, SaveKeepinit, SetKeepinit, RestoreKeepinit, ForgetKeepinit, Does
  <2>3. /\ at'["run"] = at["run"] /\ at'["dog"] = at["dog"] /\ at["ctl"].n \in Nat
        /\ \/ at'["ctl"] = Idle
           \/ at'["ctl"].script = at["ctl"].script /\ at'["ctl"].n = at["ctl"].n + 1
    BY <2>1, CtlSkips DEF TypeOK
  <2>4. ~ CtlAt("stop", {2, 3}) /\ ~ CtlAt("install", {1, 2})
    BY <2>2, CtlCommands DEF TypeOK, ShellOK, CtlAt
  <2>5. Gone => Gone'
    BY <2>1, <2>3 DEF Gone, Running
  <2> QED BY <1>0, <2>1, <2>3, <2>4, <2>5 DEF CtlAt
<1>2. CASE Bootout
  <2>1. CtlAt("stop", {2}) \/ CtlAt("install", {1})
    BY <1>2, CtlCommands DEF Bootout, Does, TypeOK, ShellOK
  <2>2. loaded' = "leaving" /\ at'["ctl"] = at["ctl"]
    BY <1>2 DEF Bootout, Terminate, Die, TypeOK, ShellOK, Process
  <2> QED BY <2>1, <2>2 DEF CtlAt
<1>3. CASE BootoutDone
  <2>1. Skips("ctl", 1) /\ UNCHANGED <<loaded, rules, engine>> /\ loaded = "no"
    BY <1>3 DEF BootoutDone, Steps, shared, job
  <2>2. CtlAt("stop", {2}) \/ CtlAt("install", {1})
    BY <1>3, CtlCommands DEF BootoutDone, Does, TypeOK, ShellOK
  <2>3. /\ at'["run"] = at["run"] /\ at'["dog"] = at["dog"] /\ at["ctl"].n \in Nat
        /\ \/ at'["ctl"] = Idle
           \/ at'["ctl"].script = at["ctl"].script /\ at'["ctl"].n = at["ctl"].n + 1
    BY <2>1, CtlSkips DEF TypeOK
  <2>4. at'["ctl"] # Idle
    <3>1. at'["ctl"] = Further(at["ctl"], 1)
      BY <2>1 DEF Skips, TypeOK, ShellOK, Process
    <3>2. at["ctl"].n + 1 <= Len(Program[at["ctl"].script])
      <4>1. CASE CtlAt("stop", {2})
        <5>1. at["ctl"].script = "stop" /\ at["ctl"].n = 2
          BY <4>1 DEF CtlAt
        <5> QED BY <5>1, Lengths
      <4>2. CASE CtlAt("install", {1})
        <5>1. at["ctl"].script = "install" /\ at["ctl"].n = 1
          BY <4>2 DEF CtlAt
        <5> QED BY <5>1, Lengths
      <4> QED BY <2>2, <4>1, <4>2
    <3>3. Further(at["ctl"], 1) = [at["ctl"] EXCEPT !.n = @ + 1]
      BY <3>2 DEF Further
    <3>4. at["ctl"] \in [script : {"stop", "install"}, n : Nat]
      BY <2>2, <2>3 DEF CtlAt, TypeOK, ShellOK, CtlPosition, Position
    <3> QED BY <3>1, <3>3, <3>4, <1>0
  <2>5. Gone => Gone'
    BY <2>1, <2>3 DEF Gone, Running
  <2> QED BY <2>1, <2>2, <2>3, <2>4, <2>5 DEF CtlAt
<1>4. CASE CopyPayload \/ Await
  <2>1. \/ Skips("ctl", 1)
        \/ \E s \in {"idle", "stop"} : Fails(s)
    BY <1>4 DEF CopyPayload, Await, Steps
  <2>2. UNCHANGED <<loaded, rules, engine>> /\ Command("ctl") \in {"copy", "await"}
    BY <1>4 DEF CopyPayload, Await, Does, shared, job
  <2>3. ~ CtlAt("stop", {2, 3}) /\ ~ CtlAt("install", {1, 2})
    BY <2>2, CtlCommands DEF TypeOK, ShellOK, CtlAt
  <2>4. at'["run"] = at["run"] /\ at'["dog"] = at["dog"]
    BY <2>1, CtlSkips DEF Fails, TypeOK, ShellOK, Process
  <2>5. \/ at'["ctl"].script = "idle" \/ at'["ctl"].n = 1
        \/ at'["ctl"].script = at["ctl"].script /\ at'["ctl"].n = at["ctl"].n + 1
    BY <1>0, <2>1, CtlSkips DEF Fails, TypeOK, ShellOK, Process
  <2>6. at["ctl"].n \in Nat
    BY LengthsPositive DEF TypeOK, ShellOK, CtlPosition, Position, Script
  <2>7. Gone => Gone'
    BY <2>2, <2>4 DEF Gone, Running
  <2> QED BY <2>2, <2>3, <2>5, <2>6, <2>7 DEF CtlAt
<1>5. CASE Bootstrap
  <2>1. loaded # "leaving"
    BY <1>5 , CtlCommands DEF Bootstrap, Does, TypeOK, ShellOK, CtlAt
  <2>2. at["ctl"].script \in {"install", "restart"}
    BY <1>5, CtlCommands DEF Bootstrap, Does, TypeOK, ShellOK
  <2>3. \/ Skips("ctl", 1) /\ loaded' = "yes"
        \/ (\E s \in {"idle", "stop"} : Fails(s)) /\ loaded' = loaded
    BY <1>5 DEF Bootstrap, Steps
  <2>4. at'["run"] = at["run"] /\ at'["dog"] = at["dog"] /\ UNCHANGED <<engine, rules>>
    BY <1>5, <2>3, CtlSkips DEF Bootstrap, Fails, TypeOK, ShellOK, Process, shared
  <2>5. Gone => Gone'
    BY <2>4 DEF Gone, Running
  <2>6. CASE Skips("ctl", 1) /\ loaded' = "yes"
    <3>1. at'["ctl"].script # "stop"
      BY <1>0, <2>2, <2>6, CtlSkips DEF TypeOK
    <3> QED BY <2>6, <3>1
  <2>7. CASE (\E s \in {"idle", "stop"} : Fails(s)) /\ loaded' = loaded
    <3>1. at'["ctl"].n = 1
      BY <1>0, <2>7 DEF Fails, TypeOK, ShellOK, Process
    <3>2. ~ (loaded = "no" /\ rules)
      BY <1>5, CtlCommands DEF Bootstrap, Does, TypeOK, ShellOK, CtlAt
    <3> QED BY <2>1, <2>4, <2>5, <2>7, <3>1, <3>2
  <2> QED BY <2>3, <2>6, <2>7
<1>6. CASE Kickstart
  <2> DEFINE pos == [at EXCEPT !["ctl"] = Further(@, 1)]
  <2>1. loaded = "yes" /\ loaded' = "yes" /\ Command("ctl") = "kickstart"
    BY <1>6 DEF Kickstart, Does
  <2>2. at'["ctl"] = Further(at["ctl"], 1)
    <3>1. Terminate(pos) \/ Die(pos)
      BY <1>6 DEF Kickstart
    <3> QED BY <3>1 DEF Terminate, Die, TypeOK, ShellOK, Process
  <2>3. at["ctl"].script # "stop"
    <3> SUFFICES ASSUME at["ctl"].script = "stop" PROVE FALSE
      OBVIOUS
    <3>1. at["ctl"].n \in 1 .. 9
      BY Lengths DEF TypeOK, ShellOK, CtlPosition, Position
    <3> QED BY <2>1, <3>1 DEF Command, Program, StopSh
  <2>4. at'["ctl"].script # "stop"
    <3>1. CASE Further(at["ctl"], 1) = Idle
      BY <1>0, <2>2, <3>1
    <3>2. CASE Further(at["ctl"], 1) # Idle
      BY <2>2, <2>3, <3>2, FurtherMoves DEF TypeOK, ShellOK, CtlPosition, Position
    <3> QED BY <3>1, <3>2
  <2> QED BY <2>1, <2>4
<1> QED BY <1>1, <1>2, <1>3, <1>4, <1>5, <1>6 DEF Control

(* Every step keeps JobInv. *)
LEMMA JobInvStep ==
  ASSUME TypeOK, JobInv, [Next]_vars
  PROVE  JobInv'
<1> USE DEF JobInv
<1>1. CASE Engaged
  BY <1>1, EngagedFrame DEF CtlAt
<1>2. CASE Shared("ctl")
  BY <1>2, JobInvShared
<1>3. CASE Control
  BY <1>3, JobInvControl
<1>4. CASE RouteChanges \/ OthersUsePf \/ UNCHANGED vars
  <2>1. UNCHANGED <<at, engine, loaded, rules>>
    BY <1>4 DEF RouteChanges, OthersUsePf, vars, shell, job, shared
  <2> QED BY <2>1 DEF Gone, Running, CtlAt
<1>5. CASE Spawn
  <2>1. loaded' = "yes" /\ at'["ctl"] = at["ctl"] /\ loaded = "yes"
    BY <1>5 DEF Spawn, TypeOK, ShellOK, Process
  <2> QED BY <2>1
<1>6. CASE Leave
  <2>1. loaded = "leaving" /\ loaded' = "no" /\ Gone /\ UNCHANGED <<at, engine, rules>>
    BY <1>6 DEF Leave, shell, shared
  <2> QED BY <2>1 DEF Gone, Running, CtlAt
<1>7. CASE Reboot
  <2>1. /\ \A p \in Process : at'[p] = Idle
        /\ engine' = "none" /\ rules' = FALSE /\ loaded' \in {"no", "yes"}
    BY <1>7 DEF Reboot
  <2>2. Idle.script = "idle"
    BY DEF Idle, Start
  <2> QED BY <2>1, <2>2 DEF Gone, Running, CtlAt, Process
<1>8. ASSUME NEW s \in {"stop", "install", "restart"}, RunScript(s)
      PROVE  JobInv'
  <2>1. /\ at["ctl"] = Idle /\ at'["ctl"] = Start(s) /\ at'["run"] = at["run"]
        /\ at'["dog"] = at["dog"] /\ UNCHANGED <<engine, rules, loaded>>
    BY <1>8 DEF RunScript, Running, TypeOK, ShellOK, Process, shared, job
  <2>2. at["ctl"].script = "idle" /\ at'["ctl"].n = 1
    BY <2>1 DEF Idle, Start
  <2> QED BY <2>1, <2>2 DEF Gone, Running, CtlAt
<1> QED BY <1>1, <1>2, <1>3, <1>4, <1>5, <1>6, <1>7, <1>8
    DEF Next, Engaged, Launchd, Faults, Process

(* Once no script runs and the job is gone, traffic is not routed to utun  *)
(* and no engine is left, whatever run.sh was doing when it was ended      *)
(* (run.sh's cleanup, stop.sh), for any number of scripts and faults.      *)
THEOREM StoppedClean == Spec => []StoppedIsClean
<1>1. Init => JobInv
  <2> SUFFICES ASSUME Init PROVE JobInv
    OBVIOUS
  <2>1. /\ at["run"] = Idle /\ at["dog"] = Idle /\ at["ctl"].script = "idle"
        /\ engine = "none" /\ rules = FALSE /\ loaded \in {"no", "yes"}
    BY DEF Init, Process, Idle, Start
  <2> QED BY <2>1 DEF JobInv, Gone, Running
<1>2. TypeOK /\ JobInv /\ [Next]_vars => JobInv'
  BY JobInvStep
<1>3. JobInv => StoppedIsClean
  <2> SUFFICES ASSUME JobInv, ~ Running("ctl"), loaded = "no"
               PROVE  ~ rules /\ engine = "none"
    BY DEF StoppedIsClean
  <2>1. at["ctl"].script = "idle"
    BY DEF Running, Idle, Start
  <2> QED BY <2>1 DEF JobInv, Gone, CtlAt
<1> QED BY <1>1, <1>2, <1>3, TypeCorrect, PTL DEF Spec

------------------------------------------------------------------------------
(* KeepInv is inductive. *)

(* Every step keeps KeepInv. *)
LEMMA KeepInvStep ==
  ASSUME IInv, [Next]_vars
  PROVE  KeepInv'
<1> USE DEF KeepInv
<1>a. TypeOK /\ JobInv /\ ShellOK
  BY DEF IInv, TypeOK
<1>b. Idle.script = "idle" /\ \A s : Start(s) = [script |-> s, n |-> 1]
  BY DEF Idle, Start
<1>d. at["ctl"] \in CtlPosition
  BY <1>a DEF ShellOK
<1>c. at["ctl"].n \in Nat
  BY <1>a, LengthsPositive DEF ShellOK, CtlPosition, Position, Script
<1>1. CASE Engaged
  <2>1. ~ CtlAt("stop", {9})
    BY <1>1, <1>a, EngagedFrame DEF JobInv, CtlAt
  <2> QED BY <1>1, <1>a, <2>1, EngagedFrame DEF IInv, CtlAt
<1>2. ASSUME NEW k \in {1, 3}, Skips("ctl", k),
             ~ CtlAt("install", {5}), ~ CtlAt("stop", {8}), k = 3 => ~ CtlAt("stop", {6}),
             k = 3 => ~ CtlAt("install", {3})
      PROVE  ~ CtlAt("stop", {9})' /\ ~ CtlAt("install", {6})'
  BY <1>2, <1>a, <1>b, <1>c, CtlSkips DEF CtlAt
<1>3. CASE Shared("ctl")
  <2>1. UNCHANGED <<keepinit, keepFile>>
    BY <1>3, <1>a, CtlFrame
  <2>2. ~ CtlAt("install", {5}) /\ ~ CtlAt("stop", {8})
    BY <1>3, <1>a, CtlFrame, CtlCommands, <1>d
  <2>4. Skips("ctl", 1) \/ (Skips("ctl", 3) /\ Command("ctl") = "read")
    <3>1. CASE ReadToken("ctl")
      BY <3>1 DEF ReadToken, Does
    <3>2. CASE Flush("ctl") \/ KillEngine("ctl") \/ DropToken("ctl") \/ RemoveToken("ctl")
      BY <3>2 DEF Flush, KillEngine, DropToken, RemoveToken, Steps
    <3> QED BY <1>3, <3>1, <3>2 DEF Shared
  <2>5. Command("ctl") = "read" => ~ CtlAt("stop", {6}) /\ ~ CtlAt("install", {3})
    <3>1. CtlAt("stop", {6}) => Command("ctl") = "drop"
      BY <1>a, CtlCommands, <1>d
    <3>2. CtlAt("install", {3}) => Command("ctl") = "pkill"
      BY DEF CtlAt, Command, Program, InstallSh
    <3> QED BY <3>1, <3>2
  <2>6. ~ CtlAt("stop", {9})' /\ ~ CtlAt("install", {6})'
    BY <1>2, <2>2, <2>4, <2>5
  <2> QED BY <2>1, <2>6 DEF IInv
<1>4. CASE Override("disable", FALSE) \/ Override("enable", TRUE) \/ BootoutDone
  <2>1. Skips("ctl", 1) /\ UNCHANGED <<keepinit, keepFile>>
    BY <1>4 DEF Override, BootoutDone, Steps, shared
  <2>2. ~ CtlAt("install", {5}) /\ ~ CtlAt("stop", {8})
    BY <1>4, <1>a, CtlCommands, <1>d DEF Override, BootoutDone, Does
  <2>3. ~ CtlAt("stop", {9})' /\ ~ CtlAt("install", {6})'
    BY <1>2, <2>1, <2>2
  <2> QED BY <2>1, <2>3 DEF IInv
<1>5. CASE CopyPayload \/ Await \/ Bootstrap
  <2>1. \/ Skips("ctl", 1)
        \/ \E s \in {"idle", "stop"} : Fails(s)
    BY <1>5 DEF CopyPayload, Await, Bootstrap, Steps
  <2>2. UNCHANGED <<keepinit, keepFile>>
    BY <1>5 DEF CopyPayload, Await, Bootstrap, shared
  <2>3. ~ CtlAt("install", {5}) /\ ~ CtlAt("stop", {8})
    BY <1>5, <1>a, CtlCommands, <1>d DEF CopyPayload, Await, Bootstrap, Does
  <2>4. (\E s \in {"idle", "stop"} : Fails(s)) => at'["ctl"].n = 1
    BY <1>a, <1>b DEF Fails, ShellOK, Process
  <2>5. ~ CtlAt("stop", {9})' /\ ~ CtlAt("install", {6})'
    <3>1. CASE Skips("ctl", 1)
      BY <1>2, <2>3, <3>1
    <3>2. CASE \E s \in {"idle", "stop"} : Fails(s)
      BY <2>4, <3>2 DEF CtlAt
    <3> QED BY <2>1, <3>1, <3>2
  <2> QED BY <2>2, <2>5 DEF IInv
<1>6. CASE Bootout
  <2>1. at'["ctl"] = at["ctl"] /\ UNCHANGED <<keepinit, keepFile>>
    BY <1>6, <1>a DEF Bootout, Terminate, Die, ShellOK, Process, shared
  <2> QED BY <2>1 DEF IInv, CtlAt
<1>7. CASE Kickstart
  <2> DEFINE pos == [at EXCEPT !["ctl"] = Further(@, 1)]
  <2>1. Command("ctl") = "kickstart" /\ UNCHANGED <<keepinit, keepFile>>
    BY <1>7 DEF Kickstart, Does, shared
  <2>2. at'["ctl"] = Further(at["ctl"], 1)
    <3>1. Terminate(pos) \/ Die(pos)
      BY <1>7 DEF Kickstart
    <3> QED BY <1>a, <3>1 DEF Terminate, Die, ShellOK, Process
  <2>3. ~ CtlAt("install", {5}) /\ ~ CtlAt("stop", {8})
    BY <1>a, <2>1, CtlCommands, <1>d
  <2>4. ~ CtlAt("stop", {9})' /\ ~ CtlAt("install", {6})'
    <3>1. CASE Further(at["ctl"], 1) = Idle
      BY <1>b, <2>2, <3>1 DEF CtlAt
    <3>2. CASE Further(at["ctl"], 1) # Idle
      <4>1. /\ at'["ctl"].n = at["ctl"].n + 1 /\ at'["ctl"].script = at["ctl"].script
        BY <1>a, <2>2, <3>2, FurtherMoves DEF ShellOK, CtlPosition, Position
      <4> QED BY <1>c, <2>3, <4>1 DEF CtlAt
    <3> QED BY <3>1, <3>2
  <2> QED BY <2>1, <2>4 DEF IInv
<1>8. CASE SaveKeepinit
  <2>1. Skips("ctl", 1) /\ keepinit' = keepinit /\ Command("ctl") = "save"
        /\ keepFile' = IF keepFile = "none" THEN keepinit ELSE keepFile
    BY <1>8 DEF SaveKeepinit, Steps, Does
  <2>2. keepFile' = "user"
    BY <2>1 DEF IInv
  <2>3. CtlAt("install", {5})
    BY <1>a, <2>1, CtlCommands, <1>d
  <2>4. ~ CtlAt("stop", {9})'
    BY <1>a, <1>b, <2>1, <2>3, CtlSkips DEF CtlAt
  <2> QED BY <2>2, <2>4
<1>9. CASE SetKeepinit
  <2>1. Skips("ctl", 1) /\ keepFile' = keepFile /\ Command("ctl") = "raise"
    BY <1>9 DEF SetKeepinit, Steps, Does
  <2>2. CtlAt("install", {6})
    BY <1>a, <2>1, CtlCommands, <1>d
  <2>3. ~ CtlAt("stop", {9})' /\ ~ CtlAt("install", {6})'
    BY <1>a, <1>b, <2>1, <2>2, CtlSkips DEF CtlAt
  <2>4. keepFile' = "user"
    BY <2>1, <2>2 DEF IInv
  <2> QED BY <2>3, <2>4
<1>10. CASE RestoreKeepinit
  <2>1. /\ Skips("ctl", 1) /\ keepFile' = keepFile /\ Command("ctl") = "restore"
        /\ keepinit' = IF keepFile = "none" THEN keepinit ELSE keepFile
    BY <1>10 DEF RestoreKeepinit, Steps, Does
  <2>2. CtlAt("stop", {8})
    BY <1>a, <2>1, CtlCommands, <1>d
  <2>3. keepinit' = "user"
    BY <2>1 DEF IInv
  <2>4. ~ CtlAt("install", {6})'
    BY <1>a, <1>b, <2>1, <2>2, CtlSkips DEF CtlAt
  <2> QED BY <2>1, <2>3, <2>4 DEF IInv
<1>11. CASE ForgetKeepinit
  <2>1. Skips("ctl", 1) /\ keepFile' = "none" /\ keepinit' = keepinit /\ Command("ctl") = "forget"
    BY <1>11 DEF ForgetKeepinit, Steps, Does
  <2>2. CtlAt("stop", {9})
    BY <1>a, <2>1, CtlCommands, <1>d
  <2>3. ~ CtlAt("install", {6})'
    BY <1>a, <1>b, <2>1, <2>2, CtlSkips DEF CtlAt
  <2> QED BY <2>1, <2>2, <2>3 DEF IInv
<1>12. CASE RouteChanges \/ OthersUsePf \/ Spawn \/ Leave \/ UNCHANGED vars
  <2>1. at'["ctl"] = at["ctl"] /\ UNCHANGED <<keepinit, keepFile>>
    BY <1>12, <1>a
       DEF RouteChanges, OthersUsePf, Spawn, Leave, vars, shell, shared, ShellOK, Process
  <2> QED BY <2>1 DEF IInv, CtlAt
<1>13. CASE Reboot
  <2>1. at'["ctl"] = Idle /\ keepinit' = "user" /\ keepFile' = keepFile
    BY <1>13 DEF Reboot, Process
  <2> QED BY <1>b, <2>1 DEF IInv, CtlAt
<1>14. ASSUME NEW s \in {"stop", "install", "restart"}, RunScript(s)
       PROVE  KeepInv'
  <2>1. at'["ctl"] = Start(s) /\ UNCHANGED <<keepinit, keepFile>>
    BY <1>14, <1>a DEF RunScript, ShellOK, Process, shared
  <2> QED BY <1>b, <2>1 DEF IInv, CtlAt
<1> QED
  BY <1>1, <1>3, <1>4, <1>5, <1>6, <1>7, <1>8, <1>9, <1>10, <1>11, <1>12, <1>13, <1>14
  DEF Next, Engaged, Launchd, Faults, Control, Process

(* The user's keepinit is never lost, whatever ends run.sh, install.sh or  *)
(* stop.sh half way, reboots included (install.sh, run.sh, stop.sh).       *)
THEOREM KeepinitKept == Spec => []KeepinitIsKept
<1>1. Init => JobInv /\ KeepInv
  <2> SUFFICES ASSUME Init PROVE JobInv /\ KeepInv
    OBVIOUS
  <2>1. /\ at["run"] = Idle /\ at["dog"] = Idle /\ at["ctl"].script = "idle"
        /\ engine = "none" /\ rules = FALSE /\ loaded \in {"no", "yes"}
        /\ keepinit = "user" /\ keepFile \in {"none", "user"}
    BY DEF Init, Process, Idle, Start
  <2> QED BY <2>1 DEF JobInv, KeepInv, Gone, Running, CtlAt
<1>2. TypeOK /\ JobInv /\ KeepInv /\ [Next]_vars => JobInv' /\ KeepInv'
  BY JobInvStep, KeepInvStep DEF IInv
<1>3. KeepInv => KeepinitIsKept
  BY DEF KeepInv, KeepinitIsKept
<1> QED BY <1>1, <1>2, <1>3, TypeCorrect, PTL DEF Spec

------------------------------------------------------------------------------
(* RefInv is inductive. *)

(* The commands before pfctl -E: the question whether pf is enabled comes  *)
(* right before it.                                                        *)
LEMMA BeforeEnabling ==
  ASSUME NEW pos \in RunPosition, NEW k \in {1, 3}, EnablingAt(Further(pos, k))
  PROVE  IF k = 1 THEN Program[pos.script][pos.n] = "pfinfo"
                  ELSE Program[pos.script][pos.n] = "dog"
<1>1. Further(pos, k) # Idle
  BY DEF EnablingAt, Idle, Start
<1>2. pos.script = "run" /\ pos.n + k = 14 /\ pos.n \in Nat
  BY <1>1, FurtherMoves, LengthsPositive DEF EnablingAt, RunPosition, Position, Script
<1>3. CASE k = 1
  <2>1. pos.n = 13
    BY <1>2, <1>3
  <2> QED BY <1>2, <1>3, <2>1 DEF Program, RunSh
<1>4. CASE k = 3
  <2>1. pos.n = 11
    BY <1>2, <1>4
  <2> QED BY <1>2, <1>4, <2>1 DEF Program, RunSh
<1> QED BY <1>3, <1>4

(* run.sh enables pf at the position EnablingAt names, and nowhere else. *)
LEMMA Enabling ==
  ASSUME NEW pos \in RunPosition, Program[pos.script][pos.n] = "pfenable"
  PROVE  EnablingAt(pos)
<1>1. CASE pos \in Position("run")
  <2>1. pos.n \in 1 .. 17 /\ pos.script = "run"
    BY <1>1, Lengths DEF Position
  <2> QED BY <2>1 DEF Program, RunSh, EnablingAt
<1>2. CASE pos \in Position("cleanup")
  <2>1. pos.n \in 1 .. 7 /\ pos.script = "cleanup"
    BY <1>2, Lengths DEF Position
  <2> QED BY <2>1 DEF Program, Cleanup
<1>3. CASE pos \in Position("idle")
  <2>1. pos.n \in 1 .. 1 /\ pos.script = "idle"
    BY <1>3, Lengths DEF Position
  <2> QED BY <2>1 DEF Program
<1> QED BY <1>1, <1>2, <1>3 DEF RunPosition

(* cleanup is left by its return only.                                     *)
LEMMA CleanupGoesOn ==
  ASSUME NEW pos \in Position("cleanup"), NEW k \in {1, 3},
         Program[pos.script][pos.n] # "return",
         k = 3 => Program[pos.script][pos.n] = "read"
  PROVE  Further(pos, k).script = "cleanup"
<1>1. pos.n \in 1 .. 7 /\ pos.script = "cleanup"
  BY Lengths DEF Position
<1>2. pos.n # 7 /\ (k = 3 => pos.n = 4)
  BY <1>1 DEF Program, Cleanup
<1>3. pos.n + k <= 7
  BY <1>1, <1>2
<1>4. Further(pos, k) = [pos EXCEPT !.n = @ + k]
  BY <1>1, <1>3, Lengths DEF Further
<1> QED BY <1>1, <1>4 DEF Position

(* No reference is given out, and run.sh does not come to pfctl -E.        *)
LEMMA RefInvKept ==
  ASSUME RefInv, tokens' = tokens \/ (\E t : tokens' = tokens \ {t}) \/ tokens' = {},
         EnablingAt(at'["run"]) =>
           EnablingAt(at["run"]) \/ EnablingAt(back) \/ tokens = {},
         EnablingAt(back') => EnablingAt(back) \/ EnablingAt(at["run"]),
         at'["run"].script # "cleanup" => back' = Idle
  PROVE  RefInv'
<1>1. tokens' = {} \/ tokens' = tokens
  BY DEF RefInv
<1>2. tokens = {} => tokens' = {}
  BY <1>1
<1> QED BY <1>1, <1>2 DEF RefInv, EnablingAt

(* run.sh goes on by a command that is not one about pf or cleanup's end.  *)
LEMMA RefInvMoves ==
  ASSUME TypeOK, RefInv, Running("run"), Command("run") \notin {"pfinfo", "return", "dog"},
         NEW k \in {1, 3}, k = 3 => Command("run") = "read",
         at'["run"] = Further(at["run"], k), back' = back,
         tokens' = tokens \/ \E t : tokens' = tokens \ {t}
  PROVE  RefInv'
<1>1. ~ EnablingAt(at'["run"])
  BY BeforeEnabling DEF TypeOK, ShellOK, Command
<1>2. at'["run"].script \in {at["run"].script, "idle"}
  BY FurtherKeepsScript DEF TypeOK, ShellOK
<1>3. CASE at["run"].script = "cleanup"
  <2>1. at["run"] \in Position("cleanup")
    BY <1>3 DEF TypeOK, ShellOK, RunPosition, Position
  <2>2. at'["run"].script = "cleanup"
    BY <2>1, CleanupGoesOn DEF Command
  <2> QED BY <1>1, <2>2, RefInvKept
<1>4. CASE at["run"].script # "cleanup"
  BY <1>1, <1>4, RefInvKept DEF RefInv
<1> QED BY <1>3, <1>4

(* run.sh ends, or runs its cleanup and then ends.                         *)
LEMMA RefInvEnds ==
  ASSUME TypeOK, RefInv, back' = Idle, at'["run"] \in {Idle, Start("cleanup")}, tokens' = tokens
  PROVE  RefInv'
<1>1. ~ EnablingAt(at'["run"]) /\ ~ EnablingAt(back')
  BY DEF EnablingAt, Idle, Start
<1> QED BY <1>1, RefInvKept

(* run.sh stays where it is.                                               *)
LEMMA RefInvStays ==
  ASSUME RefInv, back' = back, at'["run"] = at["run"],
         tokens' = tokens \/ \E t : tokens' = tokens \ {t}
  PROVE  RefInv'
  BY RefInvKept DEF RefInv

(* The commands of run.sh keep RefInv. *)
LEMMA RefInvRun ==
  ASSUME TypeOK, RefInv, Run
  PROVE  RefInv'
<1> USE DEF TypeOK, ShellOK, Process
<1>1. CASE RaiseKeepinit \/ SetTrap \/ FindInterface \/ FindGateway \/ StartEngine
           \/ NotePid("enginepid", "engine") \/ NotePid("dogpid", "dog")
           \/ SeeUtun \/ ConfigureUtun \/ RecordToken \/ LoadRules \/ KillWatchdog
           \/ KillOwnEngine
  <2>1. /\ Running("run") /\ Command("run") \notin {"pfinfo", "return", "dog"}
        /\ tokens' = tokens
    BY <1>1 DEF RaiseKeepinit, SetTrap, FindInterface, FindGateway, StartEngine, NotePid, SeeUtun,
       ConfigureUtun, RecordToken, LoadRules, KillWatchdog, KillOwnEngine, Does, shared
  <2>2. at'["run"] = Further(at["run"], 1) /\ back' = back
    BY <1>1 DEF RaiseKeepinit, SetTrap, FindInterface, FindGateway, StartEngine, NotePid, SeeUtun,
       ConfigureUtun, RecordToken, LoadRules, KillWatchdog, KillOwnEngine, Steps, Skips
  <2> QED BY <2>1, <2>2, RefInvMoves
<1>2. CASE MissUtun \/ NoUtunToConfigure \/ LeaveLoop
  <2>1. Exit
    BY <1>2 DEF MissUtun, NoUtunToConfigure, LeaveLoop
  <2> QED BY <2>1, RefInvEnds DEF Exit, shared
<1>3. CASE StartWatchdog
  <2>1. /\ at["run"].script # "cleanup" /\ ~ EnablingAt(Further(at["run"], 1))
        /\ Further(at["run"], 1).script \in {at["run"].script, "idle"}
    <3>1. Program[at["run"].script][at["run"].n] = "dog"
      BY <1>3 DEF StartWatchdog, Does, Command
    <3>2. at["run"].script # "cleanup"
      <4>1. SUFFICES ASSUME at["run"].script = "cleanup" PROVE FALSE
        OBVIOUS
      <4>2. at["run"].n \in 1 .. 7
        BY <4>1, Lengths DEF RunPosition, Position
      <4> QED BY <3>1, <4>1, <4>2 DEF Program, Cleanup
    <3> QED BY <3>1, <3>2, BeforeEnabling, FurtherKeepsScript
  <2>2. at'["run"] = Further(at["run"], 1) /\ back' = back /\ tokens' = tokens
    BY <1>3 DEF StartWatchdog, shared
  <2> QED BY <2>1, <2>2, RefInvKept DEF RefInv
<1>4. CASE SeePf
  <2>1. at["run"].script # "cleanup"
    <3>1. SUFFICES ASSUME at["run"].script = "cleanup" PROVE FALSE
      OBVIOUS
    <3>2. at["run"].n \in 1 .. 7
      BY <3>1, Lengths DEF RunPosition, Position
    <3>3. Program[at["run"].script][at["run"].n] = "pfinfo"
      BY <1>4 DEF SeePf, Does, Command
    <3> QED BY <3>1, <3>2, <3>3 DEF Program, Cleanup
  <2>2. back' = back /\ tokens' = tokens
    BY <1>4 DEF SeePf, Skips, shared
  <2>3. CASE PfDisabled
    <3>1. tokens = {} /\ at'["run"] = Further(at["run"], 1)
      BY <1>4, <2>3 DEF SeePf, Skips, PfDisabled
    <3>2. at'["run"].script # "cleanup"
      BY <2>1, <3>1, FurtherKeepsScript
    <3> QED BY <2>1, <2>2, <3>1, RefInvKept DEF RefInv
  <2>4. CASE ~ PfDisabled
    <3>1. at'["run"] = Further(at["run"], 3)
      BY <1>4, <2>4 DEF SeePf, Skips
    <3>2. ~ EnablingAt(at'["run"])
      BY <1>4, <3>1, BeforeEnabling DEF SeePf, Does, Command
    <3> QED BY <2>1, <2>2, <3>2, RefInvKept DEF RefInv
  <2> QED BY <2>3, <2>4
<1>5. CASE EnablePf
  <2>1. EnablingAt(at["run"])
    BY <1>5, Enabling DEF EnablePf, Does, Command
  <2>2. tokens = {} /\ back = Idle
    BY <2>1 DEF RefInv, EnablingAt
  <2>3. at'["run"] = Further(at["run"], 1) /\ back' = back
    BY <1>5 DEF EnablePf, Steps, Skips
  <2>4. ~ EnablingAt(at'["run"])
    BY <1>5, <2>3, BeforeEnabling DEF EnablePf, Does, Command
  <2>5. \E t \in Token : tokens' = {t}
    <3> DEFINE t == CHOOSE t \in FreshTokens : TRUE
    <3>1. FreshTokens # {} /\ tokens' = tokens \cup {t}
      BY <1>5 DEF EnablePf
    <3>2. t \in Token
      BY <3>1 DEF FreshTokens
    <3> QED BY <2>2, <3>1, <3>2
  <2>6. ~ EnablingAt(back') /\ back' = Idle
    BY <2>2, <2>3 DEF EnablingAt, Idle, Start
  <2> QED BY <2>4, <2>5, <2>6 DEF RefInv, EnablingAt
<1>6. CASE TakeTrap
  <2>1. back' = at["run"] /\ at'["run"] = Start("cleanup") /\ tokens' = tokens
    BY <1>6 DEF TakeTrap, shared
  <2>2. at'["run"].script = "cleanup" /\ ~ EnablingAt(at'["run"])
    BY <2>1 DEF Start, EnablingAt
  <2> QED BY <2>1, <2>2, RefInvKept
<1>7. CASE ReturnFromCleanup
  <2>1. at'["run"] = back /\ back' = Idle /\ tokens' = tokens
    BY <1>7 DEF ReturnFromCleanup, shared
  <2>2. ~ EnablingAt(back')
    BY <2>1 DEF EnablingAt, Idle, Start
  <2> QED BY <2>1, <2>2, RefInvKept
<1> QED BY <1>1, <1>2, <1>3, <1>4, <1>5, <1>6, <1>7 DEF Run

(* The commands several scripts share keep RefInv. *)
LEMMA RefInvShared ==
  ASSUME TypeOK, RefInv, NEW p \in Process, Shared(p)
  PROVE  RefInv'
<1> USE DEF TypeOK, ShellOK
<1>1. tokens' = tokens \/ \E t : tokens' = tokens \ {t}
  BY DEF Shared, Flush, KillEngine, ReadToken, DropToken, RemoveToken, shared
<1>2. /\ Running(p) /\ Command(p) \in {"flush", "pkill", "read", "drop", "rm"}
      /\ \E k \in {1, 3} : Skips(p, k) /\ (k = 3 => Command(p) = "read")
  <2>1. CASE ReadToken(p)
    <3>1. Running(p) /\ Command(p) = "read" /\ Skips(p, IF tokenFile = NoToken THEN 3 ELSE 1)
      BY <2>1 DEF ReadToken, Does
    <3> QED BY <3>1
  <2>2. CASE Flush(p) \/ KillEngine(p) \/ DropToken(p) \/ RemoveToken(p)
    BY <2>2 DEF Flush, KillEngine, DropToken, RemoveToken, Steps, Does
  <2> QED BY <2>1, <2>2 DEF Shared
<1>3. PICK k \in {1, 3} : Skips(p, k) /\ (k = 3 => Command(p) = "read")
  BY <1>2
<1>4. CASE p = "run"
  <2>1. at'["run"] = Further(at["run"], k) /\ back' = back
    BY <1>3, <1>4 DEF Skips, Process
  <2> QED BY <1>1, <1>2, <1>3, <1>4, <2>1, RefInvMoves
<1>5. CASE p # "run"
  <2>1. at'["run"] = at["run"] /\ back' = back
    BY <1>3, <1>5 DEF Skips, Process
  <2> QED BY <1>1, <2>1, RefInvStays
<1> QED BY <1>4, <1>5

(* Everything else keeps RefInv. *)
LEMMA RefInvOthers ==
  ASSUME TypeOK, RefInv,
         SeeDeath \/ EngineUp \/ Launchd \/ Control \/ Faults
           \/ (\E s \in {"stop", "install", "restart"} : RunScript(s)) \/ UNCHANGED vars
  PROVE  RefInv'
<1> USE DEF TypeOK, ShellOK, Process
<1>1. CASE SeeDeath \/ EngineUp \/ Reap \/ Leave \/ EngineDies \/ RouteChanges \/ OthersUsePf
           \/ UNCHANGED vars
  <2>1. at'["run"] = at["run"] /\ back' = back /\ tokens' = tokens
    BY <1>1 DEF SeeDeath, EngineUp, Reap, Leave, EngineDies, RouteChanges, OthersUsePf, vars,
       Steps, Skips, shell, shared
  <2> QED BY <2>1, RefInvStays
<1>2. CASE KillSlow \/ RunKilled
  BY <1>2, RefInvEnds DEF KillSlow, RunKilled, Die, shared
<1>3. CASE RunFails
  BY <1>3, RefInvEnds DEF RunFails, Exit, shared
<1>4. CASE Spawn
  <2>1. /\ at["run"] = Idle /\ at'["run"] = Start("run") /\ back' = back /\ tokens' = tokens
    BY <1>4 DEF Spawn, Gone, Running, shared
  <2>2. back = Idle /\ ~ EnablingAt(at'["run"])
    BY <2>1 DEF RefInv, EnablingAt, Idle, Start
  <2> QED BY <2>1, <2>2, RefInvKept
<1>5. CASE Reboot
  <2>1. at'["run"] = Idle /\ back' = Idle /\ tokens' = {}
    BY <1>5 DEF Reboot
  <2> QED BY <2>1 DEF RefInv, EnablingAt, Idle, Start
<1>6. CASE Override("disable", FALSE) \/ Override("enable", TRUE) \/ BootoutDone \/ CopyPayload
           \/ SaveKeepinit \/ SetKeepinit \/ RestoreKeepinit \/ ForgetKeepinit \/ Bootstrap \/ Await
  <2>1. Skips("ctl", 1) \/ \E s \in {"idle", "stop"} : Fails(s)
    BY <1>6 DEF Override, BootoutDone, CopyPayload, SaveKeepinit, SetKeepinit, RestoreKeepinit,
       ForgetKeepinit, Bootstrap, Await, Steps
  <2>2. at'["run"] = at["run"] /\ back' = back
    BY <2>1 DEF Skips, Fails
  <2>3. tokens' = tokens
    BY <1>6 DEF Override, BootoutDone, CopyPayload, SaveKeepinit, SetKeepinit, RestoreKeepinit,
       ForgetKeepinit, Bootstrap, Await, shared
  <2> QED BY <2>2, <2>3, RefInvStays
<1>7. ASSUME NEW pos, "run" \in DOMAIN pos, pos["run"] = at["run"],
             Terminate(pos) \/ Die(pos), tokens' = tokens
      PROVE  RefInv'
  <2>1. CASE Die(pos)
    <3>1. at'["run"] = Idle /\ back' = Idle
      BY <1>7, <2>1 DEF Die
    <3> QED BY <1>7, <3>1, RefInvEnds
  <2>2. CASE at' = pos /\ back' = back
    BY <1>7, <2>2, RefInvStays
  <2> QED BY <1>7, <2>1, <2>2 DEF Terminate
<1>8. CASE Bootout
  BY <1>7, <1>8 DEF Bootout, shared
<1>9. CASE Kickstart
  <2> DEFINE pos == [at EXCEPT !["ctl"] = Further(@, 1)]
  <2>1. pos["run"] = at["run"] /\ "run" \in DOMAIN pos
    OBVIOUS
  <2>2. (Terminate(pos) \/ Die(pos)) /\ tokens' = tokens
    BY <1>9 DEF Kickstart, shared
  <2> HIDE DEF pos
  <2> QED BY <1>7, <2>1, <2>2
<1>10. ASSUME NEW s \in {"stop", "install", "restart"}, RunScript(s)
       PROVE  RefInv'
  <2>1. at'["run"] = at["run"] /\ back' = back /\ tokens' = tokens
    BY <1>10 DEF RunScript, shared
  <2> QED BY <2>1, RefInvStays
<1> QED BY <1>1, <1>2, <1>3, <1>4, <1>5, <1>6, <1>8, <1>9, <1>10 DEF Launchd, Control, Faults

(* run.sh never makes pf hold two references for it, however often it is   *)
(* killed between enabling pf and noting the reference, and whoever        *)
(* releases what is noted in between (run.sh, watchdog.sh, stop.sh).       *)
THEOREM HoldsOneReference == Spec => []OneReference
<1>1. Init => RefInv
  BY DEF Init, RefInv, EnablingAt, Idle, Start, Process
<1>2. TypeOK /\ RefInv /\ [Next]_vars => RefInv'
  BY RefInvRun, RefInvShared, RefInvOthers DEF Next
<1>3. RefInv => OneReference
  <2> SUFFICES ASSUME RefInv PROVE OneReference
    OBVIOUS
  <2>1. CASE tokens = {}
    BY <2>1, FS_EmptySet DEF OneReference
  <2>2. CASE \E t \in Token : tokens = {t}
    <3>1. PICK t \in Token : tokens = {t}
      BY <2>2
    <3>2. Cardinality(tokens) = 1
      BY <3>1, FS_Singleton
    <3> QED BY <3>2 DEF OneReference
  <2> QED BY <2>1, <2>2 DEF RefInv
<1> QED BY <1>1, <1>2, <1>3, TypeCorrect, PTL DEF Spec
==============================================================================
