-------------------------------- MODULE Update --------------------------------
(***************************************************************************)
(* The application replaces itself: UpdateService (installUpdate and what  *)
(* it calls) downloads, verifies and unpacks a release, asks for           *)
(* authorisation, starts update-app.sh as root and quits; the script waits *)
(* for it to be gone, puts the new bundle in the place of the old one,     *)
(* verifies it, restarts the service if it ran and opens the application.  *)
(*                                                                         *)
(* The script runs under set -e: a command that fails outside a condition  *)
(* ends it where it is.  It may also be killed between any two commands.   *)
(* One script at a time: for a second one the user would have to open the  *)
(* application between its end and the move that follows at once.          *)
(***************************************************************************)
EXTENDS Naturals

CONSTANTS
  MaxUpdates,   \* bound: how often the user asks for the update
  MaxToggles    \* bound: how often the service is started or stopped otherwise

ASSUME BoundAssumption == MaxUpdates \in Nat /\ MaxToggles \in Nat

VARIABLES
  version,      \* what the application that runs is, or "closed"
  isRunning,    \* its flag for the service
  job,          \* how far installUpdate is
  available,    \* availableRelease, isChecking
  checking,
  archive,      \* what was downloaded
  wasRunning,   \* WAS_RUNNING
  workRoot,     \* the unpacked release is there
  script,       \* the next command of update-app.sh
  awaited,      \* the process the script waits for is alive
  target,       \* the bundle at its place, and the one moved away
  backup,
  left,         \* what scripts that died have moved away and left there
  service,      \* the payload the service runs, or "down"
  errorFile,    \* update-error exists
  told,         \* (history) the user was shown its message
  touched,      \* (history) wasRunning is not, or no longer, how the service was left
  updates, toggles

app == <<version, isRunning>>
release == <<available, checking>>
install == <<job, archive, wasRunning, workRoot, updates>>
bundle == <<target, backup, left>>
running == <<service, touched, toggles>>
message == <<errorFile, told>>
vars == <<app, release, install, script, awaited, bundle, running, message>>

Release == {"old", "new"}
ScriptRuns == script \notin {"none", "done", "restored", "died"}

------------------------------------------------------------------------------
(* The application. *)

(* Every two seconds. *)
refreshRunningState ==
  /\ version # "closed"
  /\ isRunning # (service # "down")
  /\ isRunning' = (service # "down")
  /\ UNCHANGED <<version, release, install, script, awaited, bundle, running, message>>

checkForUpdate ==
  /\ version # "closed" /\ ~ checking /\ job = "idle"
  /\ checking' = TRUE
  /\ UNCHANGED <<app, available, install, script, awaited, bundle, running, message>>

(* The answer: only a release newer than this one is offered. *)
Answered ==
  /\ checking
  /\ checking' = FALSE
  /\ available' \in {FALSE, version = "old"}
  /\ UNCHANGED <<app, install, script, awaited, bundle, running, message>>

installUpdate ==
  /\ version # "closed" /\ available /\ job = "idle"
  /\ ~ ScriptRuns
  /\ updates < MaxUpdates
  /\ job' = "download"
  /\ updates' = updates + 1
  /\ UNCHANGED <<app, release, archive, wasRunning, workRoot, script, awaited,
                 bundle, running, message>>

(* curl has succeeded, at once or the second time.  isServiceRunning() is   *)
(* evaluated here, as an argument of prepareAndLaunchUpdate: it is the flag. *)
Downloaded ==
  /\ job = "download"
  /\ job' = "prepare"
  /\ archive' \in {"whole", "damaged"}
  /\ wasRunning' = isRunning
  /\ touched' = (isRunning # (service # "down"))
  /\ UNCHANGED <<app, release, workRoot, updates, script, awaited, bundle,
                 service, toggles, message>>

(* Any error is caught: the work directory is removed and the application *)
(* goes on.                                                                *)
Fails ==
  /\ job \in {"download", "prepare", "authorize"}
  /\ job' = "idle"
  /\ archive' = "none"
  /\ workRoot' = FALSE
  /\ UNCHANGED <<app, release, wasRunning, updates, script, awaited, bundle,
                 running, message>>

(* verifyDigest, ditto -x and verifyUpdate.  A damaged archive fails one.  *)
Prepared ==
  /\ job = "prepare" /\ archive = "whole"
  /\ job' = "authorize"
  /\ workRoot' = TRUE
  /\ UNCHANGED <<app, release, archive, wasRunning, updates, script, awaited,
                 bundle, running, message>>

(* execute: the user has authorised it and the script runs in the           *)
(* background, where it first looks whether the bundles are there.          *)
Launched ==
  /\ job = "authorize"
  /\ job' = "terminate"
  /\ script' = IF target = "none" THEN "died" ELSE "wait"
  /\ awaited' = TRUE
  /\ UNCHANGED <<app, release, archive, wasRunning, workRoot, updates, bundle,
                 running, message>>

(* NSApp.terminate, after an update or by the user; also a crash *)
Terminates ==
  /\ version # "closed"
  /\ version' = "closed"
  /\ isRunning' = FALSE
  /\ job' = "idle"
  /\ available' = FALSE
  /\ checking' = FALSE
  /\ archive' = "none"
  /\ awaited' = FALSE
  /\ UNCHANGED <<wasRunning, workRoot, updates, script, bundle, running, message>>

(* A fresh application looks whether the service runs and shows the message *)
(* an update has left.                                                      *)
Launches ==
  /\ version' = target
  /\ isRunning' = (service # "down")
  /\ errorFile' = FALSE
  /\ told' = (told \/ errorFile)

UserOpens ==
  /\ version = "closed" /\ target \in Release
  /\ Launches
  /\ UNCHANGED <<release, install, script, awaited, bundle, running>>

(* open: an application that runs is only brought to the front. *)
reopen ==
  \/ version = "closed" /\ Launches
  \/ version # "closed" /\ UNCHANGED <<app, message>>

(* The user, or another one, starts the service with the payload of the    *)
(* bundle, or stops it; nothing keeps either from it during an update.      *)
Toggled ==
  /\ toggles < MaxToggles
  /\ toggles' = toggles + 1
  /\ \/ service # "down" /\ service' = "down"
     \/ service = "down" /\ version # "closed" /\ target \in Release /\ service' = target
  /\ touched' = TRUE
  /\ UNCHANGED <<app, release, install, script, awaited, bundle, message>>

------------------------------------------------------------------------------
(* update-app.sh. *)

At(s) == script = s
GoTo(s) == script' = s

(* It looks every 0.1 s whether the application is gone, at most 300 times. *)
Wait ==
  /\ At("wait")
  /\ IF awaited THEN GoTo("died") ELSE GoTo("move")
  /\ UNCHANGED <<app, release, install, awaited, bundle, running, message>>

(* The name it is moved to holds the script's process id: what another      *)
(* script has left stays.                                                   *)
Move ==
  /\ At("move")
  /\ GoTo("copy")
  /\ target' = "none"
  /\ backup' = target
  /\ left' = left \union ({backup} \ {"none"})
  /\ UNCHANGED <<app, release, install, awaited, running, message>>

Copy ==
  /\ At("copy")
  /\ GoTo("copied")
  /\ target' = "partial"
  /\ UNCHANGED <<app, release, install, awaited, backup, left, running, message>>

(* What was copied may not be what was verified before; ditto may fail. *)
Copied ==
  /\ At("copied")
  /\ \/ GoTo("own") /\ target' \in {"new", "partial"}
     \/ GoTo("remove") /\ UNCHANGED target
  /\ UNCHANGED <<app, release, install, awaited, backup, left, running, message>>

(* A mutant: the copy is taken for good. *)
OwnUnverified ==
  /\ At("own")
  /\ GoTo("drop")
  /\ UNCHANGED <<app, release, install, awaited, bundle, running, message>>

Own ==
  /\ At("own")
  /\ GoTo("verify")
  /\ UNCHANGED <<app, release, install, awaited, bundle, running, message>>

(* codesign and lipo *)
Verify ==
  /\ At("verify")
  /\ \/ target = "new" /\ GoTo("drop")
     \/ GoTo("remove")
  /\ UNCHANGED <<app, release, install, awaited, bundle, running, message>>

(* The way back: rm, mv and reopen, which cannot open the remains of a     *)
(* bundle that an earlier script has left.                                 *)
Remove ==
  /\ At("remove")
  /\ GoTo("restore")
  /\ target' = "none"
  /\ UNCHANGED <<app, release, install, awaited, backup, left, running, message>>

(* A mutant: the old application is put back and nothing more. *)
RestoreOnly ==
  /\ At("restore")
  /\ GoTo("restored")
  /\ target' = backup
  /\ backup' = "none"
  /\ UNCHANGED <<app, release, install, awaited, left, running, message>>

Restore ==
  /\ At("restore")
  /\ GoTo("reopen old")
  /\ target' = backup
  /\ backup' = "none"
  /\ UNCHANGED <<app, release, install, awaited, left, running, message>>

ReopenOld ==
  /\ At("reopen old")
  /\ IF target \in Release THEN GoTo("restored") /\ reopen
     ELSE GoTo("died") /\ UNCHANGED <<app, message>>
  /\ UNCHANGED <<release, install, awaited, bundle, running>>

Drop ==
  /\ At("drop")
  /\ IF wasRunning THEN GoTo("service") ELSE GoTo("reopen")
  /\ backup' = "none"
  /\ errorFile' = FALSE
  /\ UNCHANGED <<app, release, install, awaited, target, left, running, told>>

(* install.sh of the new bundle stops the service and starts it; when it    *)
(* fails it leaves it down, and a message says so.                          *)
Service ==
  /\ At("service")
  /\ GoTo("reopen")
  /\ \/ service' = target /\ UNCHANGED errorFile
     \/ service' = "down" /\ errorFile' = TRUE
  /\ UNCHANGED <<app, release, install, awaited, bundle, touched, toggles, told>>

Reopen ==
  /\ At("reopen")
  /\ GoTo("clean")
  /\ reopen
  /\ UNCHANGED <<release, install, awaited, bundle, running>>

Clean ==
  /\ At("clean")
  /\ GoTo("done")
  /\ workRoot' = FALSE
  /\ UNCHANGED <<app, release, job, archive, wasRunning, updates, awaited, bundle,
                 running, message>>

(* A command fails under set -e or the script is killed: it ends where it   *)
(* is.  Of a bundle that was being removed or copied a part may be there.   *)
Died ==
  /\ ScriptRuns
  /\ GoTo("died")
  /\ target' \in IF script \in {"copied", "remove"} THEN {target, "partial"} ELSE {target}
  /\ backup' \in IF script = "drop" THEN {backup, "partial"} ELSE {backup}
  /\ UNCHANGED <<app, release, install, awaited, left, running, message>>

------------------------------------------------------------------------------
Init ==
  /\ service \in {"old", "down"}
  /\ version = "old" /\ isRunning = (service # "down")
  /\ job = "idle" /\ archive = "none"
  /\ available = FALSE /\ checking = FALSE
  /\ wasRunning = FALSE /\ workRoot = FALSE
  /\ script = "none" /\ awaited = FALSE
  /\ target = "old" /\ backup = "none" /\ left = {}
  /\ touched = FALSE
  /\ errorFile = FALSE /\ told = FALSE
  /\ updates = 0 /\ toggles = 0

Script ==
  \/ Wait \/ Move \/ Copy \/ Copied \/ Own \/ Verify
  \/ Remove \/ Restore \/ ReopenOld
  \/ Drop \/ Service \/ Reopen \/ Clean

Application ==
  \/ refreshRunningState \/ checkForUpdate \/ Answered \/ installUpdate
  \/ Downloaded \/ Fails \/ Prepared \/ Launched \/ Terminates

Next == Application \/ UserOpens \/ Toggled \/ Script \/ Died

Spec == Init /\ [][Next]_vars

(* The script is a process of its own: it goes on as long as it lives. *)
LiveSpec == Spec /\ WF_vars(Script)

------------------------------------------------------------------------------
(* Properties. *)

(* Wherever a script ends, killed between two commands or by any command    *)
(* that fails, a whole bundle is left, in its place or moved away.  A       *)
(* script that ends by itself leaves it in its place and no copy beside it, *)
(* unless it found the remains of another.  After a single update the       *)
(* service is up if and only if it was, with the payload of the new bundle, *)
(* or the user is told, now or the next time the application is opened;     *)
(* unless somebody has changed it since the flag that is taken for it was   *)
(* refreshed, before the release was verified and the password asked for.   *)
AppSurvives ==
  /\ (left \union {target, backup}) \intersect Release # {}
  /\ script \in {"done", "restored"} =>
       backup = "none" /\ (left = {} => target \in Release)
  /\ script = "done" /\ updates = 1 /\ ~ touched =>
       \/ service = IF wasRunning THEN "new" ELSE "down"
       \/ wasRunning /\ service = "down" /\ (errorFile \/ told)

(* An application that has quit to be updated is opened again, with the     *)
(* new bundle or the old one, unless the script is killed or a command      *)
(* outside its conditions fails (chown, update-app.sh:54).                  *)
AppComesBack == At("move") ~> (version # "closed" \/ At("died"))
==============================================================================
