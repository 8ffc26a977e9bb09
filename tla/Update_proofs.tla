---------------------------- MODULE Update_proofs ----------------------------
(***************************************************************************)
(* Theorems about Update for any number of updates and of changes of the   *)
(* service by others.                                                      *)
(***************************************************************************)
EXTENDS Update, TLAPS

------------------------------------------------------------------------------
(* The inductive invariant. *)

Scripts ==
  {"none", "wait", "move", "copy", "copied", "own", "verify", "remove", "restore", "reopen old",
   "drop", "service", "reopen", "clean", "done", "restored", "died"}

(* The flags that only hold TRUE or FALSE are left out: nothing rests on it. *)
TypeOK ==
  /\ version \in Release \cup {"closed"}
  /\ job \in {"idle", "download", "prepare", "authorize", "terminate"}
  /\ script \in Scripts
  /\ target \in Release \cup {"partial", "none"}
  /\ backup \in Release \cup {"partial", "none"}
  /\ service \in Release \cup {"down"}
  /\ updates \in Nat

(* The bundle has been moved away and is not to be touched yet. *)
Moved == script \in {"copy", "copied", "own", "verify", "remove", "restore"}
Replaced == script \in {"service", "reopen", "clean", "done"}

(* A whole bundle is there; while the place of it is worked on, among those *)
(* moved away.                                                              *)
BundleInv ==
  /\ (left \cup {target, backup}) \cap Release # {}
  /\ Moved => /\ (left \cup {backup}) \cap Release # {}
              /\ left = {} => backup \in Release
  /\ script = "drop" => target = "new"
  /\ Replaced => target = "new" /\ backup = "none"
  /\ script \in {"reopen old", "restored"} => backup = "none" /\ (left = {} => target \in Release)

(* Until the service is seen to, it is as it was noted; a second update is    *)
(* only prepared when no script runs.                                         *)
NotedInv ==
  /\ job # "idle" \/ script # "none" => updates >= 1
  /\ job \in {"download", "prepare", "authorize"} /\ script # "none" => updates >= 2 /\ ~ ScriptRuns
  /\ script = "service" => wasRunning
  /\ updates = 1 /\ ~ touched =>
       /\ job \in {"prepare", "authorize"} \/ Moved \/ script \in {"wait", "move", "drop", "service"} =>
            (wasRunning <=> service # "down")
       /\ script \in {"reopen", "clean", "done"} =>
            \/ service = IF wasRunning THEN "new" ELSE "down"
            \/ wasRunning /\ service = "down" /\ (errorFile \/ told)

IInv == TypeOK /\ BundleInv /\ NotedInv

------------------------------------------------------------------------------
(* It holds at the start. *)
LEMMA InitInv == Init => IInv
  BY BoundAssumption
  DEF Init, IInv, TypeOK, BundleInv, NotedInv, Moved, Replaced, Scripts, Release

(* The steps of the application, of its user and of others who use the      *)
(* service.                                                                 *)
LEMMA ApplicationInv ==
  ASSUME IInv, Application \/ UserOpens \/ Toggled
  PROVE  IInv'
  <1> USE DEF app, release, install, bundle, running, message
  <1>1. CASE refreshRunningState
    <2>1. TypeOK' BY <1>1 DEF IInv, TypeOK, Scripts, Release, refreshRunningState
    <2>2. BundleInv' BY <1>1
      DEF IInv, BundleInv, Moved, Replaced, Release, refreshRunningState
    <2>3. NotedInv' BY <1>1
      DEF IInv, TypeOK, NotedInv, Moved, ScriptRuns, Release,
          refreshRunningState
    <2> QED BY <2>1, <2>2, <2>3 DEF IInv
  <1>2. CASE checkForUpdate
    <2>1. TypeOK' BY <1>2 DEF IInv, TypeOK, Scripts, Release, checkForUpdate
    <2>2. BundleInv' BY <1>2
      DEF IInv, BundleInv, Moved, Replaced, Release, checkForUpdate
    <2>3. NotedInv' BY <1>2
      DEF IInv, TypeOK, NotedInv, Moved, ScriptRuns, Release, checkForUpdate
    <2> QED BY <2>1, <2>2, <2>3 DEF IInv
  <1>3. CASE Answered
    <2>1. TypeOK'
      <3>1. UNCHANGED <<version, job, script, target, backup, service, updates>>
        BY <1>3 DEF Answered
      <3> QED BY <3>1 DEF IInv, TypeOK
    <2>2. BundleInv' BY <1>3 DEF IInv, BundleInv, Moved, Replaced, Release, Answered
    <2>3. NotedInv' BY <1>3
      DEF IInv, TypeOK, NotedInv, Moved, ScriptRuns, Release, Answered
    <2> QED BY <2>1, <2>2, <2>3 DEF IInv
  <1>4. CASE installUpdate
    <2>1. TypeOK'
      <3>1. job' = "download" /\ updates' = updates + 1
        BY <1>4 DEF installUpdate
      <3>2. UNCHANGED <<version, script, target, backup, service>>
        BY <1>4 DEF installUpdate
      <3> QED BY <3>1, <3>2 DEF IInv, TypeOK
    <2>2. BundleInv' BY <1>4
      DEF IInv, BundleInv, Moved, Replaced, Release, installUpdate
    <2>3. NotedInv' BY <1>4
      DEF IInv, TypeOK, NotedInv, Moved, ScriptRuns, Release, installUpdate
    <2> QED BY <2>1, <2>2, <2>3 DEF IInv
  <1>5. CASE Downloaded
    <2>1. TypeOK' BY <1>5 DEF IInv, TypeOK, Scripts, Release, Downloaded
    <2>2. BundleInv' BY <1>5 DEF IInv, BundleInv, Moved, Replaced, Release, Downloaded
    <2>3. NotedInv'
      <3>1. ~ touched' => (wasRunning' <=> service' # "down")
        BY <1>5 DEF Downloaded
      <3>2. job = "download" /\ job' = "prepare" /\ UNCHANGED <<script, updates>>
        BY <1>5 DEF Downloaded
      <3> QED BY <3>1, <3>2 DEF IInv, TypeOK, NotedInv, Moved, ScriptRuns
    <2> QED BY <2>1, <2>2, <2>3 DEF IInv
  <1>6. CASE Fails
    <2>1. TypeOK' BY <1>6 DEF IInv, TypeOK, Scripts, Release, Fails
    <2>2. BundleInv' BY <1>6 DEF IInv, BundleInv, Moved, Replaced, Release, Fails
    <2>3. NotedInv' BY <1>6
      DEF IInv, TypeOK, NotedInv, Moved, ScriptRuns, Release, Fails
    <2> QED BY <2>1, <2>2, <2>3 DEF IInv
  <1>7. CASE Prepared
    <2>1. TypeOK' BY <1>7 DEF IInv, TypeOK, Scripts, Release, Prepared
    <2>2. BundleInv' BY <1>7 DEF IInv, BundleInv, Moved, Replaced, Release, Prepared
    <2>3. NotedInv' BY <1>7
      DEF IInv, TypeOK, NotedInv, Moved, ScriptRuns, Release, Prepared
    <2> QED BY <2>1, <2>2, <2>3 DEF IInv
  <1>8. CASE Launched
    <2>1. TypeOK' BY <1>8 DEF IInv, TypeOK, Scripts, Release, Launched
    <2>2. BundleInv' BY <1>8 DEF IInv, BundleInv, Moved, Replaced, Release, Launched
    <2>3. NotedInv' BY <1>8
      DEF IInv, TypeOK, NotedInv, Moved, ScriptRuns, Release, Launched
    <2> QED BY <2>1, <2>2, <2>3 DEF IInv
  <1>9. CASE Terminates
    <2>1. TypeOK' BY <1>9 DEF IInv, TypeOK, Scripts, Release, Terminates
    <2>2. BundleInv' BY <1>9 DEF IInv, BundleInv, Moved, Replaced, Release, Terminates
    <2>3. NotedInv' BY <1>9
      DEF IInv, TypeOK, NotedInv, Moved, ScriptRuns, Release, Terminates
    <2> QED BY <2>1, <2>2, <2>3 DEF IInv
  <1>10. CASE UserOpens
    <2>1. TypeOK' BY <1>10 DEF IInv, TypeOK, Scripts, Release, UserOpens, Launches
    <2>2. BundleInv' BY <1>10
      DEF IInv, BundleInv, Moved, Replaced, Release, UserOpens, Launches
    <2>3. NotedInv' BY <1>10
      DEF IInv, TypeOK, NotedInv, Moved, ScriptRuns, Release, UserOpens,
          Launches
    <2> QED BY <2>1, <2>2, <2>3 DEF IInv
  <1>11. CASE Toggled
    <2>1. TypeOK' BY <1>11 DEF IInv, TypeOK, Scripts, Release, Toggled
    <2>2. BundleInv' BY <1>11 DEF IInv, BundleInv, Moved, Replaced, Release, Toggled
    <2>3. NotedInv' BY <1>11
      DEF IInv, TypeOK, NotedInv, Moved, ScriptRuns, Release, Toggled
    <2> QED BY <2>1, <2>2, <2>3 DEF IInv
  <1> QED BY
    <1>1, <1>2, <1>3, <1>4, <1>5, <1>6, <1>7, <1>8, <1>9, <1>10, <1>11 DEF
    Application

(* The commands of the script, and its end at any of them.                  *)
LEMMA ScriptInv ==
  ASSUME IInv, Script \/ Died
  PROVE  IInv'
  <1> USE DEF app, release, install, bundle, running, message, At, GoTo
  <1>1. CASE Wait
    <2>1. TypeOK' BY <1>1 DEF IInv, TypeOK, Scripts, Release, Wait
    <2>2. BundleInv' BY <1>1 DEF IInv, BundleInv, Moved, Replaced, Release, Wait
    <2>3. NotedInv' BY <1>1 DEF IInv, TypeOK, NotedInv, Moved, ScriptRuns, Release, Wait
    <2> QED BY <2>1, <2>2, <2>3 DEF IInv
  <1>2. CASE Move
    <2>1. TypeOK' BY <1>2 DEF IInv, TypeOK, Scripts, Release, Move
    <2>2. BundleInv' BY <1>2 DEF IInv, BundleInv, Moved, Replaced, Release, Move
    <2>3. NotedInv' BY <1>2 DEF IInv, TypeOK, NotedInv, Moved, ScriptRuns, Release, Move
    <2> QED BY <2>1, <2>2, <2>3 DEF IInv
  <1>3. CASE Copy
    <2>1. TypeOK' BY <1>3 DEF IInv, TypeOK, Scripts, Release, Copy
    <2>2. BundleInv' BY <1>3 DEF IInv, BundleInv, Moved, Replaced, Release, Copy
    <2>3. NotedInv' BY <1>3 DEF IInv, TypeOK, NotedInv, Moved, ScriptRuns, Release, Copy
    <2> QED BY <2>1, <2>2, <2>3 DEF IInv
  <1>4. CASE Copied
    <2>1. TypeOK' BY <1>4 DEF IInv, TypeOK, Scripts, Release, Copied
    <2>2. BundleInv' BY <1>4 DEF IInv, BundleInv, Moved, Replaced, Release, Copied
    <2>3. NotedInv' BY <1>4
      DEF IInv, TypeOK, NotedInv, Moved, ScriptRuns, Release, Copied
    <2> QED BY <2>1, <2>2, <2>3 DEF IInv
  <1>5. CASE Own
    <2>1. TypeOK' BY <1>5 DEF IInv, TypeOK, Scripts, Release, Own
    <2>2. BundleInv' BY <1>5 DEF IInv, BundleInv, Moved, Replaced, Release, Own
    <2>3. NotedInv' BY <1>5 DEF IInv, TypeOK, NotedInv, Moved, ScriptRuns, Release, Own
    <2> QED BY <2>1, <2>2, <2>3 DEF IInv
  <1>6. CASE Verify
    <2>1. TypeOK' BY <1>6 DEF IInv, TypeOK, Scripts, Release, Verify
    <2>2. BundleInv' BY <1>6 DEF IInv, BundleInv, Moved, Replaced, Release, Verify
    <2>3. NotedInv' BY <1>6
      DEF IInv, TypeOK, NotedInv, Moved, ScriptRuns, Release, Verify
    <2> QED BY <2>1, <2>2, <2>3 DEF IInv
  <1>7. CASE Remove
    <2>1. TypeOK' BY <1>7 DEF IInv, TypeOK, Scripts, Release, Remove
    <2>2. BundleInv' BY <1>7 DEF IInv, BundleInv, Moved, Replaced, Release, Remove
    <2>3. NotedInv' BY <1>7
      DEF IInv, TypeOK, NotedInv, Moved, ScriptRuns, Release, Remove
    <2> QED BY <2>1, <2>2, <2>3 DEF IInv
  <1>8. CASE Restore
    <2>1. TypeOK' BY <1>8 DEF IInv, TypeOK, Scripts, Release, Restore
    <2>2. BundleInv' BY <1>8 DEF IInv, BundleInv, Moved, Replaced, Release, Restore
    <2>3. NotedInv' BY <1>8
      DEF IInv, TypeOK, NotedInv, Moved, ScriptRuns, Release, Restore
    <2> QED BY <2>1, <2>2, <2>3 DEF IInv
  <1>9. CASE ReopenOld
    <2>1. TypeOK' BY <1>9
      DEF IInv, TypeOK, Scripts, Release, ReopenOld, reopen, Launches
    <2>2. BundleInv' BY <1>9
      DEF IInv, BundleInv, Moved, Replaced, Release, ReopenOld, reopen,
          Launches
    <2>3. NotedInv' BY <1>9
      DEF IInv, TypeOK, NotedInv, Moved, ScriptRuns, Release, ReopenOld,
          reopen, Launches
    <2> QED BY <2>1, <2>2, <2>3 DEF IInv
  <1>10. CASE Drop
    <2>1. TypeOK' BY <1>10 DEF IInv, TypeOK, Scripts, Release, Drop
    <2>2. BundleInv' BY <1>10 DEF IInv, BundleInv, Moved, Replaced, Release, Drop
    <2>3. NotedInv' BY <1>10
      DEF IInv, TypeOK, NotedInv, Moved, ScriptRuns, Release, Drop
    <2> QED BY <2>1, <2>2, <2>3 DEF IInv
  <1>11. CASE Service
    <2>1. TypeOK' BY <1>11
      DEF IInv, TypeOK, BundleInv, Replaced, Scripts, Release, Service
    <2>2. BundleInv' BY <1>11 DEF IInv, BundleInv, Moved, Replaced, Release, Service
    <2>3. NotedInv'
      <3>1. target = "new" /\ wasRunning
        BY <1>11 DEF IInv, BundleInv, Replaced, NotedInv, Service
      <3> QED BY <1>11, <3>1
        DEF IInv, TypeOK, NotedInv, Moved, ScriptRuns, Release, Service
    <2> QED BY <2>1, <2>2, <2>3 DEF IInv
  <1>12. CASE Reopen
    <2>1. TypeOK' BY <1>12
      DEF IInv, TypeOK, BundleInv, Replaced, Scripts, Release, Reopen, reopen,
          Launches
    <2>2. BundleInv' BY <1>12
      DEF IInv, BundleInv, Moved, Replaced, Release, Reopen, reopen, Launches
    <2>3. NotedInv' BY <1>12
      DEF IInv, TypeOK, NotedInv, Moved, ScriptRuns, Release, Reopen, reopen,
          Launches
    <2> QED BY <2>1, <2>2, <2>3 DEF IInv
  <1>13. CASE Clean
    <2>1. TypeOK' BY <1>13 DEF IInv, TypeOK, Scripts, Release, Clean
    <2>2. BundleInv' BY <1>13 DEF IInv, BundleInv, Moved, Replaced, Release, Clean
    <2>3. NotedInv' BY <1>13
      DEF IInv, TypeOK, NotedInv, Moved, ScriptRuns, Release, Clean
    <2> QED BY <2>1, <2>2, <2>3 DEF IInv
  <1>14. CASE Died
    <2>1. TypeOK' BY <1>14 DEF IInv, TypeOK, Scripts, Release, Died
    <2>2. BundleInv' BY <1>14 DEF IInv, BundleInv, Moved, Replaced, Release, Died
    <2>3. NotedInv' BY <1>14
      DEF IInv, TypeOK, NotedInv, Moved, ScriptRuns, Release, Died
    <2> QED BY <2>1, <2>2, <2>3 DEF IInv
  <1> QED BY
    <1>1, <1>2, <1>3, <1>4, <1>5, <1>6, <1>7, <1>8, <1>9, <1>10, <1>11, <1>12,
    <1>13, <1>14 DEF Script

(* It says nothing of other variables. *)
LEMMA StutterInv ==
  ASSUME IInv, UNCHANGED vars
  PROVE  IInv'
  <1>1. UNCHANGED <<version, job, wasRunning, updates, script, target, backup, left,
                    service, touched, errorFile, told>>
    BY DEF vars, app, install, bundle, running, message
  <1>2. TypeOK' BY <1>1 DEF IInv, TypeOK
  <1>3. BundleInv' BY <1>1 DEF IInv, BundleInv, Moved, Replaced
  <1>4. NotedInv' BY <1>1 DEF IInv, NotedInv, Moved, ScriptRuns
  <1> QED BY <1>2, <1>3, <1>4 DEF IInv

(* The invariant holds throughout, however the update is interrupted.        *)
THEOREM Invariant == Spec => []IInv
  <1>1. IInv /\ [Next]_vars => IInv'
    BY ApplicationInv, ScriptInv, StutterInv DEF Next
  <1> QED
    BY InitInv, <1>1, PTL DEF Spec

(* Wherever the update ends there is a whole bundle, in its place when the   *)
(* script ends by itself, and the service is as it was left or the user told. *)
THEOREM ApplicationSurvives == Spec => []AppSurvives
  <1>1. IInv => AppSurvives
    BY DEF IInv, TypeOK, BundleInv, NotedInv, Replaced, Release, AppSurvives
  <1> QED
    BY <1>1, Invariant, PTL
==============================================================================
