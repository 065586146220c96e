-------------------------- MODULE DagExecutorProofs --------------------------
(***************************************************************************)
(* Theorems about DagExecutor, for every DAG and every value of the        *)
(* options: its types, for any number of processes; its safety, by an      *)
(* inductive invariant, and that it implements DagContract, while one      *)
(* process at a time works on the DAG.                                     *)
(***************************************************************************)
EXTENDS DagExecutor, FiniteSetTheorems, TLAPS

(* The layering exists because the validator admits acyclic graphs only.     *)
LEMMA WaveOfLayers ==
  /\ Cardinality(Step) \in Nat /\ Cardinality(Step) >= 1
  /\ WaveOf \in [Step -> 1 .. Cardinality(Step)]
  /\ \A s \in Step : \A d \in DependsOn[s] : WaveOf[d] < WaveOf[s]
  <1>1. WaveOf \in [Step -> 1 .. Cardinality(Step)] /\ IsLayering(WaveOf)
    BY DagValidated DEF WaveOf
  <1>2. Cardinality(Step) \in Nat
    BY FS_CardinalityType, ConstantsAssumption
  <1>3. PICK s \in Step : WaveOf[s] \in 1 .. Cardinality(Step)
    BY <1>1, ConstantsAssumption
  <1> QED
    BY <1>1, <1>2, <1>3 DEF IsLayering

LEMMA NextWaveExists ==
  ASSUME NEW n \in 0 .. Cardinality(Step), ~IsLastWave(n)
  PROVE  n + 1 \in 0 .. Cardinality(Step)
  <1>1. PICK s \in Step : ~(WaveOf[s] <= n)
    BY DEF IsLastWave
  <1> QED
    BY <1>1, WaveOfLayers

USE DEF StepStatus, DagStatus, StepResult

LEMMA TypeInit == Init => TypeOK
  BY ConstantsAssumption, WaveOfLayers DEF Init, TypeOK

LEMMA TypeNext == TypeOK /\ [Next]_vars => TypeOK'
  <1> SUFFICES ASSUME TypeOK, [Next]_vars PROVE TypeOK'
    OBVIOUS
  <1>1. ASSUME NEW p \in Proc, Submit(p) PROVE TypeOK'
    BY <1>1 DEF TypeOK, Submit, Ready, procs, sessions, canceller
  <1>2. ASSUME NEW p \in Proc, BeginResume(p) PROVE TypeOK'
    BY <1>2 DEF TypeOK, BeginResume, Ready, record, sessions, canceller
  <1>3. ASSUME NEW p \in Proc, NEW s \in Step, ResetStep(p, s) PROVE TypeOK'
    BY <1>3 DEF TypeOK, ResetStep, procs, sessions, canceller
  <1>4. ASSUME NEW p \in Proc, BeginExecute(p) PROVE TypeOK'
    BY <1>4, WaveOfLayers DEF TypeOK, BeginExecute, StepsOfWave, procs, sessions, canceller
  <1>5. ASSUME NEW p \in Proc, NEW s \in Step, KeepStep(p, s) PROVE TypeOK'
    BY <1>5 DEF TypeOK, KeepStep, Visited, procs, sessions, canceller
  <1>6. ASSUME NEW p \in Proc, NEW s \in Step, SkipStep(p, s) PROVE TypeOK'
    BY <1>6 DEF TypeOK, SkipStep, Visited, Resolve, procs, sessions, canceller
  <1>7. ASSUME NEW p \in Proc, NEW s \in Step, RefuseStep(p, s) PROVE TypeOK'
    BY <1>7 DEF TypeOK, RefuseStep, Visited, Resolve, procs, sessions, canceller
  <1>8. ASSUME NEW p \in Proc, NEW s \in Step, LaunchStep(p, s) PROVE TypeOK'
    BY <1>8 DEF TypeOK, LaunchStep, Visited, procs, sessions, canceller
  <1>9. ASSUME NEW p \in Proc, NEW s \in Step, CompleteStep(p, s) PROVE TypeOK'
    BY <1>9 DEF TypeOK, CompleteStep, Settling, Resolve, Release, procs, canceller
  <1>10. ASSUME NEW p \in Proc, CountWaves(p) \/ EnterWave(p) PROVE TypeOK'
    <2>1. currentWave' \in 0 .. Cardinality(Step)
      BY <1>10, WaveOfLayers DEF TypeOK, CountWaves, EnterWave, WaveEntered
    <2>2. pc' \in [Proc -> {"idle", "prepare", "begun", "entering", "dispatch", "await"}]
      BY <1>10 DEF TypeOK, CountWaves, EnterWave, WaveEntered
    <2>3. UNCHANGED <<dagStatus, stepStatus, retryCount, procs, skipTerminal, wave, steps,
                     snapRetry, todo, result, sessions, canceller>>
      BY <1>10 DEF CountWaves, EnterWave, WaveEntered
    <2> QED
      BY <2>1, <2>2, <2>3 DEF TypeOK, procs, sessions, canceller
  <1>11. ASSUME NEW p \in Proc, NEW s \in Step, FailStep(p, s) PROVE TypeOK'
    BY <1>11 DEF TypeOK, FailStep, Rejected, Settling, Resolve, Release, procs, canceller
  <1>12. ASSUME NEW p \in Proc, NEW s \in Step, RetryStep(p, s) PROVE TypeOK'
    BY <1>12, ConstantsAssumption DEF TypeOK, RetryStep, Rejected, Settling,
       RetriesLeft, procs, canceller
  <1>13. ASSUME NEW p \in Proc, NEW s \in Step, RetryRefused(p, s) PROVE TypeOK'
    BY <1>13, ConstantsAssumption DEF TypeOK, RetryRefused, Rejected, Settling,
       RetriesLeft, Resolve, Release, procs, canceller
  <1>14. ASSUME NEW p \in Proc, NextWave(p) PROVE TypeOK'
    BY <1>14, NextWaveExists DEF TypeOK, NextWave, WaveAdvances, WaveSettled, Mirrored,
       StepsOfWave, procs, sessions, canceller
  <1>15. ASSUME NEW p \in Proc, StopCancelled(p) PROVE TypeOK'
    BY <1>15 DEF TypeOK, StopCancelled, WaveSettled, Returned, procs, sessions, canceller
  <1>16. ASSUME NEW p \in Proc, Conclude(p) PROVE TypeOK'
    BY <1>16 DEF TypeOK, Conclude, WaveSettled, Returned, DetectCompletion,
       procs, sessions, canceller
  <1>17. ASSUME NEW p \in Proc, Cancel(p) PROVE TypeOK'
    BY <1>17 DEF TypeOK, Cancel, Ready, record, procs, loop
  <1>18. ASSUME NEW p \in Proc, NEW s \in Step, CancelStep(p, s) PROVE TypeOK'
    BY <1>18 DEF TypeOK, CancelStep, procs, loop, sessions
  <1>19. ASSUME NEW p \in Proc, CancelDag(p) PROVE TypeOK'
    BY <1>19 DEF TypeOK, CancelDag, procs, loop, sessions
  <1>20. ASSUME NEW p \in Proc, Start(p) PROVE TypeOK'
    BY <1>20, ConstantsAssumption DEF TypeOK, Start, Started, loop, sessions, canceller
  <1>21. ASSUME NEW p \in Proc, StartAndMarkStale(p) PROVE TypeOK'
    BY <1>21, ConstantsAssumption DEF TypeOK, StartAndMarkStale, Started, loop,
       sessions, canceller
  <1>22. ASSUME NEW p \in Proc, Crash(p) PROVE TypeOK'
    BY <1>22 DEF TypeOK, Crash, record
  <1>23. CASE UNCHANGED vars
    BY <1>23 DEF TypeOK, vars, record, procs, loop, sessions, canceller
  <1> QED
    BY <1>1, <1>2, <1>3, <1>4, <1>5, <1>6, <1>7, <1>8, <1>9, <1>10,
       <1>11, <1>12, <1>13, <1>14, <1>15, <1>16, <1>17, <1>18, <1>19, <1>20, <1>21, <1>22, <1>23
    DEF Next, Turn, Settle

(* Every retry count stays within MaxRetries, every wave number within the   *)
(* waves there are, and what a dead process held is gone, for any number of  *)
(* processes.                                                                *)
THEOREM TypesHold == Spec => []TypeOK
  <1> QED
    BY TypeInit, TypeNext, PTL DEF Spec

-----------------------------------------------------------------------------
(* The inductive invariant for one process at a time.  It says how the       *)
(* record on disk, the executor's snapshot and the live sessions fit          *)
(* together; each part is named for what it is about.                         *)
SingleProcess == \A p, q \in Proc : p = q

Executing(p) == pc[p] \in {"begun", "entering", "dispatch", "await"}

Ahead(p, s) == WaveOf[s] > wave[p] \/ s \in todo[p]

(* Where a process can be, and what it can be in the middle of.              *)
Places ==
  \A p \in Proc :
    /\ p \notin up => pc[p] = "idle"
    /\ pc[p] \in {"idle", "await"} => todo[p] = {}
    /\ pc[p] = "prepare" => \A s \in Step : stepStatus[s] = "running" <=> s \in todo[p]
    /\ Executing(p) => \A s \in todo[p] : WaveOf[s] = wave[p]
    /\ pc[p] \in {"begun", "entering"} => todo[p] = StepsOfWave(wave[p])
    /\ pc[p] = "begun" => wave[p] = 1
    /\ p \in cancelling => pc[p] \in {"idle", "await"}
    /\ p \notin cancelling => cancelTodo[p] = {}
    /\ p \in cancelling =>
         \A s \in Step : stepStatus[s] \in {"pending", "running"} <=> s \in cancelTodo[p]
    /\ p \in queued => pc[p] = "idle"

(* What the status of the DAG says about the process.                        *)
Statuses ==
  \A p \in Proc :
    /\ pc[p] = "prepare" => dagStatus \in {"pending", "running", "cancelled"}
    /\ pc[p] = "prepare" /\ dagStatus = "pending" => ~skipTerminal[p]
    /\ pc[p] \in {"begun", "entering", "dispatch"} => dagStatus = "running"
    /\ pc[p] = "await" => dagStatus \in {"running", "cancelled"}
    /\ p \in queued => dagStatus \in {"running", "cancelled"}
    /\ dagStatus = "cancelled" /\ (p \in queued \/ pc[p] = "prepare") =>
         \A s \in Step : stepStatus[s] \notin {"pending", "running"}
    /\ p \in cancelling => dagStatus \in {"pending", "running", "stale"}
    /\ dagStatus = "none" =>
         \A s \in Step : stepStatus[s] = "pending" /\ launches[s] = 0

(* A first execution has nothing to keep: its snapshot was all pending.      *)
FirstExecution ==
  \A p \in Proc : \A s \in Step :
    ~skipTerminal[p] =>
      /\ pc[p] = "prepare" => stepStatus[s] = "pending"
      /\ Executing(p) /\ Ahead(p, s) => ~IsTerminal(steps[p][s])

(* An agent works only on a step of the wave being run, that is running on   *)
(* disk (or cancelled, when the agent was told so).                          *)
Agents ==
  \A p \in Proc : \A s \in Step :
    /\ session[p][s] # "none" =>
         /\ Executing(p) /\ WaveOf[s] = wave[p] /\ s \notin todo[p]
         /\ result[p][s] = "none" /\ tries[p][s] = retryCount[s]
         /\ stepStatus[s] \in {"running", "cancelled"}
         /\ Gate[s] = "needs" /\ FailFast =>
              \A d \in DependsOn[s] : steps[p][d] = "completed"
    /\ session[p][s] = "live" => stepStatus[s] = "running" /\ p \notin cancelling
    /\ session[p][s] = "aborted" /\ p \notin cancelling => stepStatus[s] = "cancelled"

(* Waves behind are settled, and the snapshot of them is the record; a step  *)
(* of this wave without an agent is settled; steps ahead are untouched.      *)
Snapshot ==
  \A p \in Proc : \A s \in Step : Executing(p) =>
    /\ WaveOf[s] < wave[p] =>
         /\ IsTerminal(steps[p][s]) /\ stepStatus[s] = steps[p][s]
         /\ result[p][s] = "none"
    /\ WaveOf[s] = wave[p] /\ s \notin todo[p] /\ session[p][s] = "none" =>
         /\ IsTerminal(Mirrored(p)[s]) /\ stepStatus[s] = Mirrored(p)[s]
    /\ Ahead(p, s) =>
         /\ steps[p][s] # "running" /\ result[p][s] = "none"
         /\ snapRetry[p][s] = retryCount[s]
         /\ dagStatus = "running" /\ p \notin cancelling => stepStatus[s] = steps[p][s]

(* A skipped step has dependencies that stay as they are.                    *)
Skipped ==
  \A s \in Step : stepStatus[s] = "skipped" =>
    \A d \in DependsOn[s] :
      IsTerminal(stepStatus[d]) /\ \A p \in Proc : session[p][d] = "none"

(* A concluded DAG is at rest.                                               *)
AtRest ==
  dagStatus \in {"completed", "failed"} =>
    \A p \in Proc : pc[p] = "idle" /\ p \notin queued /\ p \notin cancelling

(* A step the process may still launch has a start to its account.           *)
MayLaunch(p, s) ==
  p \in up /\ ( \/ p \in queued \/ pc[p] = "prepare" \/ dagStatus = "none"
                \/ Executing(p) /\ Ahead(p, s) )

Account ==
  /\ up # {} => starts >= 1
  /\ \A p \in Proc : \A s \in Step :
       MayLaunch(p, s) => launches[s] + 1 <= retryCount[s] + starts

IInv ==
  /\ TypeOK /\ Places /\ Statuses /\ FirstExecution /\ Agents /\ Snapshot
  /\ Skipped /\ AtRest /\ Account
  /\ SkipJustified /\ VerdictSound /\ RetryBudget /\ OwnedWhileRunning


(* A step the loop still has to visit, and does not keep, is open on disk.   *)
LEMMA DispatchOpen ==
  ASSUME IInv, NEW p \in Proc, NEW s \in Step, Dispatching(p, s), ~KeptTerminal(p, s)
  PROVE  ~IsTerminal(stepStatus[s]) /\ stepStatus[s] = steps[p][s] /\ session[p][s] = "none"
  <1>1. pc[p] = "dispatch" /\ s \in todo[p] /\ dagStatus = "running" /\ p \notin cancelling
    BY DEF Dispatching, InTurn, IInv, Statuses, Places
  <1>2. stepStatus[s] = steps[p][s] /\ session[p][s] = "none"
    BY <1>1 DEF IInv, Snapshot, Agents, Executing, Ahead
  <1>3. ~IsTerminal(steps[p][s])
    BY <1>1 DEF IInv, TypeOK, FirstExecution, Executing, Ahead, KeptTerminal
  <1> QED
    BY <1>2, <1>3

(* When the last wave has settled, the mirrored snapshot is the record.      *)
LEMMA LastWaveSettled ==
  ASSUME IInv, NEW p \in Proc, WaveSettled(p), IsLastWave(wave[p])
  PROVE  \A s \in Step : IsTerminal(Mirrored(p)[s]) /\ stepStatus[s] = Mirrored(p)[s]
  <1>1. pc[p] = "await" /\ todo[p] = {} /\ Executing(p)
    BY DEF WaveSettled, IInv, Places, Executing
  <1>2. ASSUME NEW s \in Step
        PROVE  IsTerminal(Mirrored(p)[s]) /\ stepStatus[s] = Mirrored(p)[s]
    <2>1. CASE WaveOf[s] < wave[p]
      BY <1>1, <2>1 DEF IInv, Snapshot, Mirrored
    <2>2. CASE WaveOf[s] = wave[p]
      BY <1>1, <2>2 DEF IInv, Snapshot, WaveSettled
    <2>3. WaveOf[s] \in Nat /\ wave[p] \in Nat /\ WaveOf[s] <= wave[p]
      BY WaveOfLayers DEF IsLastWave, IInv, TypeOK
    <2> QED
      BY <2>1, <2>2, <2>3
  <1> QED
    BY <1>2

(* A change to a step that is not skipped, and on which no skip rests, or    *)
(* that ends badly, leaves every skip justified.                             *)
LEMMA SkipStays ==
  ASSUME SkipJustified, NEW s \in Step, NEW status, stepStatus \in [Step -> StepStatus],
         status # "skipped",
         \/ stepStatus[s] \notin {"failed", "skipped", "cancelled"}
         \/ status \in {"failed", "cancelled"}
         \/ \A t \in Step : stepStatus[t] = "skipped" => s \notin DependsOn[t],
         stepStatus' = [stepStatus EXCEPT ![s] = status]
  PROVE  SkipJustified'
  BY ConstantsAssumption DEF SkipJustified

(* The record exists from here on; nothing of it was touched before. *)
LEMMA SubmitKeeps ==
  ASSUME SingleProcess, IInv, NEW p \in Proc, Submit(p)
  PROVE  IInv'
  <1>1. TypeOK /\ TypeOK' /\ \A q \in Proc : q = p
    BY TypeNext DEF IInv, Next, SingleProcess
  <1>2. (Skipped /\ SkipJustified /\ RetryBudget)'
    BY DEF IInv, Skipped, SkipJustified, RetryBudget, Submit, procs, sessions
  <1>3. Places'
    BY DEF IInv, Places, Executing, Statuses, Submit, Ready, procs, canceller
  <1>4. Statuses'
    BY DEF IInv, TypeOK, Statuses, Submit, procs
  <1>5. FirstExecution'
    BY DEF IInv, Statuses, FirstExecution, Executing, Submit
  <1>6. Agents'
    BY DEF IInv, Statuses, Agents, Submit, sessions
  <1>7. Snapshot'
    BY DEF IInv, Snapshot, Executing, Ahead, Mirrored, Submit, sessions
  <1>8. AtRest'
    BY DEF AtRest, Submit
  <1>9. Account'
    BY DEF IInv, Account, MayLaunch, Submit, procs, sessions
  <1>10. VerdictSound'
    BY DEF VerdictSound, Submit
  <1>11. OwnedWhileRunning'
    BY DEF OwnedWhileRunning, Submit
  <1> QED
    BY <1>1, <1>2, <1>3, <1>4, <1>5, <1>6, <1>7, <1>8, <1>9, <1>10, <1>11 DEF IInv

(* The steps to reset are the ones running on disk. *)
LEMMA BeginResumeKeeps ==
  ASSUME SingleProcess, IInv, NEW p \in Proc, BeginResume(p)
  PROVE  IInv'
  <1>1. TypeOK /\ TypeOK' /\ \A q \in Proc : q = p
    BY TypeNext DEF IInv, Next, SingleProcess
  <1>2. (Skipped /\ SkipJustified /\ VerdictSound /\ RetryBudget)'
    BY DEF IInv, Skipped, SkipJustified, VerdictSound, InFlight, RetryBudget,
       BeginResume, record, sessions
  <1>3. Places'
    BY DEF IInv, TypeOK, Places, Executing, BeginResume, Ready, record, canceller
  <1>4. Statuses'
    BY DEF IInv, Statuses, BeginResume, record, canceller
  <1>5. FirstExecution'
    BY DEF IInv, TypeOK, FirstExecution, Executing, Ahead, BeginResume, record
  <1>6. Agents'
    BY DEF IInv, Agents, Executing, BeginResume, record, sessions, canceller
  <1>7. Snapshot'
    BY DEF IInv, Snapshot, Executing, Ahead, Mirrored, BeginResume, record, sessions,
       canceller
  <1>8. AtRest'
    BY DEF IInv, AtRest, BeginResume, record
  <1>9. Account'
    BY DEF IInv, Account, MayLaunch, BeginResume, Ready, record, sessions
  <1>10. OwnedWhileRunning'
    BY DEF IInv, TypeOK, OwnedWhileRunning, BeginResume
  <1> QED
    BY <1>1, <1>2, <1>3, <1>4, <1>5, <1>6, <1>7, <1>8, <1>9, <1>10 DEF IInv

(* A step is reset only before any snapshot of it is taken. *)
LEMMA ResetStepKeeps ==
  ASSUME SingleProcess, IInv, NEW p \in Proc, NEW s \in Step, ResetStep(p, s)
  PROVE  IInv'
  <1>1. TypeOK /\ TypeOK' /\ \A q \in Proc : q = p
    BY TypeNext DEF IInv, Next, Turn, SingleProcess
  <1>2. (AtRest /\ RetryBudget /\ OwnedWhileRunning)'
    BY DEF IInv, AtRest, RetryBudget, OwnedWhileRunning, ResetStep, procs, sessions,
       InTurn
  <1>3. Places'
    BY <1>1 DEF IInv, TypeOK, Places, Executing, ResetStep, InTurn, procs, canceller
  <1>4. Statuses'
    BY DEF IInv, Places, Statuses, ResetStep, procs, InTurn
  <1>5. FirstExecution'
    BY DEF IInv, FirstExecution, Executing, Ahead, ResetStep
  <1>6. Agents'
    BY <1>1 DEF IInv, Agents, Executing, ResetStep, sessions, InTurn
  <1>7. Snapshot'
    BY DEF IInv, Places, Snapshot, Executing, Ahead, Mirrored, IsTerminal, ResetStep,
       sessions, canceller, InTurn
  <1>8. Skipped'
    BY DEF IInv, Places, Skipped, IsTerminal, ResetStep, sessions, InTurn
  <1>9. Account'
    BY DEF IInv, Account, MayLaunch, ResetStep, procs, sessions, InTurn
  <1>10. SkipJustified'
    <2>1. stepStatus[s] = "running"
      BY DEF IInv, Places, ResetStep, InTurn
    <2> QED
      BY <1>1, <2>1, SkipStays DEF IInv, TypeOK, ResetStep
  <1>11. VerdictSound'
    BY DEF IInv, AtRest, VerdictSound, ResetStep, InTurn
  <1> QED
    BY <1>1, <1>2, <1>3, <1>4, <1>5, <1>6, <1>7, <1>8, <1>9, <1>10, <1>11 DEF IInv

(* The snapshot is the record, and no wave is behind yet. *)
LEMMA BeginExecuteKeeps ==
  ASSUME SingleProcess, IInv, NEW p \in Proc, BeginExecute(p)
  PROVE  IInv'
  <1>1. TypeOK /\ TypeOK' /\ \A q \in Proc : q = p
    BY TypeNext DEF IInv, Next, Turn, SingleProcess
  <1>2. (Skipped /\ SkipJustified /\ RetryBudget)'
    BY DEF IInv, Skipped, SkipJustified, RetryBudget, BeginExecute, procs, sessions
  <1>3. Places'
    BY DEF IInv, TypeOK, Places, Executing, BeginExecute, StepsOfWave, procs, canceller, InTurn
  <1>4. Statuses'
    BY DEF Statuses, BeginExecute
  <1>5. FirstExecution'
    BY DEF IInv, TypeOK, FirstExecution, Executing, Ahead, IsTerminal, BeginExecute,
       InTurn
  <1>6. Agents'
    BY DEF IInv, Agents, Executing, BeginExecute, sessions, canceller, InTurn
  <1>7. Snapshot'
    BY <1>1, WaveOfLayers DEF IInv, TypeOK, Places, Snapshot, BeginExecute,
       StepsOfWave, InTurn
  <1>8. AtRest'
    BY DEF AtRest, BeginExecute
  <1>9. Account'
    BY DEF IInv, Account, MayLaunch, BeginExecute, procs, sessions, InTurn
  <1>10. VerdictSound'
    BY DEF VerdictSound, BeginExecute
  <1>11. OwnedWhileRunning'
    BY DEF OwnedWhileRunning, BeginExecute, procs, InTurn
  <1> QED
    BY <1>1, <1>2, <1>3, <1>4, <1>5, <1>6, <1>7, <1>8, <1>9, <1>10, <1>11 DEF IInv

(* The two progress writes disturb no step and no session. *)
LEMMA ProgressWritesKeep ==
  ASSUME SingleProcess, IInv, NEW p \in Proc, CountWaves(p) \/ EnterWave(p)
  PROVE  IInv'
  <1>1. TypeOK /\ TypeOK' /\ \A q \in Proc : q = p
    BY TypeNext DEF IInv, Next, Turn, SingleProcess
  <1>2. /\ pc[p] \in {"begun", "entering"} /\ pc'[p] \in {"entering", "dispatch"}
        /\ p \in up
        /\ UNCHANGED <<dagStatus, stepStatus, retryCount, procs, skipTerminal, wave, steps,
                       snapRetry, todo, result, sessions, canceller>>
    BY <1>1 DEF TypeOK, CountWaves, EnterWave, WaveEntered, InTurn
  <1>3. (Skipped /\ SkipJustified /\ VerdictSound /\ RetryBudget)'
    BY <1>2 DEF IInv, Skipped, SkipJustified, VerdictSound, InFlight, RetryBudget, procs,
       sessions
  <1>4. (Places /\ Statuses /\ FirstExecution)'
    BY <1>1, <1>2 DEF IInv, Places, Statuses, FirstExecution, Executing, Ahead, procs,
       sessions, canceller
  <1>5. (Agents /\ Snapshot)'
    BY <1>1, <1>2 DEF IInv, Agents, Snapshot, Executing, Ahead, Mirrored, sessions, canceller
  <1>6. (AtRest /\ Account /\ OwnedWhileRunning)'
    BY <1>1, <1>2 DEF IInv, AtRest, Account, MayLaunch, Executing, Ahead, OwnedWhileRunning,
       procs, sessions
  <1> QED
    BY <1>1, <1>3, <1>4, <1>5, <1>6 DEF IInv

(* A settled step counts as visited without a session or a result. *)
LEMMA KeepStepKeeps ==
  ASSUME SingleProcess, IInv, NEW p \in Proc, NEW s \in Step, KeepStep(p, s)
  PROVE  IInv'
  <1>1. TypeOK /\ TypeOK' /\ \A q \in Proc : q = p
    BY TypeNext DEF IInv, Next, Turn, SingleProcess
  <1>2. (Skipped /\ SkipJustified /\ VerdictSound /\ RetryBudget)'
    BY DEF IInv, Skipped, SkipJustified, VerdictSound, InFlight, RetryBudget,
       KeepStep, Visited, procs, sessions
  <1>3. Places'
    BY DEF IInv, TypeOK, Places, Executing, KeepStep, Visited, procs, canceller, Dispatching,
       InTurn
  <1>4. Statuses'
    BY DEF IInv, Statuses, KeepStep, Visited, Dispatching, InTurn
  <1>5. FirstExecution'
    BY DEF IInv, FirstExecution, Executing, Ahead, KeepStep, Visited, Dispatching,
       InTurn
  <1>6. Agents'
    BY DEF IInv, Agents, Executing, KeepStep, Visited, sessions, canceller
  <1>7. Snapshot'
    BY DEF IInv, Places, Statuses, Snapshot, Executing, Ahead, Mirrored, KeepStep,
       Visited, sessions, canceller, Dispatching, InTurn, KeptTerminal
  <1>8. AtRest'
    BY DEF IInv, AtRest, KeepStep, Visited, Dispatching, InTurn
  <1>9. Account'
    BY DEF IInv, Account, MayLaunch, Executing, Ahead, KeepStep, Visited, procs,
       sessions, Dispatching, InTurn
  <1>10. OwnedWhileRunning'
    BY DEF OwnedWhileRunning, KeepStep, Visited, procs, Dispatching, InTurn
  <1> QED
    BY <1>1, <1>2, <1>3, <1>4, <1>5, <1>6, <1>7, <1>8, <1>9, <1>10 DEF IInv

(* The gate refuses: a dependency, settled behind, did not complete. *)
LEMMA SkipStepKeeps ==
  ASSUME SingleProcess, IInv, NEW p \in Proc, NEW s \in Step, SkipStep(p, s)
  PROVE  IInv'
  <1>1. TypeOK /\ TypeOK' /\ \A q \in Proc : q = p
    BY TypeNext DEF IInv, Next, Turn, SingleProcess
  <1>2. RetryBudget'
    BY DEF IInv, RetryBudget, SkipStep, Visited, procs, sessions
  <1>3. Places'
    BY <1>1 DEF IInv, TypeOK, Places, Executing, SkipStep, Visited, procs, canceller,
       Dispatching, InTurn
  <1>4. Statuses'
    BY DEF IInv, Statuses, SkipStep, Visited, Dispatching, InTurn
  <1>5. FirstExecution'
    BY <1>1 DEF IInv, FirstExecution, Executing, Ahead, SkipStep, Visited,
       Dispatching, InTurn
  <1>6. Agents'
    BY <1>1 DEF IInv, Agents, Executing, SkipStep, Visited, Resolve, sessions,
       canceller, Dispatching
  <1>7. Snapshot'
    BY <1>1 DEF IInv, TypeOK, Places, Snapshot, Executing, Ahead, Mirrored,
       IsTerminal, SkipStep, Visited, Resolve, sessions, Dispatching, InTurn
  <1>8. Skipped'
    BY <1>1, ConstantsAssumption, WaveOfLayers DEF IInv, Places, Agents, Snapshot,
       Skipped, Executing, IsTerminal, SkipStep, Resolve, sessions, Dispatching, InTurn
  <1>9. AtRest'
    BY DEF IInv, AtRest, SkipStep, Visited, Dispatching, InTurn
  <1>10. Account'
    BY DEF IInv, Account, MayLaunch, Executing, Ahead, SkipStep, Visited, procs,
       sessions, Dispatching, InTurn
  <1>11. SkipJustified'
    <2>1. /\ ~IsTerminal(stepStatus[s])
          /\ stepStatus' = [stepStatus EXCEPT ![s] = "skipped"]
          /\ stepStatus \in [Step -> StepStatus]
      BY <1>1, DispatchOpen DEF SkipStep, Resolve, TypeOK
    <2>2. ASSUME NEW d \in DependsOn[s]
          PROVE  d \in Step /\ IsTerminal(steps[p][d]) /\ stepStatus[d] = steps[p][d]
      <3>1. Executing(p) /\ WaveOf[s] = wave[p]
        BY DEF SkipStep, Dispatching, InTurn, IInv, Places, Executing
      <3>2. d \in Step /\ WaveOf[d] < wave[p]
        BY <3>1, WaveOfLayers, ConstantsAssumption
      <3> QED
        BY <3>1, <3>2 DEF IInv, Snapshot
    <2>3. PICK d \in DependsOn[s] :
            IF Gate[s] = "after" \/ ~FailFast
            THEN ~IsTerminal(steps[p][d]) ELSE steps[p][d] # "completed"
      BY DEF SkipStep, GateAllowsDispatch
    <2>4. /\ Gate[s] = "needs" /\ FailFast
          /\ stepStatus[d] \in {"failed", "skipped", "cancelled"}
      BY <2>2, <2>3, ConstantsAssumption DEF IsTerminal
    <2>5. ASSUME NEW t \in Step, stepStatus'[t] = "skipped"
          PROVE  /\ Gate[t] = "needs" /\ FailFast
                 /\ \E e \in DependsOn[t] :
                      stepStatus'[e] \in {"failed", "skipped", "cancelled"}
      <3>1. CASE t = s
        BY <2>1, <2>4, <3>1
      <3>2. CASE t # s
        BY <2>1, <2>5, <3>2 DEF IInv, SkipJustified
      <3> QED
        BY <3>1, <3>2
    <2> QED
      BY <2>5 DEF SkipJustified
  <1>12. VerdictSound'
    BY DEF IInv, AtRest, VerdictSound, SkipStep, Visited, Dispatching, InTurn
  <1>13. OwnedWhileRunning'
    BY DEF OwnedWhileRunning, SkipStep, Visited, procs, Dispatching, InTurn
  <1> QED
    BY <1>1, <1>2, <1>3, <1>4, <1>5, <1>6, <1>7, <1>8, <1>9, <1>10, <1>11, <1>12,
       <1>13 DEF IInv

(* The step fails in this turn; its result mirrors the record. *)
LEMMA RefuseStepKeeps ==
  ASSUME SingleProcess, IInv, NEW p \in Proc, NEW s \in Step, RefuseStep(p, s)
  PROVE  IInv'
  <1>1. TypeOK /\ TypeOK' /\ \A q \in Proc : q = p
    BY TypeNext DEF IInv, Next, Turn, SingleProcess
  <1>2. RetryBudget'
    BY DEF IInv, RetryBudget, RefuseStep, Visited, procs, sessions
  <1>3. Places'
    BY <1>1 DEF IInv, TypeOK, Places, Executing, RefuseStep, Visited, procs, canceller,
       Dispatching, InTurn
  <1>4. Statuses'
    BY DEF IInv, Statuses, RefuseStep, Visited, Dispatching, InTurn
  <1>5. FirstExecution'
    BY <1>1 DEF IInv, FirstExecution, Executing, Ahead, RefuseStep, Visited,
       Dispatching, InTurn
  <1>6. Agents'
    BY <1>1 DEF IInv, Agents, Executing, RefuseStep, Visited, Resolve, sessions,
       canceller, Dispatching
  <1>7. Snapshot'
    BY <1>1 DEF IInv, TypeOK, Places, Snapshot, Executing, Ahead, Mirrored,
       IsTerminal, RefuseStep, Visited, Resolve, sessions, Dispatching, InTurn
  <1>8. Skipped'
    BY DEF IInv, Skipped, IsTerminal, RefuseStep, Resolve, sessions
  <1>9. AtRest'
    BY DEF IInv, AtRest, RefuseStep, Visited, Dispatching, InTurn
  <1>10. Account'
    BY DEF IInv, Account, MayLaunch, Executing, Ahead, RefuseStep, Visited, procs,
       sessions, Dispatching, InTurn
  <1>11. SkipJustified'
    BY ConstantsAssumption DEF IInv, SkipJustified, RefuseStep, Resolve
  <1>12. VerdictSound'
    BY DEF IInv, AtRest, VerdictSound, RefuseStep, Visited, Dispatching, InTurn
  <1>13. OwnedWhileRunning'
    BY DEF OwnedWhileRunning, RefuseStep, Visited, procs, Dispatching, InTurn
  <1> QED
    BY <1>1, <1>2, <1>3, <1>4, <1>5, <1>6, <1>7, <1>8, <1>9, <1>10, <1>11, <1>12,
       <1>13 DEF IInv

(* The gate allows, on a snapshot that agrees with the record. *)
LEMMA LaunchStepKeeps ==
  ASSUME SingleProcess, IInv, NEW p \in Proc, NEW s \in Step, LaunchStep(p, s)
  PROVE  IInv'
  <1>1. TypeOK /\ TypeOK' /\ \A q \in Proc : q = p
    BY TypeNext DEF IInv, Next, Turn, SingleProcess
  <1>2. Places'
    BY <1>1 DEF IInv, TypeOK, Places, Executing, LaunchStep, Visited, procs, canceller,
       Dispatching, InTurn
  <1>3. Statuses'
    BY DEF IInv, Statuses, LaunchStep, Visited, Dispatching, InTurn
  <1>4. FirstExecution'
    BY <1>1 DEF IInv, FirstExecution, Executing, Ahead, LaunchStep, Visited,
       Dispatching, InTurn
  <1>5. Agents'
    BY <1>1 DEF IInv, TypeOK, Places, Agents, Snapshot, Executing, Ahead, LaunchStep,
       Visited, canceller, Dispatching, InTurn, GateAllowsDispatch
  <1>6. Snapshot'
    BY <1>1 DEF IInv, TypeOK, Places, Snapshot, Executing, Ahead, Mirrored,
       LaunchStep, Visited, Dispatching, InTurn
  <1>7. Skipped'
    BY DispatchOpen DEF IInv, Skipped, LaunchStep
  <1>8. AtRest'
    BY DEF IInv, AtRest, LaunchStep, Visited, Dispatching, InTurn
  <1>9. Account'
    BY <1>1 DEF IInv, TypeOK, Places, Statuses, Account, MayLaunch, Executing, Ahead,
       LaunchStep, Visited, procs, Dispatching, InTurn
  <1>10. SkipJustified'
    <2>1. stepStatus[s] \notin {"failed", "skipped", "cancelled"}
      BY DispatchOpen DEF LaunchStep, IsTerminal
    <2> QED
      BY <1>1, <2>1, SkipStays DEF IInv, TypeOK, LaunchStep
  <1>11. VerdictSound'
    BY DEF IInv, AtRest, VerdictSound, LaunchStep, Visited, Dispatching, InTurn
  <1>12. RetryBudget'
    BY DEF IInv, Account, RetryBudget, MayLaunch, Executing, Ahead, LaunchStep,
       Visited, procs, Dispatching, InTurn
  <1>13. OwnedWhileRunning'
    BY DEF OwnedWhileRunning, LaunchStep, Visited, procs, Dispatching, InTurn
  <1> QED
    BY <1>1, <1>2, <1>3, <1>4, <1>5, <1>6, <1>7, <1>8, <1>9, <1>10, <1>11, <1>12,
       <1>13 DEF IInv

(* The answer settles the step on disk and in the wave alike. *)
LEMMA CompleteStepKeeps ==
  ASSUME SingleProcess, IInv, NEW p \in Proc, NEW s \in Step, CompleteStep(p, s)
  PROVE  IInv'
  <1>1. TypeOK /\ TypeOK' /\ \A q \in Proc : q = p
    BY TypeNext DEF IInv, Next, Settle, SingleProcess
  <1>2. (AtRest /\ Account /\ RetryBudget /\ OwnedWhileRunning)'
    BY DEF IInv, AtRest, Account, MayLaunch, Executing, Ahead, RetryBudget,
       OwnedWhileRunning, CompleteStep, Settling, Release, procs, canceller
  <1>3. Places'
    BY <1>1 DEF IInv, Places, CompleteStep, Settling, procs, canceller, Ready
  <1>4. Statuses'
    BY DEF IInv, Statuses, CompleteStep, Settling, Resolve, procs, canceller, Agents
  <1>5. FirstExecution'
    BY <1>1 DEF IInv, FirstExecution, Executing, Ahead, CompleteStep, Settling, Ready
  <1>6. Agents'
    BY <1>1 DEF IInv, TypeOK, Agents, Executing, CompleteStep, Settling, Resolve,
       Release, canceller
  <1>7. Snapshot'
    BY <1>1 DEF IInv, TypeOK, Agents, Snapshot, Ahead, Mirrored, IsTerminal,
       CompleteStep, Settling, Resolve, Release, Ready
  <1>8. Skipped'
    BY DEF IInv, Skipped, CompleteStep, Settling, Resolve, Release
  <1>9. SkipJustified'
    <2>1. \A t \in Step : stepStatus[t] = "skipped" => s \notin DependsOn[t]
      BY DEF CompleteStep, Settling, IInv, Skipped
    <2> QED
      BY <1>1, <2>1, SkipStays DEF IInv, TypeOK, CompleteStep, Resolve
  <1>10. VerdictSound'
    BY DEF IInv, VerdictSound, InFlight, CompleteStep, Settling
  <1> QED
    BY <1>1, <1>2, <1>3, <1>4, <1>5, <1>6, <1>7, <1>8, <1>9, <1>10 DEF IInv

(* So does the last failure. *)
LEMMA FailStepKeeps ==
  ASSUME SingleProcess, IInv, NEW p \in Proc, NEW s \in Step, FailStep(p, s)
  PROVE  IInv'
  <1>1. TypeOK /\ TypeOK' /\ \A q \in Proc : q = p
    BY TypeNext DEF IInv, Next, Settle, SingleProcess
  <1>2. (AtRest /\ Account /\ RetryBudget /\ OwnedWhileRunning)'
    BY DEF IInv, AtRest, Account, MayLaunch, Executing, Ahead, RetryBudget,
       OwnedWhileRunning, FailStep, Rejected, Settling, Release, procs, canceller
  <1>3. Places'
    BY <1>1 DEF IInv, Places, FailStep, Rejected, Settling, procs, canceller, Ready
  <1>4. Statuses'
    BY DEF IInv, Statuses, FailStep, Rejected, Settling, Resolve, procs, canceller,
       Agents
  <1>5. FirstExecution'
    BY <1>1 DEF IInv, FirstExecution, Executing, Ahead, FailStep, Rejected, Settling,
       Ready
  <1>6. Agents'
    BY <1>1 DEF IInv, TypeOK, Agents, Executing, FailStep, Rejected, Settling,
       Resolve, Release, canceller
  <1>7. Snapshot'
    BY <1>1 DEF IInv, TypeOK, Agents, Snapshot, Ahead, Mirrored, IsTerminal,
       FailStep, Rejected, Settling, Resolve, Release, Ready
  <1>8. Skipped'
    BY DEF IInv, Skipped, FailStep, Rejected, Settling, Resolve, Release
  <1>9. SkipJustified'
    BY ConstantsAssumption DEF IInv, SkipJustified, FailStep, Resolve
  <1>10. VerdictSound'
    BY DEF IInv, VerdictSound, InFlight, FailStep, Rejected, Settling
  <1> QED
    BY <1>1, <1>2, <1>3, <1>4, <1>5, <1>6, <1>7, <1>8, <1>9, <1>10 DEF IInv

(* A retry keeps the step running and pays for its session. *)
LEMMA RetryStepKeeps ==
  ASSUME SingleProcess, IInv, NEW p \in Proc, NEW s \in Step, RetryStep(p, s)
  PROVE  IInv'
  <1>1. TypeOK /\ TypeOK' /\ \A q \in Proc : q = p
    BY TypeNext DEF IInv, Next, Settle, SingleProcess
  <1>2. (AtRest /\ OwnedWhileRunning)'
    BY DEF IInv, AtRest, OwnedWhileRunning, RetryStep, Rejected, Settling, procs,
       canceller
  <1>3. Places'
    BY <1>1 DEF IInv, Places, RetryStep, Rejected, Settling, procs, canceller, Ready
  <1>4. Statuses'
    BY <1>1 DEF IInv, Places, Statuses, RetryStep, Rejected, Settling, procs,
       canceller, Agents, Executing
  <1>5. FirstExecution'
    BY <1>1 DEF IInv, FirstExecution, Executing, Ahead, RetryStep, Rejected,
       Settling, Ready
  <1>6. Agents'
    BY <1>1 DEF IInv, TypeOK, Agents, Executing, RetryStep, Rejected, Settling,
       canceller, Ready
  <1>7. Snapshot'
    BY <1>1 DEF IInv, TypeOK, Agents, Snapshot, Ahead, Mirrored, RetryStep, Rejected,
       Settling, Ready
  <1>8. Skipped'
    BY DEF IInv, Skipped, RetryStep, Rejected, Settling
  <1>9. Account'
    BY DEF IInv, TypeOK, Agents, Account, MayLaunch, Executing, Ahead, RetryStep,
       Rejected, Settling, procs
  <1>10. SkipJustified'
    <2>1. \A t \in Step : stepStatus[t] = "skipped" => s \notin DependsOn[t]
      BY DEF RetryStep, Rejected, Settling, IInv, Skipped
    <2> QED
      BY <1>1, <2>1, SkipStays DEF IInv, TypeOK, RetryStep
  <1>11. VerdictSound'
    BY DEF IInv, VerdictSound, InFlight, RetryStep, Rejected, Settling
  <1>12. RetryBudget'
    BY DEF IInv, TypeOK, Agents, RetryBudget, RetryStep, Rejected, Settling, procs
  <1> QED
    BY <1>1, <1>2, <1>3, <1>4, <1>5, <1>6, <1>7, <1>8, <1>9, <1>10, <1>11,
       <1>12 DEF IInv

(* A retry the circuit refuses settles the step. *)
LEMMA RetryRefusedKeeps ==
  ASSUME SingleProcess, IInv, NEW p \in Proc, NEW s \in Step, RetryRefused(p, s)
  PROVE  IInv'
  <1>1. TypeOK /\ TypeOK' /\ \A q \in Proc : q = p
    BY TypeNext DEF IInv, Next, Settle, SingleProcess
  <1>2. (AtRest /\ OwnedWhileRunning)'
    BY DEF IInv, AtRest, OwnedWhileRunning, RetryRefused, Rejected, Settling, procs,
       canceller
  <1>3. Places'
    BY <1>1 DEF IInv, Places, RetryRefused, Rejected, Settling, procs, canceller, Ready
  <1>4. Statuses'
    BY DEF IInv, Statuses, RetryRefused, Rejected, Settling, Resolve, procs,
       canceller, Agents
  <1>5. FirstExecution'
    BY <1>1 DEF IInv, FirstExecution, Executing, Ahead, RetryRefused, Rejected,
       Settling, Ready
  <1>6. Agents'
    BY <1>1 DEF IInv, TypeOK, Agents, Executing, RetryRefused, Rejected, Settling,
       Resolve, Release, canceller
  <1>7. Snapshot'
    BY <1>1 DEF IInv, TypeOK, Agents, Snapshot, Ahead, Mirrored, IsTerminal,
       RetryRefused, Rejected, Settling, Resolve, Release, Ready
  <1>8. Skipped'
    BY DEF IInv, Skipped, RetryRefused, Rejected, Settling, Resolve, Release
  <1>9. Account'
    BY DEF IInv, TypeOK, Agents, Account, MayLaunch, Executing, Ahead, RetryRefused,
       Rejected, Settling, Release, procs
  <1>10. SkipJustified'
    BY ConstantsAssumption DEF IInv, SkipJustified, RetryRefused, Resolve
  <1>11. VerdictSound'
    BY DEF IInv, VerdictSound, InFlight, RetryRefused, Rejected, Settling
  <1>12. RetryBudget'
    BY DEF IInv, TypeOK, Agents, RetryBudget, RetryRefused, Rejected, Settling,
       Release, procs
  <1> QED
    BY <1>1, <1>2, <1>3, <1>4, <1>5, <1>6, <1>7, <1>8, <1>9, <1>10, <1>11,
       <1>12 DEF IInv

(* The results of the wave move into the snapshot, and the wave behind. *)
LEMMA NextWaveKeeps ==
  ASSUME SingleProcess, IInv, NEW p \in Proc, NextWave(p)
  PROVE  IInv'
  <1>1. TypeOK /\ TypeOK' /\ \A q \in Proc : q = p
    BY TypeNext DEF IInv, Next, Turn, SingleProcess
  <1>2. (Skipped /\ SkipJustified /\ VerdictSound /\ RetryBudget)'
    BY DEF IInv, Skipped, SkipJustified, VerdictSound, InFlight, RetryBudget,
       NextWave, WaveAdvances, WaveSettled, procs, sessions
  <1>3. Places'
    BY DEF IInv, TypeOK, Places, Executing, NextWave, WaveAdvances, WaveSettled,
       StepsOfWave, procs, canceller, Ready
  <1>4. Statuses'
    BY DEF IInv, Statuses, NextWave, WaveAdvances, WaveSettled
  <1>5. FirstExecution'
    BY WaveOfLayers DEF IInv, TypeOK, FirstExecution, Snapshot, Executing, Ahead,
       NextWave, WaveAdvances, WaveSettled, Mirrored, StepsOfWave
  <1>6. Agents'
    BY DEF IInv, Agents, Executing, NextWave, WaveAdvances, WaveSettled, sessions, canceller
  <1>7. Snapshot'
    <2>1. /\ pc[p] = "await" /\ todo[p] = {} /\ Executing(p) /\ p \notin cancelling
          /\ dagStatus = "running" /\ wave'[p] = wave[p] + 1
      BY DEF NextWave, WaveAdvances, WaveSettled, Ready, IInv, TypeOK, Places, Statuses, Executing
    <2>2. ASSUME NEW t \in Step
          PROVE  /\ steps'[p][t] = Mirrored(p)[t] /\ result'[p][t] = "none"
                 /\ stepStatus'[t] = stepStatus[t] /\ session[p][t] = "none"
                 /\ snapRetry'[p][t] = snapRetry[p][t] /\ retryCount'[t] = retryCount[t]
      BY <1>1 DEF NextWave, WaveAdvances, WaveSettled, TypeOK
    <2>3. ASSUME NEW t \in Step, WaveOf[t] < wave'[p]
          PROVE  IsTerminal(Mirrored(p)[t]) /\ stepStatus[t] = Mirrored(p)[t]
      <3>1. CASE WaveOf[t] < wave[p]
        BY <2>1, <3>1 DEF IInv, Snapshot, Mirrored
      <3>2. CASE WaveOf[t] = wave[p]
        BY <2>1, <2>2, <3>2 DEF IInv, Snapshot
      <3>3. WaveOf[t] \in Nat /\ wave[p] \in Nat /\ WaveOf[t] < wave[p] + 1
        BY <1>1, <2>1, <2>3, WaveOfLayers DEF TypeOK
      <3> QED
        BY <3>1, <3>2, <3>3
    <2>4. ASSUME NEW t \in Step, WaveOf[t] > wave[p]
          PROVE  /\ Mirrored(p)[t] = stepStatus[t] /\ Mirrored(p)[t] # "running"
                 /\ snapRetry[p][t] = retryCount[t]
      BY <2>1, <2>4 DEF IInv, Snapshot, Ahead, Mirrored
    <2>5. \A t \in Step : t \in todo'[p] <=> WaveOf[t] = wave[p] + 1
      BY <1>1 DEF NextWave, WaveAdvances, StepsOfWave, TypeOK
    <2>6. \A t \in Step : WaveOf[t] = wave[p] + 1 => WaveOf[t] > wave[p]
      BY <1>1 DEF TypeOK
    <2>7. \A t \in Step : WaveOf[t] > wave[p] + 1 => WaveOf[t] > wave[p]
      BY <1>1, WaveOfLayers DEF TypeOK
    <2> QED
      BY <1>1, <2>1, <2>2, <2>3, <2>4, <2>5, <2>6, <2>7 DEF Snapshot, Ahead
  <1>8. AtRest'
    BY DEF IInv, AtRest, NextWave, WaveAdvances, WaveSettled
  <1>9. Account'
    BY WaveOfLayers DEF IInv, TypeOK, Account, MayLaunch, Executing, Ahead, NextWave,
       WaveAdvances, WaveSettled, StepsOfWave, procs, sessions
  <1>10. OwnedWhileRunning'
    BY DEF OwnedWhileRunning, NextWave, WaveAdvances, WaveSettled, procs, Ready
  <1> QED
    BY <1>1, <1>2, <1>3, <1>4, <1>5, <1>6, <1>7, <1>8, <1>9, <1>10 DEF IInv

(* The executor lets go of a cancelled DAG. *)
LEMMA StopCancelledKeeps ==
  ASSUME SingleProcess, IInv, NEW p \in Proc, StopCancelled(p)
  PROVE  IInv'
  <1>1. TypeOK /\ TypeOK' /\ \A q \in Proc : q = p
    BY TypeNext DEF IInv, Next, Turn, SingleProcess
  <1>2. (Skipped /\ SkipJustified /\ VerdictSound /\ RetryBudget)'
    BY DEF IInv, Skipped, SkipJustified, VerdictSound, RetryBudget, StopCancelled,
       WaveSettled, procs, sessions
  <1>3. Places'
    BY DEF IInv, Places, Executing, StopCancelled, WaveSettled, Returned, procs, canceller
  <1>4. Statuses'
    BY DEF IInv, Statuses, StopCancelled, WaveSettled, Returned, procs, canceller
  <1>5. FirstExecution'
    BY DEF IInv, FirstExecution, Executing, Ahead, StopCancelled, WaveSettled, Returned
  <1>6. Agents'
    BY DEF IInv, Agents, Executing, StopCancelled, WaveSettled, Returned, sessions,
       canceller
  <1>7. Snapshot'
    BY DEF IInv, Snapshot, Executing, Ahead, Mirrored, StopCancelled, WaveSettled,
       Returned, sessions
  <1>8. AtRest'
    BY DEF AtRest, StopCancelled
  <1>9. Account'
    BY DEF IInv, Account, MayLaunch, Executing, Ahead, StopCancelled, WaveSettled,
       Returned, procs, sessions
  <1>10. OwnedWhileRunning'
    BY DEF OwnedWhileRunning, StopCancelled
  <1> QED
    BY <1>1, <1>2, <1>3, <1>4, <1>5, <1>6, <1>7, <1>8, <1>9, <1>10 DEF IInv

(* In the last wave the snapshot is the whole record: the verdict is sound. *)
LEMMA ConcludeKeeps ==
  ASSUME SingleProcess, IInv, NEW p \in Proc, Conclude(p)
  PROVE  IInv'
  <1>1. TypeOK /\ TypeOK' /\ \A q \in Proc : q = p
    BY TypeNext DEF IInv, Next, Turn, SingleProcess
  <1>2. (Skipped /\ SkipJustified /\ RetryBudget)'
    BY DEF IInv, Skipped, SkipJustified, RetryBudget, Conclude, WaveSettled, procs,
       sessions
  <1>3. Places'
    BY DEF IInv, Places, Executing, Conclude, WaveSettled, Returned, procs, canceller
  <1>4. Statuses'
    BY <1>1 DEF IInv, TypeOK, Places, Statuses, Conclude, WaveSettled, Returned,
       procs, canceller, Ready, DetectCompletion
  <1>5. FirstExecution'
    BY DEF IInv, FirstExecution, Executing, Ahead, Conclude, WaveSettled, Returned
  <1>6. Agents'
    BY DEF IInv, Agents, Executing, Conclude, WaveSettled, Returned, sessions, canceller
  <1>7. Snapshot'
    BY DEF IInv, Snapshot, Executing, Ahead, Mirrored, Conclude, WaveSettled,
       Returned, sessions, canceller, DetectCompletion
  <1>8. AtRest'
    BY <1>1 DEF IInv, TypeOK, Places, AtRest, Conclude, WaveSettled, Returned, procs,
       canceller, Ready
  <1>9. Account'
    BY DEF IInv, Account, MayLaunch, Executing, Ahead, Conclude, WaveSettled,
       Returned, procs, sessions, DetectCompletion
  <1>10. VerdictSound'
    <2>1. \A s \in Step : IsTerminal(Mirrored(p)[s]) /\ stepStatus[s] = Mirrored(p)[s]
      BY LastWaveSettled DEF Conclude
    <2>2. ~\E s \in Step : InFlight(s)
      BY <1>1 DEF InFlight, Conclude, WaveSettled
    <2> QED
      BY <2>1, <2>2 DEF VerdictSound, Conclude, DetectCompletion, WaveSettled,
         InFlight, sessions
  <1>11. OwnedWhileRunning'
    <2>1. \A s \in Step : IsTerminal(Mirrored(p)[s])
      BY LastWaveSettled DEF Conclude
    <2>2. dagStatus' \in {"completed", "failed"}
      BY <2>1 DEF Conclude, DetectCompletion
    <2> QED
      BY <2>2 DEF OwnedWhileRunning
  <1> QED
    BY <1>1, <1>2, <1>3, <1>4, <1>5, <1>6, <1>7, <1>8, <1>9, <1>10, <1>11 DEF IInv

(* Only open steps are going to be marked, and no session stays live. *)
LEMMA CancelKeeps ==
  ASSUME SingleProcess, IInv, NEW p \in Proc, Cancel(p)
  PROVE  IInv'
  <1>1. TypeOK /\ TypeOK' /\ \A q \in Proc : q = p
    BY TypeNext DEF IInv, Next, SingleProcess
  <1>2. (FirstExecution /\ Account /\ SkipJustified /\ RetryBudget)'
    BY DEF IInv, FirstExecution, Executing, Ahead, Account, MayLaunch, SkipJustified,
       RetryBudget, Cancel, record, procs, loop
  <1>3. Places'
    BY DEF IInv, TypeOK, Places, Executing, Cancel, Ready, record, procs, loop
  <1>4. Statuses'
    BY DEF IInv, Statuses, Cancel, record, procs, loop
  <1>5. Agents'
    BY DEF IInv, TypeOK, Agents, Executing, Cancel, record, loop
  <1>6. Snapshot'
    BY DEF IInv, Snapshot, Executing, Ahead, Mirrored, Cancel, record, loop
  <1>7. Skipped'
    BY ConstantsAssumption DEF IInv, Skipped, Cancel, record
  <1>8. AtRest'
    BY DEF AtRest, Cancel, record
  <1>9. VerdictSound'
    BY DEF VerdictSound, Cancel, record
  <1>10. OwnedWhileRunning'
    BY DEF OwnedWhileRunning, Cancel, Ready, procs
  <1> QED
    BY <1>1, <1>2, <1>3, <1>4, <1>5, <1>6, <1>7, <1>8, <1>9, <1>10 DEF IInv

(* An agent on the step has been told. *)
LEMMA CancelStepKeeps ==
  ASSUME SingleProcess, IInv, NEW p \in Proc, NEW s \in Step, CancelStep(p, s)
  PROVE  IInv'
  <1>1. TypeOK /\ TypeOK' /\ \A q \in Proc : q = p
    BY TypeNext DEF IInv, Next, Turn, SingleProcess
  <1>2. (AtRest /\ Account /\ RetryBudget /\ OwnedWhileRunning)'
    BY DEF IInv, AtRest, Account, MayLaunch, Executing, Ahead, RetryBudget,
       OwnedWhileRunning, CancelStep, procs, loop, sessions
  <1>3. Places'
    BY <1>1 DEF IInv, TypeOK, Places, CancelStep, procs, loop
  <1>4. Statuses'
    BY DEF IInv, Statuses, CancelStep, procs, loop
  <1>5. FirstExecution'
    BY <1>1 DEF IInv, Places, FirstExecution, Executing, Ahead, CancelStep, loop
  <1>6. Agents'
    BY <1>1 DEF IInv, Agents, Executing, CancelStep, loop, sessions
  <1>7. Snapshot'
    BY <1>1, ConstantsAssumption, WaveOfLayers DEF IInv, Places, Snapshot, Executing,
       Ahead, Mirrored, IsTerminal, CancelStep, loop, sessions
  <1>8. Skipped'
    BY DEF IInv, Skipped, IsTerminal, CancelStep, sessions
  <1>9. SkipJustified'
    BY ConstantsAssumption DEF IInv, SkipJustified, CancelStep
  <1>10. VerdictSound'
    BY DEF IInv, AtRest, VerdictSound, CancelStep
  <1> QED
    BY <1>1, <1>2, <1>3, <1>4, <1>5, <1>6, <1>7, <1>8, <1>9, <1>10 DEF IInv

(* The turn ends with the DAG cancelled. *)
LEMMA CancelDagKeeps ==
  ASSUME SingleProcess, IInv, NEW p \in Proc, CancelDag(p)
  PROVE  IInv'
  <1>1. TypeOK /\ TypeOK' /\ \A q \in Proc : q = p
    BY TypeNext DEF IInv, Next, Turn, SingleProcess
  <1>2. (FirstExecution /\ Skipped /\ SkipJustified /\ RetryBudget)'
    BY DEF IInv, FirstExecution, Executing, Ahead, Skipped, SkipJustified,
       RetryBudget, CancelDag, procs, loop, sessions
  <1>3. Places'
    BY DEF IInv, Places, Executing, CancelDag, procs, loop
  <1>4. Statuses'
    <2>1. /\ pc[p] \in {"idle", "await"} /\ dagStatus' = "cancelled" /\ p \notin cancelling'
          /\ \A s \in Step : stepStatus[s] \notin {"pending", "running"}
      BY DEF CancelDag, IInv, Places
    <2> QED
      BY <1>1, <2>1 DEF CancelDag, loop, Statuses
  <1>5. Agents'
    BY DEF IInv, Places, Agents, Executing, CancelDag, loop, sessions
  <1>6. Snapshot'
    BY DEF IInv, Snapshot, Executing, Ahead, Mirrored, CancelDag, loop, sessions
  <1>7. AtRest'
    BY DEF AtRest, CancelDag
  <1>8. Account'
    BY DEF IInv, Account, MayLaunch, Executing, Ahead, CancelDag, procs, loop, sessions
  <1>9. VerdictSound'
    BY DEF VerdictSound, CancelDag
  <1>10. OwnedWhileRunning'
    BY DEF OwnedWhileRunning, CancelDag
  <1> QED
    BY <1>1, <1>2, <1>3, <1>4, <1>5, <1>6, <1>7, <1>8, <1>9, <1>10 DEF IInv

(* A start gives every step one session to its account. *)
LEMMA StartKeeps ==
  ASSUME SingleProcess, IInv, NEW p \in Proc, Start(p)
  PROVE  IInv'
  <1>1. TypeOK /\ TypeOK' /\ \A q \in Proc : q = p
    BY TypeNext DEF IInv, Next, SingleProcess
  <1>2. (FirstExecution /\ Agents /\ Snapshot /\ Skipped /\ SkipJustified /\ VerdictSound)'
    BY DEF IInv, FirstExecution, Executing, Ahead, Agents, Snapshot, Mirrored,
       Skipped, SkipJustified, VerdictSound, InFlight, Start, Started, loop,
       sessions, canceller
  <1>3. Places'
    BY DEF IInv, Places, Executing, Start, Started, loop, canceller
  <1>4. Statuses'
    BY DEF IInv, Statuses, Start, Started, loop, sessions, canceller
  <1>5. AtRest'
    BY DEF IInv, AtRest, Start, Started, loop, canceller
  <1>6. Account'
    BY DEF IInv, TypeOK, Account, RetryBudget, Start, Started, sessions
  <1>7. RetryBudget'
    BY DEF IInv, TypeOK, RetryBudget, Start, Started, sessions
  <1>8. OwnedWhileRunning'
    BY DEF OwnedWhileRunning, Start, Started
  <1> QED
    BY <1>1, <1>2, <1>3, <1>4, <1>5, <1>6, <1>7, <1>8 DEF IInv

(* The same; a stale DAG is nobody's. *)
LEMMA StartAndMarkStaleKeeps ==
  ASSUME SingleProcess, IInv, NEW p \in Proc, StartAndMarkStale(p)
  PROVE  IInv'
  <1>1. TypeOK /\ TypeOK' /\ \A q \in Proc : q = p
    BY TypeNext DEF IInv, Next, SingleProcess
  <1>2. (FirstExecution /\ Agents /\ Skipped /\ SkipJustified)'
    BY DEF IInv, FirstExecution, Executing, Ahead, Agents, Skipped, SkipJustified,
       StartAndMarkStale, Started, loop, sessions, canceller
  <1>3. Places'
    BY DEF IInv, Places, Executing, StartAndMarkStale, Started, loop, canceller
  <1>4. Statuses'
    BY <1>1 DEF IInv, TypeOK, Places, Statuses, StartAndMarkStale, Started, loop
  <1>5. Snapshot'
    BY DEF IInv, Snapshot, Executing, Ahead, Mirrored, StartAndMarkStale, Started,
       loop, sessions
  <1>6. AtRest'
    BY DEF AtRest, StartAndMarkStale
  <1>7. Account'
    BY DEF IInv, TypeOK, Account, RetryBudget, StartAndMarkStale, Started, sessions
  <1>8. VerdictSound'
    BY DEF VerdictSound, StartAndMarkStale
  <1>9. RetryBudget'
    BY DEF IInv, TypeOK, RetryBudget, StartAndMarkStale, Started, sessions
  <1>10. OwnedWhileRunning'
    BY DEF OwnedWhileRunning, StartAndMarkStale
  <1> QED
    BY <1>1, <1>2, <1>3, <1>4, <1>5, <1>6, <1>7, <1>8, <1>9, <1>10 DEF IInv

(* The dead process holds nothing. *)
LEMMA CrashKeeps ==
  ASSUME SingleProcess, IInv, NEW p \in Proc, Crash(p)
  PROVE  IInv'
  <1>1. TypeOK /\ TypeOK' /\ \A q \in Proc : q = p
    BY TypeNext DEF IInv, Next, SingleProcess
  <1>2. (SkipJustified /\ RetryBudget)'
    BY DEF IInv, SkipJustified, RetryBudget, Crash, record
  <1>3. Places'
    BY DEF IInv, TypeOK, Places, Executing, Crash, record
  <1>4. Statuses'
    BY DEF IInv, Statuses, Crash, record
  <1>5. FirstExecution'
    BY DEF IInv, FirstExecution, Executing, Ahead, Crash, record
  <1>6. Agents'
    BY DEF IInv, TypeOK, Agents, Executing, Crash, record
  <1>7. Snapshot'
    BY DEF IInv, TypeOK, Snapshot, Executing, Ahead, Mirrored, Crash, record
  <1>8. Skipped'
    BY ConstantsAssumption DEF IInv, Skipped, Crash, record
  <1>9. AtRest'
    BY DEF IInv, AtRest, Crash, record
  <1>10. Account'
    BY DEF IInv, Account, MayLaunch, Executing, Ahead, Crash, record
  <1>11. VerdictSound'
    BY DEF IInv, VerdictSound, InFlight, Crash, record
  <1>12. OwnedWhileRunning'
    BY <1>1 DEF TypeOK, OwnedWhileRunning, Crash
  <1> QED
    BY <1>1, <1>2, <1>3, <1>4, <1>5, <1>6, <1>7, <1>8, <1>9, <1>10, <1>11,
       <1>12 DEF IInv

LEMMA InitIInv == Init => IInv
  <1> SUFFICES ASSUME Init PROVE IInv
    OBVIOUS
  <1>1. TypeOK
    BY TypeInit
  <1>2. Places /\ Statuses /\ FirstExecution /\ Agents /\ Snapshot
    BY DEF Init, Places, Statuses, FirstExecution, Agents, Snapshot, Executing
  <1>3. Skipped /\ AtRest /\ Account
    BY DEF Init, Skipped, AtRest, Account, MayLaunch
  <1>4. SkipJustified /\ VerdictSound /\ RetryBudget /\ OwnedWhileRunning
    BY DEF Init, SkipJustified, VerdictSound, RetryBudget, OwnedWhileRunning
  <1> QED
    BY <1>1, <1>2, <1>3, <1>4 DEF IInv

LEMMA NextIInv ==
  ASSUME SingleProcess, IInv, [Next]_vars
  PROVE  IInv'
  <1>1. ASSUME NEW p \in Proc, Start(p) \/ StartAndMarkStale(p) \/ Crash(p) PROVE IInv'
    BY <1>1, StartKeeps, StartAndMarkStaleKeeps, CrashKeeps
  <1>2. ASSUME NEW p \in Proc, Submit(p) \/ BeginResume(p) \/ Cancel(p) PROVE IInv'
    BY <1>2, SubmitKeeps, BeginResumeKeeps, CancelKeeps
  <1>3. ASSUME NEW p \in Proc, Turn(p) PROVE IInv'
    <2>1. ASSUME NEW s \in Step,
                 \/ ResetStep(p, s) \/ KeepStep(p, s) \/ SkipStep(p, s)
                 \/ RefuseStep(p, s) \/ LaunchStep(p, s) \/ CancelStep(p, s)
          PROVE  IInv'
      BY <2>1, ResetStepKeeps, KeepStepKeeps, SkipStepKeeps, RefuseStepKeeps,
         LaunchStepKeeps, CancelStepKeeps
    <2>2. CASE BeginExecute(p) \/ CountWaves(p) \/ EnterWave(p) \/ CancelDag(p)
      BY <2>2, BeginExecuteKeeps, ProgressWritesKeep, CancelDagKeeps
    <2>3. CASE NextWave(p) \/ StopCancelled(p) \/ Conclude(p)
      BY <2>3, NextWaveKeeps, StopCancelledKeeps, ConcludeKeeps
    <2> QED
      BY <1>3, <2>1, <2>2, <2>3 DEF Turn
  <1>4. ASSUME NEW p \in Proc, NEW s \in Step, Settle(p, s) PROVE IInv'
    BY <1>4, CompleteStepKeeps, FailStepKeeps, RetryStepKeeps, RetryRefusedKeeps DEF Settle
  <1>5. CASE UNCHANGED vars
    <2> USE <1>5 DEF vars, record, procs, loop, sessions, canceller
    <2>1. TypeOK'
      BY TypeNext DEF IInv
    <2>2. (Places /\ Statuses /\ FirstExecution /\ Agents /\ Snapshot)'
      BY DEF IInv, Places, Statuses, FirstExecution, Agents, Snapshot, Executing, Ahead,
         Mirrored
    <2>3. (Skipped /\ AtRest /\ Account)'
      BY DEF IInv, Skipped, AtRest, Account, MayLaunch, Executing, Ahead
    <2>4. (SkipJustified /\ VerdictSound /\ RetryBudget /\ OwnedWhileRunning)'
      BY DEF IInv, SkipJustified, VerdictSound, RetryBudget, OwnedWhileRunning, InFlight
    <2> QED
      BY <2>1, <2>2, <2>3, <2>4 DEF IInv
  <1> QED
    BY <1>1, <1>2, <1>3, <1>4, <1>5 DEF Next

LEMMA Inductive == ASSUME SingleProcess PROVE Spec => []IInv
  <1>1. IInv /\ [Next]_vars => IInv'
    BY NextIInv
  <1> QED
    BY <1>1, InitIInv, PTL DEF Spec

-----------------------------------------------------------------------------
(* The theorems: what one process at a time guarantees, for every DAG.       *)

(* While an agent works, every step of every earlier wave is settled on disk. *)
THEOREM WaveBarrierHolds == ASSUME SingleProcess PROVE Spec => []WaveBarrier
  <1>1. ASSUME IInv, NEW s \in Step, NEW t \in Step, InFlight(t), WaveOf[s] < WaveOf[t]
        PROVE  IsTerminal(stepStatus[s])
    <2>1. PICK p \in Proc : session[p][t] # "none"
      BY <1>1 DEF InFlight
    <2>2. Executing(p) /\ WaveOf[t] = wave[p]
      BY <1>1, <2>1 DEF IInv, Agents
    <2> QED
      BY <1>1, <2>2 DEF IInv, Snapshot
  <1>2. IInv => WaveBarrier
    BY <1>1 DEF WaveBarrier
  <1> QED
    BY <1>2, Inductive, PTL

(* An agent works on a failFast "needs" step only if, on disk as well as in  *)
(* the snapshot the gate read, every dependency completed.                   *)
THEOREM NeedsGateHolds == ASSUME SingleProcess PROVE Spec => []NeedsGate
  <1>1. ASSUME IInv, NEW s \in Step, InFlight(s), Gate[s] = "needs", FailFast,
               NEW d \in DependsOn[s]
        PROVE  stepStatus[d] = "completed"
    <2>1. PICK p \in Proc : session[p][s] # "none"
      BY <1>1 DEF InFlight
    <2>2. Executing(p) /\ WaveOf[s] = wave[p] /\ steps[p][d] = "completed"
      BY <1>1, <2>1 DEF IInv, Agents
    <2>3. d \in Step /\ WaveOf[d] < wave[p]
      BY <1>1, <2>2, WaveOfLayers, ConstantsAssumption
    <2> QED
      BY <1>1, <2>2, <2>3 DEF IInv, Snapshot
  <1>2. IInv => NeedsGate
    BY <1>1 DEF NeedsGate
  <1> QED
    BY <1>2, Inductive, PTL

(* No step is skipped without a bad dependency and a gate that asks for it.  *)
THEOREM SkipsAreJustified == ASSUME SingleProcess PROVE Spec => []SkipJustified
  <1>1. IInv => SkipJustified
    BY DEF IInv
  <1> QED
    BY <1>1, Inductive, PTL

(* The verdict on disk agrees with the steps on disk, with no agent at work. *)
THEOREM VerdictIsSound == ASSUME SingleProcess PROVE Spec => []VerdictSound
  <1>1. IInv => VerdictSound
    BY DEF IInv
  <1> QED
    BY <1>1, Inductive, PTL

(* Sessions started never exceed process starts plus retries on record.      *)
THEOREM RetryBudgetHolds == ASSUME SingleProcess PROVE Spec => []RetryBudget
  <1>1. IInv => RetryBudget
    BY DEF IInv
  <1> QED
    BY <1>1, Inductive, PTL

(* A running DAG is never orphaned while the pi process is alive.            *)
THEOREM RunningIsOwned == ASSUME SingleProcess PROVE Spec => []OwnedWhileRunning
  <1>1. IInv => OwnedWhileRunning
    BY DEF IInv
  <1> QED
    BY <1>1, Inductive, PTL

-----------------------------------------------------------------------------
(* How far the persisted wave number is behind the loop, write by write.     *)
ProgressPlaced ==
  \A p \in Proc :
    /\ pc[p] \in {"dispatch", "await"} => currentWave = wave[p]
    /\ pc[p] = "entering" => currentWave + 1 = wave[p]

WavesBehind == \A s \in Step : WaveOf[s] < currentWave => IsTerminal(stepStatus[s])

LastWaveShown == dagStatus = "completed" => IsLastWave(currentWave)

PInv == ProgressPlaced /\ WavesBehind /\ LastWaveShown

LEMMA PlacedKept ==
  ASSUME SingleProcess, IInv, ProgressPlaced, [Next]_vars
  PROVE  ProgressPlaced'
  <1>1. TypeOK /\ \A p, q \in Proc : p = q
    BY DEF IInv, SingleProcess
  <1> USE DEF ProgressPlaced
  <1>2. ASSUME NEW p \in Proc, Start(p) \/ StartAndMarkStale(p) \/ Crash(p)
        PROVE  ProgressPlaced'
    BY <1>1, <1>2 DEF TypeOK, Start, StartAndMarkStale, Started, Crash, loop, record
  <1>3. ASSUME NEW p \in Proc, Submit(p) \/ BeginResume(p) \/ Cancel(p) PROVE ProgressPlaced'
    BY <1>1, <1>3 DEF TypeOK, Submit, BeginResume, Cancel, Ready, loop, record
  <1>4. ASSUME NEW p \in Proc, NEW s \in Step,
               \/ ResetStep(p, s) \/ KeepStep(p, s) \/ SkipStep(p, s)
               \/ RefuseStep(p, s) \/ LaunchStep(p, s) \/ CancelStep(p, s)
        PROVE  ProgressPlaced'
    BY <1>1, <1>4 DEF TypeOK, ResetStep, KeepStep, SkipStep, RefuseStep, LaunchStep,
       CancelStep, Visited, Dispatching, InTurn, loop
  <1>5. ASSUME NEW p \in Proc, NEW s \in Step, Settle(p, s) PROVE ProgressPlaced'
    BY <1>5 DEF Settle, CompleteStep, FailStep, RetryStep, RetryRefused, Rejected, Settling
  <1>6. ASSUME NEW p \in Proc, CancelDag(p) PROVE ProgressPlaced'
    BY <1>6 DEF CancelDag, loop
  <1>7. ASSUME NEW p \in Proc, BeginExecute(p) PROVE ProgressPlaced'
    BY <1>1, <1>7 DEF TypeOK, BeginExecute
  <1>8. ASSUME NEW p \in Proc, CountWaves(p) PROVE ProgressPlaced'
    <2>1. wave[p] = 1
      BY <1>8 DEF IInv, Places, CountWaves, InTurn
    <2> QED
      BY <1>1, <1>8, <2>1 DEF TypeOK, CountWaves
  <1>9. ASSUME NEW p \in Proc, EnterWave(p) PROVE ProgressPlaced'
    BY <1>1, <1>9 DEF TypeOK, EnterWave, WaveEntered
  <1>10. ASSUME NEW p \in Proc, NextWave(p) PROVE ProgressPlaced'
    BY <1>1, <1>10 DEF TypeOK, NextWave, WaveAdvances, WaveSettled
  <1>11. ASSUME NEW p \in Proc, StopCancelled(p) \/ Conclude(p) PROVE ProgressPlaced'
    BY <1>1, <1>11 DEF TypeOK, StopCancelled, Conclude, Returned, WaveSettled
  <1>12. CASE UNCHANGED vars
    BY <1>12 DEF vars, record, loop
  <1> QED
    BY <1>2, <1>3, <1>4, <1>5, <1>6, <1>7, <1>8, <1>9, <1>10, <1>11, <1>12 DEF Next, Turn

(* A settled step behind the reported wave is reopened by nothing: not by an *)
(* answer, whose step is of the reported wave, nor by a resume.              *)
LEMMA BehindKept ==
  ASSUME SingleProcess, IInv, ProgressPlaced, WavesBehind, [Next]_vars
  PROVE  WavesBehind'
  <1>1. TypeOK /\ \A p, q \in Proc : p = q
    BY DEF IInv, SingleProcess
  <1> USE DEF WavesBehind
  <1>2. ASSUME UNCHANGED <<currentWave, stepStatus>> PROVE WavesBehind'
    BY <1>2
  <1>3. ASSUME NEW p \in Proc, NEW t \in Step,
               \/ ResetStep(p, t) \/ SkipStep(p, t) \/ RefuseStep(p, t)
               \/ LaunchStep(p, t) \/ CancelStep(p, t) \/ Settle(p, t)
        PROVE  WavesBehind'
    <2>1. currentWave' = currentWave /\ \A s \in Step : s # t => stepStatus'[s] = stepStatus[s]
      BY <1>1, <1>3 DEF TypeOK, ResetStep, SkipStep, RefuseStep, LaunchStep, CancelStep,
         Visited, Settle, CompleteStep, FailStep, RetryStep, RetryRefused, Rejected, Settling,
         Resolve
    <2>2. ~(WaveOf[t] < currentWave)
      <3>1. CASE ResetStep(p, t) \/ CancelStep(p, t)
        BY <3>1 DEF ResetStep, CancelStep, InTurn, IInv, Places, IsTerminal
      <3>2. CASE SkipStep(p, t) \/ RefuseStep(p, t) \/ LaunchStep(p, t)
        <4>1. pc[p] = "dispatch" /\ t \in todo[p]
          BY <3>2 DEF SkipStep, RefuseStep, LaunchStep, Dispatching, InTurn
        <4>2. WaveOf[t] = wave[p] /\ currentWave = wave[p]
          BY <4>1 DEF IInv, Places, Executing, ProgressPlaced
        <4> QED
          BY <1>1, <4>2 DEF TypeOK
      <3>3. CASE Settle(p, t)
        <4>1. session[p][t] # "none" /\ Ready(p)
          BY <3>3 DEF Settle, CompleteStep, FailStep, RetryStep, RetryRefused, Rejected,
             Settling
        <4>2. WaveOf[t] = wave[p] /\ pc[p] = "await"
          BY <4>1 DEF IInv, Agents, Executing, Ready
        <4> QED
          BY <1>1, <4>2 DEF TypeOK, ProgressPlaced
      <3> QED
        BY <1>3, <3>1, <3>2, <3>3
    <2> QED
      BY <2>1, <2>2
  <1>4. ASSUME NEW p \in Proc, CountWaves(p) PROVE WavesBehind'
    BY <1>4, WaveOfLayers DEF CountWaves
  <1>5. ASSUME NEW p \in Proc, EnterWave(p) PROVE WavesBehind'
    BY <1>5 DEF EnterWave, WaveEntered, InTurn, IInv, Snapshot, Executing
  <1>6. ASSUME NEW p \in Proc,
               \/ Start(p) \/ StartAndMarkStale(p) \/ Crash(p) \/ Submit(p)
               \/ BeginResume(p) \/ Cancel(p) \/ BeginExecute(p) \/ CancelDag(p)
               \/ NextWave(p) \/ StopCancelled(p) \/ Conclude(p)
               \/ \E s \in Step : KeepStep(p, s)
        PROVE  UNCHANGED <<currentWave, stepStatus>>
    BY <1>6 DEF Start, StartAndMarkStale, Started, Crash, Submit, BeginResume, Cancel,
       BeginExecute, CancelDag, NextWave, WaveAdvances, StopCancelled, Conclude, WaveSettled,
       Returned, KeepStep, Visited, record
  <1>7. CASE UNCHANGED vars
    BY <1>7 DEF vars, record
  <1> QED
    BY <1>2, <1>3, <1>4, <1>5, <1>6, <1>7 DEF Next, Turn

LEMMA LastShownKept ==
  ASSUME SingleProcess, IInv, ProgressPlaced, LastWaveShown, [Next]_vars
  PROVE  LastWaveShown'
  <1> USE DEF LastWaveShown
  <1>1. ASSUME NEW p \in Proc, Conclude(p) PROVE LastWaveShown'
    BY <1>1 DEF Conclude, WaveSettled, ProgressPlaced
  <1>2. ASSUME NEW p \in Proc, CountWaves(p) \/ EnterWave(p) PROVE LastWaveShown'
    BY <1>2 DEF CountWaves, EnterWave, WaveEntered, InTurn, IInv, Statuses
  <1>3. ASSUME UNCHANGED currentWave, dagStatus' = "completed" => dagStatus = "completed"
        PROVE  LastWaveShown'
    BY <1>3
  <1>4. ASSUME NEW p \in Proc,
               \/ Start(p) \/ StartAndMarkStale(p) \/ Crash(p) \/ Submit(p)
               \/ BeginResume(p) \/ Cancel(p) \/ BeginExecute(p) \/ CancelDag(p)
               \/ NextWave(p) \/ StopCancelled(p)
        PROVE  UNCHANGED currentWave /\ (dagStatus' = "completed" => dagStatus = "completed")
    BY <1>4 DEF Start, StartAndMarkStale, Started, Crash, Submit, BeginResume, Cancel,
       BeginExecute, CancelDag, NextWave, WaveAdvances, StopCancelled, WaveSettled, record
  <1>5. ASSUME NEW p \in Proc, NEW s \in Step,
               \/ ResetStep(p, s) \/ KeepStep(p, s) \/ SkipStep(p, s) \/ RefuseStep(p, s)
               \/ LaunchStep(p, s) \/ CancelStep(p, s) \/ Settle(p, s)
        PROVE  UNCHANGED <<currentWave, dagStatus>>
    BY <1>5 DEF ResetStep, KeepStep, SkipStep, RefuseStep, LaunchStep, CancelStep, Visited,
       Settle, CompleteStep, FailStep, RetryStep, RetryRefused, Rejected, Settling
  <1>6. CASE UNCHANGED vars
    BY <1>6 DEF vars, record
  <1> QED
    BY <1>1, <1>2, <1>3, <1>4, <1>5, <1>6 DEF Next, Turn

(* The progress on disk never runs ahead of the steps on disk, whichever of  *)
(* the separate writes of status, wave number and steps a crash falls        *)
(* between, and through every resume and cancel.                             *)
THEOREM ProgressIsHonest == ASSUME SingleProcess PROVE Spec => []ProgressHonest
  <1>1. Init => PInv
    BY WaveOfLayers DEF Init, PInv, ProgressPlaced, WavesBehind, LastWaveShown
  <1>2. IInv /\ PInv /\ [Next]_vars => PInv'
    BY PlacedKept, BehindKept, LastShownKept DEF PInv
  <1>3. ASSUME IInv, PInv, NEW s \in Step, InFlight(s) PROVE WaveOf[s] = currentWave
    <2>1. PICK p \in Proc : session[p][s] # "none"
      BY <1>3 DEF InFlight
    <2>2. Executing(p) /\ WaveOf[s] = wave[p] /\ s \notin todo[p]
      BY <1>3, <2>1 DEF IInv, Agents
    <2>3. pc[p] \in {"dispatch", "await"}
      BY <1>3, <2>1, <2>2 DEF IInv, Places, Executing, StepsOfWave
    <2> QED
      BY <1>3, <2>2, <2>3 DEF PInv, ProgressPlaced
  <1>4. IInv /\ PInv => ProgressHonest
    BY <1>3 DEF PInv, WavesBehind, LastWaveShown, ProgressHonest
  <1> QED
    BY <1>1, <1>2, <1>4, Inductive, PTL DEF Spec

-----------------------------------------------------------------------------
(* Cancelling: an aborted session is answered, failed or tried again.        *)
LEMMA CleanKept ==
  ASSUME SingleProcess, IInv, CancelledIsClean, [Next]_vars
  PROVE  CancelledIsClean'
  <1>1. TypeOK /\ \A p, q \in Proc : p = q
    BY DEF IInv, SingleProcess
  <1> USE DEF CancelledIsClean
  <1>2. ASSUME NEW p \in Proc, Start(p) \/ StartAndMarkStale(p) \/ Crash(p)
        PROVE  CancelledIsClean'
    BY <1>2 DEF Start, StartAndMarkStale, Started, Crash, record
  <1>3. ASSUME NEW p \in Proc, Submit(p) \/ BeginResume(p) \/ Cancel(p) PROVE CancelledIsClean'
    BY <1>3 DEF Submit, BeginResume, Cancel, record
  <1>4. ASSUME NEW p \in Proc, NEW s \in Step, ResetStep(p, s) PROVE CancelledIsClean'
    <2>1. dagStatus # "cancelled"
      BY <1>4 DEF ResetStep, InTurn, IInv, Places, Statuses
    <2> QED
      BY <1>4, <2>1 DEF ResetStep
  <1>5. ASSUME NEW p \in Proc, NEW s \in Step,
               KeepStep(p, s) \/ SkipStep(p, s) \/ RefuseStep(p, s) \/ LaunchStep(p, s)
        PROVE  CancelledIsClean'
    <2>1. dagStatus = "running" /\ dagStatus' = dagStatus
      BY <1>5 DEF KeepStep, SkipStep, RefuseStep, LaunchStep, Visited, Dispatching, InTurn,
         IInv, Statuses
    <2> QED
      BY <2>1
  <1>6. ASSUME NEW p \in Proc, NEW s \in Step, CancelStep(p, s) PROVE CancelledIsClean'
    BY <1>1, <1>6 DEF TypeOK, CancelStep
  <1>7. ASSUME NEW p \in Proc, NEW s \in Step,
               CompleteStep(p, s) \/ FailStep(p, s) \/ RetryRefused(p, s)
        PROVE  CancelledIsClean'
    BY <1>1, <1>7 DEF TypeOK, CompleteStep, FailStep, RetryRefused, Rejected, Settling, Resolve
  <1>8. ASSUME NEW p \in Proc, NEW s \in Step, RetryStep(p, s) PROVE CancelledIsClean'
    BY <1>1, <1>8 DEF TypeOK, RetryStep, Rejected, Settling
  <1>9. ASSUME NEW p \in Proc,
               BeginExecute(p) \/ CountWaves(p) \/ EnterWave(p) \/ NextWave(p)
        PROVE  CancelledIsClean'
    BY <1>9 DEF BeginExecute, CountWaves, EnterWave, WaveEntered, NextWave, WaveAdvances,
       WaveSettled
  <1>10. ASSUME NEW p \in Proc, CancelDag(p) PROVE CancelledIsClean'
    BY <1>10 DEF CancelDag, IInv, Places
  <1>11. ASSUME NEW p \in Proc, StopCancelled(p) \/ Conclude(p) PROVE CancelledIsClean'
    BY <1>11 DEF StopCancelled, Conclude, WaveSettled, Returned, DetectCompletion
  <1>12. CASE UNCHANGED vars
    BY <1>12 DEF vars, record
  <1> QED
    BY <1>2, <1>3, <1>4, <1>5, <1>6, <1>7, <1>8, <1>9, <1>10, <1>11, <1>12 DEF Next, Turn, Settle

(* A cancelled DAG has nothing pending, and nothing running but the retry of *)
(* an aborted step, whatever is answered late or resumed, and whenever the   *)
(* process dies.                                                             *)
THEOREM CancelledStaysClean == ASSUME SingleProcess PROVE Spec => []CancelledIsClean
  <1>1. Init => CancelledIsClean
    BY DEF Init, CancelledIsClean
  <1>2. IInv /\ CancelledIsClean /\ [Next]_vars => CancelledIsClean'
    BY CleanKept
  <1> QED
    BY <1>1, <1>2, Inductive, PTL DEF Spec

(* No step of a cancelled DAG gets an agent, save the step that had one when *)
(* its signal fired: neither the wave loop nor a resume starts another.      *)
THEOREM CancelEndsLaunches == ASSUME SingleProcess PROVE Spec => CancelStopsLaunches
  <1> DEFINE Stops == dagStatus = "cancelled" =>
        \A s \in Step : launches'[s] # launches[s] => InFlight(s)
  <1>1. ASSUME IInv, [Next]_vars PROVE Stops
    <2> SUFFICES ASSUME dagStatus = "cancelled", NEW s \in Step, launches'[s] # launches[s]
                 PROVE  InFlight(s)
      OBVIOUS
    <2>1. ASSUME NEW p \in Proc, NEW t \in Step PROVE ~LaunchStep(p, t)
      BY <1>1 DEF LaunchStep, Dispatching, InTurn, IInv, Statuses
    <2>2. \E p \in Proc, t \in Step : RetryStep(p, t)
      BY <1>1, <2>1 DEF Next, Turn, Settle, vars, sessions, Start, StartAndMarkStale, Started,
         Crash, Submit, BeginResume, Cancel, ResetStep, KeepStep, SkipStep, RefuseStep,
         CancelStep, BeginExecute, CountWaves, EnterWave, WaveEntered, CancelDag, NextWave,
         WaveAdvances, StopCancelled, Conclude, WaveSettled, CompleteStep, FailStep,
         RetryRefused, Release
    <2>3. PICK p \in Proc, t \in Step : RetryStep(p, t)
      BY <2>2
    <2>4. s = t /\ session[p][t] # "none"
      BY <1>1, <2>3 DEF IInv, TypeOK, RetryStep, Rejected, Settling
    <2> QED
      BY <2>4 DEF InFlight
  <1> QED
    BY <1>1, Inductive, PTL DEF Spec, CancelStopsLaunches

(* The only step whose settled status still changes is one cancelled under   *)
(* its agent: nothing else is ever reopened, re-run or overwritten.          *)
THEOREM SettledStaysSettled == ASSUME SingleProcess PROVE Spec => SettledIsFinal
  <1> DEFINE Final ==
        \A s \in Step :
          IsTerminal(stepStatus[s]) /\ stepStatus'[s] # stepStatus[s] =>
            stepStatus[s] = "cancelled" /\ \E p \in Proc : session[p][s] = "aborted"
  <1>1. ASSUME IInv, NEW p \in Proc, NEW t \in Step, Settle(p, t) PROVE Final
    <2>1. /\ session[p][t] \in {"live", "aborted"}
          /\ session[p][t] = "live" => stepStatus[t] = "running"
          /\ stepStatus[t] \in {"running", "cancelled"}
      BY <1>1 DEF IInv, TypeOK, Agents, Settle, CompleteStep, FailStep,
         RetryStep, RetryRefused, Rejected, Settling
    <2>2. \A s \in Step : s # t => stepStatus'[s] = stepStatus[s]
      BY <1>1 DEF IInv, TypeOK, Settle, CompleteStep, FailStep,
         RetryStep, RetryRefused, Resolve
    <2> QED
      BY <2>1, <2>2 DEF IsTerminal
  <1>2. ASSUME IInv, NEW p \in Proc, NEW t \in Step,
               SkipStep(p, t) \/ RefuseStep(p, t) \/ LaunchStep(p, t)
        PROVE  Final
    <2>1. ~IsTerminal(stepStatus[t])
      BY <1>2, DispatchOpen DEF SkipStep, RefuseStep, LaunchStep
    <2>2. \A s \in Step : s # t => stepStatus'[s] = stepStatus[s]
      BY <1>2 DEF IInv, TypeOK, SkipStep, RefuseStep, LaunchStep, Resolve
    <2> QED
      BY <2>1, <2>2
  <1>3. ASSUME IInv, NEW p \in Proc, NEW t \in Step, ResetStep(p, t) \/ CancelStep(p, t)
        PROVE  Final
    <2>1. ~IsTerminal(stepStatus[t])
      BY <1>3 DEF IInv, Places, ResetStep, CancelStep, InTurn, IsTerminal
    <2>2. \A s \in Step : s # t => stepStatus'[s] = stepStatus[s]
      BY <1>3 DEF IInv, TypeOK, ResetStep, CancelStep
    <2> QED
      BY <2>1, <2>2
  <1>4. IInv /\ [Next]_vars => Final \/ UNCHANGED vars
    <2>1. ASSUME NEW p \in Proc,
                 \/ Start(p) \/ StartAndMarkStale(p) \/ Crash(p) \/ Submit(p)
                 \/ BeginResume(p) \/ Cancel(p) \/ BeginExecute(p) \/ CancelDag(p)
                 \/ CountWaves(p) \/ EnterWave(p)
                 \/ NextWave(p) \/ StopCancelled(p) \/ Conclude(p)
                 \/ \E s \in Step : KeepStep(p, s)
          PROVE  stepStatus' = stepStatus
      BY <2>1 DEF Start, StartAndMarkStale, Started, Crash, Submit, BeginResume, Cancel,
         BeginExecute, CountWaves, EnterWave, WaveEntered, CancelDag, NextWave, StopCancelled, Conclude, WaveSettled,
         KeepStep, record
    <2> QED
      BY <1>1, <1>2, <1>3, <2>1 DEF Next, Turn
  <1>5. IInv /\ [Next]_vars => [Final]_vars
    BY <1>4
  <1> QED
    BY <1>5, Inductive, PTL DEF Spec, SettledIsFinal

-----------------------------------------------------------------------------
(* The executor implements DagContract while one process at a time works on  *)
(* the DAG, for every DAG and every option.                                  *)
Live == {s \in Step : InFlight(s)}


LEMMA InitMaps == Init => Contract!Init
  BY DEF Init, Contract!Init, InFlight

(* Steps that change neither statuses nor sessions are not seen.             *)
LEMMA Unseen ==
  ASSUME UNCHANGED <<dagStatus, stepStatus, session>>
  PROVE  UNCHANGED Contract!vars
  BY DEF Contract!vars, InFlight

(* With one process, whether a step is in flight is that process's session.  *)
LEMMA LiveIsSession ==
  ASSUME SingleProcess, NEW p \in Proc
  PROVE  /\ Live = {s \in Step : session[p][s] # "none"}
         /\ Live' = {s \in Step : session'[p][s] # "none"}
  BY DEF SingleProcess, Live, InFlight

(* Outside the wave loop, and when a wave has settled, no agent is at work.  *)
LEMMA Quiet ==
  ASSUME SingleProcess, IInv, NEW p \in Proc,
         pc[p] \in {"idle", "prepare"} \/ WaveSettled(p)
  PROVE  Live = {}
  <1>1. \A s \in Step : session[p][s] = "none"
    BY DEF IInv, Agents, Executing, WaveSettled
  <1> QED
    BY <1>1, LiveIsSession

(* The loop visits an unkept step: pending on disk, its dependencies settled  *)
(* there, and satisfied there exactly when the snapshot's gate says so.      *)
LEMMA VisitIsRipe ==
  ASSUME IInv, NEW p \in Proc, NEW s \in Step, Dispatching(p, s), ~KeptTerminal(p, s)
  PROVE  Contract!Ripe(s) /\ (Contract!Satisfied(s) <=> GateAllowsDispatch(p, s))
  <1>1. /\ dagStatus = "running" /\ p \notin cancelling /\ s \in todo[p]
        /\ Executing(p) /\ WaveOf[s] = wave[p]
    BY DEF Dispatching, InTurn, IInv, Statuses, Places, Executing
  <1>2. stepStatus[s] = "pending"
    BY <1>1, DispatchOpen DEF IInv, TypeOK, Snapshot, Ahead, IsTerminal
  <1>3. ASSUME NEW d \in DependsOn[s]
        PROVE  IsTerminal(steps[p][d]) /\ stepStatus[d] = steps[p][d]
    <2>1. d \in Step /\ WaveOf[d] < wave[p]
      BY <1>1, WaveOfLayers, ConstantsAssumption
    <2> QED
      BY <1>1, <2>1 DEF IInv, Snapshot
  <1> QED
    BY <1>1, <1>2, <1>3
    DEF Contract!Ripe, Contract!Settled, Contract!Satisfied, GateAllowsDispatch,
       IsTerminal

LEMMA DispatchMaps ==
  ASSUME SingleProcess, IInv, NEW p \in Proc, NEW s \in Step,
         SkipStep(p, s) \/ RefuseStep(p, s) \/ LaunchStep(p, s)
  PROVE  Contract!Skip(s) \/ Contract!Refuse(s) \/ Contract!Launch(s)
  <1>1. Contract!Ripe(s) /\ (Contract!Satisfied(s) <=> GateAllowsDispatch(p, s))
    BY VisitIsRipe DEF SkipStep, RefuseStep, LaunchStep
  <1>2. CASE SkipStep(p, s)
    BY <1>1, <1>2 DEF SkipStep, Resolve, Visited, Contract!Skip, sessions, InFlight
  <1>3. CASE RefuseStep(p, s)
    BY <1>1, <1>3 DEF RefuseStep, Resolve, Visited, Contract!Refuse, sessions, InFlight
  <1>4. CASE LaunchStep(p, s)
    <2>1. /\ session' = [session EXCEPT ![p][s] = "live"]
          /\ session \in [Proc -> [Step -> {"none", "live", "aborted"}]]
      BY <1>4 DEF LaunchStep, IInv, TypeOK
    <2>2. Live' = Live \cup {s}
      BY <2>1, LiveIsSession
    <2> QED
      BY <1>1, <1>4, <2>2 DEF LaunchStep, Visited, Contract!Launch, Live
  <1> QED
    BY <1>2, <1>3, <1>4

LEMMA SettleMaps ==
  ASSUME SingleProcess, IInv, NEW p \in Proc, NEW s \in Step, Settle(p, s)
  PROVE  \/ Contract!Retry(s)
         \/ \E outcome \in {"completed", "failed"} :
              Contract!Finish(s, outcome)
  <1>1. /\ s \in Live /\ session \in [Proc -> [Step -> {"none", "live", "aborted"}]]
        /\ dagStatus' = dagStatus
    BY LiveIsSession DEF IInv, TypeOK, Settle, CompleteStep, FailStep,
       RetryStep, RetryRefused, Rejected, Settling
  <1>2. ASSUME session' = [session EXCEPT ![p][s] = "none"] PROVE Live' = Live \ {s}
    BY <1>1, <1>2, LiveIsSession
  <1>3. ASSUME session' = [session EXCEPT ![p][s] = "live"] PROVE Live' = Live
    BY <1>1, <1>3, LiveIsSession
  <1>4. CASE CompleteStep(p, s)
    BY <1>1, <1>2, <1>4 DEF CompleteStep, Resolve, Release, Contract!Finish, Live
  <1>5. CASE FailStep(p, s) \/ RetryRefused(p, s)
    BY <1>1, <1>2, <1>5 DEF FailStep, RetryRefused, Resolve, Release, Contract!Finish,
       Live
  <1>6. CASE RetryStep(p, s)
    BY <1>1, <1>3, <1>6 DEF RetryStep, Contract!Retry, Live
  <1> QED
    BY <1>4, <1>5, <1>6 DEF Settle

(* Resuming, waves, conclusion, cancellation and the process life cycle.     *)
LEMMA ResetMaps ==
  ASSUME SingleProcess, IInv, NEW p \in Proc, NEW s \in Step, ResetStep(p, s)
  PROVE  Contract!Reopen(s)
  <1>1. stepStatus[s] = "running" /\ Live = {}
    BY Quiet DEF ResetStep, InTurn, IInv, Places
  <1>2. dagStatus = "running"
    <2>1. dagStatus \in {"pending", "running", "cancelled"}
      BY DEF ResetStep, InTurn, IInv, Statuses
    <2>2. dagStatus # "cancelled"
      BY <1>1 DEF ResetStep, InTurn, IInv, Statuses
    <2>3. dagStatus # "pending"
      BY <1>1 DEF ResetStep, InTurn, IInv, Statuses, FirstExecution
    <2> QED
      BY <2>1, <2>2, <2>3
  <1> QED
    BY <1>1, <1>2 DEF ResetStep, Contract!Reopen, Live, sessions, InFlight

LEMMA RunMaps ==
  ASSUME SingleProcess, IInv, NEW p \in Proc, BeginExecute(p)
  PROVE  Contract!Run
  <1>1. Live = {} /\ dagStatus \in {"pending", "running", "cancelled"}
    BY Quiet DEF BeginExecute, InTurn, IInv, Statuses
  <1> QED
    BY <1>1 DEF BeginExecute, Contract!Run, Live, sessions, InFlight

LEMMA ConcludeMaps ==
  ASSUME SingleProcess, IInv, NEW p \in Proc, Conclude(p)
  PROVE  Contract!Conclude
  <1>1. Live = {} /\ dagStatus = "running"
    BY Quiet DEF Conclude, WaveSettled, Ready, IInv, Statuses, Places
  <1>2. \A s \in Step : IsTerminal(Mirrored(p)[s]) /\ stepStatus[s] = Mirrored(p)[s]
    BY LastWaveSettled DEF Conclude
  <1>3. dagStatus' = IF \A s \in Step : stepStatus[s] = "completed"
                    THEN "completed" ELSE "failed"
    BY <1>2 DEF Conclude, DetectCompletion
  <1>4. UNCHANGED <<stepStatus, session>>
    BY DEF Conclude, WaveSettled, sessions
  <1> QED
    BY <1>1, <1>2, <1>3, <1>4 DEF Contract!Conclude, Contract!Settled, Live, InFlight,
       IsTerminal

LEMMA CancelMaps ==
  ASSUME SingleProcess, IInv, NEW p \in Proc
  PROVE  /\ Cancel(p) => UNCHANGED Contract!vars
         /\ \A s \in Step : CancelStep(p, s) => Contract!CancelStep(s)
         /\ CancelDag(p) => Contract!CancelDag
  <1>1. ASSUME Cancel(p) PROVE UNCHANGED Contract!vars
    <2>1. \A s \in Step : session'[p][s] # "none" <=> session[p][s] # "none"
      BY <1>1 DEF Cancel, IInv, TypeOK
    <2>2. Live' = Live
      BY <2>1, LiveIsSession
    <2> QED
      BY <1>1, <2>2 DEF Cancel, record, Contract!vars, Live
  <1>2. ASSUME NEW s \in Step, CancelStep(p, s) PROVE Contract!CancelStep(s)
    BY <1>2 DEF CancelStep, Contract!CancelStep, Contract!Open, IInv, Places, Statuses,
       sessions, InFlight
  <1>3. ASSUME CancelDag(p) PROVE Contract!CancelDag
    BY <1>3 DEF CancelDag, Contract!CancelDag, Contract!Open, IInv, Places, Statuses,
       sessions, InFlight
  <1> QED
    BY <1>1, <1>2, <1>3

LEMMA ProcessMaps ==
  ASSUME SingleProcess, IInv, NEW p \in Proc
  PROVE  /\ Crash(p) => Contract!Interrupt
         /\ StartAndMarkStale(p) => Contract!MarkStale
  <1>1. ASSUME Crash(p) PROVE Contract!Interrupt
    <2>1. Live' = {}
      BY <1>1, LiveIsSession DEF Crash, IInv, TypeOK
    <2> QED
      BY <1>1, <2>1 DEF Crash, record, Contract!Interrupt, Live
  <1>2. ASSUME StartAndMarkStale(p) PROVE Contract!MarkStale
    <2>1. Live = {}
      BY <1>2, Quiet DEF StartAndMarkStale, Started, IInv, Places
    <2> QED
      BY <1>2, <2>1 DEF StartAndMarkStale, Started, Contract!MarkStale, Live, sessions,
         InFlight
  <1> QED
    BY <1>1, <1>2

LEMMA NextMaps ==
  ASSUME SingleProcess, IInv, [Next]_vars
  PROVE  [Contract!Next]_(Contract!vars)
  <1>1. ASSUME NEW p \in Proc, Submit(p) PROVE Contract!Submit
    BY <1>1 DEF Submit, Contract!Submit, sessions, InFlight
  <1>2. ASSUME NEW p \in Proc, NEW s \in Step,
               \/ BeginResume(p) \/ KeepStep(p, s) \/ NextWave(p)
               \/ CountWaves(p) \/ EnterWave(p)
               \/ StopCancelled(p) \/ Start(p)
        PROVE  UNCHANGED Contract!vars
    <2>1. UNCHANGED <<dagStatus, stepStatus, session>>
      BY <1>2 DEF BeginResume, KeepStep, Visited, NextWave, WaveAdvances, CountWaves,
         EnterWave, WaveEntered, StopCancelled, WaveSettled,
         Start, Started, record, sessions
    <2> QED
      BY <2>1, Unseen
  <1>3. CASE UNCHANGED vars
    BY <1>3, Unseen DEF vars, record, sessions
  <1>4. Step # {}
    BY ConstantsAssumption
  <1> QED
    BY <1>1, <1>2, <1>3, <1>4, DispatchMaps, SettleMaps, ResetMaps, RunMaps,
       ConcludeMaps, CancelMaps, ProcessMaps
    DEF Next, Turn, Contract!Next

(* The executor, its record, its cancel and its crashes implement the        *)
(* contract: what a reader of the record sees is a behaviour of DagContract. *)
THEOREM ExecutorImplementsContract ==
  ASSUME SingleProcess PROVE Spec => ImplementsContract
  <1>1. IInv /\ [Next]_vars => [Contract!Next]_(Contract!vars)
    BY NextMaps
  <1> QED
    BY <1>1, InitMaps, Inductive, PTL DEF Spec, ImplementsContract, Contract!Spec
=============================================================================
