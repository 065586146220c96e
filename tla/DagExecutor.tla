---------------------------- MODULE DagExecutor ----------------------------
(***************************************************************************)
(* Execution of one DAG of agent steps (src/src/dag/dag-executor.ts)       *)
(* against its record on disk (src/src/dag/dag-store.ts), as wired by      *)
(* src/index.ts: submission, wave by wave dispatch, gates, retries,        *)
(* cancellation, crash of the pi process, stale marking and resume.        *)
(*                                                                         *)
(* The record is shared by every pi process of the user (the DAG directory *)
(* is global), so the executor is replicated over Proc.  Inside a process  *)
(* JavaScript runs one turn at a time: a loop over steps that contains no  *)
(* await ("prepare", "dispatch", the loop of cancel) is one turn of its    *)
(* process, and no other handler of THAT process runs before it ends.  The *)
(* record is written once per step, so the turn is one action per step:    *)
(* a crash, or another process, can come between two writes.               *)
(***************************************************************************)
EXTENDS Naturals, FiniteSets

CONSTANTS
  Step,          \* the step ids of the submitted DAG
  DependsOn,     \* step -> the steps it names in dependsOn
  Gate,          \* step -> "needs" or "after"
  Refs,          \* step -> the steps whose {<id>.output} its prompt mentions
  FailFast,      \* options.failFast
  MaxRetries,    \* options.maxRetries
  Proc,          \* pi processes that share the DAG directory
  MaxStarts      \* bound: how many times pi processes are started

StepStatus == {"pending", "running", "completed", "failed", "skipped", "cancelled"}
DagStatus  == {"none", "pending", "running", "completed", "failed", "cancelled", "stale"}
StepResult == StepStatus \cup {"none"}

IsTerminal(status) == status \in {"completed", "failed", "skipped", "cancelled"}

(* Longest-path layering: what topologicalSort returns (waves count from 1). *)
IsLayering(w) ==
  \A s \in Step :
    /\ \A d \in DependsOn[s] : w[d] < w[s]
    /\ w[s] > 1 => \E d \in DependsOn[s] : w[s] = w[d] + 1

ASSUME ConstantsAssumption ==
  /\ Step # {} /\ IsFiniteSet(Step)
  /\ DependsOn \in [Step -> SUBSET Step]
  /\ Gate \in [Step -> {"needs", "after"}]
  /\ Refs \in [Step -> SUBSET Step]
  /\ FailFast \in BOOLEAN
  /\ MaxRetries \in Nat /\ MaxStarts \in Nat

(* acp_dag submits only what DagValidator accepts: an acyclic dependsOn. *)
ASSUME DagValidated ==
  \E w \in [Step -> 1 .. Cardinality(Step)] : IsLayering(w)

WaveOf == CHOOSE w \in [Step -> 1 .. Cardinality(Step)] : IsLayering(w)

StepsOfWave(n) == {s \in Step : WaveOf[s] = n}

IsLastWave(n) == \A s \in Step : WaveOf[s] <= n

VARIABLES
  (* the persisted record <dagId>.json *)
  dagStatus,    \* record.status, "none" before create
  currentWave,  \* record.currentWave
  stepStatus,   \* record.steps[s].status
  retryCount,   \* record.steps[s].retryCount
  (* pi processes *)
  up,           \* the live processes
  starts,       \* how many starts there have been (bounded by MaxStarts)
  queued,       \* processes whose resumeAll holds the DAG and has not reached it
  (* execute()/resume(), per process *)
  pc,           \* "idle", "await", or in a turn: "prepare", "begun", "entering",
                \* "dispatch"
  skipTerminal, \* the option execute() was called with
  wave,         \* waveIndex + 1
  steps,        \* the working snapshot the gates read: statuses
  snapRetry,    \* the working snapshot: retry counts
  todo,         \* steps the loop of the current turn has still to visit
  result,       \* what the dispatches of this wave resolved to
  (* agent sessions and their AbortControllers, per process and step *)
  session,      \* "none", "live", or "aborted": signal fired, not yet settled
  tries,        \* the retryCount dispatchStep holds for the session
  (* cancel(), per process *)
  cancelling,   \* the processes inside the turn of cancel()
  cancelTodo,   \* steps cancel() has still to mark
  (* history, read by properties only *)
  launches      \* how many agent sessions were started for the step

record   == <<dagStatus, currentWave, stepStatus, retryCount>>
procs    == <<up, starts, queued>>
loop     == <<pc, skipTerminal, wave, steps, snapRetry, todo, result>>
sessions == <<session, tries, launches>>
canceller == <<cancelling, cancelTodo>>
vars == <<record, procs, loop, sessions, canceller>>

-----------------------------------------------------------------------------
Init ==
  /\ dagStatus = "none"
  /\ currentWave = 0
  /\ stepStatus = [s \in Step |-> "pending"]
  /\ retryCount = [s \in Step |-> 0]
  /\ up = {} /\ starts = 0 /\ queued = {}
  /\ pc = [p \in Proc |-> "idle"]
  /\ skipTerminal = [p \in Proc |-> FALSE]
  /\ wave = [p \in Proc |-> 0]
  /\ steps = [p \in Proc |-> [s \in Step |-> "pending"]]
  /\ snapRetry = [p \in Proc |-> [s \in Step |-> 0]]
  /\ todo = [p \in Proc |-> {}]
  /\ result = [p \in Proc |-> [s \in Step |-> "none"]]
  /\ session = [p \in Proc |-> [s \in Step |-> "none"]]
  /\ tries = [p \in Proc |-> [s \in Step |-> 0]]
  /\ cancelling = {}
  /\ cancelTodo = [p \in Proc |-> {}]
  /\ launches = [s \in Step |-> 0]

(* The event loop of p can run another handler: p is up and in no turn. *)
Ready(p) == p \in up /\ pc[p] \in {"idle", "await"} /\ p \notin cancelling

InTurn(p, where) == p \in up /\ pc[p] = where

-----------------------------------------------------------------------------
(* acp_dag(submit): create the record, then call execute() in the same turn. *)
Submit(p) ==
  /\ Ready(p)
  /\ dagStatus = "none"
  /\ dagStatus' = "pending"
  /\ pc' = [pc EXCEPT ![p] = "prepare"]
  /\ skipTerminal' = [skipTerminal EXCEPT ![p] = FALSE]
  /\ UNCHANGED <<currentWave, stepStatus, retryCount, procs, wave, steps,
                 snapRetry, todo, result, sessions, canceller>>

BeginResume_ResetsFailed(p) ==
  /\ Ready(p) /\ pc[p] = "idle"
  /\ p \in queued
  /\ queued' = queued \ {p}
  /\ pc' = [pc EXCEPT ![p] = "prepare"]
  /\ skipTerminal' = [skipTerminal EXCEPT ![p] = TRUE]
  /\ todo' = [todo EXCEPT ![p] = {s \in Step : stepStatus[s] \in {"running", "failed"}}]
  /\ UNCHANGED <<record, up, starts, wave, steps, snapRetry, result,
                 sessions, canceller>>

(* The resumeAll pass of p reaches the DAG: resume() reads the record, not   *)
(* its status, and resets every step that was interrupted mid-flight.        *)
BeginResume(p) ==
  /\ Ready(p) /\ pc[p] = "idle"
  /\ p \in queued
  /\ queued' = queued \ {p}
  /\ pc' = [pc EXCEPT ![p] = "prepare"]
  /\ skipTerminal' = [skipTerminal EXCEPT ![p] = TRUE]
  /\ todo' = [todo EXCEPT ![p] = {s \in Step : stepStatus[s] = "running"}]
  /\ UNCHANGED <<record, up, starts, wave, steps, snapRetry, result,
                 sessions, canceller>>

ResetStep(p, s) ==
  /\ InTurn(p, "prepare")
  /\ s \in todo[p]
  /\ todo' = [todo EXCEPT ![p] = @ \ {s}]
  /\ stepStatus' = [stepStatus EXCEPT ![s] = "pending"]
  /\ UNCHANGED <<dagStatus, currentWave, retryCount, procs, pc, skipTerminal,
                 wave, steps, snapRetry, result, sessions, canceller>>

(* Head of execute(): snapshot the steps, mark the DAG running ...           *)
BeginExecute(p) ==
  /\ InTurn(p, "prepare")
  /\ todo[p] = {}
  /\ steps' = [steps EXCEPT ![p] = stepStatus]
  /\ snapRetry' = [snapRetry EXCEPT ![p] = retryCount]
  /\ dagStatus' = "running"
  /\ wave' = [wave EXCEPT ![p] = 1]
  /\ todo' = [todo EXCEPT ![p] = StepsOfWave(1)]
  /\ result' = [result EXCEPT ![p] = [s \in Step |-> "none"]]
  /\ pc' = [pc EXCEPT ![p] = "begun"]
  /\ UNCHANGED <<currentWave, stepStatus, retryCount, procs, skipTerminal, sessions, canceller>>

(* ... reset the persisted progress, in a write of its own ...               *)
CountWaves(p) ==
  /\ InTurn(p, "begun")
  /\ currentWave' = 0
  /\ pc' = [pc EXCEPT ![p] = "entering"]
  /\ UNCHANGED <<dagStatus, stepStatus, retryCount, procs, skipTerminal, wave, steps,
                 snapRetry, todo, result, sessions, canceller>>

WaveEntered(p, number) ==
  /\ InTurn(p, "entering")
  /\ currentWave' = number
  /\ pc' = [pc EXCEPT ![p] = "dispatch"]
  /\ UNCHANGED <<dagStatus, stepStatus, retryCount, procs, skipTerminal, wave, steps,
                 snapRetry, todo, result, sessions, canceller>>

EnterWave_ZeroBased(p) == WaveEntered(p, wave[p] - 1)

(* ... and, before each wave is dispatched, write its number.                *)
EnterWave(p) == WaveEntered(p, wave[p])

-----------------------------------------------------------------------------
(* runWave: the loop body for one step.  It reads only the snapshot.         *)

(* Faulty variants, each beside the definition it stands in for, are named   *)
(* X_<fault>; nothing refers to them but PROJECT.json's mutants.             *)
GateAllowsDispatch_AnyOutcome(p, s) ==
  \A d \in DependsOn[s] : IsTerminal(steps[p][d])

GateAllowsDispatch_AfterAsNeeds(p, s) ==
  \A d \in DependsOn[s] :
    IF FailFast THEN steps[p][d] = "completed" ELSE IsTerminal(steps[p][d])

GateAllowsDispatch(p, s) ==
  \A d \in DependsOn[s] :
    IF Gate[s] = "after" \/ ~FailFast
    THEN IsTerminal(steps[p][d])
    ELSE steps[p][d] = "completed"

(* collectOutputs: a completed step has its output, a failed one its error. *)
Resolvable(p, s) ==
  \A r \in Refs[s] : steps[p][r] \in {"completed", "failed"}

KeptTerminal_Never(p, s) == FALSE /\ IsTerminal(steps[p][s])

KeptTerminal(p, s) == skipTerminal[p] /\ IsTerminal(steps[p][s])

Dispatching(p, s) == InTurn(p, "dispatch") /\ s \in todo[p]

Visited(p, s) ==
  /\ todo' = [todo EXCEPT ![p] = @ \ {s}]
  /\ pc' = [pc EXCEPT ![p] = IF todo[p] = {s} THEN "await" ELSE "dispatch"]
  /\ UNCHANGED <<dagStatus, currentWave, procs, skipTerminal, wave, steps,
                 snapRetry, canceller>>

(* updateStep(dagId, s, ...) and the value the dispatch of s resolves to. *)
Resolve(p, s, status) ==
  /\ stepStatus' = [stepStatus EXCEPT ![s] = status]
  /\ result' = [result EXCEPT ![p][s] = status]

KeepStep(p, s) ==
  /\ Dispatching(p, s)
  /\ KeptTerminal(p, s)
  /\ Visited(p, s)
  /\ UNCHANGED <<stepStatus, retryCount, result, sessions>>

SkipStep(p, s) ==
  /\ Dispatching(p, s)
  /\ ~KeptTerminal(p, s) /\ ~GateAllowsDispatch(p, s)
  /\ Resolve(p, s, "skipped")
  /\ Visited(p, s)
  /\ UNCHANGED <<retryCount, sessions>>

(* A template variable is unresolved, or the circuit of the step's agent is  *)
(* open (it may be, whatever the prompt): the step fails without a session.  *)
RefuseStep(p, s) ==
  /\ Dispatching(p, s)
  /\ ~KeptTerminal(p, s) /\ GateAllowsDispatch(p, s)
  /\ Resolve(p, s, "failed")
  /\ Visited(p, s)
  /\ UNCHANGED <<retryCount, sessions>>

LaunchStep(p, s) ==
  /\ Dispatching(p, s)
  /\ ~KeptTerminal(p, s) /\ GateAllowsDispatch(p, s) /\ Resolvable(p, s)
  /\ stepStatus' = [stepStatus EXCEPT ![s] = "running"]
  /\ session' = [session EXCEPT ![p][s] = "live"]
  /\ tries' = [tries EXCEPT ![p][s] = snapRetry[p][s]]
  /\ launches' = [launches EXCEPT ![s] = @ + 1]
  /\ Visited(p, s)
  /\ UNCHANGED <<retryCount, result>>

-----------------------------------------------------------------------------
(* dispatchStep after its await: delegate() has settled.  Nothing here reads *)
(* the record's DAG status.                                                  *)

Settling(p, s) ==
  /\ Ready(p) /\ session[p][s] # "none"
  /\ UNCHANGED <<dagStatus, currentWave, procs, pc, skipTerminal, wave, steps,
                 snapRetry, todo, canceller>>

Release(p, s) ==
  /\ session' = [session EXCEPT ![p][s] = "none"]
  /\ UNCHANGED <<tries, launches>>

CompleteStep(p, s) ==
  /\ Settling(p, s)
  /\ Resolve(p, s, "completed")
  /\ Release(p, s)
  /\ UNCHANGED retryCount

(* Any rejection, an abort's too: delegateToAgent rethrows the AbortError as *)
(* a plain Error, so that the branch of isAbortError is never taken.         *)
Rejected(p, s) == Settling(p, s)

RetriesLeft_OffByOne(p, s) == tries[p][s] <= MaxRetries

RetriesLeft(p, s) == tries[p][s] < MaxRetries

FailStep(p, s) ==
  /\ Rejected(p, s) /\ ~RetriesLeft(p, s)
  /\ Resolve(p, s, "failed")
  /\ Release(p, s)
  /\ UNCHANGED retryCount

RetryStep_Uncounted(p, s) ==
  /\ Rejected(p, s) /\ RetriesLeft(p, s)
  /\ stepStatus' = [stepStatus EXCEPT ![s] = "running"]
  /\ tries' = [tries EXCEPT ![p][s] = @ + 1]
  /\ session' = [session EXCEPT ![p][s] = "live"]
  /\ launches' = [launches EXCEPT ![s] = @ + 1]
  /\ UNCHANGED <<retryCount, result>>

(* recordRetry, then dispatchStep again: the circuit is closed... *)
RetryStep(p, s) ==
  /\ Rejected(p, s) /\ RetriesLeft(p, s)
  /\ stepStatus' = [stepStatus EXCEPT ![s] = "running"]
  /\ retryCount' = [retryCount EXCEPT ![s] = tries[p][s] + 1]
  /\ tries' = [tries EXCEPT ![p][s] = @ + 1]
  /\ session' = [session EXCEPT ![p][s] = "live"]
  /\ launches' = [launches EXCEPT ![s] = @ + 1]
  /\ UNCHANGED result

(* ... or it has opened meanwhile. *)
RetryRefused(p, s) ==
  /\ Rejected(p, s) /\ RetriesLeft(p, s)
  /\ retryCount' = [retryCount EXCEPT ![s] = tries[p][s] + 1]
  /\ Resolve(p, s, "failed")
  /\ Release(p, s)

Settle(p, s) ==
  \/ CompleteStep(p, s) \/ FailStep(p, s)
  \/ RetryStep(p, s) \/ RetryRefused(p, s)

-----------------------------------------------------------------------------
(* execute() after Promise.allSettled: mirror the results into the snapshot, *)
(* look whether the DAG was cancelled meanwhile, go on or conclude.          *)

Mirrored(p) ==
  [s \in Step |-> IF result[p][s] = "none" THEN steps[p][s] ELSE result[p][s]]

DetectCompletion_SkippedIsOpen(snapshot) ==
  IF \E s \in Step : snapshot[s] \in {"pending", "running", "skipped"} THEN "null"
  ELSE IF \A s \in Step : snapshot[s] = "completed" THEN "completed" ELSE "failed"

DetectCompletion_OnlyFailedFails(snapshot) ==
  IF \E s \in Step : ~IsTerminal(snapshot[s]) THEN "null"
  ELSE IF \E s \in Step : snapshot[s] = "failed" THEN "failed" ELSE "completed"

DetectCompletion(snapshot) ==
  IF \E s \in Step : ~IsTerminal(snapshot[s]) THEN "null"
  ELSE IF \A s \in Step : snapshot[s] = "completed" THEN "completed" ELSE "failed"

WaveSettled_NoWait(p) ==
  /\ Ready(p) /\ pc[p] = "await"
  /\ UNCHANGED <<currentWave, stepStatus, retryCount, procs, skipTerminal, snapRetry,
                 sessions, canceller>>

WaveSettled(p) ==
  /\ Ready(p) /\ pc[p] = "await"
  /\ \A s \in Step : session[p][s] = "none"
  /\ UNCHANGED <<currentWave, stepStatus, retryCount, procs, skipTerminal, snapRetry,
                 sessions, canceller>>

WaveAdvances(p) ==
  /\ steps' = [steps EXCEPT ![p] = Mirrored(p)]
  /\ result' = [result EXCEPT ![p] = [s \in Step |-> "none"]]
  /\ wave' = [wave EXCEPT ![p] = @ + 1]
  /\ todo' = [todo EXCEPT ![p] = StepsOfWave(wave[p] + 1)]
  /\ pc' = [pc EXCEPT ![p] = "entering"]
  /\ UNCHANGED dagStatus

NextWave_IgnoresCancel(p) ==
  /\ WaveSettled(p)
  /\ ~IsLastWave(wave[p])
  /\ WaveAdvances(p)

NextWave(p) ==
  /\ WaveSettled(p)
  /\ dagStatus # "cancelled" /\ ~IsLastWave(wave[p])
  /\ WaveAdvances(p)

(* execute() returns; the locals it leaves behind are dead. *)
Returned(p) ==
  /\ pc' = [pc EXCEPT ![p] = "idle"]
  /\ UNCHANGED <<wave, steps, result, todo>>

StopCancelled(p) ==
  /\ WaveSettled(p)
  /\ dagStatus = "cancelled"
  /\ Returned(p)
  /\ UNCHANGED dagStatus

Conclude(p) ==
  /\ WaveSettled(p)
  /\ dagStatus # "cancelled" /\ IsLastWave(wave[p])
  /\ LET verdict == DetectCompletion(Mirrored(p)) IN
       dagStatus' = IF verdict = "null" THEN dagStatus ELSE verdict
  /\ Returned(p)

-----------------------------------------------------------------------------
Cancel_PendingOnly(p) ==
  /\ Ready(p)
  /\ dagStatus \in {"pending", "running", "stale"}
  /\ session' = [session EXCEPT ![p] =
       [s \in Step |-> IF @[s] = "live" THEN "aborted" ELSE @[s]]]
  /\ cancelling' = cancelling \cup {p}
  /\ cancelTodo' = [cancelTodo EXCEPT ![p] = {s \in Step : stepStatus[s] = "pending"}]
  /\ UNCHANGED <<record, procs, loop, tries, launches>>

(* acp_dag(cancel): one turn; any process may be asked, only the sessions of *)
(* that process have their controller in its registry.                       *)
Cancel(p) ==
  /\ Ready(p)
  /\ dagStatus \in {"pending", "running", "stale"}
  /\ session' = [session EXCEPT ![p] =
       [s \in Step |-> IF @[s] = "live" THEN "aborted" ELSE @[s]]]
  /\ cancelling' = cancelling \cup {p}
  /\ cancelTodo' = [cancelTodo EXCEPT ![p] =
       {s \in Step : stepStatus[s] \in {"pending", "running"}}]
  /\ UNCHANGED <<record, procs, loop, tries, launches>>

CancelStep(p, s) ==
  /\ p \in cancelling /\ s \in cancelTodo[p]
  /\ cancelTodo' = [cancelTodo EXCEPT ![p] = @ \ {s}]
  /\ stepStatus' = [stepStatus EXCEPT ![s] = "cancelled"]
  /\ UNCHANGED <<dagStatus, currentWave, retryCount, procs, loop, sessions, cancelling>>

CancelDag(p) ==
  /\ p \in cancelling /\ cancelTodo[p] = {}
  /\ cancelling' = cancelling \ {p}
  /\ dagStatus' = "cancelled"
  /\ UNCHANGED <<currentWave, stepStatus, retryCount, procs, loop, sessions, cancelTodo>>

-----------------------------------------------------------------------------
(* pi processes.  On load the extension marks stale DAGs, then queues every  *)
(* DAG that is still running for resumeAll.                                  *)
Started(p) ==
  /\ p \notin up /\ starts < MaxStarts
  /\ up' = up \cup {p}
  /\ starts' = starts + 1
  /\ UNCHANGED <<currentWave, stepStatus, retryCount, loop, sessions, canceller>>

Start_NoResume(p) ==
  /\ Started(p)
  /\ UNCHANGED <<dagStatus, queued>>

Start(p) ==
  /\ Started(p)
  /\ queued' = IF dagStatus = "running" THEN queued \cup {p} ELSE queued
  /\ UNCHANGED dagStatus

(* ... the same when updatedAt is older than dagStaleTimeoutMs. *)
StartAndMarkStale(p) ==
  /\ Started(p)
  /\ dagStatus = "running"
  /\ dagStatus' = "stale"
  /\ UNCHANGED queued

(* The process exits: its memory and its agent sessions are gone. *)
Crash(p) ==
  /\ p \in up
  /\ up' = up \ {p}
  /\ queued' = queued \ {p}
  /\ pc' = [pc EXCEPT ![p] = "idle"]
  /\ todo' = [todo EXCEPT ![p] = {}]
  /\ session' = [session EXCEPT ![p] = [s \in Step |-> "none"]]
  /\ cancelling' = cancelling \ {p}
  /\ cancelTodo' = [cancelTodo EXCEPT ![p] = {}]
  /\ UNCHANGED <<record, starts, skipTerminal, wave, steps, snapRetry, result,
                 tries, launches>>

-----------------------------------------------------------------------------
(* What the event loop of p runs without any input from outside. *)
Turn(p) ==
  \/ \E s \in Step :
       \/ ResetStep(p, s) \/ KeepStep(p, s) \/ SkipStep(p, s)
       \/ RefuseStep(p, s) \/ LaunchStep(p, s) \/ CancelStep(p, s)
  \/ BeginExecute(p) \/ CountWaves(p) \/ EnterWave(p) \/ CancelDag(p)
  \/ NextWave(p) \/ StopCancelled(p) \/ Conclude(p)

Next ==
  \E p \in Proc :
    \/ Start(p) \/ StartAndMarkStale(p) \/ Crash(p)
    \/ Submit(p) \/ BeginResume(p) \/ Cancel(p)
    \/ Turn(p)
    \/ \E s \in Step : Settle(p, s)

Spec == Init /\ [][Next]_vars

(* A turn runs to its end and a settled wave is continued: the event loop.   *)
FairSpec == Spec /\ \A p \in Proc : WF_vars(Turn(p))

-----------------------------------------------------------------------------
(* Properties.  Those that compare a process with the record hold while one  *)
(* process at a time works on the DAG: Proc is a singleton in their runs.    *)

(* No retry, wave or session value leaves its range, in any process.         *)
TypeOK ==
  /\ dagStatus \in DagStatus
  /\ currentWave \in 0 .. Cardinality(Step)
  /\ stepStatus \in [Step -> StepStatus]
  /\ retryCount \in [Step -> 0 .. MaxRetries]
  /\ up \subseteq Proc /\ starts \in 0 .. MaxStarts /\ queued \subseteq up
  /\ pc \in [Proc -> {"idle", "prepare", "begun", "entering", "dispatch", "await"}]
  /\ skipTerminal \in [Proc -> BOOLEAN]
  /\ wave \in [Proc -> 0 .. Cardinality(Step)]
  /\ steps \in [Proc -> [Step -> StepStatus]]
  /\ snapRetry \in [Proc -> [Step -> 0 .. MaxRetries]]
  /\ todo \in [Proc -> SUBSET Step]
  /\ result \in [Proc -> [Step -> StepResult]]
  /\ session \in [Proc -> [Step -> {"none", "live", "aborted"}]]
  /\ tries \in [Proc -> [Step -> 0 .. MaxRetries]]
  /\ cancelling \subseteq up
  /\ cancelTodo \in [Proc -> SUBSET Step]
  /\ launches \in [Step -> Nat]

InFlight(s) == \E p \in Proc : session[p][s] # "none"

(* "The next wave SHALL NOT start until all steps in the current wave reach  *)
(* a terminal state": while an agent works on a step, every step of every    *)
(* earlier wave is settled on disk, through cancels, crashes and resumes.    *)
WaveBarrier ==
  \A s, t \in Step :
    InFlight(t) /\ WaveOf[s] < WaveOf[t] => IsTerminal(stepStatus[s])

(* gateAllowsDispatch reads a snapshot; on disk, too, an agent works on a    *)
(* failFast "needs" step only if all its dependencies completed.             *)
NeedsGate ==
  \A s \in Step :
    InFlight(s) /\ Gate[s] = "needs" /\ FailFast =>
      \A d \in DependsOn[s] : stepStatus[d] = "completed"

(* A step is skipped only on account of a dependency that ended badly, and   *)
(* never a step whose "after" gate or failFast: false promises it will run.  *)
SkipJustified ==
  \A s \in Step :
    stepStatus[s] = "skipped" =>
      /\ Gate[s] = "needs" /\ FailFast
      /\ \E d \in DependsOn[s] : stepStatus[d] \in {"failed", "skipped", "cancelled"}

(* The verdict on disk agrees with the steps on disk: "completed" only if    *)
(* every step completed, "failed" only if all settled and one did not, and   *)
(* no agent is still at work under either.                                   *)
VerdictSound ==
  /\ dagStatus = "completed" => \A s \in Step : stepStatus[s] = "completed"
  /\ dagStatus = "failed" =>
       /\ \A s \in Step : IsTerminal(stepStatus[s])
       /\ \E s \in Step : stepStatus[s] # "completed"
  /\ dagStatus \in {"completed", "failed"} => ~\E s \in Step : InFlight(s)

(* No handler, retry or resume reopens or overwrites a settled step ("SHALL  *)
(* NOT re-execute"), save the one case the code leaves open: the late answer *)
(* of an agent that was in flight when its step was cancelled.               *)
SettledIsFinal ==
  [][\A s \in Step :
       IsTerminal(stepStatus[s]) /\ stepStatus'[s] # stepStatus[s] =>
         stepStatus[s] = "cancelled" /\ \E p \in Proc : session[p][s] = "aborted"]_vars

(* Over all crashes and resumes a step starts at most one agent session per  *)
(* process start, plus one per retry the record accounts for: the retry      *)
(* budget survives a restart instead of beginning anew.                      *)
RetryBudget == \A s \in Step : launches[s] <= retryCount[s] + starts

(* A DAG the record calls running has an executor working on it or a resume  *)
(* queued for it, whenever a pi process is alive: it is never orphaned.      *)
OwnedWhileRunning ==
  dagStatus = "running" /\ up # {} =>
    \E p \in up : p \in queued \/ pc[p] # "idle" \/ p \in cancelling

(* If the queued resume is reached and every agent session ends, a running   *)
(* DAG does not stay running: no await of the wave loop waits for ever.      *)
AgentsAnswer ==
  \A p \in Proc : WF_vars(BeginResume(p)) /\ \A s \in Step : WF_vars(Settle(p, s))

DagSettles == AgentsAnswer => (dagStatus = "running" ~> (dagStatus # "running" \/ up = {}))

(* Once the record says cancelled, no agent session is started for the DAG,  *)
(* save the one the code does start: the retry of a step that was in flight  *)
(* when its signal fired.                                                    *)
CancelStopsLaunches ==
  [][dagStatus = "cancelled" =>
       \A s \in Step : launches'[s] # launches[s] => InFlight(s)]_vars

(* A cancelled DAG leaves no step pending, and none running but one whose    *)
(* abort was answered by a retry, whatever crashes and resumes come between. *)
CancelledIsClean ==
  dagStatus = "cancelled" =>
    \A s \in Step :
      /\ stepStatus[s] # "pending"
      /\ stepStatus[s] = "running" => retryCount[s] > 0

(* What the comments promise of an abort: an aborted session ends, with its  *)
(* step cancelled, or completed when the agent was faster: the step neither  *)
(* fails nor is tried again.  The code does both.                            *)
AbortedEndsCancelled ==
  [][\A p \in Proc, s \in Step :
       session[p][s] = "aborted" /\ session'[p][s] # "aborted" /\ p \in up' =>
         session'[p][s] = "none" /\ stepStatus'[s] \in {"cancelled", "completed"}]_vars

(* The progress acp_dag(status) reads on disk never runs ahead of the steps  *)
(* there: every wave before the reported one is settled, an agent is only at *)
(* work in the reported wave, and a completed DAG shows its last wave,       *)
(* wherever a crash separates the writes of status, wave number and steps.   *)
ProgressHonest ==
  /\ \A s \in Step : WaveOf[s] < currentWave => IsTerminal(stepStatus[s])
  /\ \A s \in Step : InFlight(s) => WaveOf[s] = currentWave
  /\ dagStatus = "completed" => IsLastWave(currentWave)

(* A step that resume resets was interrupted: no agent still works on it.    *)
ResetOnlyInterrupted ==
  [][\A s \in Step :
       stepStatus[s] = "running" /\ stepStatus'[s] = "pending" => ~InFlight(s)]_vars

(* Seen from outside, the executor is the contract of DagContract.           *)
Contract == INSTANCE DagContract WITH
  status <- dagStatus, step <- stepStatus, live <- {s \in Step : InFlight(s)}

ImplementsContract == Contract!Spec

=============================================================================
