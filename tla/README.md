# Verification of pi-acp-agents

pi-acp-agents is an extension of the pi coding agent. It starts other agents
(gemini, codex, opencode, ...) as child processes that speak the Agent Client
Protocol, and gives pi tools to prompt them, delegate to them, run them in the
background, assign them tasks, and run a *DAG* of prompts whose steps feed each
other. This directory holds TLA+ models of it, the TLC runs that check them on
small instances, and proofs about them for all instances.

Paths are relative to the repository: `src/...` is the extension's own `src/`
directory, `index.ts` is the file at the root that registers the tools.

## The system

| Part | State | Operations | Behaviour that is hard |
|---|---|---|---|
| DAG executor `src/dag/dag-executor.ts` | record `<dagId>.json`; per run: working snapshot, wave; registry of abort controllers | submit, wave loop, dispatch, retry, cancel, mark stale, resume | steps of a wave settle in any order; cancel between any two; crash between any two writes; several pi processes |
| DAG store `src/dag/dag-store.ts` | one file per DAG, `dag-index.json` | create, updateStep, updateDagStatus, updateDagWave, listAll, findRunning | two files, no lock, no atomic rename |
| DAG validator `src/dag/dag-validator.ts` | none | validate | cycle search; agreement with the sort |
| Template resolver `src/dag/template-resolver.ts` | none | resolve | unresolved references |
| Coordinator `src/coordination/coordinator.ts` | adapter pool, a chain of locks per adapter | delegate, broadcast, compare, dispose | create/evict races, abort while waiting, lock hand-over |
| Alias resolver `src/coordination/alias-resolver.ts` | none kept | failover, race | losers go on running; timer against a late answer |
| Circuit breaker `src/core/circuit-breaker.ts` | state, failure count, probe flag; counts per agent | execute, isHealthy, recordSuccess, recordFailure, killWithEscalation | answers of old calls while half-open |
| Async executor `src/core/async-executor.ts` | `async-runs.json`, interrupted set, steer queues | start, track, cancel, interrupt, resume, steer, prune | completion racing each of them; restart; two processes |
| Worker dispatcher, tasks, workers `src/coordination/worker-dispatcher.ts`, `src/management/{task,worker}-store.ts` | task and worker files, session map, busy marks | create, claim, settle, edit, steer, heartbeat, prune, cleanup | claim and settle around an await; sessions that close under a prompt |
| Session lifecycle and health `src/core/{health-monitor,session-lifecycle,session-manager}.ts` | handles, three registries by id, timers | open, prompt, cancel, close, reopen, sweep, shutdown | a check that judges, awaits and closes; one id with two handles |
| ACP client, adapters `src/core/client.ts`, `src/adapters/` | child process, stream, collected text | spawn, initialize, session, prompt, cancel, dispose | the child ends at any moment |
| Names, archive, mailbox `src/management/session-{name,archive}-store.ts`, `mailbox-manager.ts` | one JSON file each | register, reopen, load, message, cleanup | the name is registered after awaits; files outlive handles |
| Hooks, wake bus `src/hooks/` | two ends of a socket, rings and buffers, retries and timers | trigger, dispatch, publish, connect, reconnect, replay, deliver, stop | two connecting activities, a path another pi may take, delivery while pi is busy |
| Policy, governance, event log, configuration, widgets, logging | files and screens | | nothing that the parts above depend on |

How they interact. `acp_dag(submit)` validates the tasks, creates the record and
calls `execute()` without awaiting it. The executor asks the circuit breaker,
then awaits `coordinator.delegate()` for every step of a wave; the coordinator
resolves an alias, finds or starts an adapter, serialises the prompts of one
adapter, and reports success or failure to the breaker. `acp_spawn` and `acp_msg`
run inside the same breaker, on sessions the manager, the adapter table and the
health monitor keep under one id; the same sessions serve workers, whose
dispatcher shares the busy marks with `acp_msg`. `acp_spawn` may be tracked as an
asynchronous run. Every lifecycle callback raises a hook event; the bus takes it
to the subscriber in the same process, which wakes the host. On load, every pi
process marks stale DAGs and resumes the running ones. The DAG, task, worker, run,
name and archive files are global (`src/management/runtime-paths.ts`): two pi
processes share them with no lock.

## Modules

| Module | Models |
|---|---|
| `DagExecutor` | the executor, replicated over the pi processes that share the record, with crash, start, stale marking and resume |
| `DagContract` | what the DAG subsystem promises about one DAG, without processes, waves or snapshots |
| `MCDagExecutor` | DAGs for TLC |
| `TopologicalSort` | the peeling loop of `topologicalSort` |
| `DagAdmission` | the validator's depth-first search and the submit handler, composed with `TopologicalSort` |
| `DagStore` | the record and index files, one file access per step |
| `Coordinator` | `delegate()` for one pool key: pool, creation, lock chain, aborts, eviction, dispose |
| `CircuitBreaker` | `execute()`: three states, failure count, probe flag |
| `AliasResolver` | race and failover of an alias with their timeouts, and the health kept for each agent |
| `GuardedCalls` | both composed: tool calls through the breaker, some of them a fanout to an alias |
| `AsyncRuns` | the run records shared by several pi processes, the attempts behind them and the steer queues |
| `Workers` | tasks, workers, the dispatch loop and everything else that edits their records or sessions |
| `AcpClient` | the phases of one client and its child process |
| `Sessions` | handles on top of `AcpClient`, registries, calls, the monitor and the shutdown |
| `SessionNames` | names, archive and mailbox across calls, cleanups and restarts |
| `WakeBus` | publisher and subscriber on the two ends of the socket path |
| `HookBus` | triggers, dispatch, hook scripts and shutdown on top of `WakeBus` |
| `MCGuardedCalls`, `MCHookBus` | an alias, and the kinds of two events, for TLC |
| `DagAdmissionProofs`, `DagExecutorProofs`, `DagStoreProofs`, `CoordinatorProofs`, `GuardedCallsProofs`, `SessionsProofs`, `SessionNamesProofs` | theorems about the modules they are named for; `DagAdmissionProofs` holds those about `TopologicalSort` too |
| `BackgroundProofs` | theorems about `Workers`, `AsyncRuns` and `HookBus`: what goes on while no tool call waits |

An action is the code a handler runs between two awaits, or up to the next access to
a file that other processes write. A definition named
`X_<fault>` stands next to `X`: it is `X` with a plausible bug, and nothing uses
it but the list of mutants in `PROJECT.json`.

### The DAG subsystem

In `DagExecutor` the record is `dagStatus`, `currentWave`, `stepStatus`,
`retryCount`. For each process, `pc`, `wave`, `todo`, `steps`, `snapRetry` and
`result` are the locals of `execute()`/`runWave()`; `steps` is the working snapshot
the gates read, and it is refreshed from `result` only when the wave has settled,
as in the code. `session` is a `dispatchStep` that awaits its agent, together with
its abort controller; `tries` is the retry count of the step object that dispatch
holds. A process runs one turn at a time: the loops without an `await` (resume's
resets, runWave's map, cancel's marking) take one action per record write, so that
a crash or another process can come between two writes, and `Ready(p)` keeps other
handlers of the same process out until the turn ends. `queued` is the position of
the DAG in `resumeAll`'s list: it was read at process start and is used later. At the
head of `execute()` the status, the reset of the progress and the number of a wave are
written one after the other (`BeginExecute`, `CountWaves`, `EnterWave`), and a crash
can come between any two. Writes do not fail or tear; `DagStore` is the module about
that.
`Start` and `StartAndMarkStale` cover both outcomes of the age test of
`markStale()`, time not being modelled. A prompt is the set of steps it mentions.
The circuit may be open or closed at any dispatch. An aborted session is rejected like
any other: `coordinator.ts:298` rethrows the abort as a plain `Error`, so the branch of
`dispatchStep` for an `AbortError` is never taken and has no action.

In `DagStore` a call is read record, open (and empty) record, fill record, read
index, open index, fill index, as `writeFileSync` does; a crash, or a failing
write, ends the call anywhere. Timestamps and the counters of `updateDagWave` are
left out. Steps are `open`, `completed` or `failed`, which is all the index
distinguishes.

`TopologicalSort` and `DagAdmission` leave the iteration order open, and start from
every dependency relation. The DFS stack is explicit: a frame holds the edges still
to follow. Duplicate ids, the reserved id and unknown agents are not modelled: they
are membership tests.

### Delegation

`Coordinator` is about one key of the pool. An entry is its adapter, numbered in
order of creation; `phase` is the state of `adapterPromise`, `process` the child. A
lock is the number of the promise in the entry's chain, `resolved` those resolved.
`pc` and `acquire` are two because an aborted call leaves while its
`getOrCreateAdapter()` goes on and still touches the pool. `doomed` are adapters with
a `dispose()` registered on their promise: it runs when the promise settles, after
the continuations registered before.

`CircuitBreaker` counts failures up to `MaxFailures`; `cooled` says whether
`resetTimeoutMs` is over. `AliasResolver` keeps, for each request, the agents chosen
at the start by their health, those that failed, and those `working`, which includes
losers of a race that nobody cancels; they are sets, and a failover takes their order
from the alias. `GuardedCalls` joins them as `safeExecute()`
and `broadcast()` do: a fanout is a success for the breaker whatever its agents
answer.

### Background runs and workers

In `AsyncRuns` a run is a record and a sequence of attempts, each with its process,
its kind and stage and the guidance it was given; `interrupted` and `queue` are per
process, `state` is the file all processes share. A handler looks at the record, does
what it does in memory, and leaves in `change` what it will write; then its process
reads the file (`ReadFile`), empties it (`EmptyFile`) and writes back what it read, with
the change (`WriteFile`), as `updateRun()` does with `readFileSync` and `writeFileSync`.
Its own handlers wait meanwhile, for all this is one turn; the other processes do not. A
file that is empty, or of which two rewrites left a mixture, is read as no runs at all.
A process that has anything to lose may crash at any time, also between emptying the
file and writing it. `dropped` only records which messages went down with a queue, and
`crossed` that a process read the file during another's rewrite.

In `Workers`, `awaited` are the prompts handlers wait for; `mapped`, `live` and `busy`
are `workerSessionMap`, `activeAdapters` and `busySessions`; `torn` and `disturbed` only
record that somebody else interfered. A handler that times out stops waiting and takes
the busy mark away, as `withTimeoutMs()` and the `finally` blocks do, and its agent works
on: the worker is then `unmarked` until `LateAnswer`. So it is when a background run is
resumed, which prompts without a mark (`Reprompt`). Nothing in the code makes a worker
idle before its first dispatch; but `WorkerStore` is exported (`src/public-api.ts:63`),
and `IdleReports` says whether another extension uses it for that. The run sets
it to `TRUE`, because without such a report nothing is ever dispatched. It checks safety
only, where a report that may come allows more and requires nothing; the proofs hold for
both values.

### Sessions and names

`Sessions` gives every opening a handle of its own and, when it reloads, the id of
an earlier one; registries map ids to handles, as in the code. The age of a time
stamp is `"no"`, `"fresh"` or `"old"`. A sweep keeps what it judged before its awaits
and closes later, by id. A call whose prompt times out leaves a handle whose agent works
on a prompt that is `unmarked`, and so does the resume of the background run of a
spawned session (`tracked`). `SessionNames` has a name as label and suffix: the random
suffix of the k-th handle is k. `copy` of a call is what it read of the archive
before it awaited. The mailbox is the set of names that have mail.

### Hooks

`WakeBus` has, for the subscriber, `current` (its `socket` field), two connecting
activities (`start()` called at start-up, and the one inside `reconnectAfterClose()`)
with their stages, the counters and flags of the class and the replay ring; for the
publisher, its one consumer, the two buffers and whether the path leads to it or to
another pi. A client socket stays until its `close` event has been handled. The host
has a turn, and what `deliverEvent()` keeps about it; what it buffers during a turn
stays where it is, for `flush()` has no caller. `filtered` only records what the ownership
filter refused. Coalescing is left out: its
window is 0 and nothing sets it. `HookBus` adds triggers, scripts with a timeout and
`session_shutdown`. No pre- or post-hook is registered anywhere.

## Runs

| Run | Instance | Shows |
|---|---|---|
| `dag_restart` | 4 steps in 3 waves (`needs` and `after`), 1 process, 2 starts, 2 retries, coordinator as it is | safety, what cancel guarantees, finality, refinement of `DagContract`, liveness |
| `dag_abort` | 1 step, 1 retry | **violated**: an aborted step ends cancelled |
| `dag_admission` | all 4096 relations over 3 tasks and 1 unknown id | validator and sort agree, both end |
| `dag_store` | 2 DAGs of 2 steps, 1 process, 1 crash | index against records |
| `dag_two_processes` | 1 step, 2 processes | **violated**: a step another process executes is reset |
| `coordinator` | 3 calls of one agent, aborts, failing creations, dispose | prompts of a session are serial, pooled adapters connected, no other leak, every call settles |
| `routing` | 2 calls, one of them to an alias of 3 agents, 2 failures open the circuit | breaker and alias keep their books, every call returns |
| `async_runs` | 1 run, 2 processes, 2 attempts, 1 steer | a running run has a worker and ends, a steer is used once |
| `workers` | 2 workers, 2 tasks, 1 outside edit | prompts serial but for those without a mark, a task held by one |
| `sessions` | 3 handles, 2 calls, 1 sweep, one-shot spawns, reopened sessions that stay | registries agree, one prompt per session but for those without a mark, idle sessions reaped |
| `names` | 2 labels, one an agent's, 2 calls, 3 openings | a name leads to its session, mail is for nobody |
| `hooks` | 2 events, 3 sockets, 1 fault, 2 tries, 1 reconnect | never deaf, no duplicates, no completion lost on the way |

Properties of `dag_restart`: `WaveBarrier` (no agent works on a step while an
earlier wave has an unsettled step), `NeedsGate` (the gate read from the snapshot
holds on disk too), `SkipJustified`, `VerdictSound` (verdict and steps agree and
nobody works any more), `SettledIsFinal` (only the late answer to a cancelled
step overwrites a settled one), `RetryBudget` (sessions per step are bounded by
recorded retries plus process starts), `ProgressHonest` (the waves before the one
shown are settled, agents work only in the one shown, and a completed DAG shows its
last, whichever write a crash comes after), `OwnedWhileRunning` (a running DAG is never orphaned),
`CancelStopsLaunches` (once the record says cancelled no session starts but the retry of
a step in flight), `CancelledIsClean` (no step left open but such a retry),
`ImplementsContract`, `DagSettles`. `dag_admission`:
`RejectsExactlyTheInvalid`, `SortedIsLayering`, `SubmissionAnswered`. `dag_store`:
`IndexNeverAhead` (the list never shows more than the records),
`ExactWhileUnharmed` (without a crash it is exact between operations).

`coordinator`: `SharedOnlyAfterAbort` (two prompts meet in one session only if one
of them was aborted), `FoundIsConnected` (what a call finds ready in the pool is
connected), `LeakNeedsFailedCreation` (after dispose a child process is left only
if a creation failed or a call was aborted), `EveryCallSettles`. `routing`:
`BreakerConsistent` (closed exactly below the limit; half-open only with a probe
under way), `AnswersCount` (who was asked, who failed and who works add up, and
failover keeps its order), `EveryCallReturns`. `async_runs`: `RunningHasWorker`,
`SteeredOnce`, `RunEnds`. The first and the last except a run that lost an
attempt with its process, and any run once a reading has crossed a rewrite.
`workers`: `PromptsSerial` (in a session that was not closed under a prompt two prompts
overlap only when one has no mark, and handlers never await two), `HeldByOne` (a task
nobody else touched is in progress exactly while one handler awaits it). `sessions`:
`RegistriesAgree` (two registries name the same live handle), `OnePromptUnlessReopened`,
`IdleIsReaped`. `names`: `NameLeadsToSession`, `MailForNobody`.
`hooks`: `NeverDeaf` (after any sequence of closes and retries a socket, an activity or a
timer is left), `OneMessageWithoutFaults`, `CompletionHandled` (a completion that reached
the publisher is sent, buffered for a host in a turn or refused by the filter).

### Bounds

Two process starts give one crash and one resume at every point, and the resume
meets every record a crash can leave; the retries distinguish "counted" from "not
counted" across the restart, and let an aborted step be tried again and fail again; the
DAG has two steps in parallel, a `needs` chain and an `after` join, so that skips,
failures and references meet. `MaxStarts` bounds only
`Start`; `MaxCrashes` only `Crash` of `DagStore`.

Three calls are the least with which a call can fail, a second evict what a third
has created, and two queue behind one. Three agents let an alias have a winner, a
loser and a failure at once; `MaxFailures = 2` separates "one failure" from "open".
Two processes and two attempts let a run be interrupted, resumed elsewhere
and answered late by the first attempt, with every overlap of two rewrites. Processes
are interchangeable: they are numbered in the order of their first runs. One steer meets
both queues and both attempts; the order of several is what `MessagesAreUsedOnce` adds. Two workers and two tasks give a
rotation and a dependency; `MaxEdits = 1` puts one outside intervention at any point
(two exceed the time of a run). Three handles let an id be reopened while a second
session is live. Spawns are one-shot in the run (`SpawnCloses`), since with all three
kinds the liveness check takes longer than five minutes; sessions that live on after a prompt
come from `acp_msg`, which reopens an id or takes a new one and closes only on failure.
The theorems are about every kind. Three openings let a name be closed, reopened and taken again. One
fault of the bus meets both connecting activities; three sockets are the one in use and one
for each activity, interchangeable and taken in order; a ring of one makes the replay
drop, and `MaxSent = 2` is one more than a correct delivery. `MaxRetries`,
`MaxSocketRetries`, `MaxReconnectAttempts`, `MaxFailures` and the sizes of the rings
are limits of the code with smaller values, `MaxSent` saturates; every other `Max...`
stands in the guards of the actions it limits. For
the safety properties of all passing runs the theorems remove the bounds.

Deadlock is checked in `names` only: elsewhere a settled DAG, an answered
submission, a drained coordinator, a finished run or a shut-down extension is the
end of a behaviour.

### Fairness

* `DagExecutor`: weak fairness of `Turn(p)`, for the event loop finishes a turn and
  continues a settled wave. Nothing forces an agent to answer (`delegate()` has no
  timeout of its own) nor the queue of `resumeAll` to come to this DAG: these are
  hypotheses of `DagSettles` (`AgentsAnswer`). Starts, crashes, submissions and
  cancels are never fair.
* `DagStore`: the file accesses of a call. `DagAdmission`: the submission.
* `Coordinator`: continuations, preparation (a spawn has a timeout; the handshake
  is taken to end) and disposals run, an agent ends its prompt or breaks it.
  Signals and `dispose()` are not fair.
* `GuardedCalls`: agents end what they were asked and the race has a timer. The
  stall timer, a cooldown and new calls are not fair.
* `AsyncRuns`: weak fairness of the file accesses of each process, which are
  synchronous calls. Strong fairness of the end of each attempt: its process may always
  have another turn to take, and is not idle during one, but the event loop is a queue
  in which a continuation that is due comes up. The prompt of a tracked or resumed spawn
  has a timeout (`index.ts:1089`, `1107`); `delegate()` has none, and that its agent
  answers or fails is an assumption about agents. Interrupts, resumes, cancels,
  prunes and crashes are not fair.
* `Sessions`: the monitor's timer and its callbacks only; nothing is assumed of agents
  or tools. `Workers` and `SessionNames` have only safety.
* `HookBus`: sockets report, timers fire, what is written is read, a turn of the host
  ends, a killed script ends; which socket or timer comes first is open.

## Theorems

All are for every value of the constants: any finite DAG, any number of calls, agents,
workers, tasks, runs, events, handles, labels, openings. Every invariant that a passing
run checks is also stated by a theorem.

* `DagAdmissionProofs`. `SortTypes`, `SortReturnsLayering`, `SortThrowsOnlyIfStuck`:
  the invariant says that the waves assigned so far form a layering, that a pass with
  no progress passed over every task it has visited, and what the two final states
  mean. `ValidatorIsExact` (the search rejects exactly what has a cycle or a dangling
  reference) and `AcceptedIsSortable` (the sort's throw is unreachable after it): the
  invariant `SearchIInv` is the classical one of three colours: gray tasks are the
  path, an edge that was followed leads to an explored task or to the next frame,
  explored tasks depend on explored tasks only, and no explored task is in a set each
  member of which depends on another. A back edge makes the upper part of the path
  such a set. No induction over paths is needed, because a cycle is stated as such a
  set.
* `DagExecutorProofs`. `TypesHold`, which includes that no retry count exceeds
  `maxRetries`. From one inductive invariant `IInv` (below): `WaveBarrierHolds`,
  `NeedsGateHolds`, `SkipsAreJustified`, `VerdictIsSound`, `RetryBudgetHolds`,
  `RunningIsOwned`, `SettledStaysSettled`, and, about cancel with the coordinator as it
  is, `CancelledStaysClean` and `CancelEndsLaunches`. `ProgressIsHonest` needs more,
  `PInv`: the wave on disk is the one the loop works on, except between the separate
  writes at the head of `execute()` and of each wave, where it lags (`ProgressPlaced`);
  then a crash after any of them leaves a wave number no step contradicts
  (`WavesBehind`, `LastWaveShown`). And `ExecutorImplementsContract`, by the mapping of
  `DagContract`'s variables to the record and the set of steps in flight.
* `DagStoreProofs`. `ListIsNeverAhead`, `ListIsExact`. Neither property is inductive:
  between its file accesses an operation carries a content and a list in memory. The
  invariant says what the operation will have written (`Target`) and listed (`Listed`)
  when it is through: records only grow towards their target (`Targets`), every list
  on disk or in memory is behind the records and the entry to be listed is behind the
  target (`ListsBehind`), and, as long as nothing crashed, every list is exact but for
  the DAG of the operation, whose entry to be listed is exact against the target
  (`ListsExact`). The counters of the index are changed by increments; that they agree
  with a count over the steps is a lemma on cardinalities.
* `CoordinatorProofs`. `CoordinatorTypes`, `PromptsAreSerial`, `PooledIsConnected`,
  `NothingElseLeaks`. For the chain: the resolved locks are an initial part of it
  (`Downward`), a queued call holds an unresolved lock of its own (`Held`, `Apart`),
  and who prompts has a resolved predecessor; two prompting calls would make the
  lower lock resolved. An aborted call releases its lock while its prompt goes on,
  hence the exception in the property. For the pool: a killed adapter is in no pool
  and nobody is checking it (`PoolOK`, `NoneChecking`), and without a failed creation
  or an abort every adapter made is pooled, doomed or killed (`Owned`). That there
  are never more adapters than calls is a counting argument (`Counted`).
* `GuardedCallsProofs`. `BreakerIsConsistent`, of which the type invariant is the
  strengthening, and `AnswersAreCounted`: the property is inductive once it says for
  each request, too, that no agent still at work has failed it (`Counts`); that a
  failover finds a first untried agent is the least-element principle.
* `BackgroundProofs`. On workers, `WorkersPromptOneByOne` and `TasksAreHeldByOne`: a
  worker whose session nobody closed has at most one prompt that a handler awaits, and is
  then marked busy (`MarkedBusy`), which is what all handlers that prompt look at first; a
  worker that is not registered has no session and is awaited by nobody (`Unregistered`).
  Prompts whose handler gave up, or of a resumed run, need no mark and are counted apart.
  On runs, `ActiveRunsAreWorkedOn`: nothing is known of a run before its first attempt
  (`Unborn`), a registered attempt is untouched (`Staged`), and a turn that will record
  an active run has an attempt behind it whose end will be recorded (`Turns`). While no
  reading has crossed a rewrite, rewrites do not overlap and what was read is still in
  the file (`Alone`), so that a run active in the file or in a rewrite of it has a live
  attempt against which its process holds no interrupt, or a turn about to record its end
  (`Worked`); without that clause an answer could be swallowed and the step would not be
  inductive. `MessagesAreUsedOnce`: the messages 1 to the number steered are distributed over
  queues, attempts and losses without overlap; the property is inductive with
  `RunsIInv`. On hooks, `SubscriberIsNeverDeaf`: a spent budget has its cooldown timer
  armed (`SpentBudgetRecovers`), so that the close that finds it spent, and arms
  nothing, leaves the timer. `NoEventTwiceWithoutFaults`: without a fault only one
  socket ever connects (`OneConnect`: whatever begins another connect begins with a
  close, and only the shutdown closes), so that what the connect writes meets nothing
  written before it; and an event on a wire is neither kept for the end of the turn
  nor sent (`OneCopy`). `BusAssumption` says that the
  limits are numbers and no socket has the name of none.
* `SessionsProofs`. `RegistriesAlwaysAgree`, `PromptsMeetOnlyIfReopened`. A handle
  being opened belongs to one call (`Opening`) and has no id (`Unopened`); what a call
  or a sweep holds over an await was a session once (`Held`); as long as its id had
  no other handle, a session a call waits for is closed or its busy mark is set
  (`Marked`), and no second call waits for it (`OneWaits`).
  `SessionsAssumption` only says what the sets are: handles are positive numbers.
* `SessionNamesProofs`. `NameTypes`, `NamesLeadToSessions`, `MailIsForNobody`. The
  invariant adds that a registered name has a record and that a load started from a
  record that had not failed too often.

Hypotheses. The theorems of `DagExecutorProofs` other than `TypesHold`, and those of
`DagStoreProofs`, assume `SingleProcess`, that `Proc` has one member: one pi process at
a time works on the record or the store, over any number of crashes and restarts.
`dag_two_processes` shows that the former do not hold without it; for the store, the
update of one process is lost in the rewrite of the other. Theorems about `DagExecutor` rest on
`DagValidated`, that the DAG has a layering, which `AcceptedIsSortable` and
`SortReturnsLayering` justify.

Why `IInv` of `DagExecutorProofs`. None of the properties is inductive: they speak of
the record, while the executor acts on its snapshot. `IInv` says, for each place the
process can be in (`Places`), which statuses the steps of earlier, current and later
waves can have in the snapshot, in the results and on disk, and how the three may
differ: only by a cancel that came later (`Statuses`, `Snapshot`). A first execution
finds everything pending (`FirstExecution`), agents exist only for the current wave
and only for steps whose gates allow them (`Agents`), a skip has its cause in an
earlier wave (`Skipped`), a process at rest leaves nothing in flight (`AtRest`), and
sessions are accounted for by retries and starts (`Account`). Each action has a lemma
that it keeps the conjuncts it can disturb.

Only model-checked: all liveness, which is out of the proof system's reach.

## Where code and text disagree, or the code surprises

Two are shown by runs.

* `dag_two_processes`: a process resumes on load whatever is running, also in another
  live process, although `dag-executor.ts:288` says that a running step was interrupted.
* `dag_abort`: `dag-executor.ts:618-621` say that an `AbortError` means that `cancel()`
  aborted the session and that "The step transitions to `cancelled` (not `failed`)". The
  coordinator rethrows what it catches as a plain `Error` (`coordinator.ts:298`), so that
  branch is never taken: an aborted step fails or is tried again, also after the record
  says cancelled. What cancel guarantees nevertheless is checked and proved.

The models contain the following behaviours, and the properties above are worded so
that they hold of the code as it is.

DAG:
* `openspec/specs/dag-execution/spec.md:59` says "The DAG SHALL follow the state machine:
  `pending` → `running` → `completed` / `failed` / `cancelled`". `resumeAll()` works
  through a list read before, `resume()` does not read the status again and `execute()`
  writes `running` (`dag-executor.ts:236`): a DAG cancelled while it waits is run again,
  and ends failed.
* The index is a read-modify-write without a lock, and only `create()` adds an entry
  (`dag-store.ts:396-399`): two processes that submit can lose one for good.
* A crash between `create()` and `execute()` leaves the DAG pending for ever.

Delegation:
* If `initialize()` or `newSession()` fails after `spawn()`, the child process is left.
* The creation of an aborted call that fails later deletes the pooled entry of its
  successor without disposing it (`coordinator.ts:176`).
* The eviction of a disconnected adapter (`coordinator.ts:161-168`) is never reached:
  `PooledIsConnected`.
* Losers of a race are not cancelled (`alias-resolver.ts:128`).
* An old call that fails while the circuit is half-open opens it and resets the probe
  flag (`circuit-breaker.ts:131`, `140`): after the next cooldown a second probe starts
  although the first is under way, which the check at `circuit-breaker.ts:106` is meant
  to exclude.
* `killWithEscalation` tests `proc.killed`, which is true once a signal was sent, so
  SIGKILL never follows.

Background runs and workers:
* An interrupted run is overwritten when its attempt ends with an error, for the catch
  does not ask (`async-executor.ts:275`), and when it was interrupted in another
  process, whose `interruptedRuns` is its own (`async-executor.ts:236`). The `finally` of
  `start()` removes the worktree that `resume()` would use as its directory.
* `updateRun()` and `prune()` read the file all pi processes share and rewrite it whole,
  without a lock (`async-executor.ts:772-779`, `552-563`). A rewrite read before another
  process recorded the end of a run puts the run back to running, for ever, against
  "subsequent calls SHALL return the same values (immutable terminal state)"
  (`openspec/changes/align-acp-with-subagents/specs/async-run-lifecycle/spec.md:28-29`). A
  process that reads an emptied file takes it for an empty list and writes that back; a
  crash between emptying and writing, or two rewrites that overlap, leaves a file that
  cannot be parsed. `RunningHasWorker` and `RunEnds` except exactly this (`crossed`).
* The README says of the busy mutex "Prevents concurrent prompts on the same session"
  (`README.md:409`). `withTimeoutMs()` (`index.ts:59-69`) stops to wait for a prompt that
  takes too long and the `finally` blocks clear the mark (`index.ts:625`, `1127`, `1147`,
  `1303`, `1362`, `1456`), while the agent works on: the next prompt runs beside it. The
  resume of a background run prompts its session without a look at the mark
  (`index.ts:1087-1092`). `PromptsSerial` and `OnePromptUnlessReopened` say that prompts
  meet in no other way.
* `openspec/specs/persistent-workers/spec.md:25` says of idle workers and unblocked tasks
  "When both exist, the system SHALL automatically claim the task and dispatch it to the
  worker". `register()` makes a worker `online` (`worker-store.ts:30-53`), the loop looks
  for `idle` ones (`worker-dispatcher.ts:72`) and only the end of a dispatch makes one
  idle (`187`): by itself the program never dispatches a task.
* With three workers the rotation can pass one over for ever
  (`worker-dispatcher.ts:68`, `109`); a failing task is retried without limit; a worker
  registered by an earlier process strands the tasks it is chosen for; cleanup leaves
  busy marks and makes dependencies unsatisfiable; a prune during a prompt lets the
  task be done twice; `findDependencyPath` is never called, so dependencies may form a
  cycle; `acp_msg` to a busy session answers "message queued" and drops it
  (`index.ts:1343-1345`).

Sessions and names:
* `initialize()` has no timeout (`client.ts:422-443`).
* A reused session keeps its old `lastActivityAt`, so a fresh prompt may be taken for
  stalled and killed; the `finally` of a call on a closed handle clears the busy mark
  of the handle that has its id now; two calls that reopen one id orphan an adapter; a
  session whose `onStale` ran is monitored no more; a grace period ends without
  another look.
* Reopening a named session by its id fails when the load succeeds, because the name
  is registered twice; reopening it when the load fails opens a new session that the
  registry refuses, although the code means to fall back to it (`index.ts:1391-1407`).
  Names of closed sessions stay taken. A message to a session that is still
  initializing goes to a mailbox nobody reads.

Hooks:
* `wake-subscriber.ts:181-183` say that `session_completed` "legitimately wakes the host
  when ITS OWN delegated session finishes". Once `session_start` has given the filter the
  id of the host's session (`index.ts:251-254`) it refuses every event, which carry the id
  of the agent's session (`wake-subscriber.ts:387-395`): `filtered` in `CompletionHandled`.
* `wake-subscriber.ts:548-549` say of `flush()` "Called when agent transitions from busy to
  idle". Nothing calls it: at the end of a turn `index.ts:263` only sets `hostIdle`, and
  what was buffered during the turn stays where it is.
* A failure that follows another within 200 ms is throttled although it is in the list
  of what is never dropped (`wake-subscriber.ts:500-502`).
* A pi that stops unlinks the path of another one; a connect under way at `stop()`
  leaves an open socket; the cooldown timer can destroy a healthy one; events before
  the publisher is bound are lost.
* The failure policy works on a copy of the task nothing stores (`index.ts:166-184`),
  so `maxReopensPerTask` is never reached.

## Not modelled

* Template text: string substitution. `DagExecutor` keeps which steps a prompt refers
  to and that an unresolved reference fails the step.
* The JSON-RPC stream, validation of answers, output cleaning and the command lines
  of the adapters: I/O and data. `AcpClient` keeps phases and process.
* Policy, its tools and `NonBlockingRunner`: the first changes copies, the last is
  given nothing to run; neither has an effect another part could see.
* Governance, event log, migration and paths: read-modify-write files of the kind
  `DagStore` models, append-only logs and path helpers, with no protocol on top.
* Configuration, settings, widget and panel: parsing and rendering, no state others
  depend on. In the panel no key can move the selection or select a task, because its
  key handler is given raw bytes.
* Git worktrees and the telemetry counts of runs (not the rewrites of the file that store
  them), heartbeat text, task priorities, coalescing of
  events.
* Time: every timeout may fire whenever its timer is armed.
