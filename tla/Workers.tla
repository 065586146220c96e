------------------------------ MODULE Workers ------------------------------
(***************************************************************************)
(* Named workers, the task list and WorkerDispatcher, the loop that claims *)
(* tasks for idle workers, with the messages, prunes, closes, edits and    *)
(* restarts that change the same records.                                  *)
(*                                                                         *)
(* The records of tasks and workers are files and survive a restart; the   *)
(* sessions, the busy marks and the handlers that await a prompt do not.   *)
(* A handler runs in one turn of the event loop up to the prompt it        *)
(* awaits: the awaits of settled values in between let no one else in.  A  *)
(* handler whose timer runs out stops waiting and clears the busy mark,    *)
(* but nobody tells the agent, which works on; nor does the resume of a    *)
(* background run set the mark.                                            *)
(* Time is left out: a prompt may time out, a worker may look stale, at    *)
(* any moment the code's other conditions allow.                           *)
(***************************************************************************)
EXTENDS Naturals, FiniteSets, Sequences, SequencesExt, FiniteSetsExt

CONSTANTS
  Worker,        \* 1..n, in the order of registration
  Task,          \* 1..n, in the order of creation, the order of claiming
  IdleReports,   \* whether another extension sets a worker's status to idle
  Talkative,     \* workers whose agents report tokens or tool calls in the first prompt
  MaxEdits       \* bound: steers, prunes, edits, cleanups and restarts of the host

ASSUME WorkerBounds ==
  /\ Worker = 1..Cardinality(Worker) /\ Task = 1..Cardinality(Task)
  /\ Talkative \subseteq Worker
  /\ IdleReports \in BOOLEAN /\ MaxEdits \in Nat

None == 0
Message == 0     \* what a worker is prompted with, when it is not a task
\* The dependencies tried: none, or one other task, created or not.
Dependencies(t) == {{}} \cup {{d} : d \in Task \ {t}}
TaskStatus == {"pending", "in_progress", "completed", "deleted"}

VARIABLES
  task,      \* tasks.json: status, whether it has an assignee, blockedBy
  worker,    \* workers.json: status, currentTaskId, pendingSteer
  mapped,    \* workers whose session is in workerSessionMap
  live,      \* workers whose session is in activeAdapters
  busy,      \* workers whose session is in busySessions
  awaited,   \* the prompts of each worker that a handler awaits
  tracked,   \* workers whose first prompt is a background run of this process
  unmarked,  \* workers whose agent works on a prompt for which no busy mark is set
  turn,      \* dispatchIndex
  torn,      \* history: workers whose session closed under an awaited prompt
  disturbed, \* history: tasks whose record or worker someone else has changed
  edits

records == <<task, worker>>
sessions == <<mapped, live, busy, awaited, tracked, unmarked>>
history == <<torn, disturbed>>
vars == <<records, sessions, turn, history, edits>>

Init ==
  /\ task = [t \in Task |-> [status |-> "absent", owned |-> FALSE, deps |-> {}]]
  /\ worker = [w \in Worker |-> [status |-> "absent", current |-> None, steer |-> FALSE]]
  /\ mapped = {} /\ live = {} /\ busy = {}
  /\ awaited = [w \in Worker |-> {}]
  /\ tracked = {} /\ unmarked = {}
  /\ turn = 0
  /\ torn = {} /\ disturbed = {}
  /\ edits = 0

Edited == edits < MaxEdits /\ edits' = edits + 1
Known(w) == worker[w].status # "absent"
Stored(t) == task[t].status \in TaskStatus

\* updateStatus() and assignTask(); unassignTask(); updateMetadata().
Assigned(w, t, steer) ==
  [worker EXCEPT ![w] = [status |-> "busy", current |-> t, steer |-> steer]]
Unassigned(W, status) ==
  [w \in Worker |-> IF w \in W THEN [worker[w] EXCEPT !.status = status, !.current = None]
                               ELSE worker[w]]
Steered(w, steer) == [worker EXCEPT ![w].steer = steer]

\* Tasks are numbered in the order of creation; the dependencies are not validated.
Create(t, owned, deps) ==
  /\ task[t].status = "absent"
  /\ \A u \in Task : u < t => task[u].status # "absent"
  /\ task' = [task EXCEPT ![t] = [status |-> "pending", owned |-> owned, deps |-> deps]]
  /\ UNCHANGED <<worker, sessions, turn, history, edits>>

-----------------------------------------------------------------------------
(* The dispatcher.                                                         *)

Claimable(t) ==
  /\ task[t].status = "pending" /\ ~task[t].owned
  /\ \A d \in task[t].deps : task[d].status = "completed"

IdleWorkers == SetToSortSeq({w \in Worker : worker[w].status = "idle"}, <)
Offered(i) == IdleWorkers[((turn + i) % Len(IdleWorkers)) + 1]
Free(w) == ~(w \in mapped /\ w \in busy)

\* Worker w takes the next turn and task t: the first of each.
NextDispatch(w, t) ==
  /\ \E i \in 0..(Len(IdleWorkers) - 1) :
       /\ Offered(i) = w /\ Free(w)
       /\ \A j \in 0..(i - 1) : ~Free(Offered(j))
       /\ turn' = ((turn + i) % Len(IdleWorkers)) + 1
  /\ Claimable(t)
  /\ \A u \in Task : Claimable(u) => t <= u

\* The task is prompted on the worker's session; the steer goes with it.
Dispatch(w, t) ==
  /\ NextDispatch(w, t)
  /\ w \in mapped \cap live
  /\ task' = [task EXCEPT ![t].status = "in_progress"]
  /\ worker' = Assigned(w, t, FALSE)
  /\ busy' = busy \cup {w}
  /\ awaited' = [awaited EXCEPT ![w] = @ \cup {t}]
  /\ UNCHANGED <<mapped, live, tracked, unmarked, history, edits>>

\* The session has no adapter any more: "No adapter for session", the task returns.
Bounce(w, t) ==
  /\ NextDispatch(w, t)
  /\ w \in mapped \ live
  /\ worker' = Steered(w, FALSE)
  /\ UNCHANGED <<task, sessions, history, edits>>

\* The worker is of an earlier process: no session, no dispatch, and no way back.
Strand(w, t) ==
  /\ NextDispatch(w, t)
  /\ w \notin mapped
  /\ task' = [task EXCEPT ![t].status = "in_progress"]
  /\ worker' = Assigned(w, t, FALSE)
  /\ disturbed' = disturbed \cup {t}
  /\ UNCHANGED <<sessions, torn, edits>>

Outcome == {"answer", "error", "timeout"}

\* The handler no longer waits and takes the busy mark away.  If its timer ran out and
\* the session is open, the agent works on, perhaps beside the next prompt.
Ended(w, p, outcome) ==
  /\ p \in awaited[w]
  /\ awaited' = [awaited EXCEPT ![w] = @ \ {p}]
  /\ busy' = busy \ {w}
  /\ unmarked' = IF outcome = "timeout" /\ w \in live THEN unmarked \cup {w} ELSE unmarked

\* Mutant: a failed task keeps its status.  Checked to violate HeldByOne.
Settle_KeepsFailed(w, t, outcome) ==
  /\ Ended(w, t, outcome)
  /\ task' = IF Stored(t) /\ outcome = "answer"
             THEN [task EXCEPT ![t].status = "completed"] ELSE task
  /\ worker' = Unassigned({w}, "idle")
  /\ UNCHANGED <<mapped, live, tracked, turn, history, edits>>

\* handleDispatchResult(), whoever holds the task and whatever the worker is by now.
Settle(w, t, outcome) ==
  /\ Ended(w, t, outcome)
  /\ task' = IF Stored(t)
             THEN [task EXCEPT ![t].status = IF outcome = "answer" THEN "completed" ELSE "pending"]
             ELSE task
  /\ worker' = Unassigned({w}, "idle")
  /\ UNCHANGED <<mapped, live, tracked, turn, history, edits>>

-----------------------------------------------------------------------------
(* Workers and their sessions.                                             *)

\* acp_spawn with claim, in the order of Worker, with a first prompt or without.
Register(w, prompted) ==
  /\ ~Known(w) /\ \A v \in Worker : v < w => Known(v)
  /\ worker' = [worker EXCEPT ![w].status = "online"]
  /\ mapped' = mapped \cup {w}
  /\ live' = live \cup {w}
  /\ IF prompted
     THEN /\ busy' = busy \cup {w} /\ awaited' = [awaited EXCEPT ![w] = {Message}]
          /\ tracked' = tracked \cup {w}
     ELSE UNCHANGED <<busy, awaited, tracked>>
  /\ UNCHANGED <<task, unmarked, turn, history, edits>>

\* What dispatchOnce() waits for: nothing here does it before a first dispatch, but the
\* worker store is among what public-api.ts gives to other extensions.
ReportIdle(w) ==
  /\ IdleReports
  /\ worker[w].status = "online"
  /\ worker' = [worker EXCEPT ![w].status = "idle"]
  /\ UNCHANGED <<task, sessions, turn, history, edits>>

\* acp_msg to a busy worker, or with queue: one slot, the later message wins.
Steer(w) ==
  /\ Known(w) /\ ~worker[w].steer
  /\ worker' = Steered(w, TRUE)
  /\ Edited
  /\ UNCHANGED <<task, sessions, turn, history>>

\* Mutant: the busy mark is not looked at.  Checked to violate PromptsSerial.
Ask_IgnoresBusy(w) ==
  /\ Known(w) /\ w \in live
  /\ Message \notin awaited[w]
  /\ busy' = busy \cup {w}
  /\ awaited' = [awaited EXCEPT ![w] = @ \cup {Message}]
  /\ UNCHANGED <<records, mapped, live, tracked, unmarked, turn, history, edits>>

\* acp_msg to the worker by name, or by the id of its session, which ignores the task.
Ask(w) ==
  /\ Known(w) /\ w \in live \ busy
  /\ Message \notin awaited[w]
  /\ busy' = busy \cup {w}
  /\ awaited' = [awaited EXCEPT ![w] = @ \cup {Message}]
  /\ UNCHANGED <<records, mapped, live, tracked, unmarked, turn, history, edits>>

\* acp_msg to a worker without adapter opens its session again; the map is not renewed.
Reopen(w) ==
  /\ Known(w) /\ w \notin live
  /\ Message \notin awaited[w]
  /\ live' = live \cup {w}
  /\ busy' = busy \cup {w}
  /\ awaited' = [awaited EXCEPT ![w] = @ \cup {Message}]
  /\ UNCHANGED <<records, mapped, tracked, unmarked, turn, history, edits>>

MessageEnds(w, outcome) ==
  /\ Ended(w, Message, outcome)
  /\ UNCHANGED <<records, mapped, live, tracked, turn, history, edits>>

\* resume() of the background run, if it was interrupted before its first prompt ended,
\* prompts the session again, busy or not.
Reprompt(w) ==
  /\ w \in tracked
  /\ unmarked' = unmarked \cup {w}
  /\ UNCHANGED <<records, mapped, live, busy, awaited, tracked, turn, history, edits>>

\* The agent is done with the last prompt that had no mark.
LateAnswer(w) ==
  /\ w \in unmarked
  /\ unmarked' = unmarked \ {w}
  /\ UNCHANGED <<records, mapped, live, busy, awaited, tracked, turn, history, edits>>

TornBy(W) == torn \cup {w \in W : awaited[w] # {}}

\* closeSession(): idle too long, stalled, killed from the panel, or failed.
Close(w) ==
  /\ w \in live
  /\ live' = live \ {w}
  /\ busy' = busy \ {w}
  /\ tracked' = tracked \ {w} /\ unmarked' = unmarked \ {w}
  /\ torn' = TornBy({w})
  /\ UNCHANGED <<records, mapped, awaited, turn, disturbed, edits>>

\* The panel's kill of a worker whose session is gone.
MarkOffline(w) ==
  /\ Known(w) /\ w \notin live
  /\ worker' = [worker EXCEPT ![w].status = "offline"]
  /\ UNCHANGED <<task, sessions, turn, history, edits>>

\* consumeHeartbeat(): a worker whose agent reports usage is known to have lived.
Heard(w) == w \in Talkative

\* deriveWorkerStatus() and isWorkerStale(): old and without task, or never heard of.
LooksStale(w) ==
  /\ worker[w].status \notin {"absent", "offline"}
  /\ worker[w].current = None \/ ~Heard(w)

Prune(W) ==
  /\ W # {} /\ \A w \in W : LooksStale(w)
  /\ LET held == {t \in Task : Stored(t) /\ \E w \in W : worker[w].current = t} IN
       /\ task' = [t \in Task |-> IF t \in held THEN [task[t] EXCEPT !.status = "pending"]
                                                ELSE task[t]]
       /\ disturbed' = disturbed \cup held
  /\ worker' = Unassigned(W, "offline")
  /\ Edited
  /\ UNCHANGED <<sessions, turn, torn>>

-----------------------------------------------------------------------------
(* The user's hand, and the process.                                       *)

\* acp_task update and the panel's reassignment: any status, assignee or dependency.
Edit(t) ==
  /\ Stored(t)
  /\ \/ \E status \in TaskStatus : task' = [task EXCEPT ![t].status = status]
     \/ \E owned \in BOOLEAN : task' = [task EXCEPT ![t].owned = owned]
     \/ \E D \in Dependencies(t) : task' = [task EXCEPT ![t].deps = D]
  /\ disturbed' = disturbed \cup {t}
  /\ Edited
  /\ UNCHANGED <<worker, sessions, turn, torn>>

\* The same for all the tasks of a status, or for all there are, the deleted too.
BulkEdit(T) ==
  /\ T # {}
  /\ \E status \in TaskStatus, owned \in BOOLEAN :
       \/ task' = [t \in Task |-> IF t \in T THEN [task[t] EXCEPT !.status = status]
                                          ELSE task[t]]
       \/ task' = [t \in Task |-> IF t \in T THEN [task[t] EXCEPT !.owned = owned]
                                          ELSE task[t]]
  /\ disturbed' = disturbed \cup T
  /\ Edited
  /\ UNCHANGED <<worker, sessions, turn, torn>>

\* acp_status cleanup: the sessions go, their busy marks stay; the tasks go.
Cleanup ==
  /\ task' = [t \in Task |-> IF Stored(t) THEN [task[t] EXCEPT !.status = "cleared"]
                                          ELSE task[t]]
  /\ live' = {} /\ tracked' = {} /\ unmarked' = {}
  /\ torn' = TornBy(live)
  /\ disturbed' = disturbed \cup {t \in Task : Stored(t)}
  /\ Edited
  /\ UNCHANGED <<worker, mapped, busy, awaited, turn>>

Restart ==
  /\ Edited
  /\ mapped' = {} /\ live' = {} /\ busy' = {} /\ tracked' = {} /\ unmarked' = {}
  /\ awaited' = [w \in Worker |-> {}]
  /\ turn' = 0
  /\ disturbed' = disturbed \cup {t \in Task : task[t].status = "in_progress"}
  /\ UNCHANGED <<records, torn>>

DispatchOnce == \E w \in Worker, t \in Task : Dispatch(w, t) \/ Bounce(w, t) \/ Strand(w, t)

WorkerStep(w) ==
  \/ \E prompted \in BOOLEAN : Register(w, prompted)
  \/ \E outcome \in Outcome : MessageEnds(w, outcome)
  \/ ReportIdle(w) \/ Steer(w) \/ Ask(w) \/ Reopen(w) \/ Reprompt(w) \/ LateAnswer(w)
  \/ Close(w) \/ MarkOffline(w)

Next ==
  \/ DispatchOnce
  \/ \E w \in Worker, t \in Task, outcome \in Outcome : Settle(w, t, outcome)
  \/ \E w \in Worker : WorkerStep(w)
  \/ \E W \in SUBSET Worker : Prune(W)
  \/ \E t \in Task : \E D \in Dependencies(t) : Create(t, FALSE, D)
  \/ \E t \in Task : Edit(t)
  \/ \E S \in {{status} : status \in TaskStatus \ {"deleted"}} \cup {TaskStatus} :
       BulkEdit({t \in Task : task[t].status \in S})
  \/ Cleanup \/ Restart

Spec == Init /\ [][Next]_vars

-----------------------------------------------------------------------------
TypeOK ==
  /\ task \in [Task -> [status : TaskStatus \cup {"absent", "cleared"},
                        owned : BOOLEAN, deps : SUBSET Task]]
  /\ worker \in [Worker -> [status : {"absent", "online", "idle", "busy", "offline"},
                            current : Task \cup {None}, steer : BOOLEAN]]
  /\ mapped \subseteq Worker /\ live \subseteq Worker /\ busy \subseteq Worker
  /\ tracked \subseteq live /\ unmarked \subseteq live
  /\ awaited \in [Worker -> SUBSET (Task \cup {Message})]
  /\ turn \in 0..Cardinality(Worker)
  /\ torn \subseteq Worker /\ disturbed \subseteq Task
  /\ edits \in 0..MaxEdits

\* How many prompts the agent of a worker works on, those without a mark counted as one.
Running(w) == Cardinality(awaited[w]) + IF w \in unmarked THEN 1 ELSE 0

\* The busy marks of acp_spawn, acp_msg and the dispatcher keep a worker's prompts apart:
\* in a session that was not closed under a prompt two of them run at once only when one
\* has no mark, because its handler gave up or it is a resumed run, and never three
\* handlers' prompts or two of the marked ones.
PromptsSerial ==
  \A w \in Worker \ torn : Running(w) > 1 => w \in unmarked /\ Cardinality(awaited[w]) = 1

\* As long as nobody else touches a task, its status and the handlers agree: it is in
\* progress exactly while one worker's handler awaits it, so it is neither given to two
\* workers at a time nor left.  An agent whose handler gave up may still work on it.
HeldByOne ==
  \A t \in Task \ disturbed :
    Cardinality({w \in Worker : t \in awaited[w]})
      = IF task[t].status = "in_progress" THEN 1 ELSE 0

=============================================================================
