---------------------------- MODULE BackgroundProofs ----------------------------
(***************************************************************************)
(* Proofs about what goes on in the background: the tasks the dispatcher   *)
(* gives its workers (Workers), the runs of AsyncExecutor (AsyncRuns) and  *)
(* the bus that tells the host of events (HookBus).                        *)
(***************************************************************************)
EXTENDS Workers, AsyncRuns, HookBus, FiniteSetTheorems, SequenceTheorems, TLAPS

(***************************************************************************)
(* The types of the records and marks the handlers read.                   *)
(***************************************************************************)
TaskRecord ==
  [status : TaskStatus \cup {"absent", "cleared"}, owned : BOOLEAN, deps : SUBSET Task]
WorkerRecord ==
  [status : {"absent", "online", "idle", "busy", "offline"},
   current : Task \cup {None}, steer : BOOLEAN]

Records ==
  /\ task \in [Task -> TaskRecord]
  /\ worker \in [Worker -> WorkerRecord]
  /\ awaited \in [Worker -> SUBSET (Task \cup {Message})]
  /\ mapped \subseteq Worker /\ live \subseteq Worker /\ busy \subseteq Worker
  /\ torn \subseteq Worker /\ disturbed \subseteq Task

\* A worker nobody tore down waits for at most one prompt, and then it is marked busy and
\* its session is open: that is what Ask, Reopen and the dispatcher look at.
MarkedBusy ==
  \A w \in Worker \ torn :
    /\ awaited[w] # {} => w \in busy /\ w \in live
    /\ \A p, q \in awaited[w] : p = q

\* Nothing is awaited of a worker that is not registered yet.
Unregistered == \A w \in Worker : ~Known(w) => awaited[w] = {}

\* The handlers and the record of a task nobody else touched agree.
Held ==
  \A t \in Task \ disturbed :
    /\ (\E w \in Worker : t \in awaited[w]) <=> task[t].status = "in_progress"
    /\ \A v, w \in Worker : t \in awaited[v] /\ t \in awaited[w] => v = w

WorkersIInv == Records /\ MarkedBusy /\ Unregistered /\ Held

LEMMA MessageIsNoTask == Message \notin Task
  <1>1. Message \notin 1..Cardinality(Task)
    BY DEF Message
  <1> QED
    BY <1>1, WorkerBounds

LEMMA DependenciesAreTasks == \A t \in Task : Dependencies(t) \subseteq SUBSET Task
  BY DEF Dependencies

\* What changes one field of a record keeps its type.
LEMMA SteeredTypes ==
  ASSUME Records, NEW w \in Worker, NEW steer \in BOOLEAN
  PROVE  /\ Steered(w, steer) \in [Worker -> WorkerRecord]
         /\ \A v \in Worker : Steered(w, steer)[v].status = worker[v].status
  <1>1. worker \in [Worker -> WorkerRecord]
    BY DEF Records
  <1>2. /\ [worker[w] EXCEPT !.steer = steer] \in WorkerRecord
        /\ [worker[w] EXCEPT !.steer = steer].status = worker[w].status
    BY <1>1 DEF WorkerRecord
  <1>3. Steered(w, steer) = [worker EXCEPT ![w] = [worker[w] EXCEPT !.steer = steer]]
    BY DEF Steered
  <1> QED
    BY <1>1, <1>2, <1>3

LEMMA UnassignedTypes ==
  ASSUME Records, NEW W \in SUBSET Worker, NEW status \in {"idle", "offline"}
  PROVE  /\ Unassigned(W, status) \in [Worker -> WorkerRecord]
         /\ \A v \in Worker : Unassigned(W, status)[v].status
                               = IF v \in W THEN status ELSE worker[v].status
  <1>1. worker \in [Worker -> WorkerRecord]
    BY DEF Records
  <1> DEFINE u(v) == [worker[v] EXCEPT !.status = status, !.current = None]
  <1>2. \A v \in Worker : u(v) \in WorkerRecord /\ u(v).status = status
    <2> SUFFICES ASSUME NEW v \in Worker PROVE u(v) \in WorkerRecord /\ u(v).status = status
      OBVIOUS
    <2>1. worker[v] \in WorkerRecord
      BY <1>1
    <2> QED
      BY <2>1 DEF WorkerRecord, None
  <1>3. Unassigned(W, status) = [v \in Worker |-> IF v \in W THEN u(v) ELSE worker[v]]
    BY DEF Unassigned
  <1> HIDE DEF u
  <1> QED
    BY <1>1, <1>2, <1>3

LEMMA InitWorkers == Init => WorkersIInv
  <1> SUFFICES ASSUME Init PROVE WorkersIInv
    OBVIOUS
  <1>1. Records
    BY DEF Init, Records, TaskRecord, WorkerRecord, None
  <1>2. MarkedBusy /\ Unregistered /\ Held
    BY DEF Init, MarkedBusy, Unregistered, Held
  <1> QED
    BY <1>1, <1>2 DEF WorkersIInv

(* The dispatcher.                                                           *)

\* A worker that is dispatched to is not busy, so nothing is awaited of it.
LEMMA DispatchKeeps ==
  ASSUME WorkersIInv, NEW w \in Worker, NEW t \in Task, Dispatch(w, t)
  PROVE  WorkersIInv'
  <1>1. w \in mapped /\ w \in live /\ w \notin busy /\ task[t].status = "pending"
    BY DEF Dispatch, NextDispatch, Free, Claimable
  <1>2. Records'
    BY DEF Dispatch, WorkersIInv, Records, TaskRecord, WorkerRecord, Assigned, TaskStatus, history
  <1>3. /\ awaited' = [awaited EXCEPT ![w] = @ \cup {t}] /\ busy' = busy \cup {w}
        /\ UNCHANGED <<live, torn, disturbed>>
        /\ task' = [task EXCEPT ![t].status = "in_progress"]
        /\ worker' = Assigned(w, t, FALSE)
    BY DEF Dispatch, history
  <1>4. awaited[w] = {} \/ w \in torn
    BY <1>1 DEF WorkersIInv, MarkedBusy
  <1>5. MarkedBusy'
    BY <1>1, <1>3, <1>4 DEF WorkersIInv, Records, MarkedBusy
  <1>6. Unregistered'
    BY <1>3 DEF WorkersIInv, Records, Unregistered, Known, Assigned
  <1>7. Held'
    <2> SUFFICES ASSUME NEW u \in Task \ disturbed
                 PROVE  /\ (\E v \in Worker : u \in awaited'[v]) <=> task'[u].status = "in_progress"
                        /\ \A v, x \in Worker : u \in awaited'[v] /\ u \in awaited'[x] => v = x
      BY <1>3 DEF Held
    <2>1. CASE u = t
      <3>1. \A v \in Worker : t \notin awaited[v]
        BY <1>1, <2>1 DEF WorkersIInv, Held
      <3> QED
        BY <1>3, <2>1, <3>1 DEF WorkersIInv, Records
    <2>2. CASE u # t
      <3>1. \A v \in Worker : u \in awaited'[v] <=> u \in awaited[v]
        BY <1>3, <2>2 DEF WorkersIInv, Records
      <3>2. task'[u] = task[u]
        BY <1>3, <2>2
      <3> QED
        BY <3>1, <3>2 DEF WorkersIInv, Held
    <2> QED
      BY <2>1, <2>2
  <1> QED
    BY <1>2, <1>5, <1>6, <1>7 DEF WorkersIInv

LEMMA BounceKeeps ==
  ASSUME WorkersIInv, NEW w \in Worker, NEW t \in Task, Bounce(w, t)
  PROVE  WorkersIInv'
  <1>1. worker' = Steered(w, FALSE) /\ UNCHANGED <<task, sessions, history>>
    BY DEF Bounce
  <1>2. Records'
    BY <1>1, SteeredTypes DEF WorkersIInv, Records, sessions, history
  <1>3. \A v \in Worker : worker'[v].status = worker[v].status
    BY <1>1, SteeredTypes DEF WorkersIInv
  <1>4. MarkedBusy' /\ Held'
    BY <1>1 DEF WorkersIInv, MarkedBusy, Held, sessions, history
  <1>5. Unregistered'
    BY <1>1, <1>3 DEF WorkersIInv, Unregistered, Known, sessions
  <1> QED
    BY <1>2, <1>4, <1>5 DEF WorkersIInv

LEMMA StrandKeeps ==
  ASSUME WorkersIInv, NEW w \in Worker, NEW t \in Task, Strand(w, t)
  PROVE  WorkersIInv'
  <1>1. /\ worker' = Assigned(w, t, FALSE) /\ disturbed' = disturbed \cup {t}
        /\ task' = [task EXCEPT ![t].status = "in_progress"]
        /\ UNCHANGED <<sessions, torn>>
    BY DEF Strand
  <1>2. Records'
    BY <1>1 DEF WorkersIInv, Records, TaskRecord, WorkerRecord, Assigned, TaskStatus, sessions
  <1>3. MarkedBusy' /\ Unregistered'
    BY <1>1 DEF WorkersIInv, Records, MarkedBusy, Unregistered, Known, Assigned, sessions
  <1>4. Held'
    BY <1>1 DEF WorkersIInv, Records, Held, sessions
  <1> QED
    BY <1>2, <1>3, <1>4 DEF WorkersIInv

\* The handler that awaited task t was the only one.
LEMMA SettleKeeps ==
  ASSUME WorkersIInv, NEW w \in Worker, NEW t \in Task, NEW outcome,
         Settle(w, t, outcome)
  PROVE  WorkersIInv'
  <1>1. /\ t \in awaited[w] /\ busy' = busy \ {w}
        /\ awaited' = [awaited EXCEPT ![w] = @ \ {t}]
        /\ worker' = Unassigned({w}, "idle")
        /\ UNCHANGED <<mapped, live, torn, disturbed>>
        /\ \A u \in Task \ {t} : task'[u] = task[u]
        /\ Stored(t) => task'[t].status # "in_progress"
    BY DEF Settle, Ended, history, WorkersIInv, Records
  <1>2. Records'
    <2>1. task' \in [Task -> TaskRecord]
      <3>1. /\ [task[t] EXCEPT !.status = "completed"] \in TaskRecord
            /\ [task[t] EXCEPT !.status = "pending"] \in TaskRecord
        BY DEF WorkersIInv, Records, TaskRecord, TaskStatus
      <3> QED
        BY <3>1 DEF Settle, WorkersIInv, Records
    <2> QED
      BY <1>1, <2>1, UnassignedTypes DEF WorkersIInv, Records
  <1>3. MarkedBusy'
    BY <1>1 DEF WorkersIInv, Records, MarkedBusy
  <1>4. Unregistered'
    BY <1>1, UnassignedTypes DEF WorkersIInv, Unregistered, Records, Known
  <1>5. Held'
    <2> SUFFICES ASSUME NEW u \in Task \ disturbed
                 PROVE  /\ (\E v \in Worker : u \in awaited'[v]) <=> task'[u].status = "in_progress"
                        /\ \A v, x \in Worker : u \in awaited'[v] /\ u \in awaited'[x] => v = x
      BY <1>1 DEF Held
    <2>1. CASE u = t
      <3>1. task[t].status = "in_progress" /\ \A v \in Worker : t \in awaited[v] => v = w
        BY <1>1, <2>1 DEF WorkersIInv, Held
      <3>2. task'[t].status # "in_progress"
        BY <1>1, <3>1 DEF Stored, TaskStatus
      <3> QED
        BY <1>1, <2>1, <3>1, <3>2 DEF WorkersIInv, Records
    <2>2. CASE u # t
      <3>1. \A v \in Worker : u \in awaited'[v] <=> u \in awaited[v]
        BY <1>1, <2>2 DEF WorkersIInv, Records
      <3> QED
        BY <1>1, <2>2, <3>1 DEF WorkersIInv, Held
    <2> QED
      BY <2>1, <2>2
  <1> QED
    BY <1>2, <1>3, <1>4, <1>5 DEF WorkersIInv

(* Workers and their sessions.                                               *)

LEMMA RegisterKeeps ==
  ASSUME WorkersIInv, NEW w \in Worker, NEW prompted \in BOOLEAN, Register(w, prompted)
  PROVE  WorkersIInv'
  <1>1. /\ ~Known(w) /\ worker' = [worker EXCEPT ![w].status = "online"]
        /\ live' = live \cup {w} /\ mapped' = mapped \cup {w}
        /\ UNCHANGED <<task, torn, disturbed>>
        /\ \/ busy' = busy \cup {w} /\ awaited' = [awaited EXCEPT ![w] = {Message}]
           \/ UNCHANGED <<busy, awaited>>
    BY DEF Register, history
  <1>2. Records'
    BY <1>1 DEF WorkersIInv, Records, WorkerRecord
  <1>3. awaited[w] = {}
    BY <1>1 DEF WorkersIInv, Unregistered
  <1>4. MarkedBusy' /\ Unregistered'
    BY <1>1, <1>3 DEF WorkersIInv, Records, MarkedBusy, Unregistered, Known
  <1>5. \A v \in Worker, u \in Task : u \in awaited'[v] <=> u \in awaited[v]
    BY <1>1, <1>3, MessageIsNoTask DEF WorkersIInv, Records
  <1>6. Held'
    BY <1>1, <1>5 DEF WorkersIInv, Held
  <1> QED
    BY <1>2, <1>4, <1>6 DEF WorkersIInv

LEMMA ReportIdleKeeps ==
  ASSUME WorkersIInv, NEW w \in Worker, ReportIdle(w)
  PROVE  WorkersIInv'
  BY DEF ReportIdle, WorkersIInv, Records, WorkerRecord, MarkedBusy, Unregistered, Held, Known,
     sessions, history

LEMMA SteerKeeps ==
  ASSUME WorkersIInv, NEW w \in Worker, Steer(w)
  PROVE  WorkersIInv'
  <1>1. worker' = Steered(w, TRUE) /\ UNCHANGED <<task, sessions, history>>
    BY DEF Steer
  <1>2. Records'
    BY <1>1, SteeredTypes DEF WorkersIInv, Records, sessions, history
  <1>3. \A v \in Worker : worker'[v].status = worker[v].status
    BY <1>1, SteeredTypes DEF WorkersIInv
  <1>4. MarkedBusy' /\ Held'
    BY <1>1 DEF WorkersIInv, MarkedBusy, Held, sessions, history
  <1>5. Unregistered'
    BY <1>1, <1>3 DEF WorkersIInv, Unregistered, Known, sessions
  <1> QED
    BY <1>2, <1>4, <1>5 DEF WorkersIInv

\* Ask and Reopen start the only prompt, unless the worker was torn: neither a worker
\* without the mark nor one without a session is awaited.
LEMMA PromptKeeps ==
  ASSUME WorkersIInv, NEW w \in Worker, Known(w), w \notin busy \/ w \notin live,
         busy' = busy \cup {w}, live' = live \cup {w},
         awaited' = [awaited EXCEPT ![w] = @ \cup {Message}],
         UNCHANGED <<records, mapped, history>>
  PROVE  WorkersIInv'
  <1>1. Records'
    BY DEF WorkersIInv, Records, records, history
  <1>2. awaited[w] = {} \/ w \in torn
    BY DEF WorkersIInv, MarkedBusy
  <1>3. MarkedBusy' /\ Unregistered'
    BY <1>2 DEF WorkersIInv, Records, MarkedBusy, Unregistered, Known, records, history
  <1>4. \A v \in Worker, u \in Task : u \in awaited'[v] <=> u \in awaited[v]
    BY MessageIsNoTask DEF WorkersIInv, Records
  <1>5. Held'
    BY <1>4 DEF WorkersIInv, Held, records, history
  <1> QED
    BY <1>1, <1>3, <1>5 DEF WorkersIInv

LEMMA MessageEndsKeeps ==
  ASSUME WorkersIInv, NEW w \in Worker, NEW outcome, MessageEnds(w, outcome)
  PROVE  WorkersIInv'
  <1>1. /\ Message \in awaited[w] /\ busy' = busy \ {w}
        /\ awaited' = [awaited EXCEPT ![w] = @ \ {Message}]
        /\ UNCHANGED <<records, mapped, live, history>>
    BY DEF MessageEnds, Ended
  <1>2. Records'
    BY <1>1 DEF WorkersIInv, Records, records, history
  <1>3. MarkedBusy' /\ Unregistered'
    BY <1>1 DEF WorkersIInv, Records, MarkedBusy, Unregistered, Known, records, history
  <1>4. \A v \in Worker, u \in Task : u \in awaited'[v] <=> u \in awaited[v]
    BY <1>1, MessageIsNoTask DEF WorkersIInv, Records
  <1>5. Held'
    BY <1>1, <1>4 DEF WorkersIInv, Held, records, history
  <1> QED
    BY <1>2, <1>3, <1>5 DEF WorkersIInv

\* A prompt without a mark is nobody's: no handler awaits it.
LEMMA UnmarkedKeeps ==
  ASSUME WorkersIInv, NEW w \in Worker, Reprompt(w) \/ LateAnswer(w)
  PROVE  WorkersIInv'
  BY DEF Reprompt, LateAnswer, WorkersIInv, Records, MarkedBusy, Unregistered, Held, Known,
     records, history

LEMMA CloseKeeps ==
  ASSUME WorkersIInv, NEW w \in Worker, Close(w)
  PROVE  WorkersIInv'
  <1>1. /\ live' = live \ {w} /\ busy' = busy \ {w}
        /\ torn' = torn \cup {v \in {w} : awaited[v] # {}}
        /\ UNCHANGED <<records, mapped, awaited, disturbed>>
    BY DEF Close, TornBy
  <1> QED
    BY <1>1 DEF WorkersIInv, Records, MarkedBusy, Unregistered, Held, Known, records

LEMMA MarkOfflineKeeps ==
  ASSUME WorkersIInv, NEW w \in Worker, MarkOffline(w)
  PROVE  WorkersIInv'
  BY DEF MarkOffline, WorkersIInv, Records, WorkerRecord, MarkedBusy, Unregistered, Held, Known,
     sessions, history

LEMMA PruneKeeps ==
  ASSUME WorkersIInv, NEW W \in SUBSET Worker, Prune(W)
  PROVE  WorkersIInv'
  <1> DEFINE held == {t \in Task : Stored(t) /\ \E w \in W : worker[w].current = t}
  <1>1. /\ task' = [t \in Task |-> IF t \in held THEN [task[t] EXCEPT !.status = "pending"]
                                                 ELSE task[t]]
        /\ disturbed' = disturbed \cup held
        /\ worker' = Unassigned(W, "offline")
        /\ UNCHANGED <<sessions, torn>>
        /\ \A w \in W : Known(w)
    BY DEF Prune, LooksStale, Known
  <1>2. Records'
    <2>1. task' \in [Task -> TaskRecord]
      <3>1. \A t \in Task : [task[t] EXCEPT !.status = "pending"] \in TaskRecord
        BY DEF WorkersIInv, Records, TaskRecord, TaskStatus
      <3> QED
        BY <1>1, <3>1 DEF WorkersIInv, Records
    <2> QED
      BY <1>1, <2>1, UnassignedTypes DEF WorkersIInv, Records, sessions
  <1>3. MarkedBusy' /\ Unregistered'
    <2>1. \A w \in Worker : Known(w) <=> Known(w)'
      BY <1>1, UnassignedTypes DEF WorkersIInv, Known
    <2> QED
      BY <1>1, <2>1 DEF WorkersIInv, MarkedBusy, Unregistered, sessions
  <1>4. Held'
    <2>1. \A t \in Task \ disturbed' : t \notin disturbed /\ task'[t] = task[t]
      BY <1>1
    <2> QED
      BY <1>1, <2>1 DEF WorkersIInv, Held, sessions
  <1> QED
    BY <1>2, <1>3, <1>4 DEF WorkersIInv

(* The user's hand, and the process.                                         *)

\* Whatever changes task records only, and marks what it changes as disturbed.
LEMMA TasksKeep ==
  ASSUME WorkersIInv, Records',
         \A t \in Task \ disturbed' : /\ t \notin disturbed
                                      /\ task'[t].status = "in_progress" <=> task[t].status = "in_progress",
         UNCHANGED <<worker, sessions, torn>>
  PROVE  WorkersIInv'
  <1>1. MarkedBusy' /\ Unregistered'
    BY DEF WorkersIInv, MarkedBusy, Unregistered, Known, sessions
  <1>2. Held'
    BY DEF WorkersIInv, Held, sessions
  <1> QED
    BY <1>1, <1>2 DEF WorkersIInv

LEMMA CreateKeeps ==
  ASSUME WorkersIInv, NEW t \in Task, NEW D \in Dependencies(t), Create(t, FALSE, D)
  PROVE  WorkersIInv'
  <1>1. /\ task[t].status = "absent"
        /\ task' = [task EXCEPT ![t] = [status |-> "pending", owned |-> FALSE, deps |-> D]]
        /\ UNCHANGED <<worker, sessions, history>>
    BY DEF Create
  <1>2. Records'
    BY <1>1, DependenciesAreTasks DEF WorkersIInv, Records, TaskRecord, TaskStatus, sessions, history
  <1> QED
    BY <1>1, <1>2, TasksKeep DEF WorkersIInv, Records, history

LEMMA EditKeeps ==
  ASSUME WorkersIInv, NEW t \in Task, Edit(t)
  PROVE  WorkersIInv'
  <1>1. /\ disturbed' = disturbed \cup {t}
        /\ UNCHANGED <<worker, sessions, torn>>
    BY DEF Edit
  <1>2. /\ task' \in [Task -> TaskRecord]
        /\ \A u \in Task \ {t} : task'[u] = task[u]
    <2>1. task \in [Task -> TaskRecord]
      BY DEF WorkersIInv, Records
    <2>2. CASE \E status \in TaskStatus : task' = [task EXCEPT ![t].status = status]
      <3>1. PICK status \in TaskStatus : task' = [task EXCEPT ![t].status = status]
        BY <2>2
      <3>2. [task[t] EXCEPT !.status = status] \in TaskRecord
        BY <2>1 DEF TaskRecord
      <3> QED
        BY <2>1, <3>1, <3>2
    <2>3. CASE \E owned \in BOOLEAN : task' = [task EXCEPT ![t].owned = owned]
      <3>1. PICK owned \in BOOLEAN : task' = [task EXCEPT ![t].owned = owned]
        BY <2>3
      <3>2. [task[t] EXCEPT !.owned = owned] \in TaskRecord
        BY <2>1 DEF TaskRecord
      <3> QED
        BY <2>1, <3>1, <3>2
    <2>4. CASE \E D \in Dependencies(t) : task' = [task EXCEPT ![t].deps = D]
      <3>1. PICK D \in Dependencies(t) : task' = [task EXCEPT ![t].deps = D]
        BY <2>4
      <3>2. [task[t] EXCEPT !.deps = D] \in TaskRecord
        BY <2>1, DependenciesAreTasks DEF TaskRecord
      <3> QED
        BY <2>1, <3>1, <3>2
    <2> QED
      BY <2>2, <2>3, <2>4 DEF Edit
  <1>3. Records'
    BY <1>1, <1>2 DEF WorkersIInv, Records, sessions
  <1> QED
    BY <1>1, <1>2, <1>3, TasksKeep

LEMMA BulkEditKeeps ==
  ASSUME WorkersIInv, NEW T \in SUBSET Task, BulkEdit(T)
  PROVE  WorkersIInv'
  <1>1. /\ disturbed' = disturbed \cup T
        /\ UNCHANGED <<worker, sessions, torn>>
    BY DEF BulkEdit
  <1>2. /\ task' \in [Task -> TaskRecord]
        /\ \A u \in Task \ T : task'[u] = task[u]
    <2>1. task \in [Task -> TaskRecord]
      BY DEF WorkersIInv, Records
    <2>2. PICK status \in TaskStatus, owned \in BOOLEAN :
            \/ task' = [t \in Task |-> IF t \in T THEN [task[t] EXCEPT !.status = status]
                                                ELSE task[t]]
            \/ task' = [t \in Task |-> IF t \in T THEN [task[t] EXCEPT !.owned = owned]
                                                ELSE task[t]]
      BY DEF BulkEdit
    <2>3. \A t \in Task : /\ [task[t] EXCEPT !.status = status] \in TaskRecord
                          /\ [task[t] EXCEPT !.owned = owned] \in TaskRecord
      BY <2>1 DEF TaskRecord
    <2> QED
      BY <2>1, <2>2, <2>3
  <1>3. Records'
    BY <1>1, <1>2 DEF WorkersIInv, Records, sessions
  <1> QED
    BY <1>1, <1>2, <1>3, TasksKeep

LEMMA CleanupKeeps == WorkersIInv /\ Cleanup => WorkersIInv'
  <1> SUFFICES ASSUME WorkersIInv, Cleanup PROVE WorkersIInv'
    OBVIOUS
  <1>1. /\ task' = [t \in Task |-> IF Stored(t) THEN [task[t] EXCEPT !.status = "cleared"]
                                                ELSE task[t]]
        /\ disturbed' = disturbed \cup {t \in Task : Stored(t)}
        /\ live' = {} /\ torn' = torn \cup {w \in live : awaited[w] # {}}
        /\ UNCHANGED <<worker, mapped, busy, awaited>>
    BY DEF Cleanup, TornBy
  <1>2. Records'
    <2>1. \A t \in Task : [task[t] EXCEPT !.status = "cleared"] \in TaskRecord
      BY DEF WorkersIInv, Records, TaskRecord, TaskStatus
    <2>2. task' \in [Task -> TaskRecord]
      BY <1>1, <2>1 DEF WorkersIInv, Records
    <2> QED
      BY <1>1, <2>2 DEF WorkersIInv, Records
  <1>3. MarkedBusy' /\ Unregistered'
    BY <1>1 DEF WorkersIInv, MarkedBusy, Unregistered, Known
  <1>4. Held'
    BY <1>1 DEF WorkersIInv, Held
  <1> QED
    BY <1>2, <1>3, <1>4 DEF WorkersIInv

LEMMA RestartKeeps == WorkersIInv /\ Restart => WorkersIInv'
  <1> SUFFICES ASSUME WorkersIInv, Restart PROVE WorkersIInv'
    OBVIOUS
  <1>1. /\ mapped' = {} /\ live' = {} /\ busy' = {}
        /\ awaited' = [w \in Worker |-> {}]
        /\ disturbed' = disturbed \cup {t \in Task : task[t].status = "in_progress"}
        /\ UNCHANGED <<task, worker, torn>>
    BY DEF Restart, records
  <1> QED
    BY <1>1 DEF WorkersIInv, Records, MarkedBusy, Unregistered, Held, Known

LEMMA NextWorkers == WorkersIInv /\ [Next]_vars => WorkersIInv'
  <1> SUFFICES ASSUME WorkersIInv, [Next]_vars PROVE WorkersIInv'
    OBVIOUS
  <1>1. CASE DispatchOnce
    BY <1>1, DispatchKeeps, BounceKeeps, StrandKeeps DEF DispatchOnce
  <1>2. ASSUME NEW w \in Worker, NEW t \in Task, NEW outcome, Settle(w, t, outcome)
        PROVE  WorkersIInv'
    BY <1>2, SettleKeeps
  <1>3. ASSUME NEW w \in Worker, WorkerStep(w) PROVE WorkersIInv'
    <2>1. CASE \E prompted \in BOOLEAN : Register(w, prompted)
      BY <2>1, RegisterKeeps
    <2>2. CASE ReportIdle(w) \/ Steer(w) \/ MarkOffline(w)
      BY <2>2, ReportIdleKeeps, SteerKeeps, MarkOfflineKeeps
    <2>3. CASE Ask(w)
      BY <2>3, PromptKeeps DEF Ask
    <2>4. CASE Reopen(w)
      BY <2>4, PromptKeeps DEF Reopen
    <2>5. CASE \E outcome \in Outcome : MessageEnds(w, outcome)
      BY <2>5, MessageEndsKeeps
    <2>6. CASE Close(w) \/ Reprompt(w) \/ LateAnswer(w)
      BY <2>6, CloseKeeps, UnmarkedKeeps
    <2> QED
      BY <1>3, <2>1, <2>2, <2>3, <2>4, <2>5, <2>6 DEF WorkerStep
  <1>4. ASSUME NEW W \in SUBSET Worker, Prune(W) PROVE WorkersIInv'
    BY <1>4, PruneKeeps
  <1>5. ASSUME NEW t \in Task, NEW D \in Dependencies(t), Create(t, FALSE, D) PROVE WorkersIInv'
    BY <1>5, CreateKeeps
  <1>6. ASSUME NEW t \in Task, Edit(t) PROVE WorkersIInv'
    BY <1>6, EditKeeps
  <1>7. ASSUME NEW S, BulkEdit({t \in Task : task[t].status \in S}) PROVE WorkersIInv'
    BY <1>7, BulkEditKeeps
  <1>8. CASE Cleanup \/ Restart
    BY <1>8, CleanupKeeps, RestartKeeps
  <1>9. CASE UNCHANGED vars
    BY <1>9 DEF WorkersIInv, Records, MarkedBusy, Unregistered, Held, Known,
       vars, records, sessions, history
  <1> QED
    BY <1>1, <1>2, <1>3, <1>4, <1>5, <1>6, <1>7, <1>8, <1>9 DEF Next

LEMMA WorkersInductive == Spec => []WorkersIInv
  <1> QED
    BY InitWorkers, NextWorkers, PTL DEF Spec

LEMMA AtMostOne ==
  ASSUME NEW S, \A x, y \in S : x = y
  PROVE  Cardinality(S) \in {0, 1} /\ (Cardinality(S) = 1 <=> S # {})
  <1>1. CASE S = {}
    BY <1>1, FS_EmptySet
  <1>2. CASE S # {}
    <2>1. PICK x \in S : S = {x}
      BY <1>2
    <2> QED
      BY <2>1, FS_Singleton
  <1> QED
    BY <1>1, <1>2

(***************************************************************************)
(* However dispatches, messages, timers that run out and resumed runs of   *)
(* any number of workers meet: in a session that was not closed under a    *)
(* prompt, an agent works on two prompts at once only if one of them has   *)
(* no busy mark, and on one that a handler awaits at most.                 *)
(***************************************************************************)
THEOREM WorkersPromptOneByOne == Spec => []PromptsSerial
  <1>1. ASSUME WorkersIInv PROVE PromptsSerial
    <2> SUFFICES ASSUME NEW w \in Worker \ torn, Running(w) > 1
                 PROVE  w \in unmarked /\ Cardinality(awaited[w]) = 1
      BY DEF PromptsSerial
    <2>1. Cardinality(awaited[w]) \in {0, 1}
      BY <1>1, AtMostOne DEF WorkersIInv, MarkedBusy
    <2> QED
      BY <2>1 DEF Running
  <1> QED
    BY <1>1, WorkersInductive, PTL

(***************************************************************************)
(* A task that was only dispatched and settled is in progress exactly when *)
(* one handler awaits it, for any number of workers and tasks.             *)
(***************************************************************************)
THEOREM TasksAreHeldByOne == Spec => []HeldByOne
  <1>1. ASSUME WorkersIInv PROVE HeldByOne
    <2> SUFFICES ASSUME NEW t \in Task \ disturbed
                 PROVE  Cardinality({w \in Worker : t \in awaited[w]})
                          = IF task[t].status = "in_progress" THEN 1 ELSE 0
      BY DEF HeldByOne
    <2> DEFINE H == {w \in Worker : t \in awaited[w]}
    <2>1. /\ H # {} <=> task[t].status = "in_progress"
          /\ \A v, w \in H : v = w
      BY <1>1 DEF WorkersIInv, Held
    <2> HIDE DEF H
    <2>2. Cardinality(H) \in {0, 1} /\ (Cardinality(H) = 1 <=> H # {})
      BY <2>1, AtMostOne
    <2>3. Cardinality(H) = IF task[t].status = "in_progress" THEN 1 ELSE 0
      BY <2>1, <2>2
    <2> QED
      BY <2>3 DEF H
  <1> QED
    BY <1>1, WorkersInductive, PTL

-----------------------------------------------------------------------------
(***************************************************************************)
(* Background runs, for any number of processes, runs, attempts and steers. *)
(***************************************************************************)
\* Nothing is known of a run before its first attempt, in no file and in no process.
Unborn ==
  /\ \A r \in Run : attempts[r] = <<>> =>
       /\ state[r] = "absent" /\ steered[r] = 0 /\ dropped[r] = {}
       /\ \A p \in Process :
            r \notin interrupted[p] /\ queue[p][r] = <<>> /\ payload[p][r] = "absent"
  /\ \A p \in Process : access[p] \in {"adding", "updating"} => attempts[change[p].run] # <<>>

\* An attempt that start() has only registered is untouched: its process is in the one
\* turn of start().
Staged ==
  \A r \in Run : \A k \in DOMAIN attempts[r] : LET a == attempts[r][k] IN
    /\ a.stage = "registered" => r \notin interrupted[a.proc] /\ a.guidance = <<>>
    /\ a.stage \in {"registered", "yielding"} => a.how = "delegate"

\* An attempt whose end will be recorded: its process holds no interrupt against it.
Sure(p, r) ==
  \E k \in DOMAIN attempts[r] : LET a == attempts[r][k] IN
    /\ a.proc = p /\ a.stage \in {"registered", "asked", "yielding"}
    /\ a.how = "external" \/ r \notin interrupted[p]

\* The turn of p is about to record that r is not active.
Closing(p, r) ==
  access[p] # "none" /\ change[p].run = r /\ change[p].to \notin Active \cup {"same"}

\* What each process brings into the file.
Turns ==
  \A p \in Process :
    /\ access[p] = "none" => change[p] = NoChange
    /\ access[p] \in {"adding", "updating"} /\ change[p].to \in Active
         => Sure(p, change[p].run)
    /\ access[p] \in Rewriting /\ Closing(p, change[p].run)
         => payload[p][change[p].run] \notin Active

\* While no reading crosses a rewrite, rewrites do not overlap, and what was read is still
\* in the file until it is emptied.
Alone ==
  \A p \in Process : access[p] \in Rewriting =>
    /\ access[p] # "overlaid"
    /\ \A q \in Process \ {p} : access[q] \notin Rewriting
    /\ access[p] = "emptied" => state = NoRecord
    /\ access[p] = "read" =>
         \A r \in Run : payload[p][r] \in Active => state[r] \in Active \/ Sure(p, r)

\* What makes RunningHasWorker inductive: for a run that is active in the file or in a
\* rewrite of it, somebody is bound to record an end.
Good(r, a) ==
  /\ Live(a)
  /\ \/ Closing(a.proc, r)
     \/ a.stage # "ending" /\ (a.how = "external" \/ r \notin interrupted[a.proc])
Claimed(r) ==
  \/ state[r] \in Active
  \/ \E p \in Process : access[p] \in Rewriting /\ payload[p][r] \in Active
Worked ==
  \A r \in Run : Claimed(r) =>
    Lost(r) \/ \E k \in DOMAIN attempts[r] : Good(r, attempts[r][k])

RunsIInv ==
  /\ RunsTypeOK /\ Unborn /\ Staged /\ Turns
  /\ ~crossed => Alone /\ Worked

Stages == LiveStage \cup {"over", "lost"}
Hows == {"delegate", "external"}
Accesses == {"none", "adding", "updating"} \cup Rewriting
Changes == [run : Run, to : RunState \cup {"same"}]

(* Attempts and their fields.                                              *)
LEMMA RecordTyped ==
  ASSUME NEW a \in AttemptType, NEW stage \in Stages
  PROVE  /\ [a EXCEPT !.stage = stage] \in AttemptType
         /\ [a EXCEPT !.stage = stage].stage = stage
         /\ [a EXCEPT !.stage = stage].proc = a.proc
         /\ [a EXCEPT !.stage = stage].how = a.how
         /\ [a EXCEPT !.stage = stage].guidance = a.guidance
  BY DEF AttemptType, Stages

LEMMA AttemptTypes ==
  ASSUME RunsTypeOK
  PROVE  \A r \in Run : \A k \in DOMAIN attempts[r] :
           attempts[r][k] \in AttemptType /\ attempts[r][k].proc \in Process
  <1> SUFFICES ASSUME NEW r \in Run, NEW k \in DOMAIN attempts[r]
               PROVE  attempts[r][k] \in AttemptType /\ attempts[r][k].proc \in Process
    OBVIOUS
  <1>1. attempts[r] \in Seq(AttemptType)
    BY DEF RunsTypeOK
  <1>2. attempts[r][k] \in AttemptType
    BY <1>1
  <1> QED
    BY <1>2 DEF AttemptType

LEMMA AttemptTyped ==
  ASSUME NEW p \in Process, NEW how \in Hows, NEW guidance \in Seq(Nat),
         NEW stage \in Stages
  PROVE  /\ Attempt(p, how, stage, guidance) \in AttemptType
         /\ Attempt(p, how, stage, guidance).proc = p
         /\ Attempt(p, how, stage, guidance).how = how
         /\ Attempt(p, how, stage, guidance).stage = stage
         /\ Attempt(p, how, stage, guidance).guidance = guidance
  BY DEF AttemptType, Attempt, Stages, Hows

(* The stage of one attempt moves on. *)
LEMMA MovedTyped ==
  ASSUME RunsTypeOK, NEW r \in Run, NEW k \in DOMAIN attempts[r],
         NEW stage \in Stages
  PROVE  /\ Moved(r, k, stage) \in [Run -> Seq(AttemptType)]
         /\ \A q \in Run \ {r} : Moved(r, k, stage)[q] = attempts[q]
         /\ DOMAIN Moved(r, k, stage)[r] = DOMAIN attempts[r]
         /\ \A l \in DOMAIN attempts[r] \ {k} : Moved(r, k, stage)[r][l] = attempts[r][l]
         /\ Moved(r, k, stage)[r][k] = [attempts[r][k] EXCEPT !.stage = stage]
  <1>1. attempts \in [Run -> Seq(AttemptType)] /\ attempts[r] \in Seq(AttemptType)
    BY DEF RunsTypeOK
  <1>2. attempts[r][k] \in AttemptType
    BY <1>1
  <1> DEFINE a == [attempts[r][k] EXCEPT !.stage = stage]
             s == [attempts[r] EXCEPT ![k] = a]
  <1>3. a \in AttemptType
    BY <1>2, RecordTyped
  <1>4. /\ s \in Seq(AttemptType) /\ DOMAIN s = DOMAIN attempts[r] /\ s[k] = a
        /\ \A l \in DOMAIN attempts[r] \ {k} : s[l] = attempts[r][l]
    <2> HIDE DEF a
    <2> QED
      BY <1>1, <1>3
  <1>5. Moved(r, k, stage) = [attempts EXCEPT ![r] = s]
    BY DEF Moved
  <1> HIDE DEF a, s
  <1>6. /\ Moved(r, k, stage) \in [Run -> Seq(AttemptType)]
        /\ \A q \in Run \ {r} : Moved(r, k, stage)[q] = attempts[q]
        /\ Moved(r, k, stage)[r] = s
    BY <1>1, <1>4, <1>5
  <1> QED
    BY <1>4, <1>6 DEF a

(* All attempts of a process at some stages move on. *)
LEMMA MarkedTyped ==
  ASSUME RunsTypeOK, NEW p \in Process, NEW stages, NEW stage \in Stages
  PROVE  /\ Marked(p, stages, stage) \in [Run -> Seq(AttemptType)]
         /\ \A r \in Run :
              /\ DOMAIN Marked(p, stages, stage)[r] = DOMAIN attempts[r]
              /\ \A k \in DOMAIN attempts[r] :
                   LET a == attempts[r][k]  b == Marked(p, stages, stage)[r][k] IN
                   /\ b.proc = a.proc /\ b.how = a.how /\ b.guidance = a.guidance
                   /\ a.proc = p /\ a.stage \in stages => b.stage = stage
                   /\ ~(a.proc = p /\ a.stage \in stages) => b = a
  <1> DEFINE b(r, k) == IF attempts[r][k].proc = p /\ attempts[r][k].stage \in stages
                        THEN [attempts[r][k] EXCEPT !.stage = stage] ELSE attempts[r][k]
  <1>1. \A r \in Run : \A k \in DOMAIN attempts[r] :
          LET a == attempts[r][k] IN
          /\ b(r, k) \in AttemptType
          /\ b(r, k).proc = a.proc /\ b(r, k).how = a.how /\ b(r, k).guidance = a.guidance
          /\ a.proc = p /\ a.stage \in stages => b(r, k).stage = stage
          /\ ~(a.proc = p /\ a.stage \in stages) => b(r, k) = a
    BY AttemptTypes, RecordTyped
  <1>2. Marked(p, stages, stage) = [r \in Run |-> [k \in DOMAIN attempts[r] |-> b(r, k)]]
    BY DEF Marked
  <1> HIDE DEF b
  <1>3. ASSUME NEW r \in Run
        PROVE  /\ Marked(p, stages, stage)[r] \in Seq(AttemptType)
               /\ DOMAIN Marked(p, stages, stage)[r] = DOMAIN attempts[r]
               /\ \A k \in DOMAIN attempts[r] : Marked(p, stages, stage)[r][k] = b(r, k)
    <2>1. /\ Marked(p, stages, stage)[r] = [k \in DOMAIN attempts[r] |-> b(r, k)]
          /\ attempts[r] \in Seq(AttemptType)
      BY <1>2 DEF RunsTypeOK
    <2>2. DOMAIN attempts[r] = 1..Len(attempts[r]) /\ Len(attempts[r]) \in Nat
      BY <2>1
    <2>3. Marked(p, stages, stage)[r] \in [1..Len(attempts[r]) -> AttemptType]
      BY <2>1, <2>2, <1>1
    <2>4. Marked(p, stages, stage)[r] \in Seq(AttemptType)
      BY <2>2, <2>3
    <2> QED
      BY <2>1, <2>4
  <1>4. Marked(p, stages, stage) \in [Run -> Seq(AttemptType)]
    BY <1>2, <1>3
  <1> QED
    BY <1>1, <1>3, <1>4

LEMMA RunsStart == RunsInit => RunsIInv
  <1> SUFFICES ASSUME RunsInit PROVE RunsIInv
    OBVIOUS
  <1>1. NoChange \in Changes
    BY AsyncBounds DEF NoChange, Changes
  <1>2. RunsTypeOK
    <2>1. change \in [Process -> Changes]
      BY <1>1 DEF RunsInit
    <2>2. /\ NoRecord \in [Run -> RunState] /\ state = NoRecord
          /\ payload \in [Process -> [Run -> RunState]]
      BY DEF RunsInit, NoRecord, RunState
    <2>3. attempts \in [Run -> Seq(AttemptType)] /\ interrupted \in [Process -> SUBSET Run]
      BY DEF RunsInit
    <2>4. queue \in [Process -> [Run -> Seq(Nat)]] /\ dropped \in [Run -> SUBSET Nat]
      BY DEF RunsInit
    <2>5. steered \in [Run -> Nat] /\ crossed \in BOOLEAN
      BY DEF RunsInit
    <2>6. access \in [Process -> {"none", "adding", "updating"} \cup Rewriting]
      BY DEF RunsInit
    <2> QED
      BY <2>1, <2>2, <2>3, <2>4, <2>5, <2>6 DEF RunsTypeOK, Changes
  <1>3. Unborn /\ Staged /\ Turns /\ Alone /\ Worked
    BY DEF RunsInit, Unborn, Staged, Turns, Alone, Worked, Claimed, NoRecord, Active, Rewriting,
           Closing
  <1> QED
    BY <1>2, <1>3 DEF RunsIInv

-----------------------------------------------------------------------------
(* A turn of p in memory, which may go on with a change of the file.       *)
TurnOf(p) ==
  /\ UNCHANGED <<state, payload, crossed>>
  /\ access' \in [Process -> Accesses] /\ change' \in [Process -> Changes]
  /\ \A q \in Process \ {p} : access'[q] = access[q] /\ change'[q] = change[q]
  /\ access'[p] \notin Rewriting
  /\ access'[p] = "none" => change'[p] = NoChange

LEMMA TurnDoes ==
  ASSUME RunsTypeOK, NEW p \in Process, NEW r \in Run, NEW how \in {"adding", "updating"},
         NEW to \in RunState \cup {"same"}, Turn(p, how, r, to)
  PROVE  /\ TurnOf(p) /\ access'[p] = how
         /\ change'[p].run = r /\ change'[p].to = to
  <1>1. access' = [access EXCEPT ![p] = how] /\ how \in Accesses /\ how \notin Rewriting
    BY DEF Turn, Accesses, Rewriting
  <1>2. change' = [change EXCEPT ![p] = [run |-> r, to |-> to]] /\ [run |-> r, to |-> to] \in Changes
    BY DEF Turn, Changes
  <1>3. access \in [Process -> Accesses] /\ change \in [Process -> Changes]
    BY DEF RunsTypeOK, Accesses, Changes
  <1>4. UNCHANGED <<state, payload, crossed>>
    BY DEF Turn
  <1> QED
    BY <1>1, <1>2, <1>3, <1>4 DEF TurnOf

LEMMA NoTurn ==
  ASSUME RunsIInv, NEW p \in Process, access[p] = "none", UNCHANGED fileVars
  PROVE  TurnOf(p) /\ access'[p] = "none"
  <1>1. access \in [Process -> Accesses] /\ change \in [Process -> Changes]
    BY DEF RunsIInv, RunsTypeOK, Accesses, Changes
  <1>2. change[p] = NoChange
    BY DEF RunsIInv, Turns
  <1> QED
    BY <1>1, <1>2 DEF TurnOf, fileVars, Rewriting

LEMMA TurnKeeps ==
  ASSUME RunsIInv, NEW p \in Process, access[p] = "none", TurnOf(p),
         attempts' \in [Run -> Seq(AttemptType)], interrupted' \in [Process -> SUBSET Run],
         queue' \in [Process -> [Run -> Seq(Nat)]], steered' \in [Run -> Nat],
         UNCHANGED dropped, Staged',
         access'[p] # "none" => attempts'[change'[p].run] # <<>>,
         access'[p] # "none" /\ change'[p].to \in Active => Sure(p, change[p].run)',
         \A q \in Process \ {p} : interrupted'[q] = interrupted[q],
         \A r \in Run : attempts'[r] = <<>> =>
           /\ attempts[r] = <<>> /\ steered'[r] = steered[r]
           /\ r \notin interrupted'[p]
           /\ \A q \in Process : queue'[q][r] = queue[q][r],
         \A r \in Run : \A k \in DOMAIN attempts[r] :
           /\ k \in DOMAIN attempts'[r]
           /\ attempts[r][k].proc # p \/ attempts[r][k].stage = "lost"
                => attempts'[r][k] = attempts[r][k]
           /\ attempts[r][k].proc = p /\ Good(r, attempts[r][k])
                => Good(r, attempts[r][k])' \/ state[r] = "needs-attention"
  PROVE  RunsIInv'
  <1> USE DEF RunsIInv
  <1>1. RunsTypeOK'
    BY DEF RunsTypeOK, TurnOf, Accesses, Changes
  <1>2. \A q \in Process \ {p} : access'[q] = access[q] /\ change'[q] = change[q]
    BY DEF TurnOf
  <1>3. UNCHANGED <<state, payload, crossed>> /\ access'[p] \notin Rewriting
    BY DEF TurnOf
  <1>4. Unborn'
    <2>1. ASSUME NEW r \in Run, attempts'[r] = <<>>
          PROVE  /\ state'[r] = "absent" /\ steered'[r] = 0 /\ dropped'[r] = {}
                 /\ \A q \in Process :
                      r \notin interrupted'[q] /\ queue'[q][r] = <<>> /\ payload'[q][r] = "absent"
      <3>1. /\ attempts[r] = <<>> /\ steered'[r] = steered[r] /\ r \notin interrupted'[p]
            /\ \A q \in Process : queue'[q][r] = queue[q][r]
        BY <2>1
      <3>2. /\ state[r] = "absent" /\ steered[r] = 0 /\ dropped[r] = {}
            /\ \A q \in Process :
                 r \notin interrupted[q] /\ queue[q][r] = <<>> /\ payload[q][r] = "absent"
        BY <3>1 DEF Unborn
      <3>3. \A q \in Process : r \notin interrupted'[q]
        BY <3>1, <3>2
      <3> QED
        BY <1>3, <3>1, <3>2, <3>3
    <2>2. ASSUME NEW q \in Process, access'[q] \in {"adding", "updating"}
          PROVE  attempts'[change'[q].run] # <<>>
      <3>1. CASE q = p
        BY <2>2, <3>1
      <3>2. CASE q # p
        <4>1. change[q].run \in Run /\ attempts[change[q].run] # <<>>
          BY <1>2, <2>2, <3>2 DEF Unborn, RunsTypeOK
        <4> QED
          BY <4>1, <1>2, <3>2
      <3> QED
        BY <3>1, <3>2
    <2> QED
      BY <2>1, <2>2 DEF Unborn
  <1>5. ASSUME NEW q \in Process \ {p}, NEW r \in Run, Sure(q, r)
        PROVE  Sure(q, r)'
    BY <1>5 DEF Sure
  <1>6. \A q \in Process \ {p}, r \in Run : Closing(q, r)' <=> Closing(q, r)
    BY <1>2 DEF Closing
  <1>7. Turns'
    <2> SUFFICES ASSUME NEW q \in Process
                 PROVE  /\ access'[q] = "none" => change'[q] = NoChange
                        /\ access'[q] \in {"adding", "updating"} /\ change'[q].to \in Active
                             => Sure(q, change[q].run)'
                        /\ access'[q] \in Rewriting /\ Closing(q, change[q].run)'
                             => payload'[q][change'[q].run] \notin Active
      BY DEF Turns
    <2>1. CASE q = p
      BY <1>3, <2>1 DEF TurnOf
    <2>2. CASE q # p
      <3>1. change[q].run \in Run /\ change'[q] = change[q] /\ access'[q] = access[q]
        BY <1>2, <2>2 DEF RunsTypeOK
      <3>2. Sure(q, change[q].run) => Sure(q, change[q].run)'
        BY <3>1, <2>2, <1>5 DEF Sure
      <3>3. Closing(q, change[q].run)' => Closing(q, change[q].run)
        BY <3>1 DEF Closing
      <3> QED
        BY <3>1, <3>2, <3>3, <1>3 DEF Turns
    <2> QED
      BY <2>1, <2>2
  <1>8. ASSUME ~crossed' PROVE Alone'
    <2> SUFFICES ASSUME NEW q \in Process, access'[q] \in Rewriting
                 PROVE  /\ access'[q] # "overlaid"
                        /\ \A o \in Process \ {q} : access'[o] \notin Rewriting
                        /\ access'[q] = "emptied" => state' = NoRecord
                        /\ access'[q] = "read" =>
                             \A r \in Run : payload'[q][r] \in Active =>
                               state'[r] \in Active \/ Sure(q, r)'
      BY DEF Alone
    <2>1. q # p /\ access[q] \in Rewriting /\ Alone
      BY <1>2, <1>3, <1>8
    <2> QED
      BY <2>1, <1>2, <1>3, <1>5 DEF Alone
  <1>9. ASSUME ~crossed' PROVE Worked'
    <2> SUFFICES ASSUME NEW r \in Run, Claimed(r)'
                 PROVE  Lost(r)' \/ \E k \in DOMAIN attempts'[r] : Good(r, attempts[r][k])'
      BY DEF Worked
    <2>1. Alone /\ Worked
      BY <1>3, <1>9
    <2>2. Claimed(r)
      BY <1>2, <1>3 DEF Claimed
    <2>3. ASSUME NEW q \in Process \ {p}, Sure(q, r)
          PROVE  \E k \in DOMAIN attempts'[r] : Good(r, attempts[r][k])'
      BY <1>5, <2>3 DEF Sure, Good, Live, LiveStage
    <2>4. CASE state[r] = "needs-attention"
      <3>1. PICK q \in Process : access'[q] \in Rewriting /\ payload[q][r] \in Active
        BY <1>3, <2>4 DEF Claimed, Active
      <3>2. q # p /\ access[q] \in Rewriting
        BY <1>2, <1>3, <3>1
      <3>3. access[q] = "read"
        BY <2>1, <2>4, <3>2 DEF Alone, NoRecord, Rewriting
      <3>4. Sure(q, r)
        BY <2>1, <2>4, <3>1, <3>2, <3>3 DEF Alone, Active
      <3> QED
        BY <2>3, <3>2, <3>4
    <2>5. CASE state[r] # "needs-attention" /\ Lost(r)
      BY <2>5 DEF Lost
    <2>6. CASE state[r] # "needs-attention" /\ ~Lost(r)
      <3>1. PICK k \in DOMAIN attempts[r] : Good(r, attempts[r][k])
        BY <2>1, <2>2, <2>6 DEF Worked
      <3>2. attempts[r][k].proc \in Process
        BY AttemptTypes
      <3>3. CASE attempts[r][k].proc = p
        BY <3>1, <3>3, <2>6
      <3>4. CASE attempts[r][k].proc # p
        <4>1. k \in DOMAIN attempts'[r] /\ attempts'[r][k] = attempts[r][k]
          BY <3>4
        <4>2. Good(r, attempts[r][k])'
          BY <4>1, <3>1, <3>2, <3>4, <1>6 DEF Good, Live
        <4> QED
          BY <4>1, <4>2
      <3> QED
        BY <3>3, <3>4
    <2> QED
      BY <2>4, <2>5, <2>6
  <1> QED
    BY <1>1, <1>4, <1>7, <1>8, <1>9

(* With no turn under way, a process records the end of an attempt unless it was         *)
(* interrupted.                                                                          *)
LEMMA IdleGood ==
  ASSUME RunsIInv, NEW r \in Run, NEW k \in DOMAIN attempts[r],
         access[attempts[r][k].proc] = "none"
  PROVE  Good(r, attempts[r][k]) <=>
           /\ Live(attempts[r][k]) /\ attempts[r][k].stage # "ending"
           /\ attempts[r][k].how = "external" \/ r \notin interrupted[attempts[r][k].proc]
  BY DEF Good, Closing

(* A run gets its first attempt. *)
LEMMA FirstAttempt ==
  ASSUME RunsIInv, NEW p \in Process, NEW r \in Run, access[p] = "none",
         NEW how \in Hows, NEW stage \in {"registered", "asked"},
         how = "external" => stage = "asked",
         attempts[r] = <<>>, NEW s \in Active, Adding(p, r, s),
         attempts' = [attempts EXCEPT ![r] = <<Attempt(p, how, stage, <<>>)>>],
         UNCHANGED <<interrupted, queue, steered, dropped>>
  PROVE  RunsIInv'
  <1>0. RunsTypeOK /\ Unborn /\ Staged
    BY DEF RunsIInv
  <1> DEFINE a == Attempt(p, how, stage, <<>>)
  <1>1. /\ a \in AttemptType /\ a.proc = p /\ a.how = how /\ a.stage = stage
        /\ a.guidance = <<>>
    <2>1. <<>> \in Seq(Nat) /\ stage \in Stages
      BY DEF Stages, LiveStage
    <2>2. \A g \in Seq(Nat) : LET b == Attempt(p, how, stage, g) IN
            b \in AttemptType /\ b.proc = p /\ b.how = how /\ b.stage = stage /\ b.guidance = g
      BY <2>1, AttemptTyped
    <2> QED
      BY <2>1, <2>2
  <1>2. /\ DOMAIN attempts'[r] = {1} /\ attempts'[r][1] = a /\ attempts'[r] # <<>>
        /\ attempts' \in [Run -> Seq(AttemptType)] /\ DOMAIN attempts[r] = {}
        /\ \A q \in Run \ {r} : attempts'[q] = attempts[q]
    <2> HIDE DEF a
    <2>1. <<a>> \in Seq(AttemptType) /\ DOMAIN <<a>> = {1} /\ <<a>>[1] = a /\ <<a>> # <<>>
      BY <1>1
    <2>2. attempts' = [attempts EXCEPT ![r] = <<a>>]
      BY DEF a
    <2> QED
      BY <2>1, <2>2, <1>0 DEF RunsTypeOK
  <1>3. TurnOf(p) /\ access'[p] = "adding" /\ change'[p].run = r /\ change'[p].to = s
    BY <1>0, TurnDoes DEF Adding, Active, RunState
  <1>4. \A q \in Process : r \notin interrupted[q]
    BY <1>0 DEF Unborn
  <1> HIDE DEF a
  <1>5. Sure(p, r)'
    BY <1>1, <1>2, <1>4 DEF Sure
  <1>6. Staged'
    BY <1>0, <1>1, <1>2, <1>4 DEF Staged, Hows
  <1>7. ASSUME NEW q \in Run, NEW k \in DOMAIN attempts[q]
        PROVE  /\ k \in DOMAIN attempts'[q] /\ attempts'[q][k] = attempts[q][k]
               /\ attempts[q][k].proc = p /\ Good(q, attempts[q][k])
                    => Good(q, attempts[q][k])'
    <2>1. k \in DOMAIN attempts'[q] /\ attempts'[q][k] = attempts[q][k]
      BY <1>2
    <2> QED
      BY <2>1, IdleGood DEF Good, Live
  <1>8. /\ interrupted' \in [Process -> SUBSET Run] /\ steered' \in [Run -> Nat]
        /\ queue' \in [Process -> [Run -> Seq(Nat)]]
    BY <1>0 DEF RunsTypeOK
  <1>9. \A q \in Run : attempts'[q] = <<>> =>
           /\ attempts[q] = <<>> /\ steered'[q] = steered[q] /\ q \notin interrupted'[p]
           /\ \A o \in Process : queue'[o][q] = queue[o][q]
    BY <1>0, <1>2 DEF Unborn
  <1>10. Sure(p, change[p].run)'
    BY <1>3, <1>5 DEF Sure
  <1> QED
    BY <1>2, <1>3, <1>6, <1>7, <1>8, <1>9, <1>10, TurnKeeps

(* The stage of one attempt moves on, perhaps with a change of the file. *)
LEMMA AttemptMoves ==
  ASSUME RunsIInv, NEW r \in Run, NEW k \in DOMAIN attempts[r],
         NEW p \in Process, attempts[r][k].proc = p, access[p] = "none", TurnOf(p),
         NEW stage \in {"yielding", "over", "ending"},
         Live(attempts[r][k]), stage = "yielding" => attempts[r][k].how = "delegate",
         attempts' = Moved(r, k, stage),
         access'[p] # "none" => change'[p].run = r /\ change'[p].to \notin Active,
         stage = "ending" => Closing(p, r)',
         stage = "over" => state[r] = "needs-attention" \/ ~Good(r, attempts[r][k]),
         UNCHANGED <<interrupted, queue, steered, dropped>>
  PROVE  RunsIInv'
  <1>0. RunsTypeOK /\ Unborn /\ Staged
    BY DEF RunsIInv
  <1> DEFINE a == [attempts[r][k] EXCEPT !.stage = stage]
  <1>1. /\ a.stage = stage /\ a.proc = attempts[r][k].proc /\ a.how = attempts[r][k].how
        /\ a.guidance = attempts[r][k].guidance
    <2>1. attempts[r][k] \in AttemptType /\ stage \in Stages
      BY <1>0, AttemptTypes DEF Stages, LiveStage
    <2> QED
      BY <2>1, RecordTyped
  <1>2. /\ attempts' \in [Run -> Seq(AttemptType)]
        /\ \A q \in Run \ {r} : attempts'[q] = attempts[q]
        /\ DOMAIN attempts'[r] = DOMAIN attempts[r]
        /\ \A l \in DOMAIN attempts[r] \ {k} : attempts'[r][l] = attempts[r][l]
        /\ attempts'[r][k] = a
    <2>1. stage \in Stages
      BY DEF Stages, LiveStage
    <2> QED
      BY <2>1, <1>0, MovedTyped
  <1> HIDE DEF a
  <1>3. attempts[r] # <<>> /\ attempts'[r] # <<>>
    <2>1. DOMAIN attempts[r] # {} /\ DOMAIN attempts'[r] # {}
      BY <1>2
    <2> QED
      BY <2>1
  <1>4. Staged'
    <2> SUFFICES ASSUME NEW q \in Run, NEW l \in DOMAIN attempts'[q]
                 PROVE  (LET b == attempts[q][l] IN
                          /\ b.stage = "registered" => q \notin interrupted[b.proc] /\ b.guidance = <<>>
                          /\ b.stage \in {"registered", "yielding"} => b.how = "delegate")'
      BY DEF Staged
    <2>1. CASE q = r /\ l = k
      BY <2>1, <1>0, <1>1, <1>2 DEF Staged
    <2>2. CASE ~(q = r /\ l = k)
      BY <2>2, <1>0, <1>2 DEF Staged
    <2> QED
      BY <2>1, <2>2
  <1>5. ASSUME NEW q \in Run, NEW l \in DOMAIN attempts[q]
        PROVE  /\ l \in DOMAIN attempts'[q]
               /\ attempts[q][l].proc # p \/ attempts[q][l].stage = "lost"
                    => attempts'[q][l] = attempts[q][l]
               /\ attempts[q][l].proc = p /\ Good(q, attempts[q][l])
                    => Good(q, attempts[q][l])' \/ state[q] = "needs-attention"
    <2>1. CASE q = r /\ l = k
      <3>1. attempts[r][k].stage # "lost"
        BY DEF Live, LiveStage
      <3>2. Good(r, attempts[r][k]) =>
              /\ attempts[r][k].stage # "ending"
              /\ attempts[r][k].how = "external" \/ r \notin interrupted[p]
        BY IdleGood
      <3>3. CASE stage = "yielding"
        BY <3>1, <3>2, <3>3, <2>1, <1>1, <1>2 DEF Good, Live, LiveStage
      <3>4. CASE stage = "ending"
        BY <3>1, <3>4, <2>1, <1>1, <1>2 DEF Good, Live, LiveStage
      <3>5. CASE stage = "over"
        BY <3>1, <3>5, <2>1, <1>2
      <3> QED
        BY <3>3, <3>4, <3>5
    <2>2. CASE ~(q = r /\ l = k)
      <3>1. l \in DOMAIN attempts'[q] /\ attempts'[q][l] = attempts[q][l]
        BY <2>2, <1>2
      <3> QED
        BY <3>1, IdleGood DEF Good, Live
    <2> QED
      BY <2>1, <2>2
  <1>6. /\ interrupted' \in [Process -> SUBSET Run] /\ steered' \in [Run -> Nat]
        /\ queue' \in [Process -> [Run -> Seq(Nat)]]
    BY <1>0 DEF RunsTypeOK
  <1>7. \A q \in Run : attempts'[q] = <<>> =>
           /\ attempts[q] = <<>> /\ steered'[q] = steered[q] /\ q \notin interrupted'[p]
           /\ \A o \in Process : queue'[o][q] = queue[o][q]
    BY <1>0, <1>2, <1>3 DEF Unborn
  <1>8. /\ access'[p] # "none" => attempts'[change'[p].run] # <<>>
        /\ access'[p] # "none" /\ change'[p].to \in Active => Sure(p, change[p].run)'
        /\ \A q \in Process \ {p} : interrupted'[q] = interrupted[q]
        /\ UNCHANGED dropped
    BY <1>3
  <1>9. \A q \in Run : \A l \in DOMAIN attempts[q] :
           /\ l \in DOMAIN attempts'[q]
           /\ attempts[q][l].proc # p \/ attempts[q][l].stage = "lost"
                => attempts'[q][l] = attempts[q][l]
           /\ attempts[q][l].proc = p /\ Good(q, attempts[q][l])
                => Good(q, attempts[q][l])' \/ state[q] = "needs-attention"
    BY <1>5
  <1>10. TurnOf(p) /\ access[p] = "none" /\ p \in Process
    OBVIOUS
  <1>11. attempts' \in [Run -> Seq(AttemptType)]
    BY <1>2
  <1> QED
    BY ONLY RunsIInv, <1>10, <1>11, <1>4, <1>6, <1>7, <1>8, <1>9, TurnKeeps

(* An attempt asks its agent, with the guidance that waits in its process. *)
Emptied(p, r) == [queue EXCEPT ![p][r] = <<>>]

LEMMA EmptiedTyped ==
  ASSUME RunsTypeOK, NEW p \in Process, NEW r \in Run
  PROVE  /\ Emptied(p, r) \in [Process -> [Run -> Seq(Nat)]]
         /\ \A q \in Process, o \in Run :
              Emptied(p, r)[q][o] = IF q = p /\ o = r THEN <<>> ELSE queue[q][o]
  <1>1. queue \in [Process -> [Run -> Seq(Nat)]]
    BY DEF RunsTypeOK
  <1>2. [queue[p] EXCEPT ![r] = <<>>] \in [Run -> Seq(Nat)]
    BY <1>1
  <1>3. Emptied(p, r) = [queue EXCEPT ![p] = [queue[p] EXCEPT ![r] = <<>>]]
    BY DEF Emptied
  <1> QED
    BY <1>1, <1>2, <1>3

LEMMA AttemptAsks ==
  ASSUME RunsIInv, NEW p \in Process, NEW r \in Run, NEW k, access[p] = "none",
         k \in DOMAIN attempts[r] =>
           attempts[r][k].proc = p /\ attempts[r][k].stage = "registered",
         attempts' \in [Run -> Seq(AttemptType)],
         \A q \in Run \ {r} : attempts'[q] = attempts[q],
         DOMAIN attempts'[r] = DOMAIN attempts[r] \cup {k},
         \A l \in DOMAIN attempts[r] \ {k} : attempts'[r][l] = attempts[r][l],
         attempts'[r][k].proc = p, attempts'[r][k].stage = "asked",
         Updating(p, r, "running"),
         interrupted' \in [Process -> SUBSET Run], r \notin interrupted'[p],
         \A q \in Process \ {p} : interrupted'[q] = interrupted[q],
         interrupted'[p] \subseteq interrupted[p],
         queue' = Emptied(p, r), UNCHANGED <<steered, dropped>>
  PROVE  RunsIInv'
  <1>0. RunsTypeOK /\ Unborn /\ Staged
    BY DEF RunsIInv
  <1>1. TurnOf(p) /\ access'[p] = "updating" /\ change'[p].run = r /\ change'[p].to = "running"
    BY <1>0, TurnDoes DEF Updating, RunState
  <1>2. attempts'[r] # <<>>
    <2>1. DOMAIN attempts'[r] # {}
      OBVIOUS
    <2> QED
      BY <2>1
  <1>3. Sure(p, change[p].run)'
    BY <1>1 DEF Sure
  <1>4. \A q \in Run : \A l \in DOMAIN attempts[q] : attempts[q][l].proc \in Process
    BY <1>0, AttemptTypes
  <1>5. \A q \in Process : interrupted'[q] \subseteq interrupted[q]
    OBVIOUS
  <1>6. Staged'
    <2> SUFFICES ASSUME NEW q \in Run, NEW l \in DOMAIN attempts'[q]
                 PROVE  (LET b == attempts[q][l] IN
                          /\ b.stage = "registered" => q \notin interrupted[b.proc] /\ b.guidance = <<>>
                          /\ b.stage \in {"registered", "yielding"} => b.how = "delegate")'
      BY DEF Staged
    <2>1. CASE q = r /\ l = k
      BY <2>1
    <2>2. CASE ~(q = r /\ l = k)
      <3>1. l \in DOMAIN attempts[q] /\ attempts'[q][l] = attempts[q][l]
        BY <2>2
      <3> QED
        BY <3>1, <1>0, <1>4, <1>5 DEF Staged
    <2> QED
      BY <2>1, <2>2
  <1>7. ASSUME NEW q \in Run, NEW l \in DOMAIN attempts[q]
        PROVE  /\ l \in DOMAIN attempts'[q]
               /\ attempts[q][l].proc # p \/ attempts[q][l].stage = "lost"
                    => attempts'[q][l] = attempts[q][l]
               /\ attempts[q][l].proc = p /\ Good(q, attempts[q][l]) => Good(q, attempts[q][l])'
    <2>1. CASE q = r /\ l = k
      BY <2>1 DEF Good, Live, LiveStage
    <2>2. CASE ~(q = r /\ l = k)
      <3>1. l \in DOMAIN attempts'[q] /\ attempts'[q][l] = attempts[q][l]
        BY <2>2
      <3> QED
        BY <3>1, <1>5, IdleGood DEF Good, Live
    <2> QED
      BY <2>1, <2>2
  <1>8. /\ steered' \in [Run -> Nat] /\ queue' \in [Process -> [Run -> Seq(Nat)]]
    BY <1>0, EmptiedTyped DEF RunsTypeOK
  <1>9. ASSUME NEW q \in Run, attempts'[q] = <<>>
        PROVE  /\ attempts[q] = <<>> /\ steered'[q] = steered[q] /\ q \notin interrupted'[p]
               /\ \A o \in Process : queue'[o][q] = queue[o][q]
    <2>1. q # r /\ attempts[q] = <<>>
      BY <1>2, <1>9
    <2>2. q \notin interrupted[p] /\ \A o \in Process : queue'[o][q] = queue[o][q]
      BY <2>1, <1>0, EmptiedTyped DEF Unborn
    <2> QED
      BY <2>1, <2>2, <1>5
  <1>10. /\ access'[p] # "none" => attempts'[change'[p].run] # <<>>
         /\ UNCHANGED dropped
    BY <1>1, <1>2
  <1>11. \A q \in Run : \A l \in DOMAIN attempts[q] :
           /\ l \in DOMAIN attempts'[q]
           /\ attempts[q][l].proc # p \/ attempts[q][l].stage = "lost"
                => attempts'[q][l] = attempts[q][l]
           /\ attempts[q][l].proc = p /\ Good(q, attempts[q][l])
                => Good(q, attempts[q][l])' \/ state[q] = "needs-attention"
    BY <1>7
  <1> QED
    BY <1>1, <1>3, <1>6, <1>8, <1>9, <1>10, <1>11, TurnKeeps

LEMMA BeginDoes ==
  ASSUME RunsIInv, NEW r \in Run, NEW k \in DOMAIN attempts[r], Begin(r, k)
  PROVE  LET p == attempts[r][k].proc IN
         /\ p \in Process /\ r \notin interrupted[p] /\ attempts[r][k].guidance = <<>>
         /\ attempts' \in [Run -> Seq(AttemptType)]
         /\ \A q \in Run \ {r} : attempts'[q] = attempts[q]
         /\ DOMAIN attempts'[r] = DOMAIN attempts[r]
         /\ \A l \in DOMAIN attempts[r] \ {k} : attempts'[r][l] = attempts[r][l]
         /\ attempts'[r][k].proc = p /\ attempts'[r][k].stage = "asked"
         /\ attempts'[r][k].guidance = queue[p][r] /\ queue' = Emptied(p, r)
  <1> DEFINE p == attempts[r][k].proc
             a == [[attempts[r][k] EXCEPT !.stage = "asked"] EXCEPT !.guidance = queue[p][r]]
             s == [attempts[r] EXCEPT ![k] = a]
  <1>1. /\ RunsTypeOK /\ Staged
        /\ attempts \in [Run -> Seq(AttemptType)] /\ attempts[r] \in Seq(AttemptType)
        /\ attempts[r][k] \in AttemptType
    BY DEF RunsIInv, RunsTypeOK
  <1>2. /\ p \in Process /\ r \notin interrupted[p] /\ queue[p][r] \in Seq(Nat)
        /\ attempts[r][k].guidance = <<>>
    <2>1. p \in Process
      BY <1>1 DEF AttemptType
    <2>2. attempts[r][k].stage = "registered"
      BY DEF Begin
    <2>3. r \notin interrupted[p] /\ attempts[r][k].guidance = <<>>
      BY <1>1, <2>2 DEF Staged
    <2> QED
      BY <1>1, <2>1, <2>3 DEF RunsTypeOK
  <1>3. a \in AttemptType /\ a.proc = p /\ a.stage = "asked" /\ a.guidance = queue[p][r]
    BY <1>1, <1>2 DEF AttemptType, LiveStage
  <1>4. attempts' = [attempts EXCEPT ![r] = s]
    BY <1>1 DEF Begin
  <1>5. /\ s \in Seq(AttemptType) /\ DOMAIN s = DOMAIN attempts[r] /\ s[k] = a
        /\ \A l \in DOMAIN attempts[r] \ {k} : s[l] = attempts[r][l]
    <2> HIDE DEF a
    <2> QED
      BY <1>1, <1>3
  <1> HIDE DEF a, s
  <1>6. /\ attempts' \in [Run -> Seq(AttemptType)]
        /\ \A q \in Run \ {r} : attempts'[q] = attempts[q]
        /\ attempts'[r] = s
    BY <1>1, <1>4, <1>5
  <1>7. queue' = Emptied(p, r)
    BY DEF Begin, Emptied
  <1> HIDE DEF p
  <1> QED
    BY <1>2, <1>3, <1>5, <1>6, <1>7 DEF p

LEMMA BeginKeeps ==
  ASSUME RunsIInv, NEW r \in Run, NEW k \in DOMAIN attempts[r],
         access[attempts[r][k].proc] = "none", Begin(r, k)
  PROVE  RunsIInv'
  <1>1. RunsTypeOK
    BY DEF RunsIInv
  <1> DEFINE p == attempts[r][k].proc
  <1>2. /\ interrupted' \in [Process -> SUBSET Run] /\ interrupted' = interrupted
        /\ UNCHANGED <<steered, dropped>> /\ attempts[r][k].stage = "registered"
        /\ Updating(p, r, "running")
    BY <1>1 DEF Begin, RunsTypeOK
  <1>3. /\ p \in Process /\ r \notin interrupted[p]
        /\ attempts' \in [Run -> Seq(AttemptType)]
        /\ \A q \in Run \ {r} : attempts'[q] = attempts[q]
        /\ DOMAIN attempts'[r] = DOMAIN attempts[r] \cup {k}
        /\ \A l \in DOMAIN attempts[r] \ {k} : attempts'[r][l] = attempts[r][l]
        /\ attempts'[r][k].proc = p /\ attempts'[r][k].stage = "asked"
        /\ queue' = Emptied(p, r)
    BY BeginDoes
  <1>4. access[p] = "none" /\ attempts[r][k].proc = p
    OBVIOUS
  <1> HIDE DEF p
  <1> QED
    BY <1>2, <1>3, <1>4, AttemptAsks

LEMMA ResumeDoes ==
  ASSUME RunsTypeOK, NEW p \in Process, NEW r \in Run, Resume(p, r)
  PROVE  LET k == Len(attempts[r]) + 1 IN
         /\ attempts' \in [Run -> Seq(AttemptType)] /\ k \notin DOMAIN attempts[r]
         /\ \A q \in Run \ {r} : attempts'[q] = attempts[q]
         /\ DOMAIN attempts'[r] = DOMAIN attempts[r] \cup {k}
         /\ \A l \in DOMAIN attempts[r] : attempts'[r][l] = attempts[r][l]
         /\ attempts'[r][k].proc = p /\ attempts'[r][k].stage = "asked"
         /\ attempts'[r][k].guidance = queue[p][r] /\ queue' = Emptied(p, r)
  <1> DEFINE a == Attempt(p, "delegate", "asked", queue[p][r])
             k == Len(attempts[r]) + 1
  <1>1. /\ RunsTypeOK /\ attempts \in [Run -> Seq(AttemptType)]
        /\ attempts[r] \in Seq(AttemptType) /\ queue[p][r] \in Seq(Nat)
    BY DEF RunsTypeOK
  <1>2. a \in AttemptType /\ a.proc = p /\ a.stage = "asked" /\ a.guidance = queue[p][r]
    <2>1. "delegate" \in Hows /\ "asked" \in Stages
      BY DEF Hows, Stages, LiveStage
    <2> QED
      BY <1>1, <2>1, AttemptTyped
  <1> HIDE DEF a
  <1>3. attempts' = [attempts EXCEPT ![r] = Append(attempts[r], a)]
    BY DEF Resume, a
  <1>4. /\ Append(attempts[r], a) \in Seq(AttemptType)
        /\ DOMAIN Append(attempts[r], a) = DOMAIN attempts[r] \cup {k}
        /\ Append(attempts[r], a)[k] = a /\ k \notin DOMAIN attempts[r]
        /\ \A l \in DOMAIN attempts[r] : Append(attempts[r], a)[l] = attempts[r][l]
    BY <1>1, <1>2
  <1> HIDE DEF k
  <1>5. /\ attempts' \in [Run -> Seq(AttemptType)]
        /\ \A q \in Run \ {r} : attempts'[q] = attempts[q]
        /\ attempts'[r] = Append(attempts[r], a)
    BY <1>1, <1>3, <1>4
  <1>6. queue' = Emptied(p, r)
    BY DEF Resume, Emptied
  <1> QED
    BY <1>2, <1>4, <1>5, <1>6 DEF k

LEMMA ResumeKeeps ==
  ASSUME RunsIInv, NEW p \in Process, NEW r \in Run, access[p] = "none", Resume(p, r)
  PROVE  RunsIInv'
  <1>1. RunsTypeOK
    BY DEF RunsIInv
  <1>2. /\ interrupted' \in [Process -> SUBSET Run] /\ r \notin interrupted'[p]
        /\ \A q \in Process \ {p} : interrupted'[q] = interrupted[q]
        /\ interrupted'[p] \subseteq interrupted[p]
        /\ UNCHANGED <<steered, dropped>> /\ Updating(p, r, "running")
    BY <1>1 DEF Resume, RunsTypeOK
  <1> DEFINE k == Len(attempts[r]) + 1
  <1>3. /\ attempts' \in [Run -> Seq(AttemptType)] /\ k \notin DOMAIN attempts[r]
        /\ \A q \in Run \ {r} : attempts'[q] = attempts[q]
        /\ DOMAIN attempts'[r] = DOMAIN attempts[r] \cup {k}
        /\ \A l \in DOMAIN attempts[r] : attempts'[r][l] = attempts[r][l]
        /\ attempts'[r][k].proc = p /\ attempts'[r][k].stage = "asked"
        /\ queue' = Emptied(p, r)
    BY <1>1, ResumeDoes
  <1> HIDE DEF k
  <1>4. \A l \in DOMAIN attempts[r] \ {k} : attempts'[r][l] = attempts[r][l]
    BY <1>3
  <1> QED
    BY <1>2, <1>3, <1>4, AttemptAsks

(* What leaves the attempts alone. *)
LEMMA RecordChanges ==
  ASSUME RunsIInv, NEW p \in Process, NEW r \in Run, Idle(p), TurnOf(p),
         attempts[r] # <<>>, UNCHANGED <<attempts, dropped>>,
         access'[p] # "none" => change'[p].run = r /\ change'[p].to \notin Active,
         \/ interrupted' = interrupted
         \/ /\ interrupted' = [interrupted EXCEPT ![p] = @ \cup {r}]
            /\ Closing(p, r)',
         queue' \in [Process -> [Run -> Seq(Nat)]], steered' \in [Run -> Nat],
         \A o \in Run \ {r} :
           steered'[o] = steered[o] /\ \A q \in Process : queue'[q][o] = queue[q][o]
  PROVE  RunsIInv'
  <1>0. RunsTypeOK /\ Unborn /\ Staged /\ access[p] = "none"
    BY DEF RunsIInv, Idle
  <1>1. /\ interrupted' \in [Process -> SUBSET Run]
        /\ \A q \in Process \ {p} : interrupted'[q] = interrupted[q]
        /\ \A o \in Run \ {r} : o \in interrupted'[p] <=> o \in interrupted[p]
    <2>1. interrupted \in [Process -> SUBSET Run]
      BY <1>0 DEF RunsTypeOK
    <2>2. CASE interrupted' = interrupted
      BY <2>1, <2>2
    <2>3. CASE interrupted' = [interrupted EXCEPT ![p] = @ \cup {r}]
      BY <2>1, <2>3
    <2> QED
      BY <2>2, <2>3
  <1>2. Staged'
    <2> SUFFICES ASSUME NEW q \in Run, NEW l \in DOMAIN attempts'[q]
                 PROVE  (LET b == attempts[q][l] IN
                          /\ b.stage = "registered" => q \notin interrupted[b.proc] /\ b.guidance = <<>>
                          /\ b.stage \in {"registered", "yielding"} => b.how = "delegate")'
      BY DEF Staged
    <2>1. attempts[q][l].proc \in Process /\ attempts'[q][l] = attempts[q][l]
      BY <1>0, AttemptTypes
    <2>2. attempts[q][l].proc = p => attempts[q][l].stage # "registered"
      BY DEF Idle, InStart
    <2> QED
      BY <2>1, <2>2, <1>0, <1>1 DEF Staged
  <1>3. \A q \in Run : \A l \in DOMAIN attempts[q] :
           /\ l \in DOMAIN attempts'[q]
           /\ attempts[q][l].proc # p \/ attempts[q][l].stage = "lost"
                => attempts'[q][l] = attempts[q][l]
           /\ attempts[q][l].proc = p /\ Good(q, attempts[q][l])
                => Good(q, attempts[q][l])' \/ state[q] = "needs-attention"
    <2> SUFFICES ASSUME NEW q \in Run, NEW l \in DOMAIN attempts[q],
                        attempts[q][l].proc = p, Good(q, attempts[q][l])
                 PROVE  Good(q, attempts[q][l])'
      OBVIOUS
    <2>1. /\ Live(attempts[q][l]) /\ attempts[q][l].stage # "ending"
          /\ attempts[q][l].how = "external" \/ q \notin interrupted[p]
      BY <1>0, IdleGood
    <2>2. CASE q = r
      BY <2>1, <2>2 DEF Good, Live
    <2>3. CASE q # r
      BY <2>1, <2>3, <1>1 DEF Good, Live
    <2> QED
      BY <2>2, <2>3
  <1>4. \A o \in Run : attempts'[o] = <<>> =>
           /\ attempts[o] = <<>> /\ steered'[o] = steered[o] /\ o \notin interrupted'[p]
           /\ \A q \in Process : queue'[q][o] = queue[q][o]
    BY <1>0, <1>1 DEF Unborn
  <1>5. /\ access'[p] # "none" => attempts'[change'[p].run] # <<>>
        /\ access'[p] # "none" /\ change'[p].to \in Active => Sure(p, change[p].run)'
        /\ attempts' \in [Run -> Seq(AttemptType)] /\ UNCHANGED dropped
    BY <1>0 DEF RunsTypeOK
  <1>6. queue' \in [Process -> [Run -> Seq(Nat)]] /\ steered' \in [Run -> Nat]
    OBVIOUS
  <1>7. TurnOf(p) /\ p \in Process
    OBVIOUS
  <1> QED
    BY ONLY RunsIInv, <1>0, <1>1, <1>2, <1>3, <1>4, <1>5, <1>6, <1>7, TurnKeeps

LEMMA UpdateDoes ==
  ASSUME RunsTypeOK, NEW p \in Process, NEW r \in Run, NEW to \in RunState \cup {"same"},
         Updating(p, r, to)
  PROVE  /\ TurnOf(p) /\ access'[p] = "updating" /\ change'[p].run = r /\ change'[p].to = to
         /\ to \notin Active \cup {"same"} => Closing(p, r)'
  <1>1. TurnOf(p) /\ access'[p] = "updating" /\ change'[p].run = r /\ change'[p].to = to
    BY TurnDoes DEF Updating
  <1> QED
    BY <1>1 DEF Closing

LEMMA AttemptKeeps ==
  ASSUME RunsIInv, NEW r \in Run, NEW k \in DOMAIN attempts[r],
         AttemptStep(r, k) \/ (Idle(attempts[r][k].proc) /\ Progress(r, k))
  PROVE  RunsIInv'
  <1>p. PICK p \in Process : attempts[r][k].proc = p
    BY AttemptTypes DEF RunsIInv
  <1>0. RunsTypeOK /\ Staged /\ attempts[r] # <<>>
    <2>1. DOMAIN attempts[r] # {}
      OBVIOUS
    <2> QED
      BY <2>1 DEF RunsIInv
  <1>1. access[p] = "none"
    BY <1>p DEF AttemptStep, Idle
  <1>2. \A s \in {"completed", "failed"} : s \in RunState /\ s \notin Active \cup {"same"}
    BY DEF RunState, Active
  <1>3. CASE Begin(r, k)
    BY <1>p, <1>1, <1>3, BeginKeeps
  <1>4. CASE SpawnEnds(r, k)
    <2>1. /\ Live(attempts[r][k]) /\ UNCHANGED <<interrupted, queue, steered, dropped>>
      BY <1>4 DEF SpawnEnds, Live, LiveStage
    <2>2. CASE state[r] = "needs-attention"
      <3>1. Updating(p, r, "same") /\ attempts' = Moved(r, k, "over")
        BY <1>p, <1>4, <2>2 DEF SpawnEnds
      <3>2. TurnOf(p) /\ change'[p].run = r /\ change'[p].to \notin Active
        BY <3>1, <1>0, UpdateDoes DEF Active
      <3> QED
        BY <1>p, <1>0, <1>1, <2>1, <2>2, <3>1, <3>2, AttemptMoves
    <2>3. CASE state[r] # "needs-attention"
      <3>1. PICK s \in {"completed", "failed"} : Updating(p, r, s)
        BY <1>p, <1>4, <2>3 DEF SpawnEnds
      <3>2. attempts' = Moved(r, k, "ending")
        BY <1>p, <1>4, <2>3 DEF SpawnEnds
      <3>3. /\ TurnOf(p) /\ change'[p].run = r /\ change'[p].to \notin Active
            /\ Closing(p, r)'
        BY <3>1, <1>0, <1>2, UpdateDoes
      <3> QED
        BY <1>p, <1>0, <1>1, <2>1, <3>2, <3>3, AttemptMoves
    <2> QED
      BY <2>2, <2>3
  <1>5. CASE Answer(r, k)
    <2>1. /\ Live(attempts[r][k]) /\ attempts' = Moved(r, k, "yielding")
          /\ attempts[r][k].how = "delegate"
          /\ UNCHANGED <<interrupted, queue, steered, dropped>>
      BY <1>5 DEF Answer, Live, LiveStage
    <2>2. TurnOf(p) /\ access'[p] # "none" => change'[p].run = r /\ change'[p].to \notin Active
      <3>1. CASE UNCHANGED fileVars
        BY <3>1, <1>p, <1>0, <1>1, NoTurn
      <3>2. CASE Updating(p, r, "same")
        BY <3>2, <1>0, UpdateDoes DEF Active
      <3> QED
        BY <1>p, <1>5, <3>1, <3>2 DEF Answer
    <2>3. TurnOf(p)
      <3>1. CASE UNCHANGED fileVars
        BY <3>1, <1>p, <1>0, <1>1, NoTurn
      <3>2. CASE Updating(p, r, "same")
        BY <3>2, <1>0, UpdateDoes
      <3> QED
        BY <1>p, <1>5, <3>1, <3>2 DEF Answer
    <2> QED
      BY <1>p, <1>0, <1>1, <2>1, <2>2, <2>3, AttemptMoves
  <1>6. CASE Conclude(r, k)
    <2>1. /\ Live(attempts[r][k]) /\ attempts[r][k].how = "delegate"
          /\ UNCHANGED <<interrupted, queue, steered, dropped>>
      BY <1>p, <1>0, <1>6 DEF Conclude, Live, LiveStage, Staged
    <2>2. CASE r \in interrupted[p]
      <3>1. attempts' = Moved(r, k, "over") /\ UNCHANGED fileVars
        BY <1>p, <1>6, <2>2 DEF Conclude
      <3>2. TurnOf(p) /\ access'[p] = "none"
        BY <3>1, <1>p, <1>0, <1>1, NoTurn
      <3>3. ~Good(r, attempts[r][k])
        BY <1>p, <1>1, <2>1, <2>2, IdleGood
      <3> QED
        BY <1>p, <1>0, <1>1, <2>1, <3>1, <3>2, <3>3, AttemptMoves
    <2>3. CASE r \notin interrupted[p]
      <3>1. PICK s \in {"completed", "failed"} : Updating(p, r, s)
        BY <1>p, <1>6, <2>3 DEF Conclude
      <3>2. attempts' = Moved(r, k, "ending")
        BY <1>p, <1>6, <2>3 DEF Conclude
      <3>3. /\ TurnOf(p) /\ change'[p].run = r /\ change'[p].to \notin Active
            /\ Closing(p, r)'
        BY <3>1, <1>0, <1>2, UpdateDoes
      <3> QED
        BY <1>p, <1>0, <1>1, <2>1, <3>2, <3>3, AttemptMoves
    <2> QED
      BY <2>2, <2>3
  <1>7. CASE Reject(r, k)
    <2>1. /\ Live(attempts[r][k]) /\ UNCHANGED <<interrupted, queue, steered, dropped>>
          /\ attempts' = Moved(r, k, "ending") /\ Updating(p, r, "failed")
      BY <1>p, <1>7 DEF Reject, Live, LiveStage
    <2>2. /\ TurnOf(p) /\ change'[p].run = r /\ change'[p].to \notin Active
          /\ Closing(p, r)'
      BY <2>1, <1>0, <1>2, UpdateDoes
    <2> QED
      BY <1>p, <1>0, <1>1, <2>1, <2>2, AttemptMoves
  <1>8. CASE Idle(p) /\ Progress(r, k)
    <2>1. Updating(p, r, "same") /\ UNCHANGED memoryVars
      BY <1>p, <1>8 DEF Progress
    <2>2. TurnOf(p) /\ change'[p].run = r /\ change'[p].to \notin Active
      BY <2>1, <1>0, UpdateDoes DEF Active
    <2>3. UNCHANGED <<attempts, interrupted, queue, steered, dropped>>
      BY <2>1 DEF memoryVars
    <2>4. queue' \in [Process -> [Run -> Seq(Nat)]] /\ steered' \in [Run -> Nat]
      BY <2>3, <1>0 DEF RunsTypeOK
    <2> QED
      BY <1>0, <1>8, <2>2, <2>3, <2>4, RecordChanges
  <1> QED
    BY <1>p, <1>3, <1>4, <1>5, <1>6, <1>7, <1>8 DEF AttemptStep

LEMMA RequestKeeps ==
  ASSUME RunsIInv, NEW p \in Process, NEW r \in Run, Idle(p),
         \/ StartRun(p, r) \/ TrackExternalSpawn(p, r)
         \/ Interrupt(p, r) \/ Resume(p, r) \/ SteerRun(p, r) \/ Cancel(p, r)
  PROVE  RunsIInv'
  <1>0. RunsTypeOK /\ Unborn /\ access[p] = "none"
    BY DEF RunsIInv, Idle
  <1>1. CASE StartRun(p, r)
    BY <1>0, <1>1, FirstAttempt DEF StartRun, Active, Hows
  <1>2. CASE TrackExternalSpawn(p, r)
    BY <1>0, <1>2, FirstAttempt DEF TrackExternalSpawn, Active, Hows
  <1>3. CASE Interrupt(p, r)
    <2>1. /\ Updating(p, r, "needs-attention") /\ attempts[r] # <<>>
          /\ UNCHANGED <<attempts, queue, steered, dropped>>
          /\ interrupted' = [interrupted EXCEPT ![p] = @ \cup {r}]
      BY <1>0, <1>3 DEF Interrupt, Unborn, Active
    <2>2. /\ TurnOf(p) /\ change'[p].run = r /\ change'[p].to \notin Active
          /\ Closing(p, r)'
      BY <2>1, <1>0, UpdateDoes DEF Active, RunState
    <2>3. queue' \in [Process -> [Run -> Seq(Nat)]] /\ steered' \in [Run -> Nat]
      BY <2>1, <1>0 DEF RunsTypeOK
    <2> QED
      BY <2>1, <2>2, <2>3, RecordChanges
  <1>4. CASE Resume(p, r)
    BY <1>0, <1>4, ResumeKeeps
  <1>5. CASE SteerRun(p, r)
    <2>1. /\ state[r] # "absent" /\ steered' = [steered EXCEPT ![r] = @ + 1]
          /\ queue' = [queue EXCEPT ![p] = [queue[p] EXCEPT ![r] = Append(queue[p][r], steered'[r])]]
          /\ UNCHANGED <<attempts, interrupted, dropped>> /\ UNCHANGED fileVars
      BY <1>5, <1>0 DEF SteerRun, RunsTypeOK
    <2>2. steered' \in [Run -> Nat]
      BY <2>1, <1>0 DEF RunsTypeOK
    <2>3. Append(queue[p][r], steered'[r]) \in Seq(Nat)
      BY <2>2, <1>0 DEF RunsTypeOK
    <2>4. [queue[p] EXCEPT ![r] = Append(queue[p][r], steered'[r])] \in [Run -> Seq(Nat)]
      BY <2>3, <1>0 DEF RunsTypeOK
    <2>5. queue' \in [Process -> [Run -> Seq(Nat)]]
      BY <2>1, <2>4, <1>0 DEF RunsTypeOK
    <2>6. \A o \in Run \ {r} :
            steered'[o] = steered[o] /\ \A q \in Process : queue'[q][o] = queue[q][o]
      BY <2>1, <1>0 DEF RunsTypeOK
    <2>7. TurnOf(p) /\ access'[p] = "none" /\ attempts[r] # <<>>
      BY <2>1, <1>0, NoTurn DEF Unborn
    <2>8. interrupted' = interrupted /\ UNCHANGED <<attempts, dropped>>
      BY <2>1
    <2> QED
      BY ONLY RunsIInv, p \in Process, r \in Run, Idle(p),
              <2>2, <2>5, <2>6, <2>7, <2>8, RecordChanges
  <1>6. CASE Cancel(p, r)
    <2>1. /\ Updating(p, r, "failed") /\ attempts[r] # <<>>
          /\ UNCHANGED <<attempts, interrupted, queue, steered, dropped>>
      BY <1>0, <1>6 DEF Cancel, Unborn, Active, memoryVars
    <2>2. TurnOf(p) /\ change'[p].run = r /\ change'[p].to \notin Active
      BY <2>1, <1>0, UpdateDoes DEF Active, RunState
    <2>3. queue' \in [Process -> [Run -> Seq(Nat)]] /\ steered' \in [Run -> Nat]
      BY <2>1, <1>0 DEF RunsTypeOK
    <2> QED
      BY <2>1, <2>2, <2>3, RecordChanges
  <1> QED
    BY <1>1, <1>2, <1>3, <1>4, <1>5, <1>6

-----------------------------------------------------------------------------
(* The file is read, emptied and written.                                  *)
LEMMA TurnEndsDoes ==
  ASSUME RunsIInv, NEW p \in Process, TurnIsOver(p)
  PROVE  /\ attempts' \in [Run -> Seq(AttemptType)] /\ Staged'
         /\ \A r \in Run :
              /\ attempts'[r] = <<>> <=> attempts[r] = <<>>
              /\ Lost(r) => Lost(r)'
              /\ \A q \in Process : Sure(q, r) => Sure(q, r)'
              /\ DOMAIN attempts'[r] = DOMAIN attempts[r]
              /\ \A k \in DOMAIN attempts[r] :
                   /\ attempts'[r][k].guidance = attempts[r][k].guidance
                   /\ attempts[r][k].proc # p \/ attempts[r][k].stage # "ending"
                        => attempts'[r][k] = attempts[r][k]
  <1>0. RunsTypeOK /\ Staged /\ "over" \in Stages
    BY DEF RunsIInv, Stages
  <1>1. attempts' = Marked(p, {"ending"}, "over") /\ interrupted' = interrupted
    BY DEF TurnIsOver
  <1>2. /\ attempts' \in [Run -> Seq(AttemptType)]
        /\ \A r \in Run :
             /\ DOMAIN attempts'[r] = DOMAIN attempts[r]
             /\ \A k \in DOMAIN attempts[r] :
                  LET a == attempts[r][k]  b == attempts'[r][k] IN
                  /\ b.proc = a.proc /\ b.how = a.how /\ b.guidance = a.guidance
                  /\ a.proc = p /\ a.stage = "ending" => b.stage = "over"
                  /\ ~(a.proc = p /\ a.stage = "ending") => b = a
    BY <1>0, <1>1, MarkedTyped
  <1>3. ASSUME NEW r \in Run PROVE attempts'[r] = <<>> <=> attempts[r] = <<>>
    <2>1. attempts'[r] \in Seq(AttemptType) /\ attempts[r] \in Seq(AttemptType)
      BY <1>0, <1>2 DEF RunsTypeOK
    <2> QED
      BY <2>1, <1>2
  <1>4. ASSUME NEW r \in Run, Lost(r) PROVE Lost(r)'
    BY <1>2, <1>4 DEF Lost
  <1>5. ASSUME NEW r \in Run, NEW q \in Process, Sure(q, r) PROVE Sure(q, r)'
    BY <1>1, <1>2, <1>5 DEF Sure
  <1>6. Staged'
    <2> SUFFICES ASSUME NEW q \in Run, NEW l \in DOMAIN attempts'[q]
                 PROVE  (LET b == attempts[q][l] IN
                          /\ b.stage = "registered" => q \notin interrupted[b.proc] /\ b.guidance = <<>>
                          /\ b.stage \in {"registered", "yielding"} => b.how = "delegate")'
      BY DEF Staged
    <2> QED
      BY <1>0, <1>1, <1>2 DEF Staged
  <1> QED
    BY <1>2, <1>3, <1>4, <1>5, <1>6

\* The rest of the memory.
LEMMA MemoryTyped ==
  ASSUME RunsTypeOK, UNCHANGED <<interrupted, queue, steered, dropped>>
  PROVE  /\ interrupted' \in [Process -> SUBSET Run] /\ steered' \in [Run -> Nat]
         /\ queue' \in [Process -> [Run -> Seq(Nat)]] /\ dropped' \in [Run -> SUBSET Nat]
  BY DEF RunsTypeOK

LEMMA ReadKeeps ==
  ASSUME RunsIInv, NEW p \in Process, ReadFile(p)
  PROVE  RunsIInv'
  <1> DEFINE r == change[p].run
             to == change[p].to
             read == IF to = "same" THEN state ELSE [state EXCEPT ![r] = to]
  <1>0. RunsTypeOK /\ Unborn /\ Staged /\ Turns /\ NoChange \in Changes
    BY AsyncBounds DEF RunsIInv, NoChange, Changes
  <1>1. /\ access[p] \in {"adding", "updating"} /\ access[p] \notin Rewriting
        /\ r \in Run /\ to \in RunState \cup {"same"} /\ attempts[r] # <<>>
    BY <1>0 DEF ReadFile, RunsTypeOK, Rewriting, Unborn
  <1>2. /\ state' = state /\ crossed' \in BOOLEAN
        /\ ~crossed' => ~crossed /\ \A q \in Process \ {p} : access[q] \notin Rewriting
    BY <1>0 DEF ReadFile, Crossed, RunsTypeOK
  <1>3. CASE access[p] = "adding" \/ state[r] # "absent"
    <2>1. /\ access' = [access EXCEPT ![p] = "read"] /\ change' = change
          /\ payload' = [payload EXCEPT ![p] = read]
          /\ UNCHANGED <<attempts, interrupted, queue, steered, dropped>>
      BY <1>3 DEF ReadFile, memoryVars
    <2>2. read \in [Run -> RunState] /\ \A o \in Run \ {r} : read[o] = state[o]
      BY <1>0, <1>1 DEF RunsTypeOK
    <2>3. to # "same" => read[r] = to
      BY <1>0, <1>1 DEF RunsTypeOK
    <2>4. to = "same" => read = state
      OBVIOUS
    <2> HIDE DEF read
    <2>5. /\ access'[p] = "read" /\ payload'[p] = read
          /\ \A q \in Process \ {p} : access'[q] = access[q] /\ payload'[q] = payload[q]
          /\ access' \in [Process -> Accesses] /\ payload' \in [Process -> [Run -> RunState]]
      BY <2>1, <2>2, <1>0 DEF RunsTypeOK, Accesses, Rewriting
    <2>6. RunsTypeOK'
      BY <1>0, <1>2, <2>1, <2>5 DEF RunsTypeOK, Accesses
    <2>7. Unborn'
      <3>1. ASSUME NEW o \in Run, attempts'[o] = <<>>, NEW q \in Process
            PROVE  payload'[q][o] = "absent"
        <4>1. o # r /\ state[o] = "absent" /\ payload[q][o] = "absent"
          BY <1>0, <1>1, <2>1, <3>1 DEF Unborn
        <4> QED
          BY <4>1, <2>2, <2>5
      <3>2. ASSUME NEW q \in Process, access'[q] \in {"adding", "updating"}
            PROVE  attempts'[change'[q].run] # <<>>
        BY <3>2, <2>1, <2>5, <1>0 DEF Unborn
      <3> QED
        BY <3>1, <3>2, <1>0, <1>2, <2>1 DEF Unborn
    <2>8. Staged'
      BY <1>0, <2>1 DEF Staged
    <2>9. \A q \in Process, o \in Run :
            (Sure(q, o)' <=> Sure(q, o)) /\ (Closing(q, o)' <=> Closing(q, o))
      BY <1>1, <2>1, <2>5 DEF Sure, Closing
    <2>10. Turns'
      <3> SUFFICES ASSUME NEW q \in Process
                   PROVE  /\ access'[q] = "none" => change'[q] = NoChange
                          /\ access'[q] \in {"adding", "updating"} /\ change'[q].to \in Active
                               => Sure(q, change[q].run)'
                          /\ access'[q] \in Rewriting /\ Closing(q, change[q].run)'
                               => payload'[q][change'[q].run] \notin Active
        BY DEF Turns
      <3>1. change[q].run \in Run /\ change'[q] = change[q]
        BY <1>0, <2>1 DEF RunsTypeOK
      <3>2. /\ Sure(q, change[q].run) => Sure(q, change[q].run)'
            /\ Closing(q, change[q].run)' => Closing(q, change[q].run)
        BY <1>1, <2>1, <2>5 DEF Sure, Closing
      <3>3. CASE q = p
        BY <3>1, <3>2, <3>3, <2>3, <2>5 DEF Closing
      <3>4. CASE q # p
        BY <3>1, <3>2, <3>4, <2>5, <1>0 DEF Turns
      <3> QED
        BY <3>3, <3>4
    <2>11. ASSUME NEW o \in Run, read[o] \in Active, state[o] \notin Active
           PROVE  Sure(p, o)
      <3>1. o = r /\ to \in Active
        BY <2>2, <2>3, <2>4, <2>11
      <3> QED
        BY <3>1, <1>0, <1>1 DEF Turns
    <2>12. ASSUME ~crossed' PROVE Alone'
      <3> SUFFICES ASSUME NEW q \in Process, access'[q] \in Rewriting
                   PROVE  /\ access'[q] # "overlaid"
                          /\ \A o \in Process \ {q} : access'[o] \notin Rewriting
                          /\ access'[q] = "emptied" => state' = NoRecord
                          /\ access'[q] = "read" =>
                               \A o \in Run : payload'[q][o] \in Active =>
                                 state'[o] \in Active \/ Sure(q, o)'
        BY DEF Alone
      <3>1. q = p
        BY <1>2, <2>5, <2>12
      <3> QED
        BY <3>1, <1>2, <2>5, <2>9, <2>11, <2>12
    <2>13. ASSUME ~crossed' PROVE Worked'
      <3> SUFFICES ASSUME NEW o \in Run, Claimed(o)'
                   PROVE  Lost(o)' \/ \E k \in DOMAIN attempts'[o] : Good(o, attempts[o][k])'
        BY DEF Worked
      <3>1. \A k \in DOMAIN attempts[o] : Good(o, attempts[o][k]) => Good(o, attempts[o][k])'
        <4> SUFFICES ASSUME NEW k \in DOMAIN attempts[o], Good(o, attempts[o][k])
                     PROVE  Good(o, attempts[o][k])'
          OBVIOUS
        <4>1. attempts[o][k].proc \in Process /\ attempts' = attempts
          BY <1>0, <2>1, AttemptTypes
        <4> QED
          BY <4>1, <2>1, <2>9 DEF Good, Live
      <3>2. CASE state[o] \in Active
        <4>1. Claimed(o) /\ Worked
          BY <3>2, <1>2, <2>13 DEF Claimed, RunsIInv
        <4> QED
          BY <4>1, <3>1, <2>1 DEF Worked, Lost
      <3>3. CASE state[o] \notin Active
        <4>1. read[o] \in Active
          BY <3>3, <1>2, <2>5, <2>13 DEF Claimed
        <4>2. Sure(p, o)
          BY <4>1, <3>3, <2>11
        <4>3. \E k \in DOMAIN attempts[o] : Good(o, attempts[o][k])
          BY <4>2 DEF Sure, Good, Live, LiveStage
        <4> QED
          BY <4>3, <3>1, <2>1
      <3> QED
        BY <3>2, <3>3
    <2> QED
      BY <2>6, <2>7, <2>8, <2>10, <2>12, <2>13 DEF RunsIInv
  <1>4. CASE ~(access[p] = "adding" \/ state[r] # "absent")
    <2>1. /\ access' = [access EXCEPT ![p] = "none"] /\ payload' = payload /\ TurnIsOver(p)
          /\ change' = [change EXCEPT ![p] = NoChange]
          /\ UNCHANGED <<interrupted, queue, steered, dropped>>
      BY <1>4 DEF ReadFile, TurnIsOver
    <2>2. /\ access'[p] = "none" /\ change'[p] = NoChange
          /\ \A q \in Process \ {p} : access'[q] = access[q] /\ change'[q] = change[q]
          /\ access' \in [Process -> Accesses] /\ change' \in [Process -> Changes]
      BY <2>1, <1>0 DEF RunsTypeOK, Accesses, Changes
    <2>3. /\ attempts' \in [Run -> Seq(AttemptType)] /\ Staged'
          /\ \A o \in Run :
              /\ attempts'[o] = <<>> <=> attempts[o] = <<>>
              /\ Lost(o) => Lost(o)'
              /\ \A q \in Process : Sure(q, o) => Sure(q, o)'
              /\ DOMAIN attempts'[o] = DOMAIN attempts[o]
              /\ \A k \in DOMAIN attempts[o] :
                   attempts[o][k].proc # p \/ attempts[o][k].stage # "ending"
                        => attempts'[o][k] = attempts[o][k]
      BY <2>1, TurnEndsDoes
    <2>4. RunsTypeOK'
      BY <1>0, <1>2, <2>1, <2>2, <2>3, MemoryTyped DEF RunsTypeOK, Accesses, Changes
    <2>5. Unborn'
      <3>1. ASSUME NEW q \in Process, access'[q] \in {"adding", "updating"}
            PROVE  attempts'[change'[q].run] # <<>>
        <4>1. q # p /\ change[q].run \in Run
          BY <3>1, <2>2, <1>0 DEF RunsTypeOK
        <4> QED
          BY <4>1, <3>1, <2>2, <2>3, <1>0 DEF Unborn
      <3> QED
        BY <3>1, <1>0, <1>2, <2>1, <2>3 DEF Unborn
    <2>6. Turns'
      <3> SUFFICES ASSUME NEW q \in Process
                   PROVE  /\ access'[q] = "none" => change'[q] = NoChange
                          /\ access'[q] \in {"adding", "updating"} /\ change'[q].to \in Active
                               => Sure(q, change[q].run)'
                          /\ access'[q] \in Rewriting /\ Closing(q, change[q].run)'
                               => payload'[q][change'[q].run] \notin Active
        BY DEF Turns
      <3>1. CASE q = p
        BY <3>1, <2>2 DEF Rewriting
      <3>2. CASE q # p
        <4>1. change[q].run \in Run /\ change'[q] = change[q] /\ access'[q] = access[q]
          BY <3>2, <2>2, <1>0 DEF RunsTypeOK
        <4>2. Sure(q, change[q].run) => Sure(q, change[q].run)'
          <5>1. \A o \in Run : Sure(q, o) => Sure(q, o)'
            BY <2>3
          <5> QED
            BY <4>1, <5>1 DEF Sure
        <4> QED
          BY <4>1, <4>2, <2>1, <1>0 DEF Turns, Closing
      <3> QED
        BY <3>1, <3>2
    <2>7. \A q \in Process : access'[q] \in Rewriting => access[q] \in Rewriting /\ q # p
      BY <2>2 DEF Rewriting
    <2>8. ~crossed' => Alone'
      BY <1>2, <2>2, <2>7 DEF Alone
    <2>9. ASSUME ~crossed' PROVE Worked'
      <3> SUFFICES ASSUME NEW o \in Run, Claimed(o)'
                   PROVE  Lost(o)' \/ \E k \in DOMAIN attempts'[o] : Good(o, attempts[o][k])'
        BY DEF Worked
      <3>1. Claimed(o) /\ Worked /\ o # r
        BY <1>2, <1>4, <2>1, <2>7, <2>9 DEF Claimed, RunsIInv, Active
      <3>2. CASE Lost(o)
        BY <3>2, <2>3
      <3>3. CASE ~Lost(o)
        <4>1. PICK k \in DOMAIN attempts[o] : Good(o, attempts[o][k])
          BY <3>1, <3>3 DEF Worked
        <4>2. PICK q \in Process : attempts[o][k].proc = q
          BY <1>0, AttemptTypes
        <4>3. q = p => ~Closing(q, o)
          BY <3>1 DEF Closing
        <4>4. attempts'[o][k] = attempts[o][k] /\ k \in DOMAIN attempts'[o]
          BY <4>1, <4>2, <4>3, <2>3 DEF Good
        <4>5. Closing(q, o) => Closing(q, o)'
          BY <4>3, <2>2 DEF Closing
        <4>6. Good(o, attempts[o][k])'
          BY <4>1, <4>2, <4>4, <4>5, <2>1 DEF Good, Live
        <4> QED
          BY <4>4, <4>6
      <3> QED
        BY <3>2, <3>3
    <2> QED
      BY <2>3, <2>4, <2>5, <2>6, <2>8, <2>9 DEF RunsIInv
  <1> QED
    BY <1>3, <1>4

LEMMA EmptyKeeps ==
  ASSUME RunsIInv, NEW p \in Process, EmptyFile(p)
  PROVE  RunsIInv'
  <1>0. RunsTypeOK /\ Unborn /\ Staged /\ Turns
    BY DEF RunsIInv
  <1>1. /\ access[p] = "read" /\ state' = NoRecord
        /\ UNCHANGED <<change, payload, crossed, attempts, interrupted, queue, steered, dropped>>
        /\ \A q \in Process : access'[q] =
             IF q = p \/ access[q] = "overlaid" THEN "emptied" ELSE access[q]
        /\ access' \in [Process -> Accesses]
    BY <1>0 DEF EmptyFile, memoryVars, RunsTypeOK, Accesses, Rewriting
  <1>2. \A q \in Process :
          /\ access'[q] = "none" <=> access[q] = "none"
          /\ access'[q] \in {"adding", "updating"} => access'[q] = access[q]
          /\ access'[q] \in Rewriting <=> access[q] \in Rewriting
          /\ q # p /\ access[q] \notin Rewriting => access'[q] = access[q]
    BY <1>1 DEF Rewriting
  <1>3. /\ RunsTypeOK'
    BY <1>0, <1>1 DEF RunsTypeOK, NoRecord, RunState, Accesses
  <1>4. Unborn'
    BY <1>0, <1>1, <1>2 DEF Unborn, NoRecord
  <1>5. Staged'
    BY <1>0, <1>1 DEF Staged
  <1>6. \A q \in Process, r \in Run : /\ Sure(q, r)' <=> Sure(q, r)
                                      /\ Closing(q, r)' <=> Closing(q, r)
    BY <1>1, <1>2 DEF Sure, Closing
  <1>7. Turns'
    <2> SUFFICES ASSUME NEW q \in Process
                 PROVE  /\ access'[q] = "none" => change'[q] = NoChange
                        /\ access'[q] \in {"adding", "updating"} /\ change'[q].to \in Active
                             => Sure(q, change[q].run)'
                        /\ access'[q] \in Rewriting /\ Closing(q, change[q].run)'
                             => payload'[q][change'[q].run] \notin Active
      BY DEF Turns
    <2>1. /\ Sure(q, change[q].run)' <=> Sure(q, change[q].run)
          /\ Closing(q, change[q].run)' <=> Closing(q, change[q].run)
      BY <1>1, <1>2 DEF Sure, Closing
    <2> QED
      BY <2>1, <1>0, <1>1, <1>2 DEF Turns
  <1>8. ASSUME ~crossed' PROVE Alone'
    <2> SUFFICES ASSUME NEW q \in Process, access'[q] \in Rewriting
                 PROVE  /\ access'[q] # "overlaid"
                        /\ \A o \in Process \ {q} : access'[o] \notin Rewriting
                        /\ access'[q] = "emptied" => state' = NoRecord
                        /\ access'[q] = "read" =>
                             \A r \in Run : payload'[q][r] \in Active =>
                               state'[r] \in Active \/ Sure(q, r)'
      BY DEF Alone
    <2>1. Alone /\ p \in Process /\ access[p] \in Rewriting
      BY <1>1, <1>8 DEF RunsIInv, Rewriting
    <2>2. q = p /\ access'[q] = "emptied"
      BY <2>1, <1>1, <1>2 DEF Alone
    <2> QED
      BY <2>1, <2>2, <1>1, <1>2 DEF Alone
  <1>9. ASSUME ~crossed' PROVE Worked'
    <2> SUFFICES ASSUME NEW r \in Run, Claimed(r)'
                 PROVE  Lost(r)' \/ \E k \in DOMAIN attempts'[r] : Good(r, attempts[r][k])'
      BY DEF Worked
    <2>1. Claimed(r) /\ Worked
      BY <1>1, <1>2, <1>9 DEF Claimed, NoRecord, Active, RunsIInv
    <2>2. CASE Lost(r)
      BY <2>2, <1>1 DEF Lost
    <2>3. CASE ~Lost(r)
      <3>1. PICK k \in DOMAIN attempts[r] : Good(r, attempts[r][k])
        BY <2>1, <2>3 DEF Worked
      <3>2. attempts[r][k].proc \in Process
        BY <1>0, AttemptTypes
      <3>3. Good(r, attempts[r][k])'
        BY <3>1, <3>2, <1>1, <1>6 DEF Good, Live
      <3> QED
        BY <3>3, <1>1
    <2> QED
      BY <2>2, <2>3
  <1> QED
    BY <1>3, <1>4, <1>5, <1>7, <1>8, <1>9 DEF RunsIInv

LEMMA WriteKeeps ==
  ASSUME RunsIInv, NEW p \in Process, WriteFile(p)
  PROVE  RunsIInv'
  <1>0. RunsTypeOK /\ Unborn /\ Staged /\ Turns /\ NoChange \in Changes
    BY AsyncBounds DEF RunsIInv, NoChange, Changes
  <1>1. /\ access[p] \in {"emptied", "overlaid"} /\ access[p] \in Rewriting
        /\ state' = payload[p] \/ (access[p] = "overlaid" /\ state' = NoRecord)
        /\ UNCHANGED <<crossed, interrupted, queue, steered, dropped>> /\ TurnIsOver(p)
    BY DEF WriteFile, TurnIsOver, Rewriting
  <1>2. /\ \A q \in Process : access'[q] =
             IF q = p THEN "none" ELSE IF access[q] = "emptied" THEN "overlaid" ELSE access[q]
        /\ access' \in [Process -> Accesses]
    BY <1>0 DEF WriteFile, RunsTypeOK, Accesses, Rewriting
  <1>3. /\ change'[p] = NoChange /\ change' \in [Process -> Changes]
        /\ \A q \in Process \ {p} : change'[q] = change[q]
    BY <1>0 DEF WriteFile, TurnIsOver, RunsTypeOK, Changes
  <1>4. /\ payload' \in [Process -> [Run -> RunState]]
        /\ \A q \in Process \ {p} : payload'[q] = payload[q]
        /\ \A r \in Run : payload'[p][r] = "absent"
    BY <1>0 DEF WriteFile, RunsTypeOK, NoRecord, RunState
  <1>5. state' \in [Run -> RunState]
    BY <1>0, <1>1 DEF RunsTypeOK, NoRecord, RunState
  <1>6. /\ attempts' \in [Run -> Seq(AttemptType)] /\ Staged'
        /\ \A r \in Run :
            /\ attempts'[r] = <<>> <=> attempts[r] = <<>>
            /\ Lost(r) => Lost(r)'
            /\ \A q \in Process : Sure(q, r) => Sure(q, r)'
            /\ DOMAIN attempts'[r] = DOMAIN attempts[r]
            /\ \A k \in DOMAIN attempts[r] :
                 attempts[r][k].proc # p \/ attempts[r][k].stage # "ending"
                      => attempts'[r][k] = attempts[r][k]
    BY <1>1, TurnEndsDoes
  <1>7. RunsTypeOK'
    BY <1>0, <1>1, <1>2, <1>3, <1>4, <1>5, <1>6, MemoryTyped DEF RunsTypeOK, Accesses, Changes
  <1>8. Unborn'
    <2>1. ASSUME NEW r \in Run, attempts'[r] = <<>>
          PROVE  /\ state'[r] = "absent" /\ steered'[r] = 0 /\ dropped'[r] = {}
                 /\ \A q \in Process :
                      r \notin interrupted'[q] /\ queue'[q][r] = <<>> /\ payload'[q][r] = "absent"
      <3>1. attempts[r] = <<>>
        BY <2>1, <1>6
      <3>2. /\ steered[r] = 0 /\ dropped[r] = {}
            /\ \A q \in Process :
                 r \notin interrupted[q] /\ queue[q][r] = <<>> /\ payload[q][r] = "absent"
        BY <3>1, <1>0 DEF Unborn
      <3>3. state'[r] = "absent"
        BY <3>2, <1>1 DEF NoRecord
      <3> QED
        BY <3>2, <3>3, <1>1, <1>4
    <2>2. ASSUME NEW q \in Process, access'[q] \in {"adding", "updating"}
          PROVE  attempts'[change'[q].run] # <<>>
      <3>1. q # p /\ change[q].run \in Run /\ access[q] = access'[q]
        BY <2>2, <1>0, <1>2 DEF RunsTypeOK
      <3> QED
        BY <3>1, <2>2, <1>0, <1>3, <1>6 DEF Unborn
    <2> QED
      BY <2>1, <2>2 DEF Unborn
  <1>9. Turns'
    <2> SUFFICES ASSUME NEW q \in Process
                 PROVE  /\ access'[q] = "none" => change'[q] = NoChange
                        /\ access'[q] \in {"adding", "updating"} /\ change'[q].to \in Active
                             => Sure(q, change[q].run)'
                        /\ access'[q] \in Rewriting /\ Closing(q, change[q].run)'
                             => payload'[q][change'[q].run] \notin Active
      BY DEF Turns
    <2>1. CASE q = p
      BY <2>1, <1>2, <1>3 DEF Rewriting
    <2>2. CASE q # p
      <3>1. /\ change[q].run \in Run /\ change'[q] = change[q]
            /\ access'[q] = "none" <=> access[q] = "none"
            /\ access'[q] \in {"adding", "updating"} <=> access[q] \in {"adding", "updating"}
            /\ access'[q] \in Rewriting <=> access[q] \in Rewriting
        BY <2>2, <1>0, <1>2, <1>3 DEF RunsTypeOK, Rewriting
      <3>2. Sure(q, change[q].run) => Sure(q, change[q].run)'
        <4>1. \A r \in Run : Sure(q, r) => Sure(q, r)'
          BY <1>6
        <4> QED
          BY <3>1, <4>1 DEF Sure
      <3>3. Closing(q, change[q].run)' => Closing(q, change[q].run)
        BY <3>1 DEF Closing
      <3> QED
        BY <3>1, <3>2, <3>3, <2>2, <1>0, <1>4 DEF Turns
    <2> QED
      BY <2>1, <2>2
  <1>10. ASSUME ~crossed
         PROVE  /\ access[p] = "emptied" /\ state' = payload[p]
                /\ \A q \in Process \ {p} :
                     access[q] \notin Rewriting /\ access'[q] = access[q]
    <2>1. Alone
      BY <1>10 DEF RunsIInv
    <2> QED
      BY <2>1, <1>1, <1>2 DEF Alone, Rewriting
  <1>11. ~crossed' => Alone'
    BY <1>1, <1>2, <1>10 DEF Alone, Rewriting
  <1>12. ASSUME ~crossed' PROVE Worked'
    <2> SUFFICES ASSUME NEW r \in Run, Claimed(r)'
                 PROVE  Lost(r)' \/ \E k \in DOMAIN attempts'[r] : Good(r, attempts[r][k])'
      BY DEF Worked
    <2>1. ~crossed /\ Worked
      BY <1>1, <1>12 DEF RunsIInv
    <2>2. payload[p][r] \in Active
      BY <2>1, <1>1, <1>2, <1>10 DEF Claimed, Rewriting
    <2>3. Claimed(r)
      BY <2>2, <1>1 DEF Claimed
    <2>4. ~Closing(p, r)
      <3>1. ASSUME Closing(p, r) PROVE FALSE
        <4>1. change[p].run = r
          BY <3>1 DEF Closing
        <4> QED
          BY <4>1, <3>1, <2>2, <1>0, <1>1 DEF Turns
      <3> QED
        BY <3>1
    <2>5. CASE Lost(r)
      BY <2>5, <1>6
    <2>6. CASE ~Lost(r)
      <3>1. PICK k \in DOMAIN attempts[r] : Good(r, attempts[r][k])
        BY <2>1, <2>3, <2>6 DEF Worked
      <3>2. PICK q \in Process : attempts[r][k].proc = q
        BY <1>0, AttemptTypes
      <3>3. attempts'[r][k] = attempts[r][k] /\ k \in DOMAIN attempts'[r]
        BY <3>1, <3>2, <2>4, <1>6 DEF Good
      <3>4. Closing(q, r) => Closing(q, r)'
        BY <2>1, <2>4, <1>3, <1>10 DEF Closing
      <3>5. Good(r, attempts[r][k])'
        BY <3>1, <3>2, <3>3, <3>4, <1>1 DEF Good, Live
      <3> QED
        BY <3>3, <3>5
    <2> QED
      BY <2>5, <2>6
  <1> QED
    BY <1>6, <1>7, <1>8, <1>9, <1>11, <1>12 DEF RunsIInv

LEMMA PruneRunsKeeps ==
  ASSUME RunsIInv, NEW p \in Process, PruneRuns(p)
  PROVE  RunsIInv'
  <1>0. RunsTypeOK /\ Unborn /\ Staged /\ Turns /\ access[p] = "none"
    BY DEF RunsIInv, PruneRuns, Idle
  <1>1. PICK old \in SUBSET {r \in Run : state[r] \notin Active \cup {"absent"}} :
          payload' = [payload EXCEPT ![p] =
                        [r \in Run |-> IF r \in old THEN "absent" ELSE state[r]]]
    BY DEF PruneRuns
  <1>2. /\ access' = [access EXCEPT ![p] = "read"] /\ crossed' = Crossed(p)
        /\ UNCHANGED <<state, change, attempts, interrupted, queue, steered, dropped>>
    BY DEF PruneRuns, memoryVars
  <1>3. /\ access'[p] = "read" /\ \A q \in Process \ {p} : access'[q] = access[q]
        /\ access' \in [Process -> Accesses]
    BY <1>0, <1>2 DEF RunsTypeOK, Accesses, Rewriting
  <1>4. /\ payload' \in [Process -> [Run -> RunState]]
        /\ \A q \in Process \ {p} : payload'[q] = payload[q]
        /\ \A r \in Run : payload'[p][r] \in {"absent", state[r]}
    BY <1>0, <1>1 DEF RunsTypeOK, RunState
  <1>5. crossed' \in BOOLEAN /\ (~crossed' => ~crossed /\ \A q \in Process \ {p} : access[q] \notin Rewriting)
    BY <1>0, <1>2 DEF Crossed, RunsTypeOK
  <1>6. RunsTypeOK'
    BY <1>0, <1>2, <1>3, <1>4, <1>5 DEF RunsTypeOK, Accesses
  <1>7. Unborn'
    <2>1. ASSUME NEW r \in Run, attempts'[r] = <<>>, NEW q \in Process
          PROVE  payload'[q][r] = "absent"
      BY <2>1, <1>0, <1>2, <1>4 DEF Unborn
    <2> QED
      BY <2>1, <1>0, <1>2, <1>3 DEF Unborn
  <1>8. Staged'
    BY <1>0, <1>2 DEF Staged
  <1>9. \A q \in Process, r \in Run : Sure(q, r)' <=> Sure(q, r)
    BY <1>2 DEF Sure
  <1>10. \A r \in Run : ~Closing(p, r) /\ ~Closing(p, r)'
    <2>1. change[p] = NoChange /\ change'[p] = NoChange
      BY <1>0, <1>2 DEF Turns
    <2> QED
      BY <2>1 DEF Closing, NoChange
  <1>11. Turns'
    <2> SUFFICES ASSUME NEW q \in Process
                 PROVE  /\ access'[q] = "none" => change'[q] = NoChange
                        /\ access'[q] \in {"adding", "updating"} /\ change'[q].to \in Active
                             => Sure(q, change[q].run)'
                        /\ access'[q] \in Rewriting /\ Closing(q, change[q].run)'
                             => payload'[q][change'[q].run] \notin Active
      BY DEF Turns
    <2>1. CASE q = p
      <3>1. change'[q].run \in Run /\ access'[q] = "read"
        BY <2>1, <1>0, <1>2, <1>3 DEF RunsTypeOK
      <3>2. ~Closing(q, change[q].run)'
        BY <3>1, <2>1, <1>10 DEF Closing
      <3> QED
        BY <3>1, <3>2
    <2>2. CASE q # p
      <3>1. change[q].run \in Run /\ change'[q] = change[q] /\ access'[q] = access[q]
        BY <2>2, <1>0, <1>2, <1>3 DEF RunsTypeOK
      <3>2. /\ Sure(q, change[q].run) => Sure(q, change[q].run)'
            /\ Closing(q, change[q].run)' => Closing(q, change[q].run)
        BY <3>1, <1>2 DEF Sure, Closing
      <3> QED
        BY <3>1, <3>2, <2>2, <1>0, <1>4 DEF Turns
    <2> QED
      BY <2>1, <2>2
  <1>12. ASSUME ~crossed' PROVE Alone'
    <2> SUFFICES ASSUME NEW q \in Process, access'[q] \in Rewriting
                 PROVE  /\ access'[q] # "overlaid"
                        /\ \A o \in Process \ {q} : access'[o] \notin Rewriting
                        /\ access'[q] = "emptied" => state' = NoRecord
                        /\ access'[q] = "read" =>
                             \A r \in Run : payload'[q][r] \in Active =>
                               state'[r] \in Active \/ Sure(q, r)'
      BY DEF Alone
    <2>1. q = p
      BY <1>3, <1>5, <1>12
    <2> QED
      BY <2>1, <1>2, <1>3, <1>4, <1>5, <1>12 DEF Active
  <1>13. ASSUME ~crossed' PROVE Worked'
    <2> SUFFICES ASSUME NEW r \in Run, Claimed(r)'
                 PROVE  Lost(r)' \/ \E k \in DOMAIN attempts'[r] : Good(r, attempts[r][k])'
      BY DEF Worked
    <2>1. state[r] \in Active
      BY <1>2, <1>3, <1>4, <1>5, <1>13 DEF Claimed, Active
    <2>2. Claimed(r) /\ Worked
      BY <2>1, <1>5, <1>13 DEF Claimed, RunsIInv
    <2>3. CASE Lost(r)
      BY <2>3, <1>2 DEF Lost
    <2>4. CASE ~Lost(r)
      <3>1. PICK k \in DOMAIN attempts[r] : Good(r, attempts[r][k])
        BY <2>2, <2>4 DEF Worked
      <3>2. PICK q \in Process : attempts[r][k].proc = q
        BY <1>0, AttemptTypes
      <3>3. Closing(q, r) => Closing(q, r)'
        BY <1>2, <1>3, <1>10 DEF Closing
      <3>4. Good(r, attempts[r][k])'
        BY <3>1, <3>2, <3>3, <1>2 DEF Good, Live
      <3> QED
        BY <3>4, <1>2
    <2> QED
      BY <2>3, <2>4
  <1> QED
    BY <1>6, <1>7, <1>8, <1>11, <1>12, <1>13 DEF RunsIInv

LEMMA CrashDoes ==
  ASSUME RunsTypeOK, NEW p \in Process, Crash(p)
  PROVE  /\ attempts' \in [Run -> Seq(AttemptType)]
         /\ \A r \in Run :
              /\ DOMAIN attempts'[r] = DOMAIN attempts[r]
              /\ \A k \in DOMAIN attempts[r] :
                   LET a == attempts[r][k]  b == attempts'[r][k] IN
                   /\ b.proc = a.proc /\ b.how = a.how /\ b.guidance = a.guidance
                   /\ a.proc = p /\ Live(a) => b.stage = "lost"
                   /\ ~(a.proc = p /\ Live(a)) => b = a
         /\ interrupted' \in [Process -> SUBSET Run] /\ interrupted'[p] = {}
         /\ \A q \in Process \ {p} : interrupted'[q] = interrupted[q]
         /\ queue' \in [Process -> [Run -> Seq(Nat)]]
         /\ \A q \in Process, r \in Run : queue'[q][r] = IF q = p THEN <<>> ELSE queue[q][r]
         /\ dropped' \in [Run -> SUBSET Nat]
         /\ \A r \in Run : dropped'[r] = dropped[r] \cup ToSet(queue[p][r])
         /\ UNCHANGED <<state, steered, crossed>>
         /\ access' \in [Process -> Accesses] /\ access'[p] = "none"
         /\ change' \in [Process -> Changes] /\ change'[p] = NoChange
         /\ payload' \in [Process -> [Run -> RunState]]
         /\ \A r \in Run : payload'[p][r] = "absent"
         /\ \A q \in Process \ {p} :
              access'[q] = access[q] /\ change'[q] = change[q] /\ payload'[q] = payload[q]
  <1>1. attempts' = Marked(p, LiveStage, "lost") /\ "lost" \in Stages
    BY DEF Crash, Stages
  <1>2. /\ attempts' \in [Run -> Seq(AttemptType)]
        /\ \A r \in Run :
             /\ DOMAIN attempts'[r] = DOMAIN attempts[r]
             /\ \A k \in DOMAIN attempts[r] :
                  LET a == attempts[r][k]  b == attempts'[r][k] IN
                  /\ b.proc = a.proc /\ b.how = a.how /\ b.guidance = a.guidance
                  /\ a.proc = p /\ a.stage \in LiveStage => b.stage = "lost"
                  /\ ~(a.proc = p /\ a.stage \in LiveStage) => b = a
    BY <1>1, MarkedTyped
  <1>3. /\ interrupted' \in [Process -> SUBSET Run] /\ interrupted'[p] = {}
        /\ \A q \in Process \ {p} : interrupted'[q] = interrupted[q]
    BY DEF Crash, RunsTypeOK
  <1>4. /\ queue' \in [Process -> [Run -> Seq(Nat)]]
        /\ \A q \in Process, r \in Run : queue'[q][r] = IF q = p THEN <<>> ELSE queue[q][r]
    <2>1. [r \in Run |-> <<>>] \in [Run -> Seq(Nat)]
      OBVIOUS
    <2> QED
      BY <2>1 DEF Crash, RunsTypeOK
  <1>5. \A r \in Run : ToSet(queue[p][r]) \in SUBSET Nat
    BY DEF RunsTypeOK, ToSet
  <1>6. /\ dropped' \in [Run -> SUBSET Nat]
        /\ \A r \in Run : dropped'[r] = dropped[r] \cup ToSet(queue[p][r])
    BY <1>5 DEF Crash, RunsTypeOK
  <1>7. NoChange \in Changes /\ NoRecord \in [Run -> RunState]
    BY AsyncBounds DEF NoChange, Changes, NoRecord, RunState
  <1>8. /\ access' \in [Process -> Accesses] /\ access'[p] = "none"
        /\ change' \in [Process -> Changes] /\ change'[p] = NoChange
        /\ \A q \in Process \ {p} : access'[q] = access[q] /\ change'[q] = change[q]
    BY <1>7 DEF Crash, RunsTypeOK, Accesses, Changes
  <1>9. /\ payload' \in [Process -> [Run -> RunState]]
        /\ payload'[p] = NoRecord
        /\ \A q \in Process \ {p} : payload'[q] = payload[q]
    BY <1>7 DEF Crash, RunsTypeOK
  <1>10. UNCHANGED <<state, steered, crossed>>
    BY DEF Crash
  <1> QED
    BY <1>2, <1>3, <1>4, <1>6, <1>8, <1>9, <1>10 DEF Live, NoRecord

LEMMA CrashKeeps ==
  ASSUME RunsIInv, NEW p \in Process, Crash(p)
  PROVE  RunsIInv'
  <1>0. RunsTypeOK /\ Unborn /\ Staged /\ Turns
    BY DEF RunsIInv
  <1>1. /\ attempts' \in [Run -> Seq(AttemptType)]
        /\ \A r \in Run :
             /\ DOMAIN attempts'[r] = DOMAIN attempts[r]
             /\ \A k \in DOMAIN attempts[r] :
                  LET a == attempts[r][k]  b == attempts'[r][k] IN
                  /\ b.proc = a.proc /\ b.how = a.how /\ b.guidance = a.guidance
                  /\ a.proc = p /\ Live(a) => b.stage = "lost"
                  /\ ~(a.proc = p /\ Live(a)) => b = a
    BY <1>0, CrashDoes
  <1>2. /\ interrupted' \in [Process -> SUBSET Run] /\ interrupted'[p] = {}
        /\ \A q \in Process \ {p} : interrupted'[q] = interrupted[q]
        /\ queue' \in [Process -> [Run -> Seq(Nat)]]
        /\ \A q \in Process, r \in Run : queue'[q][r] = IF q = p THEN <<>> ELSE queue[q][r]
        /\ dropped' \in [Run -> SUBSET Nat]
        /\ \A r \in Run : dropped'[r] = dropped[r] \cup ToSet(queue[p][r])
        /\ UNCHANGED <<state, steered, crossed>>
    BY <1>0, CrashDoes
  <1>3. /\ access' \in [Process -> Accesses] /\ access'[p] = "none"
        /\ change' \in [Process -> Changes] /\ change'[p] = NoChange
        /\ payload' \in [Process -> [Run -> RunState]]
        /\ \A r \in Run : payload'[p][r] = "absent"
        /\ \A q \in Process \ {p} :
             access'[q] = access[q] /\ change'[q] = change[q] /\ payload'[q] = payload[q]
    BY <1>0, CrashDoes
  <1>4. RunsTypeOK'
    BY <1>0, <1>1, <1>2, <1>3 DEF RunsTypeOK, Accesses, Changes
  <1>5. \A r \in Run : attempts'[r] = <<>> <=> attempts[r] = <<>>
    <2> SUFFICES ASSUME NEW r \in Run PROVE attempts'[r] = <<>> <=> attempts[r] = <<>>
      OBVIOUS
    <2>1. attempts'[r] \in Seq(AttemptType) /\ attempts[r] \in Seq(AttemptType)
      BY <1>0, <1>1 DEF RunsTypeOK
    <2> QED
      BY <2>1, <1>1
  <1>6. Unborn'
    <2>1. ASSUME NEW r \in Run, attempts'[r] = <<>>
          PROVE  /\ state'[r] = "absent" /\ steered'[r] = 0 /\ dropped'[r] = {}
                 /\ \A q \in Process :
                      r \notin interrupted'[q] /\ queue'[q][r] = <<>> /\ payload'[q][r] = "absent"
      <3>1. /\ state[r] = "absent" /\ steered[r] = 0 /\ dropped[r] = {}
            /\ \A q \in Process :
                 r \notin interrupted[q] /\ queue[q][r] = <<>> /\ payload[q][r] = "absent"
        BY <2>1, <1>0, <1>5 DEF Unborn
      <3>2. dropped'[r] = {}
        <4>1. queue[p][r] = <<>> /\ dropped[r] = {}
          BY <3>1
        <4>2. ToSet(<<>>) = {}
          BY DEF ToSet
        <4>3. dropped'[r] = dropped[r] \cup ToSet(queue[p][r])
          BY <1>2
        <4> QED
          BY ONLY <4>1, <4>2, <4>3
      <3>3. \A q \in Process : r \notin interrupted'[q]
        BY <3>1, <1>2
      <3>4. \A q \in Process : queue'[q][r] = <<>> /\ payload'[q][r] = "absent"
        BY <3>1, <1>2, <1>3
      <3> QED
        BY <3>1, <3>2, <3>3, <3>4, <1>2
    <2>2. ASSUME NEW q \in Process, access'[q] \in {"adding", "updating"}
          PROVE  attempts'[change'[q].run] # <<>>
      <3>1. q # p /\ change[q].run \in Run
        BY <2>2, <1>0, <1>3 DEF RunsTypeOK
      <3> QED
        BY <3>1, <2>2, <1>0, <1>3, <1>5 DEF Unborn
    <2> QED
      BY <2>1, <2>2 DEF Unborn
  <1>7. Staged'
    <2> SUFFICES ASSUME NEW q \in Run, NEW l \in DOMAIN attempts'[q]
                 PROVE  (LET b == attempts[q][l] IN
                          /\ b.stage = "registered" => q \notin interrupted[b.proc] /\ b.guidance = <<>>
                          /\ b.stage \in {"registered", "yielding"} => b.how = "delegate")'
      BY DEF Staged
    <2>1. l \in DOMAIN attempts[q] /\ attempts[q][l].proc \in Process
      BY <1>0, <1>1, AttemptTypes
    <2>2. interrupted'[attempts[q][l].proc] \subseteq interrupted[attempts[q][l].proc]
      BY <2>1, <1>2
    <2> QED
      BY <2>1, <2>2, <1>0, <1>1 DEF Staged
  <1>8. ASSUME NEW q \in Process \ {p}, NEW r \in Run, Sure(q, r)
        PROVE  Sure(q, r)'
    BY <1>1, <1>2, <1>8 DEF Sure
  <1>9. Turns'
    <2> SUFFICES ASSUME NEW q \in Process
                 PROVE  /\ access'[q] = "none" => change'[q] = NoChange
                        /\ access'[q] \in {"adding", "updating"} /\ change'[q].to \in Active
                             => Sure(q, change[q].run)'
                        /\ access'[q] \in Rewriting /\ Closing(q, change[q].run)'
                             => payload'[q][change'[q].run] \notin Active
      BY DEF Turns
    <2>1. CASE q = p
      BY <2>1, <1>3 DEF Rewriting
    <2>2. CASE q # p
      <3>1. change[q].run \in Run /\ change'[q] = change[q] /\ access'[q] = access[q]
        BY <2>2, <1>0, <1>3 DEF RunsTypeOK
      <3>2. Sure(q, change[q].run) => Sure(q, change[q].run)'
        <4>1. \A r \in Run : Sure(q, r) => Sure(q, r)'
          BY <1>8, <2>2
        <4> QED
          BY <3>1, <4>1 DEF Sure
      <3>3. Closing(q, change[q].run)' => Closing(q, change[q].run)
        BY <3>1 DEF Closing
      <3> QED
        BY <3>1, <3>2, <3>3, <2>2, <1>0, <1>3 DEF Turns
    <2> QED
      BY <2>1, <2>2
  <1>10. ASSUME NEW q \in Process, access'[q] \in Rewriting
         PROVE  q # p /\ access[q] \in Rewriting /\ access'[q] = access[q]
                /\ payload'[q] = payload[q]
    BY <1>3, <1>10 DEF Rewriting
  <1>11. ASSUME ~crossed' PROVE Alone'
    <2> SUFFICES ASSUME NEW q \in Process, access'[q] \in Rewriting
                 PROVE  /\ access'[q] # "overlaid"
                        /\ \A o \in Process \ {q} : access'[o] \notin Rewriting
                        /\ access'[q] = "emptied" => state' = NoRecord
                        /\ access'[q] = "read" =>
                             \A r \in Run : payload'[q][r] \in Active =>
                               state'[r] \in Active \/ Sure(q, r)'
      BY DEF Alone
    <2>1. /\ Alone /\ q # p /\ access[q] \in Rewriting /\ access'[q] = access[q]
          /\ payload'[q] = payload[q]
      BY <1>2, <1>10, <1>11 DEF RunsIInv
    <2> QED
      BY <2>1, <1>2, <1>8, <1>10 DEF Alone
  <1>12. ASSUME ~crossed' PROVE Worked'
    <2> SUFFICES ASSUME NEW r \in Run, Claimed(r)'
                 PROVE  Lost(r)' \/ \E k \in DOMAIN attempts'[r] : Good(r, attempts[r][k])'
      BY DEF Worked
    <2>1. Claimed(r) /\ Worked
      BY <1>2, <1>10, <1>12 DEF Claimed, RunsIInv
    <2>2. CASE Lost(r)
      BY <2>2, <1>1 DEF Lost, Live, LiveStage
    <2>3. CASE ~Lost(r)
      <3>1. PICK k \in DOMAIN attempts[r] : Good(r, attempts[r][k])
        BY <2>1, <2>3 DEF Worked
      <3>2. PICK q \in Process : attempts[r][k].proc = q
        BY <1>0, AttemptTypes
      <3>3. CASE q = p
        BY <3>1, <3>2, <3>3, <1>1 DEF Lost, Good
      <3>4. CASE q # p
        <4>1. attempts'[r][k] = attempts[r][k] /\ k \in DOMAIN attempts'[r]
          BY <3>2, <3>4, <1>1
        <4>2. Closing(q, r) => Closing(q, r)'
          BY <3>4, <1>3 DEF Closing
        <4>3. Good(r, attempts[r][k])'
          BY <3>1, <3>2, <3>4, <4>1, <4>2, <1>2 DEF Good, Live
        <4> QED
          BY <4>1, <4>3
      <3> QED
        BY <3>3, <3>4
    <2> QED
      BY <2>2, <2>3
  <1> QED
    BY <1>4, <1>6, <1>7, <1>9, <1>11, <1>12 DEF RunsIInv

LEMMA FileKeeps ==
  ASSUME RunsIInv, NEW p \in Process, FileStep(p)
  PROVE  RunsIInv'
  BY ReadKeeps, EmptyKeeps, WriteKeeps DEF FileStep

LEMMA RunsStep == RunsIInv /\ [RunsNext]_runsVars => RunsIInv'
  <1> SUFFICES ASSUME RunsIInv, [RunsNext]_runsVars PROVE RunsIInv'
    OBVIOUS
  <1>1. ASSUME NEW p \in Process, NEW r \in Run, Idle(p),
               \/ StartRun(p, r) \/ TrackExternalSpawn(p, r)
               \/ Interrupt(p, r) \/ Resume(p, r) \/ SteerRun(p, r) \/ Cancel(p, r)
        PROVE  RunsIInv'
    BY <1>1, RequestKeeps
  <1>2. ASSUME NEW r \in Run, NEW k \in DOMAIN attempts[r],
               AttemptStep(r, k) \/ (Idle(attempts[r][k].proc) /\ Progress(r, k))
        PROVE  RunsIInv'
    BY <1>2, AttemptKeeps
  <1>3. ASSUME NEW p \in Process, FileStep(p) PROVE RunsIInv'
    BY <1>3, FileKeeps
  <1>4. ASSUME NEW p \in Process, PruneRuns(p) PROVE RunsIInv'
    BY <1>4, PruneRunsKeeps
  <1>5. ASSUME NEW p \in Process, Crash(p) PROVE RunsIInv'
    BY <1>5, CrashKeeps
  <1>6. CASE UNCHANGED runsVars
    <2>1. /\ UNCHANGED <<state, access, change, payload, crossed>>
          /\ UNCHANGED <<attempts, interrupted, queue, steered, dropped>>
      BY <1>6 DEF runsVars, fileVars, memoryVars
    <2> QED
      BY <2>1 DEF RunsIInv, RunsTypeOK, Unborn, Staged, Turns, Alone, Worked, Good,
                  Claimed, Closing, Sure, Lost, Live
  <1> QED
    BY <1>1, <1>2, <1>3, <1>4, <1>5, <1>6 DEF RunsNext

(***************************************************************************)
(* A run recorded as pending or running is worked on by a live attempt, or *)
(* an attempt of it was lost with its process, or a process read the file  *)
(* while another rewrote it: however start, interrupt, resume, cancel and  *)
(* prune of any number of processes meet late answers between a handler's  *)
(* look at the record and its write.                                       *)
(***************************************************************************)
THEOREM ActiveRunsAreWorkedOn == RunsSpec => []RunningHasWorker
  <1>1. RunsIInv => RunningHasWorker
    BY DEF RunsIInv, Worked, Claimed, Good, RunningHasWorker
  <1> QED
    BY <1>1, RunsStart, RunsStep, PTL DEF RunsSpec

-----------------------------------------------------------------------------
(* Steered messages: where each of them is, run by run.                    *)
Queued(p, r) == ToSet(queue[p][r])
Guided(r, k) == ToSet(attempts[r][k].guidance)
Increasing(s) == \A i, j \in DOMAIN s : i < j => s[i] < s[j]

Once(r) ==
  /\ \A p \in Process : Increasing(queue[p][r]) /\ Queued(p, r) \cap dropped[r] = {}
  /\ \A k \in DOMAIN attempts[r] :
       Increasing(attempts[r][k].guidance) /\ Guided(r, k) \cap dropped[r] = {}
  /\ \A p, q \in Process : p # q => Queued(p, r) \cap Queued(q, r) = {}
  /\ \A k, l \in DOMAIN attempts[r] : k # l => Guided(r, k) \cap Guided(r, l) = {}
  /\ \A p \in Process, k \in DOMAIN attempts[r] : Queued(p, r) \cap Guided(r, k) = {}
  /\ \A m : m \in 1..steered[r] <=>
       \/ m \in dropped[r]
       \/ \E p \in Process : m \in Queued(p, r)
       \/ \E k \in DOMAIN attempts[r] : m \in Guided(r, k)

LEMMA OnceMeans == SteeredOnce <=> \A r \in Run : Once(r)
  <1>1. ASSUME NEW r \in Run
        PROVE  /\ 1..steered[r] = dropped[r] \cup UNION {ToSet(s) : s \in Places(r)}
               <=> \A m : m \in 1..steered[r] <=>
                     \/ m \in dropped[r]
                     \/ \E p \in Process : m \in Queued(p, r)
                     \/ \E k \in DOMAIN attempts[r] : m \in Guided(r, k)
    <2>1. ASSUME NEW m
          PROVE  m \in UNION {ToSet(s) : s \in Places(r)} <=>
                   \/ \E p \in Process : m \in Queued(p, r)
                   \/ \E k \in DOMAIN attempts[r] : m \in Guided(r, k)
      BY Zenon DEF Places, Queued, Guided
    <2> QED
      BY <2>1
  <1>2. ASSUME NEW r \in Run
        PROVE  (\A s \in Places(r) : Increasing(s) /\ ToSet(s) \cap dropped[r] = {})
               <=> /\ \A p \in Process : Increasing(queue[p][r]) /\ Queued(p, r) \cap dropped[r] = {}
                   /\ \A k \in DOMAIN attempts[r] :
                        Increasing(attempts[r][k].guidance) /\ Guided(r, k) \cap dropped[r] = {}
    BY Zenon DEF Places, Queued, Guided
  <1> QED
    BY <1>1, <1>2, Zenon DEF SteeredOnce, Once, Increasing, Queued, Guided

(* No message moves. *)
LEMMA MessagesStay ==
  ASSUME NEW r \in Run, Once(r), \A p \in Process : queue'[p][r] = queue[p][r],
         steered'[r] = steered[r], dropped'[r] = dropped[r],
         DOMAIN attempts'[r] = DOMAIN attempts[r],
         \A k \in DOMAIN attempts[r] : attempts'[r][k].guidance = attempts[r][k].guidance
  PROVE  Once(r)'
  <1>1. \A p \in Process : Queued(p, r)' = Queued(p, r)
    BY DEF Queued
  <1>2. \A k \in DOMAIN attempts[r] : Guided(r, k)' = Guided(r, k)
    BY DEF Guided
  <1> QED
    BY <1>1, <1>2 DEF Once

(* What waits in one process goes out with one attempt. *)
LEMMA MessagesGoOut ==
  ASSUME NEW r \in Run, Once(r), NEW p \in Process, NEW k,
         \A q \in Process : queue'[q][r] = IF q = p THEN <<>> ELSE queue[q][r],
         steered'[r] = steered[r], dropped'[r] = dropped[r],
         DOMAIN attempts'[r] = DOMAIN attempts[r] \cup {k},
         k \in DOMAIN attempts[r] => attempts[r][k].guidance = <<>>,
         attempts'[r][k].guidance = queue[p][r],
         \A l \in DOMAIN attempts[r] \ {k} :
           attempts'[r][l].guidance = attempts[r][l].guidance
  PROVE  Once(r)'
  <1>1. Queued(p, r)' = {} /\ \A q \in Process \ {p} : Queued(q, r)' = Queued(q, r)
    BY DEF Queued, ToSet
  <1>2. /\ Guided(r, k)' = Queued(p, r)
        /\ \A l \in DOMAIN attempts[r] \ {k} : Guided(r, l)' = Guided(r, l)
        /\ k \in DOMAIN attempts[r] => Guided(r, k) = {}
    BY DEF Guided, Queued, ToSet
  <1>3. /\ \A q \in Process : Increasing(queue[q][r])'
        /\ \A l \in DOMAIN attempts'[r] : Increasing(attempts[r][l].guidance)'
    BY DEF Once, Increasing
  <1>4. \A q \in Process : (Queued(q, r) \cap dropped[r] = {})'
    BY <1>1 DEF Once
  <1>5. \A l \in DOMAIN attempts'[r] : (Guided(r, l) \cap dropped[r] = {})'
    BY <1>2 DEF Once
  <1>6. \A q, o \in Process : q # o => (Queued(q, r) \cap Queued(o, r) = {})'
    BY <1>1 DEF Once
  <1>7. \A l, o \in DOMAIN attempts'[r] : l # o => (Guided(r, l) \cap Guided(r, o) = {})'
    BY <1>2 DEF Once
  <1>8. \A q \in Process, l \in DOMAIN attempts'[r] : (Queued(q, r) \cap Guided(r, l) = {})'
    BY <1>1, <1>2 DEF Once
  <1>9. ASSUME NEW m
        PROVE  m \in 1..steered'[r] <=>
                 \/ m \in dropped'[r]
                 \/ \E q \in Process : m \in Queued(q, r)'
                 \/ \E l \in DOMAIN attempts'[r] : m \in Guided(r, l)'
    BY <1>1, <1>2 DEF Once
  <1> QED
    BY <1>3, <1>4, <1>5, <1>6, <1>7, <1>8, <1>9 DEF Once

LEMMA AppendedMessage ==
  ASSUME NEW s \in Seq(Nat), NEW m
  PROVE  /\ ToSet(Append(s, m)) = ToSet(s) \cup {m}
         /\ Increasing(s) /\ (\A x \in ToSet(s) : x < m) => Increasing(Append(s, m))
  <1>1. /\ DOMAIN Append(s, m) = DOMAIN s \cup {Len(s) + 1} /\ Append(s, m)[Len(s) + 1] = m
        /\ \A i \in DOMAIN s : Append(s, m)[i] = s[i] /\ i < Len(s) + 1 /\ i \in Nat
        /\ Len(s) \in Nat
    OBVIOUS
  <1>2. \A x : x \in ToSet(Append(s, m)) <=> x \in ToSet(s) \cup {m}
    BY <1>1 DEF ToSet
  <1>3. ASSUME Increasing(s), \A x \in ToSet(s) : x < m, NEW i \in DOMAIN Append(s, m),
               NEW j \in DOMAIN Append(s, m), i < j
        PROVE  Append(s, m)[i] < Append(s, m)[j]
    <2>1. i \in DOMAIN s
      BY <1>1, <1>3
    <2>2. CASE j \in DOMAIN s
      BY <1>1, <1>3, <2>1, <2>2 DEF Increasing
    <2>3. CASE j = Len(s) + 1
      BY <1>1, <1>3, <2>1, <2>3 DEF ToSet
    <2> QED
      BY <1>1, <2>2, <2>3
  <1> QED
    BY <1>2, <1>3 DEF Increasing

LEMMA SteerCounts ==
  ASSUME RunsTypeOK, NEW r \in Run, Once(r), NEW p \in Process, SteerRun(p, r)
  PROVE  Once(r)'
  <1> DEFINE m == steered[r] + 1
  <1>1. /\ steered[r] \in Nat /\ steered'[r] = m /\ dropped' = dropped /\ attempts' = attempts
        /\ \A q \in Process : queue[q][r] \in Seq(Nat)
    BY DEF RunsTypeOK, SteerRun
  <1>2. \A q \in Process : queue'[q][r] = IF q = p THEN Append(queue[p][r], m) ELSE queue[q][r]
    BY <1>1 DEF RunsTypeOK, SteerRun
  <1>3. \A x : x \in 1..steered'[r] <=> x \in 1..steered[r] \/ x = m
    BY <1>1
  <1>4. \A x \in 1..steered[r] : x < m
    BY <1>1
  <1>5. m \notin 1..steered[r]
    BY <1>1
  <1> HIDE DEF m
  <1>6. /\ Queued(p, r)' = Queued(p, r) \cup {m}
        /\ \A q \in Process \ {p} : Queued(q, r)' = Queued(q, r)
    BY <1>1, <1>2, AppendedMessage DEF Queued
  <1>7. /\ \A k \in DOMAIN attempts[r] : Guided(r, k)' = Guided(r, k)
        /\ DOMAIN attempts'[r] = DOMAIN attempts[r]
    BY <1>1 DEF Guided
  <1>8. /\ m \notin dropped[r] /\ \A q \in Process : m \notin Queued(q, r)
        /\ \A k \in DOMAIN attempts[r] : m \notin Guided(r, k)
    BY <1>5 DEF Once
  <1>9. \A q \in Process : Increasing(queue[q][r])'
    <2>1. \A x \in Queued(p, r) : x < m
      BY <1>4 DEF Once
    <2>2. Increasing(Append(queue[p][r], m))
      BY <2>1, <1>1, AppendedMessage DEF Once, Queued
    <2>3. ASSUME NEW q \in Process PROVE Increasing(queue'[q][r])
      BY <2>2, <1>2 DEF Once
    <2> QED
      BY <2>3 DEF Increasing
  <1>10. \A q \in Process : (Queued(q, r) \cap dropped[r] = {})'
    BY <1>1, <1>6, <1>8 DEF Once
  <1>11. \A k \in DOMAIN attempts'[r] :
           (Increasing(attempts[r][k].guidance) /\ Guided(r, k) \cap dropped[r] = {})'
    BY <1>1, <1>7 DEF Once, Increasing
  <1>12. \A q, o \in Process : q # o => (Queued(q, r) \cap Queued(o, r) = {})'
    BY <1>6, <1>8 DEF Once
  <1>13. \A k, l \in DOMAIN attempts'[r] : k # l => (Guided(r, k) \cap Guided(r, l) = {})'
    BY <1>7 DEF Once
  <1>14. \A q \in Process, k \in DOMAIN attempts'[r] : (Queued(q, r) \cap Guided(r, k) = {})'
    BY <1>6, <1>7, <1>8 DEF Once
  <1>15. ASSUME NEW x
         PROVE  x \in 1..steered'[r] <=>
                  \/ x \in dropped'[r]
                  \/ \E q \in Process : x \in Queued(q, r)'
                  \/ \E k \in DOMAIN attempts'[r] : x \in Guided(r, k)'
    BY <1>1, <1>3, <1>6, <1>7 DEF Once
  <1> QED
    BY <1>9, <1>10, <1>11, <1>12, <1>13, <1>14, <1>15 DEF Once

LEMMA CrashDrops ==
  ASSUME RunsTypeOK, NEW r \in Run, Once(r), NEW p \in Process,
         DOMAIN attempts'[r] = DOMAIN attempts[r],
         \A k \in DOMAIN attempts[r] : attempts'[r][k].guidance = attempts[r][k].guidance,
         \A q \in Process : queue'[q][r] = IF q = p THEN <<>> ELSE queue[q][r],
         steered'[r] = steered[r], dropped'[r] = dropped[r] \cup ToSet(queue[p][r])
  PROVE  Once(r)'
  <1>1. Queued(p, r)' = {} /\ \A q \in Process \ {p} : Queued(q, r)' = Queued(q, r)
    BY DEF Queued, ToSet
  <1>2. \A k \in DOMAIN attempts[r] : Guided(r, k)' = Guided(r, k)
    BY DEF Guided
  <1>3. dropped'[r] = dropped[r] \cup Queued(p, r)
    BY DEF Queued
  <1>4. /\ \A q \in Process : Increasing(queue[q][r])'
        /\ \A k \in DOMAIN attempts'[r] : Increasing(attempts[r][k].guidance)'
    BY DEF Once, Increasing
  <1>5. \A q \in Process : (Queued(q, r) \cap dropped[r] = {})'
    BY <1>1, <1>3 DEF Once
  <1>6. \A k \in DOMAIN attempts'[r] : (Guided(r, k) \cap dropped[r] = {})'
    BY <1>2, <1>3 DEF Once
  <1>7. /\ \A q, o \in Process : q # o => (Queued(q, r) \cap Queued(o, r) = {})'
        /\ \A k, l \in DOMAIN attempts'[r] : k # l => (Guided(r, k) \cap Guided(r, l) = {})'
        /\ \A q \in Process, k \in DOMAIN attempts'[r] : (Queued(q, r) \cap Guided(r, k) = {})'
    BY <1>1, <1>2 DEF Once
  <1>8. ASSUME NEW m
        PROVE  m \in 1..steered'[r] <=>
                 \/ m \in dropped'[r]
                 \/ \E q \in Process : m \in Queued(q, r)'
                 \/ \E k \in DOMAIN attempts'[r] : m \in Guided(r, k)'
    BY <1>1, <1>2, <1>3 DEF Once
  <1> QED
    BY <1>4, <1>5, <1>6, <1>7, <1>8 DEF Once

AllOnce == \A r \in Run : Once(r)

LEMMA RequestsKeepOnce ==
  ASSUME RunsIInv, AllOnce, NEW p \in Process, NEW r \in Run,
         \/ StartRun(p, r) \/ TrackExternalSpawn(p, r)
         \/ Interrupt(p, r) \/ Resume(p, r) \/ SteerRun(p, r) \/ Cancel(p, r)
  PROVE  AllOnce'
  <1>0. /\ RunsTypeOK /\ Unborn /\ attempts \in [Run -> Seq(AttemptType)]
        /\ queue \in [Process -> [Run -> Seq(Nat)]] /\ steered \in [Run -> Nat]
    BY DEF RunsIInv, RunsTypeOK
  <1> SUFFICES ASSUME NEW o \in Run PROVE Once(o)'
    BY DEF AllOnce
  <1>1. Once(o)
    BY DEF AllOnce
  <1>2. CASE StartRun(p, r) \/ TrackExternalSpawn(p, r)
    <2>1. PICK a \in {Attempt(p, "delegate", "registered", <<>>), Attempt(p, "external", "asked", <<>>)} :
            attempts' = [attempts EXCEPT ![r] = <<a>>]
      BY <1>2 DEF StartRun, TrackExternalSpawn
    <2>2. a.guidance = <<>>
      BY DEF Attempt
    <2>3. attempts[r] = <<>> /\ queue' = queue /\ steered' = steered /\ dropped' = dropped
      BY <1>2 DEF StartRun, TrackExternalSpawn
    <2>4. CASE o = r
      <3>1. /\ attempts'[r] = <<a>> /\ DOMAIN attempts'[r] = DOMAIN attempts[r] \cup {1}
            /\ 1 \notin DOMAIN attempts[r] /\ DOMAIN attempts[r] = {}
            /\ attempts'[r][1].guidance = <<>>
        BY <2>1, <2>2, <2>3, <1>0
      <3>2. \A q \in Process : queue'[q][r] = queue[q][r] /\ queue[q][r] = <<>>
        BY <2>3, <1>0 DEF Unborn
      <3> QED
        BY <1>1, <2>3, <2>4, <3>1, <3>2, MessagesGoOut
    <2>5. CASE o # r
      <3>1. attempts'[o] = attempts[o]
        BY <2>1, <2>5, <1>0
      <3> QED
        BY <1>1, <2>3, <3>1, MessagesStay
    <2> QED
      BY <2>4, <2>5
  <1>3. CASE Interrupt(p, r) \/ Cancel(p, r)
    <2>1. UNCHANGED <<attempts, queue, steered, dropped>>
      BY <1>3 DEF Interrupt, Cancel, memoryVars
    <2> QED
      BY <1>1, <2>1, MessagesStay
  <1>4. CASE Resume(p, r)
    <2> DEFINE k == Len(attempts[r]) + 1
    <2>1. /\ k \notin DOMAIN attempts[r]
          /\ \A q \in Run \ {r} : attempts'[q] = attempts[q]
          /\ DOMAIN attempts'[r] = DOMAIN attempts[r] \cup {k}
          /\ \A l \in DOMAIN attempts[r] : attempts'[r][l] = attempts[r][l]
          /\ attempts'[r][k].guidance = queue[p][r] /\ queue' = Emptied(p, r)
      BY <1>0, <1>4, ResumeDoes
    <2> HIDE DEF k
    <2>2. steered' = steered /\ dropped' = dropped
      BY <1>4 DEF Resume
    <2>3. \A q \in Process, x \in Run :
            queue'[q][x] = IF q = p /\ x = r THEN <<>> ELSE queue[q][x]
      BY <2>1, <1>0, EmptiedTyped
    <2>4. CASE o = r
      <3>1. \A q \in Process : queue'[q][r] = IF q = p THEN <<>> ELSE queue[q][r]
        BY <2>3
      <3> QED
        BY <1>1, <2>1, <2>2, <2>4, <3>1, MessagesGoOut
    <2>5. CASE o # r
      <3>1. attempts'[o] = attempts[o] /\ \A q \in Process : queue'[q][o] = queue[q][o]
        BY <2>1, <2>3, <2>5
      <3> QED
        BY <1>1, <2>2, <3>1, MessagesStay
    <2> QED
      BY <2>4, <2>5
  <1>5. CASE SteerRun(p, r)
    <2>1. CASE o = r
      BY <1>0, <1>1, <1>5, <2>1, SteerCounts
    <2>2. CASE o # r
      <3>1. /\ \A q \in Process : queue'[q][o] = queue[q][o]
            /\ steered'[o] = steered[o] /\ dropped' = dropped /\ attempts' = attempts
        BY <1>0, <1>5, <2>2 DEF SteerRun
      <3> QED
        BY <1>1, <3>1, MessagesStay
    <2> QED
      BY <2>1, <2>2
  <1> QED
    BY <1>2, <1>3, <1>4, <1>5

LEMMA AttemptsKeepOnce ==
  ASSUME RunsIInv, AllOnce, NEW r \in Run, NEW k \in DOMAIN attempts[r], AttemptStep(r, k)
  PROVE  AllOnce'
  <1>0. RunsTypeOK
    BY DEF RunsIInv
  <1> SUFFICES ASSUME NEW o \in Run PROVE Once(o)'
    BY DEF AllOnce
  <1>1. Once(o)
    BY DEF AllOnce
  <1>2. CASE Begin(r, k)
    <2> DEFINE p == attempts[r][k].proc
    <2>1. /\ p \in Process /\ attempts[r][k].guidance = <<>>
          /\ \A q \in Run \ {r} : attempts'[q] = attempts[q]
          /\ DOMAIN attempts'[r] = DOMAIN attempts[r] \cup {k}
          /\ \A l \in DOMAIN attempts[r] \ {k} : attempts'[r][l] = attempts[r][l]
          /\ attempts'[r][k].guidance = queue[p][r] /\ queue' = Emptied(p, r)
      BY <1>2, BeginDoes
    <2> HIDE DEF p
    <2>2. steered' = steered /\ dropped' = dropped
      BY <1>2 DEF Begin
    <2>3. \A q \in Process, x \in Run :
            queue'[q][x] = IF q = p /\ x = r THEN <<>> ELSE queue[q][x]
      BY <2>1, <1>0, EmptiedTyped
    <2>4. CASE o = r
      <3>1. \A q \in Process : queue'[q][r] = IF q = p THEN <<>> ELSE queue[q][r]
        BY <2>3
      <3> QED
        BY <1>1, <2>1, <2>2, <2>4, <3>1, MessagesGoOut
    <2>5. CASE o # r
      <3>1. attempts'[o] = attempts[o] /\ \A q \in Process : queue'[q][o] = queue[q][o]
        BY <2>1, <2>3, <2>5
      <3> QED
        BY <1>1, <2>2, <3>1, MessagesStay
    <2> QED
      BY <2>4, <2>5
  <1>3. CASE SpawnEnds(r, k) \/ Answer(r, k) \/ Conclude(r, k) \/ Reject(r, k)
    <2>1. PICK stage \in {"over", "yielding", "ending"} : attempts' = Moved(r, k, stage)
      BY <1>3 DEF SpawnEnds, Answer, Conclude, Reject
    <2>2. queue' = queue /\ steered' = steered /\ dropped' = dropped
      BY <1>3 DEF SpawnEnds, Answer, Conclude, Reject
    <2>3. stage \in Stages
      BY DEF Stages, LiveStage
    <2>4. /\ \A q \in Run \ {r} : attempts'[q] = attempts[q]
          /\ DOMAIN attempts'[r] = DOMAIN attempts[r]
          /\ \A l \in DOMAIN attempts[r] \ {k} : attempts'[r][l] = attempts[r][l]
          /\ attempts'[r][k] = [attempts[r][k] EXCEPT !.stage = stage]
      BY <1>0, <2>1, <2>3, MovedTyped
    <2>5. attempts[r][k] \in AttemptType
      BY <1>0, AttemptTypes
    <2>6. attempts'[r][k].guidance = attempts[r][k].guidance
      BY <2>3, <2>4, <2>5, RecordTyped
    <2>7. /\ DOMAIN attempts'[o] = DOMAIN attempts[o]
          /\ \A l \in DOMAIN attempts[o] : attempts'[o][l].guidance = attempts[o][l].guidance
      BY <2>4, <2>6
    <2> QED
      BY <1>1, <2>2, <2>7, MessagesStay
  <1> QED
    BY <1>2, <1>3 DEF AttemptStep

LEMMA CrashKeepsOnce ==
  ASSUME RunsIInv, AllOnce, NEW p \in Process, Crash(p)
  PROVE  AllOnce'
  <1>0. RunsTypeOK
    BY DEF RunsIInv
  <1> SUFFICES ASSUME NEW o \in Run PROVE Once(o)'
    BY DEF AllOnce
  <1>1. Once(o)
    BY DEF AllOnce
  <1>2. /\ DOMAIN attempts'[o] = DOMAIN attempts[o]
        /\ \A k \in DOMAIN attempts[o] : attempts'[o][k].guidance = attempts[o][k].guidance
    BY <1>0, CrashDoes
  <1>3. /\ \A q \in Process : queue'[q][o] = IF q = p THEN <<>> ELSE queue[q][o]
        /\ steered'[o] = steered[o] /\ dropped'[o] = dropped[o] \cup ToSet(queue[p][o])
    BY <1>0, CrashDoes
  <1> QED
    BY <1>0, <1>1, <1>2, <1>3, CrashDrops

LEMMA FileKeepsOnce ==
  ASSUME RunsIInv, AllOnce, NEW p \in Process, FileStep(p)
  PROVE  AllOnce'
  <1> SUFFICES ASSUME NEW o \in Run PROVE Once(o)'
    BY DEF AllOnce
  <1>1. Once(o)
    BY DEF AllOnce
  <1>2. CASE UNCHANGED memoryVars
    BY <1>1, <1>2, MessagesStay DEF memoryVars
  <1>3. CASE TurnIsOver(p)
    <2>1. /\ DOMAIN attempts'[o] = DOMAIN attempts[o]
          /\ \A k \in DOMAIN attempts[o] : attempts'[o][k].guidance = attempts[o][k].guidance
      BY <1>3, TurnEndsDoes
    <2>2. UNCHANGED <<queue, steered, dropped>>
      BY <1>3 DEF TurnIsOver
    <2> QED
      BY <1>1, <2>1, <2>2, MessagesStay
  <1> QED
    BY <1>2, <1>3 DEF FileStep, ReadFile, EmptyFile, WriteFile

(***************************************************************************)
(* Each steered message is in one place: a queue, the guidance of one      *)
(* attempt, or lost with its process; and attempts get them in order.      *)
(***************************************************************************)
THEOREM MessagesAreUsedOnce == RunsSpec => []SteeredOnce
  <1>1. RunsInit => AllOnce
    BY DEF RunsInit, AllOnce, Once, Queued, Guided, Increasing, ToSet
  <1>2. RunsIInv /\ AllOnce /\ [RunsNext]_runsVars => AllOnce'
    <2> SUFFICES ASSUME RunsIInv, AllOnce, [RunsNext]_runsVars PROVE AllOnce'
      OBVIOUS
    <2>1. ASSUME NEW p \in Process, NEW r \in Run,
                 \/ StartRun(p, r) \/ TrackExternalSpawn(p, r)
                 \/ Interrupt(p, r) \/ Resume(p, r) \/ SteerRun(p, r) \/ Cancel(p, r)
          PROVE  AllOnce'
      BY <2>1, RequestsKeepOnce
    <2>2. ASSUME NEW r \in Run, NEW k \in DOMAIN attempts[r], AttemptStep(r, k) PROVE AllOnce'
      BY <2>2, AttemptsKeepOnce
    <2>7. ASSUME NEW p \in Process, FileStep(p) PROVE AllOnce'
      BY <2>7, FileKeepsOnce
    <2>3. ASSUME NEW p \in Process, Crash(p) PROVE AllOnce'
      BY <2>3, CrashKeepsOnce
    <2>4. ASSUME UNCHANGED <<attempts, queue, steered, dropped>> PROVE AllOnce'
      BY <2>4, MessagesStay DEF AllOnce
    <2>5. ASSUME NEW p \in Process, PruneRuns(p) PROVE AllOnce'
      BY <2>4, <2>5 DEF PruneRuns, memoryVars
    <2>8. ASSUME NEW r \in Run, NEW k \in DOMAIN attempts[r], Progress(r, k) PROVE AllOnce'
      BY <2>4, <2>8 DEF Progress, memoryVars
    <2>6. CASE UNCHANGED runsVars
      BY <2>4, <2>6 DEF runsVars, memoryVars
    <2> QED
      BY <2>1, <2>2, <2>3, <2>5, <2>6, <2>7, <2>8 DEF RunsNext
  <1>3. AllOnce => SteeredOnce
    BY OnceMeans DEF AllOnce
  <1> QED
    BY <1>1, <1>2, <1>3, RunsStart, RunsStep, PTL DEF RunsSpec

-----------------------------------------------------------------------------
(***************************************************************************)
(* The subscriber of the wake bus, for any number of events, sockets,      *)
(* retries, reconnects and faults.                                         *)
(***************************************************************************)
\* The fields that decide whether anything leads to the next connect.
Fields ==
  /\ sock \in [Slot -> {"free", "open", "closing"}]
  /\ current \in Slot \union {NoSocket}
  /\ loop \in [Activity -> {"off", "backoff", "connecting", "waiting"}]
  /\ {exhausted, cooldown, alive} \subseteq BOOLEAN

\* The cooldown timer is armed once for a spent budget: while the budget stays spent, the
\* timer stays armed.  The next close would otherwise find a spent budget and arm nothing.
SpentBudgetRecovers == exhausted /\ alive => cooldown

NeverDeafIInv == Fields /\ SpentBudgetRecovers /\ NeverDeaf

LEMMA RecIsAnActivity == "rec" \in Activity /\ "init" \in Activity /\ "init" # "rec"
  BY DEF Activity

LEMMA BusStart == HooksInit => NeverDeafIInv
  <1> SUFFICES ASSUME HooksInit PROVE NeverDeafIInv
    OBVIOUS
  <1>1. /\ publisher = "unbound" /\ current = NoSocket /\ ~exhausted /\ ~cooldown /\ alive
        /\ sock = [s \in Slot |-> "free"] /\ loop = [a \in Activity |-> "off"]
        /\ {exhausted, cooldown, alive} \subseteq BOOLEAN
    BY DEF HooksInit, BusInit
  <1> QED
    BY <1>1 DEF NeverDeafIInv, Fields, SpentBudgetRecovers, NeverDeaf

(* Steps that leave the subscriber's way back alone. *)
LEMMA UntouchedKeeps ==
  ASSUME NeverDeafIInv, publisher' = "up" => publisher = "up",
         UNCHANGED <<sock, current, loop, exhausted, cooldown, alive>>
  PROVE  NeverDeafIInv'
  BY DEF NeverDeafIInv, Fields, SpentBudgetRecovers, NeverDeaf

(* A socket is closed, which its 'close' event will tell. *)
LEMMA ClosingKeeps ==
  ASSUME NeverDeafIInv, NEW s \in Slot, sock' = [sock EXCEPT ![s] = "closing"],
         current' \in Slot \union {NoSocket}, {cooldown', alive'} \subseteq BOOLEAN,
         alive' => alive /\ cooldown' = cooldown,
         UNCHANGED <<loop, exhausted>>
  PROVE  NeverDeafIInv'
  <1>1. Fields' /\ SpentBudgetRecovers'
    BY DEF NeverDeafIInv, Fields, SpentBudgetRecovers
  <1>2. sock'[s] = "closing"
    BY DEF NeverDeafIInv, Fields
  <1> QED
    BY <1>1, <1>2 DEF NeverDeafIInv, NeverDeaf

(* The head of start() leaves an activity that connects. *)
LEMMA StartKeeps ==
  ASSUME NeverDeafIInv, NEW a \in Activity, Start(a), exhausted' \in {exhausted, FALSE},
         UNCHANGED <<cooldown, alive>>
  PROVE  NeverDeafIInv'
  <1>1. Fields'
    BY DEF NeverDeafIInv, Fields, Start
  <1>2. SpentBudgetRecovers'
    BY DEF NeverDeafIInv, SpentBudgetRecovers
  <1>3. loop'[a] = "connecting"
    BY DEF NeverDeafIInv, Fields, Start
  <1> QED
    BY <1>1, <1>2, <1>3 DEF NeverDeafIInv, NeverDeaf

LEMMA ConnectsKeeps ==
  ASSUME NeverDeafIInv, NEW a \in Activity, NEW s \in Slot, Connects(a, s)
  PROVE  NeverDeafIInv'
  <1>1. PICK outcome \in {"open", "closing"} : sock' = [sock EXCEPT ![s] = outcome]
    BY DEF Connects
  <1>2. /\ current' = s /\ loop' = [loop EXCEPT ![a] = "off"]
        /\ UNCHANGED <<exhausted, cooldown, alive>>
    BY DEF Connects
  <1>3. Fields' /\ SpentBudgetRecovers'
    BY <1>1, <1>2 DEF NeverDeafIInv, Fields, SpentBudgetRecovers
  <1>4. sock'[s] # "free"
    BY <1>1 DEF NeverDeafIInv, Fields
  <1> QED
    BY <1>3, <1>4 DEF NeverDeafIInv, NeverDeaf

LEMMA ConnectFailsKeeps ==
  ASSUME NeverDeafIInv, NEW a \in Activity, NEW s \in Slot, ConnectFails(a, s)
  PROVE  NeverDeafIInv'
  <1>1. PICK stage \in {"waiting", "off"} : loop' = [loop EXCEPT ![a] = stage]
    BY DEF ConnectFails
  <1>2. /\ sock' = [sock EXCEPT ![s] = "closing"] /\ current' \in {current, NoSocket}
        /\ UNCHANGED <<exhausted, cooldown, alive>>
    BY DEF ConnectFails
  <1>3. Fields' /\ SpentBudgetRecovers'
    BY <1>1, <1>2 DEF NeverDeafIInv, Fields, SpentBudgetRecovers
  <1>4. sock'[s] # "free"
    BY <1>2 DEF NeverDeafIInv, Fields
  <1> QED
    BY <1>3, <1>4 DEF NeverDeafIInv, NeverDeaf

(* The close handler: a reconnect is under way, begins, or has its timer. *)
LEMMA ClosedKeeps ==
  ASSUME NeverDeafIInv, NEW s \in Slot, Closed(s)
  PROVE  NeverDeafIInv'
  <1> USE RecIsAnActivity DEF NeverDeafIInv
  <1>1. sock' = [sock EXCEPT ![s] = "free"] /\ alive' = alive /\ publisher' = publisher
    BY DEF Closed, publisherVars
  <1>2. sock' \in [Slot -> {"free", "open", "closing"}]
    BY <1>1 DEF Fields
  <1>3. CASE ~alive
    BY <1>1, <1>2, <1>3
       DEF Closed, Fields, SpentBudgetRecovers, NeverDeaf, reconnectVars
  <1>4. CASE alive /\ loop["rec"] # "off"
    <2>1. current' = NoSocket /\ UNCHANGED <<loop, exhausted, cooldown>>
      BY <1>4 DEF Closed, ReconnectAfterClose, reconnectVars
    <2> QED
      BY <1>1, <1>2, <1>4, <2>1 DEF Fields, SpentBudgetRecovers, NeverDeaf
  <1>5. CASE alive /\ loop["rec"] = "off" /\ reconnectAttempts' < MaxReconnectAttempts
    <2>1. /\ current' = NoSocket /\ loop' = [loop EXCEPT !["rec"] = "backoff"]
          /\ exhausted' = (exhausted /\ ~rested) /\ cooldown' = cooldown
      BY <1>5 DEF Closed, ReconnectAfterClose
    <2>2. loop'["rec"] # "off"
      BY <2>1 DEF Fields
    <2>3. Fields'
      BY <1>1, <1>2, <2>1 DEF Fields
    <2>4. SpentBudgetRecovers'
      BY <1>1, <2>1 DEF Fields, SpentBudgetRecovers
    <2> QED
      BY <2>2, <2>3, <2>4 DEF NeverDeaf
  <1>6. CASE alive /\ loop["rec"] = "off" /\ ~(reconnectAttempts' < MaxReconnectAttempts)
    <2>1. /\ current' = NoSocket /\ loop' = loop /\ exhausted' = TRUE
          /\ cooldown' = (cooldown \/ ~exhausted)
      BY <1>6 DEF Closed, ReconnectAfterClose
    <2>2. cooldown' = TRUE
      BY <1>6, <2>1 DEF Fields, SpentBudgetRecovers
    <2>3. Fields'
      BY <1>1, <1>2, <2>1, <2>2 DEF Fields
    <2> QED
      BY <2>2, <2>3 DEF SpentBudgetRecovers, NeverDeaf
  <1> QED
    BY <1>3, <1>4, <1>5, <1>6

LEMMA BackoffKeeps ==
  ASSUME NeverDeafIInv, BackoffEnds
  PROVE  NeverDeafIInv'
  <1>1. CASE alive
    BY <1>1, RecIsAnActivity, StartKeeps DEF BackoffEnds
  <1>2. CASE ~alive
    BY <1>2 DEF BackoffEnds, NeverDeafIInv, Fields, SpentBudgetRecovers, NeverDeaf
  <1> QED
    BY <1>1, <1>2

LEMMA CooldownKeeps ==
  ASSUME NeverDeafIInv, CooldownEnds
  PROVE  NeverDeafIInv'
  <1>1. loop' = IF loop["rec"] # "off" THEN loop ELSE [loop EXCEPT !["rec"] = "backoff"]
    BY DEF CooldownEnds
  <1>2. /\ cooldown' = FALSE /\ exhausted' = FALSE
        /\ UNCHANGED <<sock, current, alive>>
    BY DEF CooldownEnds, socketVars
  <1>3. Fields' /\ loop'["rec"] # "off"
    BY <1>1, <1>2, RecIsAnActivity DEF NeverDeafIInv, Fields
  <1> QED
    BY <1>2, <1>3, RecIsAnActivity DEF NeverDeafIInv, SpentBudgetRecovers, NeverDeaf

LEMMA RetryKeeps ==
  ASSUME NeverDeafIInv, NEW a \in Activity, Retry(a)
  PROVE  NeverDeafIInv'
  <1>1. /\ loop' = [loop EXCEPT ![a] = "connecting"]
        /\ UNCHANGED <<sock, current, exhausted, cooldown, alive>>
    BY DEF Retry, socketVars, reconnectVars
  <1>2. Fields' /\ loop'[a] # "off"
    BY <1>1 DEF NeverDeafIInv, Fields
  <1> QED
    BY <1>1, <1>2 DEF NeverDeafIInv, SpentBudgetRecovers, NeverDeaf

LEMMA StopWakeKeeps ==
  ASSUME NeverDeafIInv, StopWake
  PROVE  NeverDeafIInv'
  <1>1. /\ alive' = FALSE /\ cooldown' = FALSE /\ current' = NoSocket
        /\ UNCHANGED <<loop, exhausted>>
    BY DEF StopWake
  <1>2. sock' \in [Slot -> {"free", "open", "closing"}]
    BY DEF StopWake, socketVars, NeverDeafIInv, Fields
  <1> QED
    BY <1>1, <1>2 DEF NeverDeafIInv, Fields, SpentBudgetRecovers, NeverDeaf

LEMMA StopPublisherKeeps ==
  ASSUME NeverDeafIInv, StopPublisher
  PROVE  NeverDeafIInv'
  <1>1. publisher' = "stopped" /\ UNCHANGED <<current, loop, exhausted, cooldown, alive>>
    BY DEF StopPublisher, subscriberVars, reconnectVars
  <1>2. sock' \in [Slot -> {"free", "open", "closing"}]
    BY DEF StopPublisher, socketVars, NeverDeafIInv, Fields
  <1> QED
    BY <1>1, <1>2 DEF NeverDeafIInv, Fields, SpentBudgetRecovers, NeverDeaf

LEMMA BusNext == NeverDeafIInv /\ [HooksNext]_hooksVars => NeverDeafIInv'
  <1> SUFFICES ASSUME NeverDeafIInv, [HooksNext]_hooksVars PROVE NeverDeafIInv'
    OBVIOUS
  <1>1. CASE Report
    BY <1>1, ClosedKeeps, ConnectsKeeps, ConnectFailsKeeps DEF Report
  <1>2. CASE Timer
    BY <1>2, BackoffKeeps, CooldownKeeps, RetryKeeps DEF Timer
  <1>3. CASE BusStarts
    <2>1. Start("init") /\ UNCHANGED <<exhausted, cooldown, alive>>
      BY <1>3 DEF BusStarts, Bind, reconnectVars
    <2> QED
      BY <2>1, RecIsAnActivity, StartKeeps
  <1>4. CASE PublisherReport \/ Hear \/ HostRests
    <2>1. publisher' = publisher
          /\ UNCHANGED <<sock, current, loop, exhausted, cooldown, alive>>
      BY <1>4 DEF PublisherReport, ConsumerLeaves, Hear, Receive, HostRests, TurnEnds,
                  publisherVars, socketVars, subscriberVars, reconnectVars
    <2> QED
      BY <2>1, UntouchedKeeps
  <1>5. CASE Disturbance
    <2>1. ASSUME NEW s \in Slot, Breaks(s) PROVE NeverDeafIInv'
      <3>1. /\ sock' = [sock EXCEPT ![s] = "closing"]
            /\ UNCHANGED <<current, loop, exhausted, cooldown, alive>>
        BY <2>1 DEF Breaks, subscriberVars, reconnectVars
      <3>2. current' \in Slot \union {NoSocket} /\ {cooldown', alive'} \subseteq BOOLEAN
        BY <3>1 DEF NeverDeafIInv, Fields
      <3> QED
        BY <3>1, <3>2, ClosingKeeps
    <2>2. CASE TurnStarts \/ TimePasses \/ MinutePasses \/ SessionStarts \/ TakeOver
      <3>1. publisher' = publisher
            /\ UNCHANGED <<sock, current, loop, exhausted, cooldown, alive>>
        BY <2>2 DEF TurnStarts, TimePasses, MinutePasses, SessionStarts, TakeOver,
                    publisherVars, socketVars, subscriberVars, reconnectVars
      <3> QED
        BY <3>1, UntouchedKeeps
    <2> QED
      BY <1>5, <2>1, <2>2 DEF Disturbance
  <1>6. ASSUME NEW e \in Event, Fire(e) \/ ScriptStep(e) PROVE NeverDeafIInv'
    <2>1. publisher' = publisher
          /\ UNCHANGED <<sock, current, loop, exhausted, cooldown, alive>>
      BY <1>6 DEF Fire, Dispatched, ScriptStep, busVars, publisherVars, socketVars,
                  subscriberVars, reconnectVars
    <2> QED
      BY <2>1, UntouchedKeeps
  <1>7. CASE Shutdown
    <2>1. CASE StopWake
      BY <2>1, StopWakeKeeps
    <2>2. CASE UNCHANGED busVars
      BY <2>2, UntouchedKeeps
         DEF busVars, publisherVars, socketVars, subscriberVars, reconnectVars
    <2> QED
      BY <1>7, <2>1, <2>2 DEF Shutdown
  <1>8. CASE ShutdownEnds
    BY <1>8, StopPublisherKeeps DEF ShutdownEnds
  <1>9. CASE UNCHANGED hooksVars
    BY <1>9, UntouchedKeeps
       DEF hooksVars, busVars, publisherVars, socketVars, subscriberVars, reconnectVars
  <1> QED
    BY <1>1, <1>2, <1>3, <1>4, <1>5, <1>6, <1>7, <1>8, <1>9 DEF HooksNext

(***************************************************************************)
(* While the bus is up and the subscriber not stopped, it has a socket, an *)
(* activity or the cooldown timer, however closes, failed connects, broken *)
(* connections and take-overs of the path meet its guards and budgets.     *)
(***************************************************************************)
THEOREM SubscriberIsNeverDeaf == HooksSpec => []NeverDeaf
  <1>1. NeverDeafIInv => NeverDeaf
    BY DEF NeverDeafIInv
  <1> QED
    BY <1>1, BusStart, BusNext, PTL DEF HooksSpec

-----------------------------------------------------------------------------
\* The fields of the host: a turn runs or not, what was kept meanwhile, what was sent.
HostType ==
  [idle : BOOLEAN, local : Seq(Event), recent : SUBSET {"any", "failed"}, sent : [Event -> Nat],
   filtered : SUBSET Event]

\* deliverEvent() while no turn runs sends one message of the event, or none.
LEMMA DeliverIdle ==
  ASSUME NEW h \in HostType, h.idle = TRUE, NEW e \in Event
  PROVE  LET r == Deliver(h, e) IN
           /\ r \in HostType /\ r.idle = TRUE /\ r.local = h.local
           /\ \A x \in Event \ {e} : r.sent[x] = h.sent[x]
           /\ r.sent[e] <= h.sent[e] + 1
  <1> DEFINE more == [h.sent EXCEPT ![e] = IF @ < MaxSent THEN @ + 1 ELSE @]
             why == {"any"} \union IF Kind[e] = "failed" THEN {"failed"} ELSE h.recent
  <1>1. /\ h.sent \in [Event -> Nat] /\ h.local \in Seq(Event)
        /\ h.recent \in SUBSET {"any", "failed"} /\ h.filtered \in SUBSET Event
    BY DEF HostType
  <1>2. /\ more \in [Event -> Nat] /\ more[e] <= h.sent[e] + 1
        /\ \A x \in Event \ {e} : more[x] = h.sent[x]
    BY <1>1
  <1>3. why \in SUBSET {"any", "failed"}
    BY <1>1
  <1>4. Sent(h, e) = [idle |-> h.idle, local |-> h.local, recent |-> h.recent, sent |-> more,
                       filtered |-> h.filtered]
    <2>1. h = [idle |-> h.idle, local |-> h.local, recent |-> h.recent, sent |-> h.sent,
               filtered |-> h.filtered]
      BY DEF HostType
    <2>2. Sent(h, e) = [h EXCEPT !.sent = more]
      BY DEF Sent
    <2> HIDE DEF more
    <2> QED
      BY <2>1, <2>2
  <1>5. Deliver(h, e) \in
          {h, [idle |-> h.idle, local |-> h.local, recent |-> why, sent |-> more,
               filtered |-> h.filtered]}
    <2> DEFINE m == Sent(h, e)
    <2>1. [m EXCEPT !.recent = {"any"} \union IF Kind[e] = "failed" THEN {"failed"} ELSE @]
          = [idle |-> h.idle, local |-> h.local, recent |-> why, sent |-> more,
             filtered |-> h.filtered]
      <3> HIDE DEF more
      <3> QED
        BY <1>4
    <2> HIDE DEF more, why
    <2> QED
      BY <2>1, Zenon DEF Deliver
  <1> HIDE DEF more, why
  <1>6. CASE Deliver(h, e) = h
    BY <1>1, <1>6
  <1>7. CASE Deliver(h, e) = [idle |-> h.idle, local |-> h.local, recent |-> why,
                              sent |-> more, filtered |-> h.filtered]
    BY <1>1, <1>2, <1>3, <1>7 DEF HostType
  <1> QED
    BY <1>5, <1>6, <1>7

\* While a turn runs, the event is kept.
LEMMA DeliverBusy ==
  ASSUME NEW h \in HostType, h.idle = FALSE, NEW e \in Event
  PROVE  LET r == Deliver(h, e) IN
           r \in HostType /\ r.idle = FALSE /\ r.local = Append(h.local, e) /\ r.sent = h.sent
  <1>1. Deliver(h, e) = [h EXCEPT !.local = Append(@, e)]
    BY DEF Deliver
  <1>2. /\ h.idle \in BOOLEAN /\ h.sent \in [Event -> Nat]
        /\ h.recent \in SUBSET {"any", "failed"} /\ Append(h.local, e) \in Seq(Event)
        /\ h.filtered \in SUBSET Event
    BY DEF HostType
  <1>3. h = [idle |-> h.idle, local |-> h.local, recent |-> h.recent, sent |-> h.sent,
             filtered |-> h.filtered]
    BY DEF HostType
  <1>4. Deliver(h, e) =
          [idle |-> h.idle, local |-> Append(h.local, e), recent |-> h.recent,
           sent |-> h.sent, filtered |-> h.filtered]
    BY <1>1, <1>3
  <1> QED
    BY <1>2, <1>4 DEF HostType

\* An event is in a sequence; no event is in it twice.
In(e, s) == \E i \in DOMAIN s : s[i] = e
Distinct(s) == \A i, j \in DOMAIN s : s[i] = s[j] => i = j
-----------------------------------------------------------------------------
\* The operations on the rings and the wires bring no event twice.
LEMMA AppendKnown ==
  ASSUME NEW S, NEW s \in Seq(S), NEW e \in S
  PROVE  /\ Append(s, e) \in Seq(S)
         /\ \A x : In(x, Append(s, e)) <=> In(x, s) \/ x = e
         /\ Distinct(s) /\ ~In(e, s) => Distinct(Append(s, e))
  <1>1. /\ Append(s, e) \in Seq(S) /\ DOMAIN s = 1..Len(s) /\ Len(s) \in Nat
        /\ DOMAIN Append(s, e) = 1..(Len(s) + 1)
        /\ \A i \in 1..Len(s) : Append(s, e)[i] = s[i]
        /\ Append(s, e)[Len(s) + 1] = e
    OBVIOUS
  <1> DEFINE t == Append(s, e)
  <1> HIDE DEF t
  <1>2. \A i \in DOMAIN t : i \in DOMAIN s \/ i = Len(s) + 1
    BY <1>1 DEF t
  <1>3. \A x : In(x, t) <=> In(x, s) \/ x = e
    BY <1>1, <1>2 DEF In, t
  <1>4. ASSUME Distinct(s), ~In(e, s) PROVE Distinct(t)
    <2> SUFFICES ASSUME NEW i \in DOMAIN t, NEW j \in DOMAIN t, t[i] = t[j] PROVE i = j
      BY DEF Distinct
    <2>1. CASE i \in DOMAIN s /\ j \in DOMAIN s
      BY <1>1, <1>4, <2>1 DEF Distinct, t
    <2>2. CASE i = Len(s) + 1 /\ j \in DOMAIN s
      BY <1>1, <1>4, <2>2 DEF In, t
    <2>3. CASE j = Len(s) + 1 /\ i \in DOMAIN s
      BY <1>1, <1>4, <2>3 DEF In, t
    <2> QED
      BY <1>2, <2>1, <2>2, <2>3
  <1> QED
    BY <1>1, <1>3, <1>4 DEF t

LEMMA KeepKnown ==
  ASSUME NEW S, NEW s \in Seq(S), NEW n \in Nat
  PROVE  /\ Keep(s, n) \in Seq(S)
         /\ \A x : In(x, Keep(s, n)) => In(x, s)
         /\ Distinct(s) => Distinct(Keep(s, n))
  <1>1. CASE Len(s) <= n
    <2>1. Keep(s, n) = s
      BY <1>1 DEF Keep
    <2> QED
      BY <2>1
  <1>2. CASE Len(s) > n
    <2> DEFINE t == SubSeq(s, Len(s) - n + 1, Len(s))
               k == Len(s) - n
    <2>1. Keep(s, n) = t
      BY <1>2 DEF Keep
    <2>2. /\ t \in Seq(S) /\ DOMAIN t = 1..n /\ k \in Nat /\ DOMAIN s = 1..Len(s)
          /\ \A i \in 1..n : t[i] = s[i + k]
      BY <1>2
    <2>3. \A i \in 1..n : i + k \in DOMAIN s
      BY <1>2
    <2> HIDE DEF t, k
    <2>4. \A x : In(x, t) => In(x, s)
      BY <2>2, <2>3 DEF In
    <2>5. ASSUME Distinct(s) PROVE Distinct(t)
      BY <2>2, <2>3, <2>5 DEF Distinct
    <2> QED
      BY <2>1, <2>2, <2>4, <2>5
  <1> QED
    BY <1>1, <1>2

LEMMA TailKnown ==
  ASSUME NEW S, NEW s \in Seq(S), s # <<>>, Distinct(s)
  PROVE  /\ Tail(s) \in Seq(S) /\ Head(s) \in S /\ In(Head(s), s)
         /\ \A x : In(x, Tail(s)) => In(x, s) /\ x # Head(s)
         /\ Distinct(Tail(s))
  <1> DEFINE t == Tail(s)
  <1>1. /\ t \in Seq(S) /\ DOMAIN s = 1..Len(s) /\ Len(s) \in Nat \ {0} /\ Head(s) = s[1]
        /\ DOMAIN t = 1..(Len(s) - 1) /\ \A i \in DOMAIN t : t[i] = s[i + 1]
    OBVIOUS
  <1>2. Head(s) \in S /\ 1 \in DOMAIN s /\ \A i \in DOMAIN t : i + 1 \in DOMAIN s /\ i + 1 # 1
    BY <1>1
  <1> HIDE DEF t
  <1>3. In(Head(s), s)
    BY <1>1, <1>2 DEF In
  <1>4. \A x : In(x, t) => In(x, s) /\ x # Head(s)
    BY <1>1, <1>2 DEF In, Distinct
  <1>5. Distinct(t)
    BY <1>1, <1>2 DEF Distinct
  <1> QED
    BY <1>1, <1>2, <1>3, <1>4, <1>5 DEF t

LEMMA JoinKnown ==
  ASSUME NEW S, NEW s \in Seq(S), NEW t \in Seq(S), Distinct(s), Distinct(t),
         \A x : ~(In(x, s) /\ In(x, t))
  PROVE  /\ s \o t \in Seq(S) /\ Distinct(s \o t)
         /\ \A x : In(x, s \o t) => In(x, s) \/ In(x, t)
  <1> DEFINE u == s \o t
             m == Len(s)
             n == Len(t)
  <1>1. /\ u \in Seq(S) /\ m \in Nat /\ n \in Nat
        /\ DOMAIN s = 1..m /\ DOMAIN t = 1..n /\ DOMAIN u = 1..(m + n)
        /\ \A i \in 1..m : u[i] = s[i]
        /\ \A i \in 1..n : u[m + i] = t[i]
    OBVIOUS
  <1> HIDE DEF u, m, n
  <1>2. \A i \in DOMAIN u : i \in 1..m \/ (i - m \in 1..n /\ i = m + (i - m))
    BY <1>1
  <1>3. \A i \in DOMAIN u : (i \in 1..m /\ u[i] = s[i]) \/ (i - m \in 1..n /\ u[i] = t[i - m])
    BY <1>1, <1>2
  <1>4. \A x : In(x, u) => In(x, s) \/ In(x, t)
    BY <1>1, <1>3 DEF In
  <1>5. Distinct(u)
    <2> SUFFICES ASSUME NEW i \in DOMAIN u, NEW j \in DOMAIN u, u[i] = u[j] PROVE i = j
      BY DEF Distinct
    <2>1. CASE i \in 1..m /\ j \in 1..m
      BY <1>1, <2>1 DEF Distinct
    <2>2. CASE i \notin 1..m /\ j \notin 1..m
      <3>1. i - m \in 1..n /\ j - m \in 1..n /\ t[i - m] = t[j - m]
        BY <1>3, <2>2
      <3>2. i - m = j - m
        BY <1>1, <3>1 DEF Distinct
      <3> QED
        BY <1>1, <3>2
    <2>3. CASE i \in 1..m /\ j \notin 1..m
      <3>1. In(u[i], s)
        BY <1>1, <1>3, <2>3 DEF In
      <3>2. In(u[j], t)
        BY <1>1, <1>3, <2>3 DEF In
      <3> QED
        BY <3>1, <3>2
    <2>4. CASE i \notin 1..m /\ j \in 1..m
      <3>1. In(u[j], s)
        BY <1>1, <1>3, <2>4 DEF In
      <3>2. In(u[i], t)
        BY <1>1, <1>3, <2>4 DEF In
      <3> QED
        BY <3>1, <3>2
    <2> QED
      BY <2>1, <2>2, <2>3, <2>4
  <1> QED
    BY <1>1, <1>4, <1>5 DEF u

-----------------------------------------------------------------------------

\* The types of the fields that matter for the copies of an event.
BusTypes ==
  /\ path \in {"none", "own", "foreign"} /\ publisher \in {"unbound", "up", "stopped"}
  /\ consumer \in Slot \union {NoSocket} /\ current \in Slot \union {NoSocket}
  /\ critical \in Seq(Critical) /\ plain \in Seq(Event \ Critical)
  /\ sock \in [Slot -> {"free", "open", "closing"}] /\ wire \in [Slot -> Seq(Event)]
  /\ loop \in [Activity -> {"off", "backoff", "connecting", "waiting"}]
  /\ {cooldown, alive} \subseteq BOOLEAN /\ host \in HostType
  /\ raised \in [Event -> {"no", "unheard", "published"}]

\* Nothing has been written to a socket yet.
Unheard ==
  /\ consumer = NoSocket /\ current = NoSocket
  /\ \A s \in Slot : wire[s] = <<>>
  /\ host.local = <<>> /\ \A e \in Event : host.sent[e] = 0

\* Without a fault the first socket that connects is the last one: what could begin another
\* connect begins with the close of a socket, and that is done by the shutdown alone.
OneConnect ==
  /\ path # "foreign" /\ (path = "own" <=> publisher = "up")
  /\ loop["rec"] = "off" /\ ~cooldown
  /\ publisher = "unbound" => loop["init"] = "off"
  /\ publisher = "unbound" \/ loop["init"] # "off" => Unheard
  /\ (publisher = "stopped" \/ shutdown = "wake stopped" \/ \E s \in Slot : sock[s] = "closing")
     => ~alive
  /\ \A s \in Slot : wire[s] # <<>> => s = consumer /\ sock[s] = "open"

\* An event is in one place on its way to the host, or was sent, once.
Carried(e) ==
  \/ In(e, critical) \/ In(e, plain) \/ In(e, host.local) \/ host.sent[e] > 0
  \/ \E s \in Slot : In(e, wire[s])

OneCopy ==
  /\ \A e \in Event :
       /\ Carried(e) => raised[e] = "published"
       /\ raised[e] = "published" => publisher # "unbound"
       /\ host.sent[e] <= 1
       /\ In(e, host.local) => host.sent[e] = 0
       /\ \A s \in Slot : In(e, wire[s]) => ~In(e, host.local) /\ host.sent[e] = 0
  /\ Distinct(critical) /\ Distinct(plain) /\ Distinct(host.local)
  /\ \A s \in Slot : Distinct(wire[s])

Unrepeated == BusTypes /\ OneConnect /\ OneCopy
\* A fault allows repetitions; until there is one, each event goes its way once.
OneCopyIInv == faults \in 0..MaxFaults /\ (faults = MaxFaults => Unrepeated)

LEMMA EmptyKnown == Distinct(<<>>) /\ \A x : ~In(x, <<>>)
  BY DEF Distinct, In

LEMMA BothActivities == Activity = {"init", "rec"} /\ "init" # "rec"
  BY DEF Activity

LEMMA CopiesStart == HooksInit => OneCopyIInv
  <1> SUFFICES ASSUME HooksInit PROVE OneCopyIInv
    OBVIOUS
  <1>1. /\ path = "none" /\ publisher = "unbound" /\ consumer = NoSocket /\ current = NoSocket
        /\ critical = <<>> /\ plain = <<>> /\ sock = [s \in Slot |-> "free"]
        /\ wire = [s \in Slot |-> <<>>] /\ loop = [a \in Activity |-> "off"]
        /\ cooldown = FALSE /\ alive = TRUE /\ faults = MaxFaults
        /\ host = [idle |-> TRUE, local |-> <<>>, recent |-> {}, sent |-> [e \in Event |-> 0],
                   filtered |-> {}]
        /\ raised = [e \in Event |-> "no"] /\ shutdown = "no"
    BY DEF HooksInit, BusInit
  <1>2. host \in HostType /\ host.local = <<>> /\ \A e \in Event : host.sent[e] = 0
    BY <1>1 DEF HostType
  <1>3. BusTypes
    <2>1. \A S : <<>> \in Seq(S)
      OBVIOUS
    <2>2. /\ sock \in [Slot -> {"free", "open", "closing"}] /\ wire \in [Slot -> Seq(Event)]
          /\ loop \in [Activity -> {"off", "backoff", "connecting", "waiting"}]
          /\ raised \in [Event -> {"no", "unheard", "published"}]
      BY <1>1, <2>1
    <2> QED
      BY <1>1, <1>2, <2>1, <2>2, Zenon DEF BusTypes
  <1>4. Unheard
    BY <1>1, <1>2 DEF Unheard
  <1>5. OneConnect
    BY <1>1, <1>4, BothActivities DEF OneConnect
  <1>6. OneCopy
    <2>1. \A e \in Event : ~Carried(e)
      BY <1>1, <1>2, EmptyKnown DEF Carried
    <2> QED
      BY <1>1, <1>2, <2>1, EmptyKnown DEF OneCopy
  <1> QED
    BY <1>1, <1>3, <1>5, <1>6, BusAssumption DEF OneCopyIInv, Unrepeated

\* No event moves, but what was written to a socket may be lost.
LEMMA EventsStay ==
  ASSUME Unrepeated, UNCHANGED <<critical, plain, raised>>,
         host'.local = host.local, host'.sent = host.sent,
         publisher' = "unbound" => publisher = "unbound",
         \A s \in Slot : wire'[s] \in {wire[s], <<>>}
  PROVE  OneCopy'
  <1>1. \A s \in Slot : /\ \A e : In(e, wire'[s]) => In(e, wire[s])
                        /\ Distinct(wire[s]) => Distinct(wire'[s])
    BY EmptyKnown
  <1>2. \A e \in Event : Carried(e)' => Carried(e)
    BY <1>1 DEF Carried
  <1>3. \A e \in Event :
          /\ Carried(e)' => raised'[e] = "published"
          /\ raised'[e] = "published" => publisher' # "unbound"
          /\ host'.sent[e] <= 1
          /\ In(e, host'.local) => host'.sent[e] = 0
          /\ \A s \in Slot : In(e, wire'[s]) => ~In(e, host'.local) /\ host'.sent[e] = 0
    BY <1>1, <1>2 DEF Unrepeated, OneCopy
  <1>4. /\ Distinct(critical') /\ Distinct(plain') /\ Distinct(host'.local)
        /\ \A s \in Slot : Distinct(wire'[s])
    BY <1>1 DEF Unrepeated, OneCopy
  <1> QED
    BY <1>3, <1>4 DEF OneCopy

\* Neither events nor connections move.
LEMMA NothingMoves ==
  ASSUME Unrepeated, host' \in HostType, host'.local = host.local, host'.sent = host.sent,
         UNCHANGED <<path, publisher, consumer, current, critical, plain, sock, wire, loop,
                     cooldown, alive, raised>>,
         shutdown' = "wake stopped" => shutdown = "wake stopped"
  PROVE  Unrepeated'
  <1>1. BusTypes'
    BY DEF Unrepeated, BusTypes
  <1>2. Unheard => Unheard'
    BY DEF Unheard
  <1>3. OneConnect'
    BY <1>2 DEF Unrepeated, OneConnect
  <1>4. OneCopy'
    BY EventsStay
  <1> QED
    BY <1>1, <1>3, <1>4 DEF Unrepeated

\* A trigger fires once for its event: the event is kept and written, each in one place.
LEMMA FireOnce ==
  ASSUME Unrepeated, NEW e \in Event, Fire(e)
  PROVE  Unrepeated'
  <1>1. /\ raised[e] = "no"
        /\ UNCHANGED <<path, publisher, consumer, current, sock, loop, cooldown, alive, host, shutdown>>
    BY DEF Fire, Dispatched, subscriberVars, reconnectVars, hostVars
  <1>2. ~Carried(e)
    BY <1>1 DEF Unrepeated, OneCopy
  <1>3. CASE publisher = "unbound"
    <2>1. raised' = [raised EXCEPT ![e] = "unheard"] /\ UNCHANGED <<critical, plain, wire>>
      BY <1>3 DEF Fire, Dispatched
    <2>2. BusTypes'
      BY <1>1, <2>1 DEF Unrepeated, BusTypes
    <2>3. Unheard => Unheard'
      BY <1>1, <2>1 DEF Unheard
    <2>4. OneConnect'
      BY <1>1, <2>1, <2>3 DEF Unrepeated, OneConnect
    <2>5. \A x \in Event : /\ Carried(x)' => Carried(x) /\ x # e
                           /\ x # e => raised'[x] = raised[x]
                           /\ raised'[x] = "published" => x # e
      BY <1>1, <1>2, <2>1 DEF Carried, Unrepeated, BusTypes
    <2>6. OneCopy'
      BY <1>1, <2>1, <2>5 DEF Unrepeated, OneCopy
    <2> QED
      BY <2>2, <2>4, <2>6 DEF Unrepeated
  <1>4. CASE publisher # "unbound"
    <2>1. /\ raised' = [raised EXCEPT ![e] = "published"]
          /\ IF e \in Critical
               THEN critical' = Keep(Append(critical, e), CriticalCap) /\ UNCHANGED plain
               ELSE plain' = Keep(Append(plain, e), RingSize) /\ UNCHANGED critical
          /\ wire' = IF consumer # NoSocket /\ sock[consumer] = "open"
                       THEN [wire EXCEPT ![consumer] = Append(@, e)] ELSE wire
      BY <1>4 DEF Fire, Dispatched, Publish
    <2>2. /\ raised' \in [Event -> {"no", "unheard", "published"}] /\ raised'[e] = "published"
          /\ \A x \in Event \ {e} : raised'[x] = raised[x]
      BY <2>1 DEF Unrepeated, BusTypes
    <2>3. ~In(e, critical) /\ ~In(e, plain) /\ \A s \in Slot : ~In(e, wire[s])
      BY <1>2 DEF Carried
    <2>4. /\ critical' \in Seq(Critical) /\ Distinct(critical')
          /\ \A x : In(x, critical') => In(x, critical) \/ x = e
      <3>1. CASE e \in Critical
        <4> DEFINE t == Append(critical, e)
        <4>1. /\ t \in Seq(Critical) /\ Distinct(t)
              /\ \A x : In(x, t) => In(x, critical) \/ x = e
          BY <2>3, <3>1, AppendKnown DEF Unrepeated, BusTypes, OneCopy
        <4>2. critical' = Keep(t, CriticalCap)
          BY <2>1, <3>1
        <4> HIDE DEF t
        <4> QED
          BY <4>1, <4>2, KeepKnown, BusAssumption
      <3>2. CASE e \notin Critical
        BY <2>1, <3>2 DEF Unrepeated, BusTypes, OneCopy
      <3> QED
        BY <3>1, <3>2
    <2>5. /\ plain' \in Seq(Event \ Critical) /\ Distinct(plain')
          /\ \A x : In(x, plain') => In(x, plain) \/ x = e
      <3>1. CASE e \notin Critical
        <4> DEFINE t == Append(plain, e)
        <4>1. /\ t \in Seq(Event \ Critical) /\ Distinct(t)
              /\ \A x : In(x, t) => In(x, plain) \/ x = e
          BY <2>3, <3>1, AppendKnown DEF Unrepeated, BusTypes, OneCopy
        <4>2. plain' = Keep(t, RingSize)
          BY <2>1, <3>1
        <4> HIDE DEF t
        <4> QED
          BY <4>1, <4>2, KeepKnown, BusAssumption
      <3>2. CASE e \in Critical
        BY <2>1, <3>2 DEF Unrepeated, BusTypes, OneCopy
      <3> QED
        BY <3>1, <3>2
    <2>6. \A s \in Slot : /\ wire'[s] = wire[s] \/ (s = consumer /\ sock[s] = "open" /\ wire'[s] = Append(wire[s], e))
      BY <2>1 DEF Unrepeated, BusTypes
    <2>7. \A s \in Slot : /\ wire'[s] \in Seq(Event) /\ Distinct(wire'[s])
                          /\ \A x : In(x, wire'[s]) => In(x, wire[s]) \/ x = e
      <3> SUFFICES ASSUME NEW s \in Slot
                   PROVE  /\ wire'[s] \in Seq(Event) /\ Distinct(wire'[s])
                          /\ \A x : In(x, wire'[s]) => In(x, wire[s]) \/ x = e
        OBVIOUS
      <3>1. wire[s] \in Seq(Event) /\ Distinct(wire[s])
        BY DEF Unrepeated, BusTypes, OneCopy
      <3>2. /\ Append(wire[s], e) \in Seq(Event) /\ Distinct(Append(wire[s], e))
            /\ \A x : In(x, Append(wire[s], e)) => In(x, wire[s]) \/ x = e
        BY <2>3, <3>1, AppendKnown
      <3> QED
        BY <2>6, <3>1, <3>2
    <2>8. wire' \in [Slot -> Seq(Event)]
      <3>1. DOMAIN wire' = Slot /\ wire' = [s \in Slot |-> wire'[s]]
        BY <2>1 DEF Unrepeated, BusTypes
      <3> QED
        BY <2>7, <3>1
    <2>9. BusTypes'
      BY <1>1, <2>2, <2>4, <2>5, <2>8 DEF Unrepeated, BusTypes
    <2>10. loop["init"] # "off" => Unheard'
      BY <1>1, <2>1 DEF Unrepeated, OneConnect, Unheard
    <2>11. OneConnect'
      BY <1>1, <1>4, <2>6, <2>10 DEF Unrepeated, OneConnect
    <2>12. \A x \in Event : Carried(x)' => Carried(x) \/ x = e
      BY <1>1, <2>4, <2>5, <2>7 DEF Carried
    <2>13. OneCopy'
      <3>1. ASSUME NEW x \in Event
            PROVE  /\ Carried(x)' => raised'[x] = "published"
                   /\ raised'[x] = "published" => publisher' # "unbound"
                   /\ host'.sent[x] <= 1
                   /\ In(x, host'.local) => host'.sent[x] = 0
                   /\ \A s \in Slot : In(x, wire'[s]) => ~In(x, host'.local) /\ host'.sent[x] = 0
        <4>1. CASE x = e
          <5>1. ~In(e, host.local) /\ host.sent[e] = 0
            BY <1>2 DEF Carried, Unrepeated, BusTypes, HostType
          <5> QED
            BY <1>1, <1>4, <2>2, <4>1, <5>1
        <4>2. CASE x # e
          BY <1>1, <1>4, <2>2, <2>7, <2>12, <4>2 DEF Unrepeated, OneCopy
        <4> QED
          BY <4>1, <4>2
      <3> QED
        BY <1>1, <2>4, <2>5, <2>7, <3>1 DEF Unrepeated, OneCopy
    <2> QED
      BY <2>9, <2>11, <2>13 DEF Unrepeated
  <1> QED
    BY <1>3, <1>4

\* A fault takes one off the budget, and nothing gives it back.
LEMMA FaultsFall ==
  ASSUME HooksNext
  PROVE  faults' = faults \/ (faults > 0 /\ faults' = faults - 1)
  <1>1. ASSUME NEW s \in Slot, Closed(s) \/ Receive(s) \/ Breaks(s)
               \/ \E a \in Activity : Connects(a, s) \/ ConnectFails(a, s)
        PROVE  faults' = faults \/ (faults > 0 /\ faults' = faults - 1)
    BY <1>1 DEF Closed, Receive, Breaks, Connects, ConnectFails
  <1>2. ASSUME BackoffEnds \/ CooldownEnds \/ \E a \in Activity : Retry(a)
        PROVE  faults' = faults
    BY <1>2 DEF BackoffEnds, CooldownEnds, Retry
  <1>3. ASSUME \/ TurnStarts \/ TimePasses \/ MinutePasses \/ SessionStarts \/ TakeOver
               \/ ConsumerLeaves \/ Bind \/ TurnEnds
        PROVE  faults' = faults \/ (faults > 0 /\ faults' = faults - 1)
    BY <1>3 DEF TurnStarts, TimePasses, MinutePasses, SessionStarts, TakeOver,
                ConsumerLeaves, Bind, TurnEnds
  <1>4. ASSUME Shutdown \/ ShutdownEnds \/ \E e \in Event : Fire(e) \/ ScriptStep(e)
        PROVE  faults' = faults
    BY <1>4 DEF Shutdown, ShutdownEnds, StopWake, StopPublisher, Fire, Dispatched, ScriptStep,
                busVars
  <1> QED
    BY <1>1, <1>2, <1>3, <1>4
    DEF HooksNext, Report, PublisherReport, Timer, Hear, BusStarts, HostRests, Disturbance

\* The first connect: everything kept is written to a socket nobody wrote to before.
LEMMA ConnectsOnce ==
  ASSUME Unrepeated, NEW a \in Activity, NEW s \in Slot, Connects(a, s), HooksUnchanged
  PROVE  Unrepeated'
  <1>1. a = "init" /\ Unheard /\ path = "own" /\ publisher = "up"
    BY BothActivities DEF Unrepeated, BusTypes, OneConnect, Connects
  <1>2. /\ consumer' = s /\ current' = s /\ sock' = [sock EXCEPT ![s] = "open"]
        /\ wire' = [wire EXCEPT ![s] = plain \o critical]
        /\ loop' = [loop EXCEPT !["init"] = "off"]
        /\ UNCHANGED <<path, publisher, critical, plain, cooldown, alive, host, raised, shutdown>>
    BY <1>1, BothActivities DEF Connects, Accepted, Unheard, HooksUnchanged
  <1>3. /\ plain \o critical \in Seq(Event) /\ Distinct(plain \o critical)
        /\ \A e : In(e, plain \o critical) => In(e, plain) \/ In(e, critical)
    <2>1. plain \in Seq(Event) /\ critical \in Seq(Event) /\ Distinct(plain) /\ Distinct(critical)
      BY DEF Unrepeated, BusTypes, OneCopy, Critical
    <2>2. \A e : ~(In(e, plain) /\ In(e, critical))
      BY DEF Unrepeated, BusTypes, In
    <2> QED
      BY <2>1, <2>2, JoinKnown
  <1>4. \A t \in Slot : wire'[t] = IF t = s THEN plain \o critical ELSE <<>>
    BY <1>1, <1>2 DEF Unrepeated, BusTypes, Unheard
  <1>5. BusTypes'
    <2>1. wire' \in [Slot -> Seq(Event)]
      BY <1>2, <1>3 DEF Unrepeated, BusTypes
    <2> QED
      BY <1>2, <2>1, BothActivities DEF Unrepeated, BusTypes
  <1>6. OneConnect'
    <2>1. loop'["init"] = "off" /\ loop'["rec"] = "off"
      BY <1>2, BothActivities DEF Unrepeated, BusTypes, OneConnect
    <2>2. sock'[s] = "open" /\ \A t \in Slot : sock'[t] = "closing" => sock[t] = "closing"
      BY <1>2 DEF Unrepeated, BusTypes
    <2> QED
      BY <1>1, <1>2, <1>4, <2>1, <2>2 DEF Unrepeated, OneConnect
  <1>7. OneCopy'
    <2>1. \A e \in Event : /\ Carried(e)' => Carried(e)
                           /\ host'.sent[e] = 0 /\ ~In(e, host'.local)
      BY <1>1, <1>2, <1>3, <1>4, EmptyKnown DEF Carried, Unheard
    <2>2. \A t \in Slot : Distinct(wire'[t])
      BY <1>3, <1>4, EmptyKnown
    <2> QED
      BY <1>2, <2>1, <2>2 DEF Unrepeated, OneCopy
  <1> QED
    BY <1>5, <1>6, <1>7 DEF Unrepeated

\* Without a fault a connect fails only after the publisher was stopped.
LEMMA FailsWhenStopped ==
  ASSUME Unrepeated, NEW a \in Activity, NEW s \in Slot, ConnectFails(a, s), HooksUnchanged,
         faults = MaxFaults, faults' = MaxFaults
  PROVE  Unrepeated'
  <1>1. a = "init" /\ loop["init"] # "off" /\ Unheard /\ path = "none" /\ publisher = "stopped" /\ ~alive
    <2>1. path = "none"
      BY BusAssumption DEF ConnectFails
    <2> QED
      BY <2>1, BothActivities DEF Unrepeated, BusTypes, OneConnect, ConnectFails
  <1>2. /\ sock' = [sock EXCEPT ![s] = "closing"] /\ current' = NoSocket
        /\ loop' \in {[loop EXCEPT !["init"] = "off"], [loop EXCEPT !["init"] = "waiting"]}
        /\ UNCHANGED <<path, publisher, consumer, critical, plain, wire, cooldown, alive, host,
                       raised, shutdown>>
    BY <1>1 DEF ConnectFails, HooksUnchanged, publisherVars, hostVars, Unheard
  <1>3. loop' \in [Activity -> {"off", "backoff", "connecting", "waiting"}] /\ loop'["rec"] = "off"
    BY <1>2, BothActivities DEF Unrepeated, BusTypes, OneConnect
  <1>4. BusTypes'
    BY <1>2, <1>3 DEF Unrepeated, BusTypes
  <1>5. Unheard'
    BY <1>1, <1>2 DEF Unheard
  <1>6. \A t \in Slot : wire'[t] = <<>>
    BY <1>5 DEF Unheard
  <1>7. OneConnect'
    BY <1>1, <1>2, <1>3, <1>5, <1>6 DEF Unrepeated, OneConnect
  <1>8. OneCopy'
    BY <1>2, EventsStay
  <1> QED
    BY <1>4, <1>7, <1>8 DEF Unrepeated

\* Without a fault no socket closes before the shutdown, so no reconnect begins.
LEMMA ClosedWhenStopped ==
  ASSUME Unrepeated, NEW s \in Slot, Closed(s), HooksUnchanged
  PROVE  Unrepeated'
  <1>1. sock[s] = "closing" /\ ~alive
    BY DEF Unrepeated, OneConnect, Closed
  <1>2. /\ sock' = [sock EXCEPT ![s] = "free"]
        /\ UNCHANGED <<path, publisher, consumer, current, critical, plain, wire, loop, cooldown,
                       alive, host, raised, shutdown>>
    BY <1>1 DEF Closed, HooksUnchanged, publisherVars, hostVars, reconnectVars
  <1>3. BusTypes'
    BY <1>2 DEF Unrepeated, BusTypes
  <1>4. Unheard => Unheard'
    BY <1>2 DEF Unheard
  <1>5. OneConnect'
    <2>1. \A t \in Slot : t # s => sock'[t] = sock[t]
      BY <1>2 DEF Unrepeated, BusTypes
    <2>2. wire[s] = <<>>
      BY <1>1 DEF Unrepeated, OneConnect
    <2> QED
      BY <1>1, <1>2, <1>4, <2>1, <2>2 DEF Unrepeated, OneConnect
  <1>6. OneCopy'
    BY <1>2, EventsStay
  <1> QED
    BY <1>3, <1>5, <1>6 DEF Unrepeated

LEMMA RetryGoesOn ==
  ASSUME Unrepeated, NEW a \in Activity, Retry(a), HooksUnchanged
  PROVE  Unrepeated'
  <1>1. a = "init" /\ loop["init"] = "waiting" /\ Unheard
    BY BothActivities DEF Unrepeated, OneConnect, Retry
  <1>2. /\ loop' = [loop EXCEPT !["init"] = "connecting"]
        /\ UNCHANGED <<path, publisher, consumer, current, critical, plain, sock, wire, cooldown,
                       alive, host, raised, shutdown>>
    BY <1>1 DEF Retry, HooksUnchanged, publisherVars, socketVars, hostVars, reconnectVars
  <1>3. loop' \in [Activity -> {"off", "backoff", "connecting", "waiting"}] /\ loop'["rec"] = "off"
    BY <1>2, BothActivities DEF Unrepeated, BusTypes, OneConnect
  <1>4. BusTypes'
    BY <1>2, <1>3 DEF Unrepeated, BusTypes
  <1>5. Unheard'
    BY <1>1, <1>2 DEF Unheard
  <1>6. OneConnect'
    BY <1>1, <1>2, <1>3, <1>5 DEF Unrepeated, OneConnect
  <1>7. OneCopy'
    BY <1>2, EventsStay
  <1> QED
    BY <1>4, <1>6, <1>7 DEF Unrepeated

\* What is received leaves the wire, and is refused, kept or sent.
LEMMA ReceiveOnce ==
  ASSUME Unrepeated, NEW s \in Slot, Receive(s), HooksUnchanged
  PROVE  Unrepeated'
  <1> DEFINE e == Head(wire[s])
  <1>1. /\ wire[s] \in Seq(Event) /\ wire[s] # <<>> /\ Distinct(wire[s])
        /\ host \in HostType /\ wire \in [Slot -> Seq(Event)]
    BY DEF Unrepeated, BusTypes, OneCopy, Receive
  <1>2. /\ Tail(wire[s]) \in Seq(Event) /\ e \in Event /\ In(e, wire[s])
        /\ \A x : In(x, Tail(wire[s])) => In(x, wire[s]) /\ x # e
        /\ Distinct(Tail(wire[s]))
    BY <1>1, TailKnown
  <1>3. /\ wire' = [wire EXCEPT ![s] = Tail(wire[s])]
        /\ \/ host' = host \/ host' = Deliver(host, e)
           \/ host' = [host EXCEPT !.filtered = @ \union {e}]
        /\ UNCHANGED <<path, publisher, consumer, current, critical, plain, sock, loop, cooldown,
                       alive, raised, shutdown>>
    BY DEF Receive, HooksUnchanged, publisherVars, subscriberVars, hostVars, reconnectVars
  <1> HIDE DEF e
  <1>4. ~In(e, host.local) /\ host.sent[e] = 0
    BY <1>2 DEF Unrepeated, OneCopy
  <1>5. /\ s = consumer /\ sock[s] = "open" /\ ~Unheard
        /\ \A t \in Slot : t # s => wire[t] = <<>>
    BY <1>1 DEF Unrepeated, OneConnect, Unheard
  <1>6. \A t \in Slot : wire'[t] = IF t = s THEN Tail(wire[s]) ELSE <<>>
    BY <1>1, <1>3, <1>5
  <1>7. \/ /\ host' \in HostType /\ host'.local = host.local
           /\ \A x \in Event \ {e} : host'.sent[x] = host.sent[x]
           /\ host'.sent[e] <= 1
        \/ /\ host' \in HostType /\ host'.sent = host.sent
           /\ host'.local = Append(host.local, e)
    <2>1. CASE host' = host
      BY <1>1, <1>4, <2>1
    <2>2. CASE host' = Deliver(host, e) /\ host.idle = TRUE
      <3>1. /\ host' \in HostType /\ host'.local = host.local
            /\ \A x \in Event \ {e} : host'.sent[x] = host.sent[x]
            /\ host'.sent[e] <= host.sent[e] + 1
        BY <1>1, <1>2, <2>2, DeliverIdle
      <3> QED
        BY <1>4, <3>1
    <2>3. CASE host' = Deliver(host, e) /\ host.idle = FALSE
      BY <1>1, <1>2, <2>3, DeliverBusy
    <2>4. host.idle \in BOOLEAN
      BY <1>1 DEF HostType
    <2>5. CASE host' = [host EXCEPT !.filtered = @ \union {e}]
      <3>1. host' \in HostType /\ host'.local = host.local /\ host'.sent = host.sent
        BY <1>1, <1>2, <2>5 DEF HostType
      <3> QED
        BY <1>4, <3>1
    <2> QED
      BY <1>3, <2>1, <2>2, <2>3, <2>4, <2>5
  <1>8. BusTypes'
    <2>1. wire' \in [Slot -> Seq(Event)]
      BY <1>1, <1>2, <1>3
    <2> QED
      BY <1>3, <1>7, <2>1 DEF Unrepeated, BusTypes
  <1>9. OneConnect'
    BY <1>3, <1>5, <1>6 DEF Unrepeated, OneConnect
  <1>10. /\ host.local \in Seq(Event) /\ Distinct(host.local)
         /\ Distinct(Append(host.local, e))
         /\ \A x : In(x, Append(host.local, e)) <=> In(x, host.local) \/ x = e
    BY <1>1, <1>2, <1>4, AppendKnown DEF HostType, Unrepeated, OneCopy
  <1>11. \A t \in Slot : /\ Distinct(wire'[t])
                         /\ \A x : In(x, wire'[t]) => In(x, wire[s]) /\ x # e
    BY <1>2, <1>6, EmptyKnown
  <1>12. OneCopy'
    <2>1. /\ Carried(e) /\ raised[e] = "published"
          /\ Distinct(host'.local) /\ Distinct(critical') /\ Distinct(plain')
      BY <1>2, <1>3, <1>7, <1>10 DEF Carried, Unrepeated, OneCopy
    <2>2. ASSUME NEW x \in Event
          PROVE  /\ Carried(x)' => raised'[x] = "published"
                 /\ raised'[x] = "published" => publisher' # "unbound"
                 /\ host'.sent[x] <= 1
                 /\ In(x, host'.local) => host'.sent[x] = 0
                 /\ \A t \in Slot : In(x, wire'[t]) => ~In(x, host'.local) /\ host'.sent[x] = 0
      <3>1. CASE x = e
        BY <1>3, <1>4, <1>7, <1>11, <2>1, <3>1 DEF Unrepeated, OneCopy
      <3>2. CASE x # e
        <4>1. host'.sent[x] = host.sent[x] /\ (In(x, host'.local) <=> In(x, host.local))
          BY <1>7, <1>10, <3>2
        <4>2. Carried(x)' => Carried(x)
          BY <1>3, <1>11, <4>1 DEF Carried
        <4> QED
          BY <1>3, <1>11, <4>1, <4>2 DEF Unrepeated, OneCopy
      <3> QED
        BY <3>1, <3>2
    <2> QED
      BY <1>11, <2>1, <2>2 DEF OneCopy
  <1> QED
    BY <1>8, <1>9, <1>12 DEF Unrepeated

LEMMA BindKeeps ==
  ASSUME Unrepeated, Bind, HooksUnchanged
  PROVE  Unrepeated'
  <1>1. Unheard /\ current = NoSocket /\ publisher = "unbound"
    BY DEF Unrepeated, OneConnect, Bind, Unheard
  <1>2. /\ publisher' = "up" /\ path' = "own" /\ loop' = [loop EXCEPT !["init"] = "connecting"]
        /\ UNCHANGED <<consumer, current, critical, plain, sock, wire, cooldown, alive, host,
                       raised, shutdown>>
    BY <1>1 DEF Bind, Start, HooksUnchanged, hostVars, reconnectVars
  <1>3. loop' \in [Activity -> {"off", "backoff", "connecting", "waiting"}] /\ loop'["rec"] = "off"
    BY <1>2, BothActivities DEF Unrepeated, BusTypes, OneConnect
  <1>4. BusTypes'
    BY <1>2, <1>3 DEF Unrepeated, BusTypes
  <1>5. Unheard'
    BY <1>1, <1>2 DEF Unheard
  <1>6. OneConnect'
    BY <1>1, <1>2, <1>3, <1>5 DEF Unrepeated, OneConnect
  <1>7. OneCopy'
    BY <1>2, EventsStay
  <1> QED
    BY <1>4, <1>6, <1>7 DEF Unrepeated

\* The end of a turn sends nothing of what was kept.
LEMMA TurnEndsKeeps ==
  ASSUME Unrepeated, TurnEnds, HooksUnchanged
  PROVE  Unrepeated'
  <1>1. UNCHANGED <<path, publisher, consumer, current, critical, plain, sock, wire, loop,
                    cooldown, alive, raised, shutdown>>
    BY DEF TurnEnds, HooksUnchanged, publisherVars, socketVars, subscriberVars, reconnectVars
  <1>2. host \in HostType /\ host' = [host EXCEPT !.idle = TRUE]
    BY DEF TurnEnds, Unrepeated, BusTypes
  <1>3. host' \in HostType /\ host'.local = host.local /\ host'.sent = host.sent
    BY <1>2 DEF HostType
  <1> QED
    BY <1>1, <1>3, NothingMoves

\* The socket of one end is closed, and what was written to it is lost.
LEMMA ShutdownKeeps ==
  ASSUME Unrepeated, Shutdown \/ ShutdownEnds
  PROVE  Unrepeated'
  <1>1. CASE Shutdown /\ publisher # "up"
    <2>1. UNCHANGED <<path, publisher, consumer, current, critical, plain, sock, wire, loop,
                      cooldown, alive, raised, host>> /\ shutdown' = "done"
      BY <1>1 DEF Shutdown, busVars, publisherVars, socketVars, subscriberVars, hostVars,
                  reconnectVars
    <2> QED
      BY <2>1, NothingMoves DEF Unrepeated, BusTypes
  <1>2. CASE Shutdown /\ publisher = "up"
    <2>1. /\ alive' = FALSE /\ cooldown' = FALSE /\ current' = NoSocket
          /\ IF current # NoSocket
               THEN /\ sock' = [sock EXCEPT ![current] = "closing"]
                    /\ wire' = [wire EXCEPT ![current] = <<>>]
               ELSE UNCHANGED <<sock, wire>>
          /\ UNCHANGED <<path, publisher, consumer, critical, plain, loop, host, raised>>
      BY <1>2 DEF Shutdown, StopWake, publisherVars, socketVars, hostVars
    <2>2. /\ sock' \in [Slot -> {"free", "open", "closing"}] /\ wire' \in [Slot -> Seq(Event)]
          /\ \A s \in Slot : (wire'[s] = wire[s] /\ sock'[s] = sock[s]) \/ wire'[s] = <<>>
      <3>1. <<>> \in Seq(Event)
        OBVIOUS
      <3> QED
        BY <2>1, <3>1 DEF Unrepeated, BusTypes
    <2>3. BusTypes'
      BY <2>1, <2>2 DEF Unrepeated, BusTypes
    <2>4. Unheard => Unheard'
      BY <2>1, <2>2 DEF Unheard
    <2>5. OneConnect'
      BY <2>1, <2>2, <2>4 DEF Unrepeated, OneConnect
    <2>6. OneCopy'
      BY <2>1, <2>2, EventsStay
    <2> QED
      BY <2>3, <2>5, <2>6 DEF Unrepeated
  <1>3. CASE ShutdownEnds
    <2>1. /\ publisher' = "stopped" /\ path' = "none" /\ consumer' = NoSocket
          /\ IF consumer # NoSocket /\ sock[consumer] = "open"
               THEN /\ sock' = [sock EXCEPT ![consumer] = "closing"]
                    /\ wire' = [wire EXCEPT ![consumer] = <<>>]
               ELSE UNCHANGED <<sock, wire>>
          /\ shutdown' = "done"
          /\ UNCHANGED <<current, critical, plain, loop, cooldown, alive, host, raised>>
      BY <1>3 DEF ShutdownEnds, StopPublisher, socketVars, subscriberVars, reconnectVars, hostVars
    <2>2. ~alive
      BY <1>3 DEF ShutdownEnds, Unrepeated, OneConnect
    <2>3. /\ sock' \in [Slot -> {"free", "open", "closing"}] /\ wire' \in [Slot -> Seq(Event)]
          /\ \A s \in Slot : wire'[s] \in {wire[s], <<>>}
      <3>1. <<>> \in Seq(Event)
        OBVIOUS
      <3> QED
        BY <2>1, <3>1 DEF Unrepeated, BusTypes
    <2>4. \A s \in Slot : wire'[s] = <<>>
      <3>1. \A s \in Slot : wire[s] # <<>> => s = consumer /\ sock[s] = "open" /\ consumer # NoSocket
        BY BusAssumption DEF Unrepeated, OneConnect
      <3> QED
        BY <2>1, <3>1 DEF Unrepeated, BusTypes
    <2>5. BusTypes'
      BY <2>1, <2>3 DEF Unrepeated, BusTypes
    <2>6. Unheard => Unheard'
      BY <2>1, <2>4 DEF Unheard
    <2>7. OneConnect'
      BY <2>1, <2>2, <2>4, <2>6 DEF Unrepeated, OneConnect
    <2>8. OneCopy'
      BY <2>1, <2>3, EventsStay
    <2> QED
      BY <2>5, <2>7, <2>8 DEF Unrepeated
  <1> QED
    BY <1>1, <1>2, <1>3

LEMMA LeavingKeeps ==
  ASSUME Unrepeated, ConsumerLeaves, HooksUnchanged
  PROVE  Unrepeated'
  <1>1. /\ consumer # NoSocket /\ sock[consumer] # "open" /\ consumer' = NoSocket
        /\ UNCHANGED <<path, publisher, current, critical, plain, sock, wire, loop, cooldown,
                       alive, host, raised, shutdown>>
    BY DEF ConsumerLeaves, HooksUnchanged, socketVars, subscriberVars, reconnectVars, hostVars
  <1>2. ~Unheard /\ \A s \in Slot : wire'[s] = <<>>
    BY <1>1 DEF Unheard, Unrepeated, OneConnect
  <1>3. BusTypes'
    BY <1>1 DEF Unrepeated, BusTypes
  <1>4. OneConnect'
    BY <1>1, <1>2 DEF Unrepeated, OneConnect
  <1>5. OneCopy'
    BY <1>1, EventsStay
  <1> QED
    BY <1>3, <1>4, <1>5 DEF Unrepeated

\* What concerns the host, the clock and the scripts moves no event.
LEMMA RestKeeps ==
  ASSUME Unrepeated,
         \/ (TurnStarts \/ TimePasses \/ MinutePasses \/ SessionStarts) /\ HooksUnchanged
         \/ \E e \in Event : ScriptStep(e)
         \/ UNCHANGED hooksVars
  PROVE  Unrepeated'
  <1>1. /\ UNCHANGED <<path, publisher, consumer, current, critical, plain, sock, wire, loop,
                       cooldown, alive, raised, shutdown>>
        /\ \/ host' = host
           \/ host' = [host EXCEPT !.idle = FALSE]
           \/ \E why \in SUBSET {"any", "failed"} : host' = [host EXCEPT !.recent = why]
    <2>1. ASSUME (TurnStarts \/ TimePasses \/ MinutePasses \/ SessionStarts) /\ HooksUnchanged
          PROVE  <1>1!:
      BY <2>1 DEF TurnStarts, TimePasses, MinutePasses, SessionStarts, HooksUnchanged,
                  publisherVars, socketVars, subscriberVars, reconnectVars
    <2>2. ASSUME (\E e \in Event : ScriptStep(e)) \/ UNCHANGED hooksVars
          PROVE  <1>1!:
      BY <2>2 DEF ScriptStep, hooksVars, busVars, publisherVars, socketVars, subscriberVars,
                  reconnectVars, hostVars
    <2> QED
      BY <2>1, <2>2
  <1>2. host' \in HostType /\ host'.local = host.local /\ host'.sent = host.sent
    BY <1>1 DEF Unrepeated, BusTypes, HostType
  <1> QED
    BY <1>1, <1>2, NothingMoves

LEMMA CopiesNext == OneCopyIInv /\ [HooksNext]_hooksVars => OneCopyIInv'
  <1> SUFFICES ASSUME OneCopyIInv, [HooksNext]_hooksVars PROVE OneCopyIInv'
    OBVIOUS
  <1>1. faults' = faults \/ (faults > 0 /\ faults' = faults - 1)
    BY FaultsFall DEF hooksVars, busVars
  <1>2. faults' \in 0..MaxFaults /\ (faults' = MaxFaults => faults = MaxFaults)
    BY <1>1, BusAssumption DEF OneCopyIInv
  <1>3. ASSUME faults' = MaxFaults PROVE Unrepeated'
    <2>1. Unrepeated /\ faults = MaxFaults
      BY <1>2, <1>3 DEF OneCopyIInv
    <2>2. CASE Report
      <3>1. PICK s \in Slot : \/ Closed(s)
                              \/ \E a \in Activity : Connects(a, s) \/ ConnectFails(a, s)
        BY <2>2 DEF Report
      <3> QED
        BY <1>3, <2>1, <2>2, <3>1, ClosedWhenStopped, ConnectsOnce, FailsWhenStopped DEF Report
    <2>3. CASE PublisherReport \/ Hear \/ BusStarts \/ HostRests
      BY <2>1, <2>3, LeavingKeeps, ReceiveOnce, BindKeeps, TurnEndsKeeps
      DEF PublisherReport, Hear, BusStarts, HostRests
    <2>4. CASE Timer
      <3>1. ~BackoffEnds /\ ~CooldownEnds
        BY <2>1 DEF Unrepeated, OneConnect, BackoffEnds, CooldownEnds
      <3> QED
        BY <2>1, <2>4, <3>1, RetryGoesOn DEF Timer
    <2>5. CASE Disturbance
      <3>1. ~TakeOver /\ \A s \in Slot : ~Breaks(s)
        <4>1. faults' # faults - 1
          BY <1>3, <2>1, BusAssumption
        <4>2. path # "foreign"
          BY <2>1 DEF Unrepeated, OneConnect
        <4> QED
          BY <4>1, <4>2 DEF TakeOver, Breaks
      <3> QED
        BY <2>1, <2>5, <3>1, RestKeeps DEF Disturbance
    <2>6. CASE \E e \in Event : Fire(e) \/ ScriptStep(e)
      BY <2>1, <2>6, FireOnce, RestKeeps
    <2>7. CASE Shutdown \/ ShutdownEnds
      BY <2>1, <2>7, ShutdownKeeps
    <2>8. CASE UNCHANGED hooksVars
      BY <2>1, <2>8, RestKeeps
    <2> QED
      BY <2>2, <2>3, <2>4, <2>5, <2>6, <2>7, <2>8 DEF HooksNext
  <1> QED
    BY <1>2, <1>3 DEF OneCopyIInv

(***************************************************************************)
(* No event reaches the host twice while no connect fails, no connection   *)
(* breaks and no other pi takes the path, however many events are raised   *)
(* and however the turns of the host fall between them: what one connect   *)
(* writes is disjoint from what is written later, and what is received is  *)
(* refused, kept or sent.                                                  *)
(***************************************************************************)
THEOREM NoEventTwiceWithoutFaults == HooksSpec => []OneMessageWithoutFaults
  <1>1. OneCopyIInv => OneMessageWithoutFaults
    BY DEF OneCopyIInv, Unrepeated, OneCopy, OneMessageWithoutFaults
  <1> QED
    BY <1>1, CopiesStart, CopiesNext, PTL DEF HooksSpec

=============================================================================
