----------------------------- MODULE AsyncRuns -----------------------------
(***************************************************************************)
(* AsyncExecutor: background runs, recorded in async-runs.json, which the  *)
(* executors of all pi processes share, with interrupt, resume, steer,     *)
(* cancel and prune.                                                       *)
(*                                                                         *)
(* A run is worked on by attempts: the delegate() of start() or the prompt *)
(* of an acp_spawn that is only tracked, then one for each resume().  The  *)
(* file is read whole, changed in memory and rewritten, and no lock keeps  *)
(* another process from doing the same meanwhile.  A handler is one turn   *)
(* of its process, which does nothing else until the file is written; the  *)
(* other processes step in between.  Telemetry counts are left out, not    *)
(* the rewrites that store them: nothing ever counts a tool call or a      *)
(* written file, so a run is silent when its answer has no text.           *)
(***************************************************************************)
EXTENDS Naturals, Sequences, SequencesExt

CONSTANTS Process, Run,
          MaxAttempts,      \* bound: attempts of a run
          MaxSteers         \* bound: messages steered into a run

ASSUME AsyncBounds ==
  Process \subseteq Nat /\ Run # {} /\ MaxAttempts \in Nat \ {0} /\ MaxSteers \in Nat

RunState == {"absent", "pending", "running", "needs-attention", "completed", "failed"}
Active == {"pending", "running"}

VARIABLES
  state,         \* the records on disk; all absent while the file cannot be parsed
  access,        \* what each process does to the file
  change,        \* the change it is about to make
  payload,       \* the records it read, changed
  attempts,      \* of each run: whose process, how, at which stage, with which guidance
  interrupted,   \* interruptedRuns of each process
  queue,         \* steerQueue of each process
  steered,       \* how many messages each run was given
  dropped,       \* history: the messages of each run that went down with a queue
  crossed        \* history: a process read the file while another was rewriting it

fileVars == <<state, access, change, payload, crossed>>
memoryVars == <<attempts, interrupted, queue, steered, dropped>>
runsVars == <<fileVars, memoryVars>>

Attempt(p, how, stage, guidance) ==
  [proc |-> p, how |-> how, stage |-> stage, guidance |-> guidance]
\* An attempt whose end is still to be written is "ending".
LiveStage == {"registered", "asked", "yielding", "ending"}
Live(a) == a.stage \in LiveStage

NoRecord == [r \in Run |-> "absent"]
NoChange == [run |-> CHOOSE r \in Run : TRUE, to |-> "same"]

RunsInit ==
  /\ state = NoRecord
  /\ access = [p \in Process |-> "none"]
  /\ change = [p \in Process |-> NoChange]
  /\ payload = [p \in Process |-> NoRecord]
  /\ attempts = [r \in Run |-> <<>>]
  /\ interrupted = [p \in Process |-> {}]
  /\ queue = [p \in Process |-> [r \in Run |-> <<>>]]
  /\ steered = [r \in Run |-> 0]
  /\ dropped = [r \in Run |-> {}]
  /\ crossed = FALSE

\* start() is one turn of its process: nothing else runs there in between.
InStart(p) ==
  \E r \in Run : \E k \in DOMAIN attempts[r] :
    attempts[r][k].proc = p /\ attempts[r][k].stage = "registered"
Idle(p) == access[p] = "none" /\ ~InStart(p)

Moved(r, k, stage) == [attempts EXCEPT ![r][k].stage = stage]

\* The attempts of one process at some stages all get to another.
Marked(p, stages, stage) ==
  [r \in Run |-> [k \in DOMAIN attempts[r] |->
     IF attempts[r][k].proc = p /\ attempts[r][k].stage \in stages
     THEN [attempts[r][k] EXCEPT !.stage = stage] ELSE attempts[r][k]]]

-----------------------------------------------------------------------------
(* The file.                                                               *)

\* The turn goes on with writeRun() ("adding") or updateRun() ("updating").
Turn(p, how, r, to) ==
  /\ access' = [access EXCEPT ![p] = how]
  /\ change' = [change EXCEPT ![p] = [run |-> r, to |-> to]]
  /\ UNCHANGED <<state, payload, crossed>>
Adding(p, r, to) == Turn(p, "adding", r, to)
Updating(p, r, to) == Turn(p, "updating", r, to)

Rewriting == {"read", "emptied", "overlaid"}
Crossed(p) == crossed \/ \E q \in Process \ {p} : access[q] \in Rewriting

TurnIsOver(p) ==
  /\ change' = [change EXCEPT ![p] = NoChange]
  /\ attempts' = Marked(p, {"ending"}, "over")
  /\ UNCHANGED <<interrupted, queue, steered, dropped>>

\* readAll() and the change: updateRun() writes nothing when the record is gone.
ReadFile(p) ==
  LET c == change[p]
      found == access[p] = "adding" \/ state[c.run] # "absent"
  IN /\ access[p] \in {"adding", "updating"}
     /\ crossed' = Crossed(p)
     /\ access' = [access EXCEPT ![p] = IF found THEN "read" ELSE "none"]
     /\ IF found
        THEN /\ payload' = [payload EXCEPT ![p] =
                              IF c.to = "same" THEN state ELSE [state EXCEPT ![c.run] = c.to]]
             /\ UNCHANGED <<change, memoryVars>>
        ELSE TurnIsOver(p) /\ UNCHANGED payload
     /\ UNCHANGED state

\* writeFileSync() opens the file, which empties it, and then writes at its start: over
\* the text of a process that wrote since, of which an end may stay.
EmptyFile(p) ==
  /\ access[p] = "read"
  /\ state' = NoRecord
  /\ access' = [q \in Process |->
       IF q = p \/ access[q] = "overlaid" THEN "emptied" ELSE access[q]]
  /\ UNCHANGED <<change, payload, crossed, memoryVars>>

WriteFile(p) ==
  /\ access[p] \in {"emptied", "overlaid"}
  /\ \/ state' = payload[p]
     \/ access[p] = "overlaid" /\ state' = NoRecord
  /\ access' = [q \in Process |->
       IF q = p THEN "none" ELSE IF access[q] = "emptied" THEN "overlaid" ELSE access[q]]
  /\ payload' = [payload EXCEPT ![p] = NoRecord]
  /\ TurnIsOver(p)
  /\ UNCHANGED crossed

FileStep(p) == ReadFile(p) \/ EmptyFile(p) \/ WriteFile(p)

-----------------------------------------------------------------------------
(* Attempts.                                                               *)

\* Processes are interchangeable: they are numbered in the order of their first runs.
Numbered(p) ==
  \A q \in Process : q < p => \E r \in Run : \E k \in DOMAIN attempts[r] : attempts[r][k].proc = q

\* start() writes the record, then in the same turn marks it running and delegates.
StartRun(p, r) ==
  /\ attempts[r] = <<>> /\ Numbered(p)
  /\ Adding(p, r, "pending")
  /\ attempts' = [attempts EXCEPT ![r] = <<Attempt(p, "delegate", "registered", <<>>)>>]
  /\ UNCHANGED <<interrupted, queue, steered, dropped>>

Begin(r, k) ==
  LET p == attempts[r][k].proc
  IN /\ attempts[r][k].stage = "registered"
     /\ Updating(p, r, "running")
     /\ attempts' = [attempts EXCEPT ![r][k].stage = "asked", ![r][k].guidance = queue[p][r]]
     /\ queue' = [queue EXCEPT ![p][r] = <<>>]
     /\ UNCHANGED <<interrupted, steered, dropped>>

\* acp_spawn prompts on its own and reports the end.
TrackExternalSpawn(p, r) ==
  /\ attempts[r] = <<>> /\ Numbered(p)
  /\ Adding(p, r, "running")
  /\ attempts' = [attempts EXCEPT ![r] = <<Attempt(p, "external", "asked", <<>>)>>]
  /\ UNCHANGED <<interrupted, queue, steered, dropped>>

\* reportTrackedProgress() stores a count of turns.
Progress(r, k) ==
  /\ attempts[r][k].how = "external" /\ attempts[r][k].stage = "asked"
  /\ Updating(attempts[r][k].proc, r, "same")
  /\ UNCHANGED memoryVars

\* completeTrackedSpawn() and failTrackedSpawn(): an interrupted run stays interrupted.
SpawnEnds(r, k) ==
  /\ attempts[r][k].how = "external" /\ attempts[r][k].stage = "asked"
  /\ IF state[r] = "needs-attention"
     THEN /\ Updating(attempts[r][k].proc, r, "same")
          /\ attempts' = Moved(r, k, "over")
     ELSE /\ \E s \in {"completed", "failed"} : Updating(attempts[r][k].proc, r, s)
          /\ attempts' = Moved(r, k, "ending")
  /\ UNCHANGED <<interrupted, queue, steered, dropped>>

\* delegate() or reprompt() answered: a resumed run may store the session of the answer,
\* and one macrotask is let pass for a late interrupt().
Answer(r, k) ==
  /\ attempts[r][k].how = "delegate" /\ attempts[r][k].stage = "asked"
  /\ attempts' = Moved(r, k, "yielding")
  /\ \/ UNCHANGED fileVars
     \/ k > 1 /\ Updating(attempts[r][k].proc, r, "same")
  /\ UNCHANGED <<interrupted, queue, steered, dropped>>

\* "failed" is the answer without text.
Conclude(r, k) ==
  /\ attempts[r][k].stage = "yielding"
  /\ IF r \in interrupted[attempts[r][k].proc]
     THEN attempts' = Moved(r, k, "over") /\ UNCHANGED fileVars
     ELSE /\ attempts' = Moved(r, k, "ending")
          /\ \E s \in {"completed", "failed"} : Updating(attempts[r][k].proc, r, s)
  /\ UNCHANGED <<interrupted, queue, steered, dropped>>

\* Mutant: the catch only logs.  Checked to violate RunEnds.
Reject_OnlyLogs(r, k) ==
  /\ attempts[r][k].how = "delegate" /\ attempts[r][k].stage = "asked"
  /\ attempts' = Moved(r, k, "over")
  /\ UNCHANGED <<fileVars, interrupted, queue, steered, dropped>>

\* The catch does not ask whether the run was interrupted.
Reject(r, k) ==
  /\ attempts[r][k].how = "delegate" /\ attempts[r][k].stage = "asked"
  /\ attempts' = Moved(r, k, "ending")
  /\ Updating(attempts[r][k].proc, r, "failed")
  /\ UNCHANGED <<interrupted, queue, steered, dropped>>

-----------------------------------------------------------------------------
(* What a user or an agent asks for, in any process.  What a handler asks  *)
(* of the record, it asks getStatus() before updateRun() reads again.      *)

\* The delegate() of an interrupted run goes on; only a tracked prompt is cancelled.
Interrupt(p, r) ==
  /\ state[r] \in Active
  /\ interrupted' = [interrupted EXCEPT ![p] = @ \cup {r}]
  /\ Updating(p, r, "needs-attention")
  /\ UNCHANGED <<attempts, queue, steered, dropped>>

Resumable(r) ==
  /\ state[r] \in RunState \ (Active \cup {"absent"})
  /\ Len(attempts[r]) < MaxAttempts

\* Mutants of Resume: the mark of the interrupt or the delivered guidance stays.  Checked
\* to violate RunningHasWorker and SteeredOnce.
Resume_KeepsMark(p, r) ==
  /\ Resumable(r)
  /\ Updating(p, r, "running")
  /\ attempts' = [attempts EXCEPT ![r] =
                    Append(@, Attempt(p, "delegate", "asked", queue[p][r]))]
  /\ queue' = [queue EXCEPT ![p][r] = <<>>]
  /\ UNCHANGED <<interrupted, steered, dropped>>
Resume_KeepsQueue(p, r) ==
  /\ Resumable(r)
  /\ interrupted' = [interrupted EXCEPT ![p] = @ \ {r}]
  /\ Updating(p, r, "running")
  /\ attempts' = [attempts EXCEPT ![r] =
                    Append(@, Attempt(p, "delegate", "asked", queue[p][r]))]
  /\ UNCHANGED <<queue, steered, dropped>>

Resume(p, r) ==
  /\ Resumable(r)
  /\ interrupted' = [interrupted EXCEPT ![p] = @ \ {r}]
  /\ Updating(p, r, "running")
  /\ attempts' = [attempts EXCEPT ![r] =
                    Append(@, Attempt(p, "delegate", "asked", queue[p][r]))]
  /\ queue' = [queue EXCEPT ![p][r] = <<>>]
  /\ UNCHANGED <<steered, dropped>>

SteerRun(p, r) ==
  /\ state[r] # "absent"
  /\ steered[r] < MaxSteers
  /\ steered' = [steered EXCEPT ![r] = @ + 1]
  /\ queue' = [queue EXCEPT ![p][r] = Append(@, steered'[r])]
  /\ UNCHANGED <<fileVars, attempts, interrupted, dropped>>

Cancel(p, r) ==
  /\ state[r] \in Active \cup {"needs-attention"}
  /\ Updating(p, r, "failed")
  /\ UNCHANGED memoryVars

\* prune() reads once, and writes the file back even when nothing is old.
PruneRuns(p) ==
  /\ Idle(p)
  /\ \E old \in SUBSET {r \in Run : state[r] \notin Active \cup {"absent"}} :
       payload' = [payload EXCEPT ![p] =
                     [r \in Run |-> IF r \in old THEN "absent" ELSE state[r]]]
  /\ access' = [access EXCEPT ![p] = "read"]
  /\ crossed' = Crossed(p)
  /\ UNCHANGED <<state, change, memoryVars>>

\* A pi process that has something to lose ends, perhaps between emptying the file and
\* writing it; a new one has an empty memory and the same file.
Crash(p) ==
  /\ \/ access[p] # "none"
     \/ \E r \in Run :
          \/ r \in interrupted[p] \/ queue[p][r] # <<>>
          \/ \E k \in DOMAIN attempts[r] : attempts[r][k].proc = p /\ Live(attempts[r][k])
  /\ attempts' = Marked(p, LiveStage, "lost")
  /\ interrupted' = [interrupted EXCEPT ![p] = {}]
  /\ queue' = [queue EXCEPT ![p] = [r \in Run |-> <<>>]]
  /\ dropped' = [r \in Run |-> dropped[r] \cup ToSet(queue[p][r])]
  /\ access' = [access EXCEPT ![p] = "none"]
  /\ change' = [change EXCEPT ![p] = NoChange]
  /\ payload' = [payload EXCEPT ![p] = NoRecord]
  /\ UNCHANGED <<state, steered, crossed>>

\* What is bound to come of an attempt.
AttemptStep(r, k) ==
  \/ access[attempts[r][k].proc] = "none" /\ Begin(r, k)
  \/ /\ Idle(attempts[r][k].proc)
     /\ SpawnEnds(r, k) \/ Answer(r, k) \/ Conclude(r, k) \/ Reject(r, k)

RunsNext ==
  \/ \E p \in Process, r \in Run :
       /\ Idle(p)
       /\ \/ StartRun(p, r) \/ TrackExternalSpawn(p, r)
          \/ Interrupt(p, r) \/ Resume(p, r) \/ SteerRun(p, r) \/ Cancel(p, r)
  \/ \E r \in Run : \E k \in DOMAIN attempts[r] :
       AttemptStep(r, k) \/ (Idle(attempts[r][k].proc) /\ Progress(r, k))
  \/ \E p \in Process : FileStep(p) \/ PruneRuns(p) \/ Crash(p)

RunsSpec == RunsInit /\ [][RunsNext]_runsVars

\* A prompt ends with an answer or an error.  Its process may always have another turn to
\* take, but the event loop is a queue: a continuation that is due again and again runs.
RunsFairSpec ==
  /\ RunsSpec
  /\ \A p \in Process : WF_runsVars(FileStep(p))
  /\ \A r \in Run, k \in 1..MaxAttempts :
       SF_runsVars(k \in DOMAIN attempts[r] /\ AttemptStep(r, k))

-----------------------------------------------------------------------------
(* Properties.                                                             *)

AttemptType ==
  [proc : Process, how : {"delegate", "external"},
   stage : LiveStage \cup {"over", "lost"}, guidance : Seq(Nat)]

RunsTypeOK ==
  /\ state \in [Run -> RunState]
  /\ access \in [Process -> {"none", "adding", "updating"} \cup Rewriting]
  /\ change \in [Process -> [run : Run, to : RunState \cup {"same"}]]
  /\ payload \in [Process -> [Run -> RunState]]
  /\ attempts \in [Run -> Seq(AttemptType)]
  /\ interrupted \in [Process -> SUBSET Run]
  /\ queue \in [Process -> [Run -> Seq(Nat)]]
  /\ steered \in [Run -> Nat]
  /\ dropped \in [Run -> SUBSET Nat]
  /\ crossed \in BOOLEAN

Lost(r) == \E k \in DOMAIN attempts[r] : attempts[r][k].stage = "lost"

\* A run recorded as pending or running is being worked on in some process, however
\* interrupts, resumes, cancels and late answers of several processes meet between a
\* handler's look at the record and its write, unless a process that worked on it is gone
\* or the file was read during another's rewrite.
RunningHasWorker ==
  \A r \in Run : state[r] \in Active =>
    crossed \/ Lost(r) \/ \E k \in DOMAIN attempts[r] : Live(attempts[r][k])

\* A steered message waits in one queue, went out with one attempt or went down with a
\* process before it was used, and no two of these; an attempt gets its messages in the
\* order they were given.
Places(r) ==
  {queue[p][r] : p \in Process} \cup {attempts[r][k].guidance : k \in DOMAIN attempts[r]}
SteeredOnce ==
  \A r \in Run :
    /\ \A s \in Places(r) :
         /\ \A i, j \in DOMAIN s : i < j => s[i] < s[j]
         /\ ToSet(s) \cap dropped[r] = {}
    /\ \A p, q \in Process : p # q => ToSet(queue[p][r]) \cap ToSet(queue[q][r]) = {}
    /\ \A k, l \in DOMAIN attempts[r] : k # l =>
         ToSet(attempts[r][k].guidance) \cap ToSet(attempts[r][l].guidance) = {}
    /\ \A p \in Process, k \in DOMAIN attempts[r] :
         ToSet(queue[p][r]) \cap ToSet(attempts[r][k].guidance) = {}
    /\ 1..steered[r] = dropped[r] \cup UNION {ToSet(s) : s \in Places(r)}

\* An active run ends, needs attention or is pruned, and a whole file says so, if its
\* process does not go down and no reading crosses a rewrite.
WholeFile == \A p \in Process : access[p] \notin {"emptied", "overlaid"}
RunEnds ==
  \A r \in Run :
    state[r] \in Active ~> (WholeFile /\ state[r] \notin Active) \/ Lost(r) \/ crossed

=============================================================================
