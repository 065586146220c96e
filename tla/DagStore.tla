------------------------------- MODULE DagStore -------------------------------
(***************************************************************************)
(* The files of src/src/dag/dag-store.ts: one record per DAG and one index  *)
(* of them all, which acp_dag(status) lists and the widget shows.  Every    *)
(* operation reads a whole file, changes the value and rewrites the file    *)
(* with writeFileSync: opened (and emptied), then filled.  The record comes *)
(* first, the index second; nothing joins the two.  A process performs one  *)
(* operation at a time, all synchronous, but the directory is shared by     *)
(* every pi process of the user, and a process can die at any file access.  *)
(***************************************************************************)
EXTENDS Integers, FiniteSets

CONSTANTS
  Dag,       \* the ids create() draws
  Step,      \* the steps of each
  Proc,      \* pi processes
  MaxCrashes \* bound on the operations cut short

ASSUME StoreAssumption == IsFiniteSet(Dag) /\ IsFiniteSet(Step) /\ MaxCrashes \in Nat

DagStatus == {"pending", "running", "completed", "failed", "cancelled", "stale"}

(* The index tells completed and failed steps from all others ("open").      *)
StepClass == {"open", "completed", "failed"}

NoRecord == [file |-> "absent", status |-> "pending", step |-> [s \in Step |-> "open"]]

NoEntries == [d \in {} |-> 0]

VARIABLES
  record,  \* <dagId>.json: absent, whole or torn (empty), and its content
  index,   \* dag-index.json: torn or whole, and its entries by DAG
  call,    \* the operation each process is performing, and where it is
  crashes

vars == <<record, index, call, crashes>>

Idle == [at |-> "idle"]

Init ==
  /\ record = [d \in Dag |-> NoRecord]
  /\ index = [file |-> "whole", entries |-> NoEntries]
  /\ call = [p \in Proc |-> Idle]
  /\ crashes = 0

At(p, where) == call[p].at = where

Go(p, where) == call' = [call EXCEPT ![p].at = where]

-----------------------------------------------------------------------------
(* What an operation does to the index: the entry added or changed.  (Faulty *)
(* variants are named X_<fault>, each before the definition it stands in     *)
(* for; nothing refers to them but PROJECT.json's mutants.)                  *)
Count(class, n) == IF class = n THEN 1 ELSE 0

Reconciled_SettledIsCompleted(entry, old, new) ==
  [entry EXCEPT !.completed = @ + (IF new # "open" THEN 1 ELSE 0) - Count("completed", old)]

Reconciled(entry, old, new) ==
  [entry EXCEPT !.completed = @ + Count("completed", new) - Count("completed", old),
                !.failed = @ + Count("failed", new) - Count("failed", old)]

NewEntry == [status |-> "pending", completed |-> 0, failed |-> 0]

Relisted(c) ==
  LET d == c.dag IN
  CASE c.op = "create" ->
         [e \in DOMAIN c.entries \cup {d} |-> IF e = d THEN NewEntry ELSE c.entries[e]]
    [] c.op = "status" -> [c.entries EXCEPT ![d].status = c.next]
    [] c.op = "step" -> [c.entries EXCEPT ![d] = Reconciled(@, c.previous, c.next)]

-----------------------------------------------------------------------------
(* The four operations read the record, once, at their start.               *)
Begin(p, d, op, previous, next, content) ==
  /\ At(p, "idle")
  /\ call' = [call EXCEPT ![p] =
       [at |-> "openRecord", dag |-> d, op |-> op, previous |-> previous, next |-> next,
        content |-> content, entries |-> NoEntries]]
  /\ UNCHANGED <<record, index, crashes>>

Create(p, d) ==
  /\ record[d].file = "absent" /\ \A q \in Proc : ~At(q, "idle") => call[q].dag # d
  /\ Begin(p, d, "create", "open", "open", [NoRecord EXCEPT !.file = "whole"])

(* The transitions the executor asks for; a record that is absent or torn    *)
(* reads as null, and the operation returns.                                 *)
UpdateStep(p, d, s, next) ==
  /\ record[d].file = "whole" /\ record[d].step[s] = "open"
  /\ Begin(p, d, "step", record[d].step[s], next, [record[d] EXCEPT !.step[s] = next])

MayBecome(old, new) ==
  \/ new = "running" /\ old \in {"pending", "running", "cancelled"}
  \/ new \in {"completed", "failed", "stale"} /\ old = "running"
  \/ new = "cancelled" /\ old \in {"pending", "running", "stale"}

UpdateDagStatus(p, d, status) ==
  /\ record[d].file = "whole" /\ MayBecome(record[d].status, status)
  /\ Begin(p, d, "status", "open", status, [record[d] EXCEPT !.status = status])

(* updateDagWave: the wave counters, which only the record has.              *)
UpdateDagWave(p, d) ==
  /\ record[d].file = "whole"
  /\ Begin(p, d, "wave", "open", "open", record[d])

-----------------------------------------------------------------------------
(* The file accesses, in the order of the code.                              *)
OpenRecord(p) ==
  /\ At(p, "openRecord")
  /\ record' = [record EXCEPT ![call[p].dag].file = "torn"]
  /\ Go(p, "writeRecord")
  /\ UNCHANGED <<index, crashes>>

(* After the record the index, unless it has nothing of the change.          *)
Written(p) ==
  IF call[p].op = "wave" THEN call' = [call EXCEPT ![p] = Idle] ELSE Go(p, "readIndex")

WriteRecord_StepLost(p) ==
  /\ At(p, "writeRecord")
  /\ record' = [record EXCEPT ![call[p].dag] =
       [call[p].content EXCEPT !.step = record[call[p].dag].step]]
  /\ Written(p)
  /\ UNCHANGED <<index, crashes>>

WriteRecord(p) ==
  /\ At(p, "writeRecord")
  /\ record' = [record EXCEPT ![call[p].dag] = call[p].content]
  /\ Written(p)
  /\ UNCHANGED <<index, crashes>>

(* readIndex: a torn file reads as the empty list.  An entry that is not     *)
(* there is not made: only create() adds one.                                *)
ReadIndex(p) ==
  /\ At(p, "readIndex")
  /\ call' = [call EXCEPT ![p] =
       IF call[p].op # "create" /\ call[p].dag \notin DOMAIN index.entries
       THEN Idle
       ELSE [@ EXCEPT !.at = "openIndex", !.entries = index.entries]]
  /\ UNCHANGED <<record, index, crashes>>

OpenIndex(p) ==
  /\ At(p, "openIndex")
  /\ index' = [file |-> "torn", entries |-> NoEntries]
  /\ Go(p, "writeIndex")
  /\ UNCHANGED <<record, crashes>>

WriteIndex(p) ==
  /\ At(p, "writeIndex")
  /\ index' = [file |-> "whole", entries |-> Relisted(call[p])]
  /\ call' = [call EXCEPT ![p] = Idle]
  /\ UNCHANGED <<record, crashes>>

(* The process dies, or a write fails: the files stay as they are.           *)
Crash(p) ==
  /\ ~At(p, "idle") /\ crashes < MaxCrashes
  /\ call' = [call EXCEPT ![p] = Idle]
  /\ crashes' = crashes + 1
  /\ UNCHANGED <<record, index>>

Access(p) ==
  OpenRecord(p) \/ WriteRecord(p) \/ ReadIndex(p) \/ OpenIndex(p) \/ WriteIndex(p)

Next ==
  \E p \in Proc :
    \/ Access(p) \/ Crash(p)
    \/ \E d \in Dag :
         \/ Create(p, d) \/ UpdateDagWave(p, d)
         \/ \E s \in Step, next \in StepClass : UpdateStep(p, d, s, next)
         \/ \E status \in DagStatus : UpdateDagStatus(p, d, status)

Spec == Init /\ [][Next]_vars /\ \A p \in Proc : WF_vars(Access(p))

-----------------------------------------------------------------------------
Completed(d) == Cardinality({s \in Step : record[d].step[s] = "completed"})
Failed(d) == Cardinality({s \in Step : record[d].step[s] = "failed"})

Summary(d) == [status |-> record[d].status, completed |-> Completed(d), failed |-> Failed(d)]

(* Counters stay within the number of steps, statuses within the known ones. *)
TypeOK ==
  /\ record \in [Dag -> [file : {"absent", "torn", "whole"}, status : DagStatus,
                         step : [Step -> StepClass]]]
  /\ index.file \in {"whole", "torn"} /\ DOMAIN index.entries \subseteq Dag
  /\ \A d \in DOMAIN index.entries :
       index.entries[d] \in [status : DagStatus, completed : 0 .. Cardinality(Step),
                             failed : 0 .. Cardinality(Step)]
  /\ crashes \in 0 .. MaxCrashes

(* Whatever crashes cut short, the list never shows more than the records    *)
(* hold: no step done that is not, no verdict that was not reached.          *)
IndexNeverAhead ==
  \A d \in DOMAIN index.entries : record[d].file = "whole" =>
    /\ index.entries[d].completed <= Completed(d)
    /\ index.entries[d].failed <= Failed(d)
    /\ index.entries[d].status \in {"completed", "failed"} =>
         record[d].status = index.entries[d].status

(* While nothing was cut short, the list is exact between operations: every  *)
(* DAG is on it, with its status and its counters (kept by increments).      *)
ExactWhileUnharmed ==
  crashes = 0 /\ (\A p \in Proc : At(p, "idle")) =>
    \A d \in Dag : record[d].file # "absent" =>
      d \in DOMAIN index.entries /\ index.entries[d] = Summary(d)

=============================================================================
