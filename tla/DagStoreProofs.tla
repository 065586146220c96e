--------------------------- MODULE DagStoreProofs ---------------------------
(***************************************************************************)
(* Proofs about the list of DAGs that the store keeps beside the records,  *)
(* for any number of DAGs and steps and any number of crashes, with one    *)
(* process.  (With two, an update of one is lost in the rewrite of the     *)
(* other, and neither property holds.)                                     *)
(***************************************************************************)
EXTENDS DagStore, FiniteSetTheorems, TLAPS

SingleProcess == \E p \in Proc : Proc = {p}

RecordType ==
  [file : {"absent", "torn", "whole"}, status : DagStatus, step : [Step -> StepClass]]
EntryType == [status : DagStatus, completed : Nat, failed : Nat]
Lists == UNION {[D -> EntryType] : D \in SUBSET Dag}
CallType ==
  [at : {"openRecord", "writeRecord", "readIndex", "openIndex", "writeIndex"},
   dag : Dag, op : {"create", "step", "status", "wave"}, previous : {"open"},
   next : StepClass \cup DagStatus, content : RecordType, entries : Lists]

Types ==
  /\ record \in [Dag -> RecordType]
  /\ index.entries \in Lists
  /\ call \in [Proc -> {Idle} \cup CallType]
  /\ crashes \in Nat

\* What an operation asks for: a step moves to a class, a DAG to a status it may have.
Asked ==
  \A p \in Proc : ~At(p, "idle") =>
    /\ call[p].op \in {"create", "step"} => call[p].next \in StepClass
    /\ call[p].op = "status" => call[p].next \in DagStatus
    /\ call[p].at \in {"readIndex", "openIndex", "writeIndex"} => call[p].op # "wave"

\* A file that was never opened holds nothing, and what is written to one is whole.
Unmade ==
  /\ \A d \in Dag : record[d].file = "absent" => record[d] = NoRecord
  /\ \A p \in Proc : ~At(p, "idle") => call[p].content.file = "whole"

Done(rec, class) == Cardinality({s \in Step : rec.step[s] = class})

Behind(entry, rec) ==
  /\ entry.completed <= Done(rec, "completed") /\ entry.failed <= Done(rec, "failed")
  /\ entry.status \in {"completed", "failed"} => rec.status = entry.status

Exact(entry, rec) ==
  /\ entry.completed = Done(rec, "completed") /\ entry.failed = Done(rec, "failed")
  /\ entry.status = rec.status

\* The list as the process of an operation knows it, the record as it will be, and the
\* entry as it will be listed.
Known(p) == IF call[p].at \in {"openIndex", "writeIndex"} THEN call[p].entries ELSE index.entries
Target(p) ==
  IF call[p].at \in {"openRecord", "writeRecord"} THEN call[p].content ELSE record[call[p].dag]
Listed(c, entry) ==
  CASE c.op = "create" -> NewEntry
    [] c.op = "status" -> [entry EXCEPT !.status = c.next]
    [] c.op = "step" -> Reconciled(entry, c.previous, c.next)
    [] OTHER -> entry

\* An operation never takes away from its record.
Grows(rec, content) ==
  /\ Done(rec, "completed") <= Done(content, "completed")
  /\ Done(rec, "failed") <= Done(content, "failed")
  /\ rec.status \in {"completed", "failed"} => content.status = rec.status

Targets ==
  \A p \in Proc : ~At(p, "idle") => Grows(record[call[p].dag], Target(p))

\* No list shows more than the records hold, nor will once the operation has listed its own.
ListsBehind ==
  /\ \A d \in DOMAIN index.entries : Behind(index.entries[d], record[d])
  /\ \A p \in Proc : ~At(p, "idle") =>
       /\ \A d \in DOMAIN Known(p) : Behind(Known(p)[d], record[d])
       /\ call[p].dag \in DOMAIN Known(p) => Behind(Listed(call[p], Known(p)[call[p].dag]), Target(p))
       /\ call[p].at \in {"openIndex", "writeIndex"} =>
            call[p].op = "create" \/ call[p].dag \in DOMAIN Known(p)

\* Without crashes the list is exact but for the DAG of the operation under way, and that
\* operation will make it exact.
Exactly(E, d) == d \in DOMAIN E /\ Exact(E[d], record[d])
ListsExact == crashes = 0 =>
  \A p \in Proc :
    /\ At(p, "idle") =>
         \A d \in Dag : record[d].file # "absent" => Exactly(index.entries, d)
    /\ ~At(p, "idle") =>
         /\ \A d \in Dag \ {call[p].dag} : record[d].file # "absent" => Exactly(Known(p), d)
         /\ call[p].op = "create" => Exact(NewEntry, Target(p))
         /\ call[p].op # "create" =>
              /\ call[p].dag \in DOMAIN Known(p)
              /\ Exact(Listed(call[p], Known(p)[call[p].dag]), Target(p))

StoreIInv == Types /\ Asked /\ Unmade /\ Targets /\ ListsBehind /\ ListsExact

-----------------------------------------------------------------------------
(* Counting steps.                                                           *)
LEMMA DoneIsNat ==
  ASSUME NEW rec \in RecordType, NEW class
  PROVE  Done(rec, class) \in Nat /\ Done(rec, class) <= Cardinality(Step)
  <1> DEFINE S == {s \in Step : rec.step[s] = class}
  <1>1. S \subseteq Step /\ IsFiniteSet(Step)
    BY StoreAssumption
  <1>2. /\ IsFiniteSet(S) /\ Cardinality(S) \in Nat /\ Cardinality(Step) \in Nat
        /\ Cardinality(S) <= Cardinality(Step)
    BY <1>1, FS_Subset, FS_CardinalityType
  <1> QED
    BY <1>2 DEF Done

\* A step that is settled counts once more for its class.
LEMMA DoneAfterStep ==
  ASSUME NEW rec \in RecordType, NEW s \in Step, rec.step[s] = "open",
         NEW next \in StepClass, NEW content \in RecordType,
         content.step = [rec.step EXCEPT ![s] = next],
         NEW class \in {"completed", "failed"}
  PROVE  Done(content, class) = Done(rec, class) + Count(class, next)
  <1> DEFINE S == {x \in Step : rec.step[x] = class}
             T == {x \in Step : content.step[x] = class}
  <1>1. rec.step \in [Step -> StepClass]
    BY DEF RecordType
  <1>2. IsFiniteSet(S)
    BY StoreAssumption, FS_Subset
  <1>3. s \notin S
    OBVIOUS
  <1>4. CASE next = class
    <2>1. T = S \cup {s}
      BY <1>1, <1>4
    <2>2. Cardinality(T) = Cardinality(S) + 1
      BY <1>2, <1>3, <2>1, FS_AddElement
    <2> QED
      BY <1>4, <2>2 DEF Done, Count
  <1>5. CASE next # class
    <2>1. T = S
      BY <1>1, <1>3, <1>5
    <2>2. Cardinality(S) \in Nat
      BY <1>2, FS_CardinalityType
    <2>3. Done(content, class) = Cardinality(T) /\ Done(rec, class) = Cardinality(S)
      BY DEF Done
    <2>4. Count(class, next) = 0
      BY <1>5 DEF Count
    <2> HIDE DEF S, T
    <2> QED
      BY <2>1, <2>2, <2>3, <2>4
  <1> QED
    BY <1>4, <1>5

\* What only the steps and the status of a record decide.
LEMMA SameContent ==
  ASSUME NEW rec, NEW content, content.step = rec.step, content.status = rec.status
  PROVE  /\ \A class : Done(content, class) = Done(rec, class)
         /\ \A entry : Behind(entry, content) <=> Behind(entry, rec)
         /\ \A entry : Exact(entry, content) <=> Exact(entry, rec)
         /\ \A other : Grows(content, other) <=> Grows(rec, other)
  <1>1. \A class : Done(content, class) = Done(rec, class)
    BY DEF Done
  <1> QED
    BY <1>1 DEF Behind, Exact, Grows

LEMMA BehindWhatGrows ==
  ASSUME NEW rec \in RecordType, NEW content \in RecordType, Grows(rec, content),
         NEW entry \in EntryType, Behind(entry, rec)
  PROVE  Behind(entry, content)
  <1>1. /\ Done(rec, "completed") \in Nat /\ Done(content, "completed") \in Nat
        /\ Done(rec, "failed") \in Nat /\ Done(content, "failed") \in Nat
        /\ entry.completed \in Nat /\ entry.failed \in Nat
    BY DoneIsNat DEF EntryType
  <1> QED
    BY <1>1 DEF Grows, Behind

LEMMA NewIsBehind ==
  ASSUME NEW rec \in RecordType
  PROVE  Behind(NewEntry, rec)
  <1>1. Done(rec, "completed") \in Nat /\ Done(rec, "failed") \in Nat
    BY DoneIsNat
  <1> QED
    BY <1>1 DEF NewEntry, Behind

LEMMA GrowsItself ==
  ASSUME NEW rec \in RecordType
  PROVE  Grows(rec, rec)
  <1>1. Done(rec, "completed") \in Nat /\ Done(rec, "failed") \in Nat
    BY DoneIsNat
  <1> QED
    BY <1>1 DEF Grows

LEMMA ListedTyped ==
  ASSUME NEW c \in CallType, NEW entry \in EntryType,
         c.op = "status" => c.next \in DagStatus, c.op = "step" => c.next \in StepClass
  PROVE  Listed(c, entry) \in EntryType
  <1>1. CASE c.op = "create"
    BY <1>1 DEF Listed, NewEntry, EntryType, DagStatus
  <1>2. CASE c.op = "status"
    BY <1>2 DEF Listed, EntryType
  <1>3. CASE c.op = "step"
    <2>1. c.previous = "open"
      BY DEF CallType
    <2>2. Listed(c, entry) = [entry EXCEPT
             !.completed = @ + Count("completed", c.next) - Count("completed", "open"),
             !.failed = @ + Count("failed", c.next) - Count("failed", "open")]
      BY <1>3, <2>1 DEF Listed, Reconciled
    <2>3. Count("completed", "open") = 0 /\ Count("failed", "open") = 0
      BY DEF Count
    <2>4. Count("completed", c.next) \in Nat /\ Count("failed", c.next) \in Nat
      BY DEF Count
    <2> HIDE DEF Count
    <2>5. /\ entry.completed + Count("completed", c.next) - Count("completed", "open") \in Nat
          /\ entry.failed + Count("failed", c.next) - Count("failed", "open") \in Nat
      BY <2>3, <2>4 DEF EntryType
    <2> QED
      BY <2>2, <2>5 DEF EntryType
  <1>4. CASE c.op = "wave"
    BY <1>4 DEF Listed
  <1> QED
    BY <1>1, <1>2, <1>3, <1>4 DEF CallType

LEMMA ListTyped ==
  ASSUME NEW E \in Lists
  PROVE  /\ DOMAIN E \subseteq Dag
         /\ \A d \in DOMAIN E : E[d] \in EntryType
  BY DEF Lists

LEMMA StoreInit == Init => StoreIInv
  <1> SUFFICES ASSUME Init PROVE StoreIInv
    OBVIOUS
  <1>1. NoRecord \in RecordType
    BY DEF NoRecord, RecordType, DagStatus, StepClass
  <1>2. NoEntries \in Lists /\ DOMAIN NoEntries = {}
    <2>1. NoEntries \in [{} -> EntryType]
      BY DEF NoEntries
    <2> QED
      BY <2>1 DEF Lists, NoEntries
  <1>3. \A p \in Proc : At(p, "idle")
    BY DEF Init, Idle, At
  <1>4. index.entries = NoEntries
    BY DEF Init
  <1>5. Types
    BY <1>1, <1>2, <1>4 DEF Init, Types
  <1>6. \A d \in Dag : record[d].file = "absent" /\ record[d] = NoRecord
    BY DEF Init, NoRecord
  <1> QED
    BY <1>2, <1>3, <1>4, <1>5, <1>6 DEF StoreIInv, Asked, Unmade, Targets, ListsBehind, ListsExact

-----------------------------------------------------------------------------
(* The start of an operation.                                                *)
Begun(d, op, next, content) ==
  [at |-> "openRecord", dag |-> d, op |-> op, previous |-> "open", next |-> next,
   content |-> content, entries |-> NoEntries]

\* An operation that grows its record and lists what it does there may begin.
LEMMA BeginKeeps ==
  ASSUME SingleProcess, StoreIInv, NEW p \in Proc, NEW d \in Dag,
         NEW op \in {"create", "step", "status", "wave"}, NEW next \in StepClass \cup DagStatus,
         op \in {"create", "step"} => next \in StepClass, op = "status" => next \in DagStatus,
         NEW content \in RecordType, content.file = "whole",
         Begin(p, d, op, "open", next, content),
         Grows(record[d], content),
         \A entry \in EntryType :
           Behind(entry, record[d]) => Behind(Listed(Begun(d, op, next, content), entry), content),
         op # "create" =>
           /\ record[d].file # "absent"
           /\ \A entry \in EntryType :
                Exact(entry, record[d]) => Exact(Listed(Begun(d, op, next, content), entry), content),
         op = "create" => Exact(NewEntry, content)
  PROVE  StoreIInv'
  <1> DEFINE c == Begun(d, op, next, content)
  <1>1. \A q \in Proc : q = p
    BY DEF SingleProcess
  <1>2. /\ c.at = "openRecord" /\ c.dag = d /\ c.op = op /\ c.next = next /\ c.content = content
        /\ c \in CallType
    <2>1. NoEntries \in Lists
      <3>1. NoEntries \in [{} -> EntryType]
        BY DEF NoEntries
      <3> QED
        BY <3>1 DEF Lists
    <2> QED
      BY <2>1 DEF Begun, CallType
  <1>3. UNCHANGED <<record, index, crashes>> /\ At(p, "idle")
    BY DEF Begin
  <1>4. call \in [Proc -> {Idle} \cup CallType] /\ call' = [call EXCEPT ![p] = c]
    BY DEF Begin, Begun, StoreIInv, Types
  <1>5. call'[p] = c
    BY <1>4
  <1> HIDE DEF c
  <1>6. Types'
    BY <1>2, <1>3, <1>4 DEF StoreIInv, Types
  <1>7. ~At(p, "idle")'
    BY <1>2, <1>5 DEF At
  <1>8. (Known(p))' = index.entries /\ (Target(p))' = content
    BY <1>2, <1>3, <1>5 DEF Known, Target
  <1>9. index.entries \in Lists /\ \A e \in DOMAIN index.entries : index.entries[e] \in EntryType
    BY ListTyped DEF StoreIInv, Types
  <1>10. Asked'
    BY <1>1, <1>2, <1>5 DEF Asked
  <1>11. Targets' /\ Unmade'
    BY <1>1, <1>2, <1>3, <1>5, <1>8 DEF Targets, Unmade, StoreIInv
  <1>12. ListsBehind'
    <2>1. \A e \in DOMAIN index.entries : Behind(index.entries[e], record[e])
      BY DEF StoreIInv, ListsBehind
    <2>2. d \in DOMAIN index.entries => Behind(Listed(c, index.entries[d]), content)
      BY <1>9, <2>1 DEF c
    <2> QED
      BY <1>1, <1>2, <1>3, <1>5, <1>8, <2>1, <2>2 DEF ListsBehind
  <1>13. ListsExact'
    <2>1. SUFFICES ASSUME crashes = 0
                   PROVE  /\ \A e \in Dag \ {d} : record[e].file # "absent" => Exactly(index.entries, e)
                          /\ op = "create" => Exact(NewEntry, content)
                          /\ op # "create" => /\ d \in DOMAIN index.entries
                                              /\ Exact(Listed(c, index.entries[d]), content)
      BY <1>1, <1>2, <1>3, <1>5, <1>7, <1>8 DEF ListsExact, Exactly
    <2>2. \A e \in Dag : record[e].file # "absent" => Exactly(index.entries, e)
      BY <1>3, <2>1 DEF StoreIInv, ListsExact
    <2>3. CASE op # "create"
      <3>1. d \in DOMAIN index.entries /\ Exact(index.entries[d], record[d])
        BY <2>2, <2>3 DEF Exactly
      <3>2. Exact(Listed(c, index.entries[d]), content)
        BY <1>9, <2>3, <3>1 DEF c
      <3> QED
        BY <2>2, <2>3, <3>1, <3>2
    <2> QED
      BY <2>2, <2>3
  <1> QED
    BY <1>6, <1>10, <1>11, <1>12, <1>13 DEF StoreIInv

LEMMA CreateKeeps ==
  ASSUME SingleProcess, StoreIInv, NEW p \in Proc, NEW d \in Dag, Create(p, d)
  PROVE  StoreIInv'
  <1> DEFINE content == [NoRecord EXCEPT !.file = "whole"]
             c == Begun(d, "create", "open", content)
  <1>1. content \in RecordType /\ record[d] \in RecordType
    BY DEF NoRecord, RecordType, DagStatus, StepClass, StoreIInv, Types
  <1>2. \A s \in Step : content.step[s] = "open"
    BY DEF NoRecord
  <1>3. content.status = "pending"
    BY DEF NoRecord
  <1>4. "open" \in StepClass /\ Begin(p, d, "create", "open", "open", content)
    BY DEF Create, StepClass
  <1>5. \A entry : Listed(c, entry) = NewEntry
    BY DEF Begun, Listed
  <1>6. Done(content, "completed") = 0 /\ Done(content, "failed") = 0
    <2>1. /\ {s \in Step : content.step[s] = "completed"} = {}
          /\ {s \in Step : content.step[s] = "failed"} = {}
      BY <1>2
    <2> QED
      BY <2>1, FS_EmptySet DEF Done
  <1> HIDE DEF content, c
  <1>7. Exact(NewEntry, content)
    BY <1>3, <1>6 DEF Exact, NewEntry
  <1>8. Behind(NewEntry, content)
    BY <1>1, NewIsBehind
  <1>9. \A entry \in EntryType : Behind(entry, record[d]) => Behind(Listed(c, entry), content)
    BY <1>5, <1>8
  <1>10. Grows(record[d], content)
    <2>1. record[d] = NoRecord
      BY DEF Create, StoreIInv, Unmade
    <2>2. Grows(record[d], record[d])
      BY <1>1, GrowsItself
    <2>3. content.step = record[d].step /\ content.status = record[d].status
      BY <2>1 DEF content, NoRecord
    <2>4. \A class : Done(content, class) = Done(record[d], class)
      BY <2>3 DEF Done
    <2> QED
      BY <2>2, <2>3, <2>4 DEF Grows
  <1>11. content.file = "whole"
    BY DEF content, NoRecord
  <1> QED
    BY <1>1, <1>11, <1>4, <1>7, <1>9, <1>10, BeginKeeps DEF c

\* An answer that settles a step counts in its record as it will on the list.
LEMMA UpdateStepKeeps ==
  ASSUME SingleProcess, StoreIInv, NEW p \in Proc, NEW d \in Dag, NEW s \in Step,
         NEW next \in StepClass, UpdateStep(p, d, s, next)
  PROVE  StoreIInv'
  <1> DEFINE rec == record[d]
             content == [rec EXCEPT !.step[s] = next]
             c == Begun(d, "step", next, content)
  <1>1. rec \in RecordType
    BY DEF StoreIInv, Types
  <1>2. /\ content \in RecordType /\ content.status = rec.status /\ content.file = rec.file
        /\ content.step = [rec.step EXCEPT ![s] = next]
    BY <1>1 DEF RecordType
  <1>3. rec.file = "whole" /\ rec.step[s] = "open" /\ Begin(p, d, "step", "open", next, content)
    BY DEF UpdateStep
  <1>4. \A entry : Listed(c, entry) = Reconciled(entry, "open", next)
    BY DEF Begun, Listed
  <1> HIDE DEF rec, content, c
  <1>5. \A class \in {"completed", "failed"} :
          /\ Done(rec, class) \in Nat /\ Count(class, next) \in Nat
          /\ Done(content, class) = Done(rec, class) + Count(class, next)
    <2> SUFFICES ASSUME NEW class \in {"completed", "failed"}
                 PROVE  /\ Done(rec, class) \in Nat /\ Count(class, next) \in Nat
                        /\ Done(content, class) = Done(rec, class) + Count(class, next)
      OBVIOUS
    <2>1. Done(rec, class) \in Nat /\ Count(class, next) \in Nat
      BY <1>1, DoneIsNat DEF Count
    <2>2. Done(content, class) = Done(rec, class) + Count(class, next)
      BY <1>1, <1>2, <1>3, DoneAfterStep
    <2> QED
      BY <2>1, <2>2
  <1>6. \A entry \in EntryType :
          /\ Listed(c, entry).completed = entry.completed + Count("completed", next)
          /\ Listed(c, entry).failed = entry.failed + Count("failed", next)
          /\ Listed(c, entry).status = entry.status
    <2> SUFFICES ASSUME NEW entry \in EntryType
                 PROVE  /\ Listed(c, entry).completed = entry.completed + Count("completed", next)
                        /\ Listed(c, entry).failed = entry.failed + Count("failed", next)
                        /\ Listed(c, entry).status = entry.status
      OBVIOUS
    <2>1. Listed(c, entry) = [entry EXCEPT
             !.completed = @ + Count("completed", next) - Count("completed", "open"),
             !.failed = @ + Count("failed", next) - Count("failed", "open")]
      BY <1>4 DEF Reconciled
    <2>2. Count("completed", "open") = 0 /\ Count("failed", "open") = 0
      BY DEF Count
    <2>3. Count("completed", next) \in Nat /\ Count("failed", next) \in Nat
      BY <1>5
    <2> QED
      BY <2>1, <2>2, <2>3 DEF EntryType
  <1>7. \A entry \in EntryType : Behind(entry, rec) => Behind(Listed(c, entry), content)
    BY <1>2, <1>5, <1>6 DEF Behind, EntryType
  <1>8. \A entry \in EntryType : Exact(entry, rec) => Exact(Listed(c, entry), content)
    BY <1>2, <1>5, <1>6 DEF Exact, EntryType
  <1>9. Grows(rec, content)
    BY <1>2, <1>5 DEF Grows
  <1> QED
    BY <1>2, <1>3, <1>7, <1>8, <1>9, BeginKeeps DEF c, rec

LEMMA UpdateDagStatusKeeps ==
  ASSUME SingleProcess, StoreIInv, NEW p \in Proc, NEW d \in Dag, NEW status \in DagStatus,
         UpdateDagStatus(p, d, status)
  PROVE  StoreIInv'
  <1> DEFINE rec == record[d]
             content == [rec EXCEPT !.status = status]
             c == Begun(d, "status", status, content)
  <1>1. rec \in RecordType
    BY DEF StoreIInv, Types
  <1>2. /\ content \in RecordType /\ content.status = status /\ content.step = rec.step
        /\ content.file = rec.file
    BY <1>1 DEF RecordType
  <1>3. /\ rec.file = "whole" /\ rec.status \notin {"completed", "failed"}
        /\ Begin(p, d, "status", "open", status, content)
    BY DEF UpdateDagStatus, MayBecome
  <1>4. \A entry : Listed(c, entry) = [entry EXCEPT !.status = status]
    BY DEF Begun, Listed
  <1> HIDE DEF rec, content, c
  <1>5. \A class : Done(content, class) = Done(rec, class)
    BY <1>2 DEF Done
  <1>6. Done(rec, "completed") \in Nat /\ Done(rec, "failed") \in Nat
    BY <1>1, DoneIsNat
  <1>7. \A entry \in EntryType : Behind(entry, rec) => Behind(Listed(c, entry), content)
    BY <1>2, <1>4, <1>5 DEF Behind, EntryType
  <1>8. \A entry \in EntryType : Exact(entry, rec) => Exact(Listed(c, entry), content)
    BY <1>2, <1>4, <1>5 DEF Exact, EntryType
  <1>9. Grows(rec, content)
    BY <1>3, <1>5, <1>6 DEF Grows
  <1> QED
    BY <1>2, <1>3, <1>7, <1>8, <1>9, BeginKeeps DEF c, rec

LEMMA UpdateDagWaveKeeps ==
  ASSUME SingleProcess, StoreIInv, NEW p \in Proc, NEW d \in Dag, UpdateDagWave(p, d)
  PROVE  StoreIInv'
  <1> DEFINE rec == record[d]
             c == Begun(d, "wave", "open", rec)
  <1>1. rec \in RecordType
    BY DEF StoreIInv, Types
  <1>2. "open" \in StepClass /\ rec.file = "whole" /\ Begin(p, d, "wave", "open", "open", rec)
    BY DEF UpdateDagWave, StepClass
  <1>3. \A entry : Listed(c, entry) = entry
    BY DEF Begun, Listed
  <1> HIDE DEF rec, c
  <1>4. \A entry \in EntryType : Behind(entry, rec) => Behind(Listed(c, entry), rec)
    BY <1>3
  <1>5. \A entry \in EntryType : Exact(entry, rec) => Exact(Listed(c, entry), rec)
    BY <1>3
  <1>6. Grows(rec, rec)
    BY <1>1, GrowsItself
  <1> QED
    BY <1>1, <1>2, <1>4, <1>5, <1>6, BeginKeeps DEF c, rec

-----------------------------------------------------------------------------
(* The file accesses.                                                        *)
LEMMA Underway ==
  ASSUME StoreIInv, NEW p \in Proc, ~At(p, "idle")
  PROVE  /\ call[p] \in CallType /\ call[p].dag \in Dag /\ call[p].entries \in Lists
         /\ call[p].content \in RecordType /\ call[p].content.file = "whole"
  BY DEF StoreIInv, Types, At, Idle, CallType, Unmade

\* The next access of an operation: all else of it stays.
LEMMA Goes ==
  ASSUME StoreIInv, NEW p \in Proc, ~At(p, "idle"),
         NEW where \in {"openRecord", "writeRecord", "readIndex", "openIndex", "writeIndex"},
         Go(p, where)
  PROVE  /\ call' \in [Proc -> {Idle} \cup CallType]
         /\ call'[p] \in CallType /\ call'[p].at = where
         /\ call'[p].dag = call[p].dag /\ call'[p].op = call[p].op
         /\ call'[p].next = call[p].next /\ call'[p].content = call[p].content
         /\ call'[p].entries = call[p].entries
         /\ \A entry : Listed(call'[p], entry) = Listed(call[p], entry)
  <1>1. call \in [Proc -> {Idle} \cup CallType] /\ call[p] \in CallType
    BY Underway DEF StoreIInv, Types
  <1>2. call' = [call EXCEPT ![p] = [call[p] EXCEPT !.at = where]]
    BY <1>1 DEF Go
  <1>3. call'[p] = [call[p] EXCEPT !.at = where]
    BY <1>1, <1>2
  <1>4. [call[p] EXCEPT !.at = where] \in CallType
    BY <1>1 DEF CallType
  <1>5. /\ call'[p].at = where /\ call'[p].dag = call[p].dag /\ call'[p].op = call[p].op
        /\ call'[p].next = call[p].next /\ call'[p].content = call[p].content
        /\ call'[p].entries = call[p].entries /\ call'[p].previous = call[p].previous
    BY <1>1, <1>3 DEF CallType
  <1>6. \A entry : Listed(call'[p], entry) = Listed(call[p], entry)
    BY <1>5 DEF Listed
  <1> QED
    BY <1>1, <1>2, <1>3, <1>4, <1>5, <1>6

LEMMA OpenRecordKeeps ==
  ASSUME SingleProcess, StoreIInv, NEW p \in Proc, OpenRecord(p)
  PROVE  StoreIInv'
  <1> DEFINE d == call[p].dag
             c == call'[p]
  <1>1. \A q \in Proc : q = p
    BY DEF SingleProcess
  <1>2. ~At(p, "idle") /\ call[p].at = "openRecord" /\ Go(p, "writeRecord") /\ UNCHANGED <<index, crashes>>
    BY DEF OpenRecord, At
  <1>3. d \in Dag /\ record \in [Dag -> RecordType]
    BY <1>2, Underway DEF StoreIInv, Types
  <1>4. /\ record'[d] = [record[d] EXCEPT !.file = "torn"]
        /\ \A e \in Dag \ {d} : record'[e] = record[e]
        /\ record' \in [Dag -> RecordType]
    <2>1. [record[d] EXCEPT !.file = "torn"] \in RecordType
      BY <1>3 DEF RecordType
    <2>2. record' = [record EXCEPT ![d] = [record[d] EXCEPT !.file = "torn"]]
      BY <1>3 DEF OpenRecord
    <2> QED
      BY <1>3, <2>1, <2>2
  <1>5. /\ record'[d].step = record[d].step /\ record'[d].status = record[d].status
        /\ record'[d].file = "torn"
    BY <1>3, <1>4 DEF RecordType
  <1>6. \A e \in Dag : record'[e].step = record[e].step /\ record'[e].status = record[e].status
    BY <1>4, <1>5
  <1>7. /\ call' \in [Proc -> {Idle} \cup CallType] /\ c.at = "writeRecord"
        /\ c.dag = d /\ c.op = call[p].op /\ c.next = call[p].next
        /\ c.content = call[p].content
        /\ \A entry : Listed(c, entry) = Listed(call[p], entry)
    BY <1>2, Goes
  <1> HIDE DEF c, d
  <1>8. ~At(p, "idle")' /\ (Known(p))' = Known(p) /\ (Target(p))' = Target(p) /\ Known(p) = index.entries
    BY <1>2, <1>7 DEF Known, Target, At, c
  <1>9. /\ \A e \in Dag : \A entry : Behind(entry, record'[e]) <=> Behind(entry, record[e])
        /\ \A e \in Dag : \A entry : Exact(entry, record'[e]) <=> Exact(entry, record[e])
        /\ \A e \in Dag : \A other : Grows(record'[e], other) <=> Grows(record[e], other)
    BY <1>6, SameContent
  <1>10. Types'
    BY <1>2, <1>4, <1>7 DEF StoreIInv, Types
  <1>11. Asked'
    BY <1>1, <1>2, <1>7, <1>8 DEF StoreIInv, Asked, At, c
  <1>12. Unmade'
    <2>1. call[p].content.file = "whole"
      BY <1>2, Underway
    <2>2. \A e \in Dag : record'[e].file = "absent" => record'[e] = NoRecord
      BY <1>4, <1>5 DEF StoreIInv, Unmade
    <2> QED
      BY <1>1, <1>7, <2>1, <2>2 DEF Unmade, c
  <1>13. Targets'
    BY <1>1, <1>2, <1>3, <1>7, <1>8, <1>9 DEF StoreIInv, Targets, c, d
  <1>14. DOMAIN index.entries \subseteq Dag
    BY ListTyped DEF StoreIInv, Types
  <1>15. ListsBehind'
    BY <1>1, <1>2, <1>3, <1>7, <1>8, <1>9, <1>14 DEF StoreIInv, ListsBehind, c, d
  <1>16. ListsExact'
    <2>1. SUFFICES ASSUME crashes = 0
                   PROVE  /\ \A e \in Dag \ {d} : record'[e].file # "absent" =>
                               e \in DOMAIN Known(p) /\ Exact(Known(p)[e], record'[e])
                          /\ c.op = "create" => Exact(NewEntry, Target(p))
                          /\ c.op # "create" => /\ d \in DOMAIN Known(p)
                                                /\ Exact(Listed(c, Known(p)[d]), Target(p))
      BY <1>1, <1>2, <1>7, <1>8 DEF ListsExact, Exactly, c
    <2> QED
      BY <1>2, <1>4, <1>7, <1>9, <2>1 DEF StoreIInv, ListsExact, Exactly, d
  <1> QED
    BY <1>10, <1>11, <1>12, <1>13, <1>15, <1>16 DEF StoreIInv

LEMMA WriteRecordKeeps ==
  ASSUME SingleProcess, StoreIInv, NEW p \in Proc, WriteRecord(p)
  PROVE  StoreIInv'
  <1> DEFINE d == call[p].dag
             content == call[p].content
             c == call'[p]
  <1>1. \A q \in Proc : q = p
    BY DEF SingleProcess
  <1>2. /\ ~At(p, "idle") /\ call[p].at = "writeRecord" /\ Written(p) /\ UNCHANGED <<index, crashes>>
        /\ record' = [record EXCEPT ![d] = content]
    BY DEF WriteRecord, At
  <1>3. /\ d \in Dag /\ content \in RecordType /\ content.file = "whole"
        /\ record \in [Dag -> RecordType] /\ call \in [Proc -> {Idle} \cup CallType]
    BY <1>2, Underway DEF StoreIInv, Types
  <1>4. Known(p) = index.entries /\ Target(p) = content
    BY <1>2 DEF Known, Target
  <1>5. /\ Grows(record[d], content)
        /\ \A e \in DOMAIN index.entries : Behind(index.entries[e], record[e])
        /\ d \in DOMAIN index.entries => Behind(Listed(call[p], index.entries[d]), content)
    BY <1>2, <1>4 DEF StoreIInv, Targets, ListsBehind
  <1>6. DOMAIN index.entries \subseteq Dag /\ \A e \in DOMAIN index.entries : index.entries[e] \in EntryType
    BY ListTyped DEF StoreIInv, Types
  <1>7. crashes = 0 =>
          /\ \A e \in Dag \ {d} : record[e].file # "absent" => Exactly(index.entries, e)
          /\ call[p].op = "create" => Exact(NewEntry, content)
          /\ call[p].op # "create" =>
               d \in DOMAIN index.entries /\ Exact(Listed(call[p], index.entries[d]), content)
    BY <1>2, <1>4 DEF StoreIInv, ListsExact
  <1> HIDE DEF d, content
  <1>8. /\ record' \in [Dag -> RecordType] /\ record'[d] = content
        /\ \A e \in Dag \ {d} : record'[e] = record[e]
    BY <1>2, <1>3
  <1>9. \A e \in DOMAIN index.entries : Behind(index.entries[e], record'[e])
    <2>1. d \in DOMAIN index.entries => Behind(index.entries[d], content)
      BY <1>3, <1>5, <1>6, BehindWhatGrows
    <2> QED
      BY <1>5, <1>6, <1>8, <2>1
  <1>10. \A e \in Dag : record'[e].file = "absent" => record'[e] = NoRecord
    BY <1>3, <1>8 DEF StoreIInv, Unmade
  <1>11. CASE call[p].op = "wave"
    <2>1. call' = [call EXCEPT ![p] = Idle]
      BY <1>2, <1>11 DEF Written
    <2>2. At(p, "idle")' /\ call' \in [Proc -> {Idle} \cup CallType]
      BY <1>3, <2>1 DEF At, Idle
    <2>3. \A entry : Listed(call[p], entry) = entry
      BY <1>11 DEF Listed
    <2>4. Types' /\ Asked' /\ Unmade' /\ Targets' /\ ListsBehind'
      BY <1>1, <1>2, <1>8, <1>9, <1>10, <2>2
         DEF StoreIInv, Types, Asked, Unmade, Targets, ListsBehind
    <2>5. ListsExact'
      <3>1. SUFFICES ASSUME crashes = 0, NEW e \in Dag, record'[e].file # "absent"
                     PROVE  e \in DOMAIN index.entries /\ Exact(index.entries[e], record'[e])
        BY <1>1, <1>2, <2>2 DEF ListsExact, Exactly
      <3>2. CASE e = d
        BY <1>7, <1>8, <1>11, <2>3, <3>1, <3>2
      <3>3. CASE e # d
        BY <1>7, <1>8, <3>1, <3>3 DEF Exactly
      <3> QED
        BY <3>2, <3>3
    <2> QED
      BY <2>4, <2>5 DEF StoreIInv
  <1>12. CASE call[p].op # "wave"
    <2>1. Go(p, "readIndex")
      BY <1>2, <1>12 DEF Written
    <2>2. /\ call' \in [Proc -> {Idle} \cup CallType] /\ c.at = "readIndex"
          /\ c.dag = d /\ c.op = call[p].op /\ c.next = call[p].next
          /\ c.content = content
          /\ \A entry : Listed(c, entry) = Listed(call[p], entry)
      BY <1>2, <2>1, Goes DEF d, content
    <2> HIDE DEF c
    <2>3. ~At(p, "idle")' /\ (Known(p))' = index.entries /\ (Target(p))' = content
      BY <1>2, <1>8, <2>2 DEF Known, Target, At, c
    <2>4. Types'
      BY <1>2, <1>8, <2>2 DEF StoreIInv, Types
    <2>5. Asked'
      BY <1>1, <1>2, <1>12, <2>2, <2>3 DEF StoreIInv, Asked, At, c
    <2>6. Unmade'
      BY <1>1, <1>3, <1>10, <2>2 DEF Unmade, c
    <2>7. Targets'
      BY <1>1, <1>3, <1>8, <2>2, <2>3, GrowsItself DEF Targets, c
    <2>8. ListsBehind'
      BY <1>1, <1>2, <1>5, <1>9, <2>2, <2>3 DEF ListsBehind, c
    <2>9. ListsExact'
      <3>1. SUFFICES ASSUME crashes = 0
                     PROVE  /\ \A e \in Dag \ {d} : record'[e].file # "absent" =>
                                 e \in DOMAIN index.entries /\ Exact(index.entries[e], record'[e])
                            /\ c.op = "create" => Exact(NewEntry, content)
                            /\ c.op # "create" => /\ d \in DOMAIN index.entries
                                                  /\ Exact(Listed(c, index.entries[d]), content)
        BY <1>1, <1>2, <2>2, <2>3 DEF ListsExact, Exactly, c
      <3> QED
        BY <1>7, <1>8, <2>2, <3>1 DEF Exactly
    <2> QED
      BY <2>4, <2>5, <2>6, <2>7, <2>8, <2>9 DEF StoreIInv
  <1> QED
    BY <1>11, <1>12

\* An operation that is over, or cut short, has left the files as they are.
LEMMA StopKeeps ==
  ASSUME SingleProcess, StoreIInv, NEW p \in Proc, call' = [call EXCEPT ![p] = Idle],
         UNCHANGED <<record, index>>, crashes' \in Nat \ {0}
  PROVE  StoreIInv'
  <1>1. \A q \in Proc : q = p
    BY DEF SingleProcess
  <1>2. call \in [Proc -> {Idle} \cup CallType]
    BY DEF StoreIInv, Types
  <1>3. At(p, "idle")' /\ call' \in [Proc -> {Idle} \cup CallType]
    BY <1>2 DEF At, Idle
  <1> QED
    BY <1>1, <1>3 DEF StoreIInv, Types, Asked, Unmade, Targets, ListsBehind, ListsExact

LEMMA CrashKeeps ==
  ASSUME SingleProcess, StoreIInv, NEW p \in Proc, Crash(p)
  PROVE  StoreIInv'
  <1>1. crashes' \in Nat \ {0}
    BY DEF Crash, StoreIInv, Types
  <1> QED
    BY <1>1, StopKeeps DEF Crash

LEMMA ReadIndexKeeps ==
  ASSUME SingleProcess, StoreIInv, NEW p \in Proc, ReadIndex(p)
  PROVE  StoreIInv'
  <1> DEFINE d == call[p].dag
             c == call'[p]
  <1>1. \A q \in Proc : q = p
    BY DEF SingleProcess
  <1>2. /\ ~At(p, "idle") /\ call[p].at = "readIndex" /\ UNCHANGED <<record, index, crashes>>
    BY DEF ReadIndex, At
  <1>3. /\ call[p] \in CallType /\ call \in [Proc -> {Idle} \cup CallType]
        /\ index.entries \in Lists /\ crashes \in Nat
    BY <1>2, Underway DEF StoreIInv, Types
  <1>4. Known(p) = index.entries
    BY <1>2 DEF Known
  <1>5. CASE call[p].op # "create" /\ d \notin DOMAIN index.entries
    <2>1. call' = [call EXCEPT ![p] = Idle]
      BY <1>5 DEF ReadIndex
    <2>2. crashes' # 0
      BY <1>2, <1>4, <1>5 DEF StoreIInv, ListsExact
    <2> QED
      BY <1>2, <1>3, <2>1, <2>2, StopKeeps
  <1>6. CASE call[p].op = "create" \/ d \in DOMAIN index.entries
    <2>1. call' = [call EXCEPT ![p] = [call[p] EXCEPT !.at = "openIndex", !.entries = index.entries]]
      BY <1>3, <1>6 DEF ReadIndex
    <2>2. c = [call[p] EXCEPT !.at = "openIndex", !.entries = index.entries]
      BY <1>3, <2>1
    <2>3. c \in CallType
      BY <1>3, <2>2 DEF CallType
    <2>4. /\ c.at = "openIndex" /\ c.dag = d /\ c.op = call[p].op /\ c.next = call[p].next
          /\ c.content = call[p].content /\ c.entries = index.entries
          /\ c.previous = call[p].previous
      BY <1>3, <2>2 DEF CallType
    <2>5. \A entry : Listed(c, entry) = Listed(call[p], entry)
      BY <2>4 DEF Listed
    <2>6. call' \in [Proc -> {Idle} \cup CallType]
      BY <1>3, <2>1, <2>2, <2>3
    <2> HIDE DEF c, d
    <2>7. ~At(p, "idle")' /\ (Known(p))' = Known(p) /\ (Target(p))' = Target(p)
      BY <1>2, <1>4, <2>4 DEF Known, Target, At, c, d
    <2>8. Types'
      BY <1>2, <2>6 DEF StoreIInv, Types
    <2>9. Asked'
      BY <1>1, <1>2, <2>4, <2>7 DEF StoreIInv, Asked, c
    <2>10. Unmade' /\ Targets'
      BY <1>1, <1>2, <2>4, <2>7 DEF StoreIInv, Unmade, Targets, c, d
    <2>11. ListsBehind'
      BY <1>1, <1>2, <1>4, <1>6, <2>4, <2>5, <2>7 DEF StoreIInv, ListsBehind, c, d
    <2>12. ListsExact'
      <3>1. SUFFICES ASSUME crashes = 0
                     PROVE  /\ \A e \in Dag \ {d} : record[e].file # "absent" => Exactly(Known(p), e)
                            /\ c.op = "create" => Exact(NewEntry, Target(p))
                            /\ c.op # "create" => /\ d \in DOMAIN Known(p)
                                                  /\ Exact(Listed(c, Known(p)[d]), Target(p))
        BY <1>1, <1>2, <2>4, <2>7 DEF ListsExact, Exactly, c
      <3> QED
        BY <1>2, <2>4, <2>5, <3>1 DEF StoreIInv, ListsExact, d
    <2> QED
      BY <2>8, <2>9, <2>10, <2>11, <2>12 DEF StoreIInv
  <1> QED
    BY <1>5, <1>6

LEMMA OpenIndexKeeps ==
  ASSUME SingleProcess, StoreIInv, NEW p \in Proc, OpenIndex(p)
  PROVE  StoreIInv'
  <1> DEFINE d == call[p].dag
             c == call'[p]
  <1>1. \A q \in Proc : q = p
    BY DEF SingleProcess
  <1>2. /\ ~At(p, "idle") /\ call[p].at = "openIndex" /\ Go(p, "writeIndex")
        /\ UNCHANGED <<record, crashes>> /\ index'.entries = NoEntries
    BY DEF OpenIndex, At
  <1>3. NoEntries \in Lists /\ DOMAIN NoEntries = {}
    <2>1. NoEntries \in [{} -> EntryType]
      BY DEF NoEntries
    <2> QED
      BY <2>1 DEF Lists, NoEntries
  <1>4. /\ call' \in [Proc -> {Idle} \cup CallType] /\ c.at = "writeIndex"
        /\ c.dag = d /\ c.op = call[p].op /\ c.next = call[p].next
        /\ c.content = call[p].content /\ c.entries = call[p].entries
        /\ \A entry : Listed(c, entry) = Listed(call[p], entry)
    BY <1>2, Goes
  <1> HIDE DEF c, d
  <1>5. ~At(p, "idle")' /\ (Known(p))' = Known(p) /\ (Target(p))' = Target(p)
    BY <1>2, <1>4 DEF Known, Target, At, c, d
  <1>6. Types'
    BY <1>2, <1>3, <1>4 DEF StoreIInv, Types
  <1>7. Asked'
    BY <1>1, <1>2, <1>4, <1>5 DEF StoreIInv, Asked, c
  <1>8. Unmade' /\ Targets'
    BY <1>1, <1>2, <1>4, <1>5 DEF StoreIInv, Unmade, Targets, c, d
  <1>9. ListsBehind'
    BY <1>1, <1>2, <1>3, <1>4, <1>5 DEF StoreIInv, ListsBehind, c, d
  <1>10. ListsExact'
    <2>1. SUFFICES ASSUME crashes = 0
                   PROVE  /\ \A e \in Dag \ {d} : record[e].file # "absent" => Exactly(Known(p), e)
                          /\ c.op = "create" => Exact(NewEntry, Target(p))
                          /\ c.op # "create" => /\ d \in DOMAIN Known(p)
                                                /\ Exact(Listed(c, Known(p)[d]), Target(p))
      BY <1>1, <1>2, <1>4, <1>5 DEF ListsExact, Exactly, c
    <2> QED
      BY <1>2, <1>4, <2>1 DEF StoreIInv, ListsExact, d
  <1> QED
    BY <1>6, <1>7, <1>8, <1>9, <1>10 DEF StoreIInv

\* What an operation writes is the list it read, with its own entry.
LEMMA RelistedIsListed ==
  ASSUME NEW c \in CallType, c.op # "wave",
         c.op = "status" => c.next \in DagStatus, c.op = "step" => c.next \in StepClass,
         c.op = "create" \/ c.dag \in DOMAIN c.entries
  PROVE  /\ Relisted(c) \in Lists
         /\ DOMAIN Relisted(c) = DOMAIN c.entries \cup {c.dag}
         /\ \A e \in DOMAIN c.entries \ {c.dag} : Relisted(c)[e] = c.entries[e]
         /\ c.op = "create" => Relisted(c)[c.dag] = NewEntry
         /\ c.op # "create" => Relisted(c)[c.dag] = Listed(c, c.entries[c.dag])
  <1> DEFINE E == c.entries
             d == c.dag
             R == Relisted(c)
  <1>1. d \in Dag /\ E \in Lists /\ c.op \in {"create", "step", "status"}
    BY DEF CallType
  <1>2. PICK D \in SUBSET Dag : E \in [D -> EntryType]
    BY <1>1 DEF Lists
  <1>3. NewEntry \in EntryType
    BY DEF NewEntry, EntryType, DagStatus
  <1>4. d \in D => Listed(c, E[d]) \in EntryType
    <2>1. d \in D => E[d] \in EntryType
      BY <1>2
    <2> QED
      BY <2>1, ListedTyped
  <1>5. CASE c.op = "create"
    <2>1. R = [e \in D \cup {d} |-> IF e = d THEN NewEntry ELSE E[e]]
      BY <1>2, <1>5 DEF Relisted
    <2>2. R \in [D \cup {d} -> EntryType]
      BY <1>2, <1>3, <2>1
    <2> QED
      BY <1>1, <1>2, <1>5, <2>1, <2>2 DEF Lists
  <1>6. CASE c.op # "create"
    <2>1. d \in D
      BY <1>2, <1>6
    <2>2. R = [E EXCEPT ![d] = Listed(c, E[d])]
      <3>1. CASE c.op = "status"
        BY <1>2, <2>1, <3>1 DEF Relisted, Listed
      <3>2. CASE c.op = "step"
        BY <1>2, <2>1, <3>2 DEF Relisted, Listed
      <3> QED
        BY <1>1, <1>6, <3>1, <3>2
    <2> HIDE DEF R
    <2>3. /\ R \in [D -> EntryType] /\ R[d] = Listed(c, E[d])
          /\ \A e \in D \ {d} : R[e] = E[e]
      BY <1>2, <1>4, <2>1, <2>2
    <2>4. R \in Lists /\ DOMAIN R = D /\ DOMAIN E = D /\ D = D \cup {d}
      BY <1>2, <2>1, <2>3 DEF Lists
    <2> QED
      BY <1>6, <2>3, <2>4 DEF R
  <1> QED
    BY <1>5, <1>6

LEMMA WriteIndexKeeps ==
  ASSUME SingleProcess, StoreIInv, NEW p \in Proc, WriteIndex(p)
  PROVE  StoreIInv'
  <1> DEFINE c == call[p]
             d == c.dag
             E == c.entries
             R == index'.entries
  <1>1. \A q \in Proc : q = p
    BY DEF SingleProcess
  <1>2. /\ ~At(p, "idle") /\ c.at = "writeIndex" /\ UNCHANGED <<record, crashes>>
        /\ R = Relisted(c) /\ call' = [call EXCEPT ![p] = Idle]
    BY DEF WriteIndex, At
  <1>3. /\ c \in CallType /\ call \in [Proc -> {Idle} \cup CallType]
        /\ record \in [Dag -> RecordType] /\ crashes \in Nat /\ d \in Dag /\ E \in Lists
    BY <1>2, Underway DEF StoreIInv, Types
  <1>4. Known(p) = E /\ Target(p) = record[d]
    BY <1>2 DEF Known, Target
  <1>5. At(p, "idle")' /\ call' \in [Proc -> {Idle} \cup CallType]
    BY <1>2, <1>3 DEF At, Idle
  <1>6. /\ c.op # "wave" /\ (c.op = "create" \/ d \in DOMAIN E)
        /\ c.op = "status" => c.next \in DagStatus
        /\ c.op = "step" => c.next \in StepClass
    BY <1>2, <1>4 DEF StoreIInv, Asked, ListsBehind
  <1>7. /\ R \in Lists /\ DOMAIN R = DOMAIN E \cup {d}
        /\ \A e \in DOMAIN E \ {d} : R[e] = E[e]
        /\ c.op = "create" => R[d] = NewEntry
        /\ c.op # "create" => R[d] = Listed(c, E[d])
    BY <1>2, <1>3, <1>6, RelistedIsListed
  <1>8. /\ \A e \in DOMAIN E : Behind(E[e], record[e])
        /\ d \in DOMAIN E => Behind(Listed(c, E[d]), record[d])
    BY <1>2, <1>4 DEF StoreIInv, ListsBehind
  <1>9. crashes = 0 =>
          /\ \A e \in Dag \ {d} : record[e].file # "absent" => Exactly(E, e)
          /\ c.op = "create" => Exact(NewEntry, record[d])
          /\ c.op # "create" => Exact(Listed(c, E[d]), record[d])
    BY <1>2, <1>4 DEF StoreIInv, ListsExact
  <1> HIDE DEF c, d, E, R
  <1>10. Types'
    BY <1>2, <1>5, <1>7 DEF StoreIInv, Types, R
  <1>11. Asked' /\ Unmade' /\ Targets'
    BY <1>1, <1>2, <1>5 DEF StoreIInv, Asked, Unmade, Targets
  <1>12. ListsBehind'
    <2>1. Behind(NewEntry, record[d])
      BY <1>3, NewIsBehind
    <2>2. \A e \in DOMAIN R : Behind(R[e], record[e])
      BY <1>6, <1>7, <1>8, <2>1
    <2> QED
      BY <1>1, <1>2, <1>5, <2>2 DEF ListsBehind, R
  <1>13. ListsExact'
    <2>1. SUFFICES ASSUME crashes = 0, NEW e \in Dag, record[e].file # "absent"
                   PROVE  e \in DOMAIN R /\ Exact(R[e], record[e])
      BY <1>1, <1>2, <1>5 DEF ListsExact, Exactly, R
    <2>2. CASE e = d
      BY <1>7, <1>9, <2>1, <2>2
    <2>3. CASE e # d
      BY <1>7, <1>9, <2>1, <2>3 DEF Exactly
    <2> QED
      BY <2>2, <2>3
  <1> QED
    BY <1>10, <1>11, <1>12, <1>13 DEF StoreIInv

-----------------------------------------------------------------------------
LEMMA StoreStep == ASSUME SingleProcess PROVE StoreIInv /\ [Next]_vars => StoreIInv'
  <1> SUFFICES ASSUME StoreIInv, [Next]_vars PROVE StoreIInv'
    OBVIOUS
  <1>1. CASE UNCHANGED vars
    BY <1>1 DEF vars, StoreIInv, Types, Asked, Unmade, Targets, ListsBehind, ListsExact,
                At, Known, Target, Exactly
  <1>2. CASE Next
    <2>1. PICK p \in Proc :
            \/ Access(p) \/ Crash(p)
            \/ \E d \in Dag :
                 \/ Create(p, d) \/ UpdateDagWave(p, d)
                 \/ \E s \in Step, next \in StepClass : UpdateStep(p, d, s, next)
                 \/ \E status \in DagStatus : UpdateDagStatus(p, d, status)
      BY <1>2 DEF Next
    <2>2. CASE Access(p)
      BY <2>2, OpenRecordKeeps, WriteRecordKeeps, ReadIndexKeeps, OpenIndexKeeps, WriteIndexKeeps
         DEF Access
    <2>3. CASE Crash(p)
      BY <2>3, CrashKeeps
    <2>4. ASSUME NEW d \in Dag, Create(p, d) PROVE StoreIInv'
      BY <2>4, CreateKeeps
    <2>5. ASSUME NEW d \in Dag, UpdateDagWave(p, d) PROVE StoreIInv'
      BY <2>5, UpdateDagWaveKeeps
    <2>6. ASSUME NEW d \in Dag, NEW s \in Step, NEW next \in StepClass, UpdateStep(p, d, s, next)
          PROVE  StoreIInv'
      BY <2>6, UpdateStepKeeps
    <2>7. ASSUME NEW d \in Dag, NEW status \in DagStatus, UpdateDagStatus(p, d, status)
          PROVE  StoreIInv'
      BY <2>7, UpdateDagStatusKeeps
    <2> QED
      BY <2>1, <2>2, <2>3, <2>4, <2>5, <2>6, <2>7
  <1> QED
    BY <1>1, <1>2

(* The list never shows more than the records hold, wherever the process was *)
(* cut short, any number of times.                                           *)
THEOREM ListIsNeverAhead == ASSUME SingleProcess PROVE Spec => []IndexNeverAhead
  <1>1. StoreIInv => IndexNeverAhead
    BY DEF StoreIInv, ListsBehind, Behind, Done, IndexNeverAhead, Completed, Failed
  <1> QED
    BY <1>1, StoreInit, StoreStep, PTL DEF Spec

(* Before the first crash the list is exact between operations: the counters *)
(* kept by increments are the numbers of steps that are done and failed.     *)
THEOREM ListIsExact == ASSUME SingleProcess PROVE Spec => []ExactWhileUnharmed
  <1>1. StoreIInv => ExactWhileUnharmed
    <2> SUFFICES ASSUME StoreIInv, crashes = 0, \A p \in Proc : At(p, "idle"),
                        NEW d \in Dag, record[d].file # "absent"
                 PROVE  d \in DOMAIN index.entries /\ index.entries[d] = Summary(d)
      BY DEF ExactWhileUnharmed
    <2>1. Exactly(index.entries, d)
      BY DEF SingleProcess, StoreIInv, ListsExact
    <2>2. index.entries[d] \in EntryType
      BY <2>1, ListTyped DEF StoreIInv, Types, Exactly
    <2>3. /\ index.entries[d].status = record[d].status
          /\ index.entries[d].completed = Completed(d)
          /\ index.entries[d].failed = Failed(d)
      BY <2>1 DEF Exactly, Exact, Done, Completed, Failed
    <2> QED
      BY <2>1, <2>2, <2>3 DEF Exactly, EntryType, Summary
  <1> QED
    BY <1>1, StoreInit, StoreStep, PTL DEF Spec
=============================================================================
