---------------------------- MODULE DagAdmission ----------------------------
(***************************************************************************)
(* Admission of a submitted DAG: DagValidator (src/src/dag/dag-validator.ts) *)
(* looks for dangling references and, by depth-first search, for a cycle;   *)
(* acp_dag(submit) in src/index.ts creates and executes the DAG only when it *)
(* found none, and execute() then calls topologicalSort on the same tasks.  *)
(***************************************************************************)
EXTENDS TopologicalSort, Sequences, SequencesExt

VARIABLES
  color,    \* "white", "gray" (on the current path) or "black"
  path,     \* the DFS stack: frames [id, rest] with the edges still to follow
  errors,   \* the kinds of error found
  verdict   \* "validating", "accepted" or "rejected"

dfsVars == <<color, path, errors, verdict>>
admissionVars == <<dependsOn, sortVars, dfsVars>>

AdmissionInit ==
  /\ Init
  /\ color = [t \in Task |-> "white"]
  /\ path = <<>>
  /\ errors = {}
  /\ verdict = "validating"

DanglingRefs == \E t \in Task : dependsOn[t] \cap Unknown # {}

Validating == verdict = "validating" /\ UNCHANGED <<dependsOn, sortVars>>

Frame(t) == [id |-> t, rest |-> dependsOn[t]]

(* Outer loop: dfs(t) for a task not explored yet; none once a cycle is found. *)
StartDfs(t) ==
  /\ Validating
  /\ path = <<>> /\ "cycle" \notin errors /\ color[t] = "white"
  /\ path' = <<Frame(t)>>
  /\ color' = [color EXCEPT ![t] = "gray"]
  /\ UNCHANGED <<errors, verdict>>

(* One edge id -> dep of the frame on top.  dep may be no task (ignored here, *)
(* reported as dangling), explored (skipped), new (descend) or on the path.   *)
Crossed(dep) == [path EXCEPT ![Len(path)].rest = @ \ {dep}]

OnTop(dep) == Validating /\ path # <<>> /\ dep \in Last(path).rest

SkipEdge(dep) ==
  /\ OnTop(dep)
  /\ dep \in Task => color[dep] = "black"
  /\ path' = Crossed(dep)
  /\ UNCHANGED <<color, errors, verdict>>

Descend(dep) ==
  /\ OnTop(dep)
  /\ dep \in Task /\ color[dep] = "white"
  /\ path' = Append(Crossed(dep), Frame(dep))
  /\ color' = [color EXCEPT ![dep] = "gray"]
  /\ UNCHANGED <<errors, verdict>>

(* A back edge: the cycle is reported and every caller of dfs returns true. *)
BackEdge(dep) ==
  /\ OnTop(dep)
  /\ dep \in Task /\ color[dep] = "gray"
  /\ errors' = errors \cup {"cycle"}
  /\ path' = <<>>
  /\ UNCHANGED <<color, verdict>>

Blacken_KeepsGray(t) == [color EXCEPT ![t] = "gray"]

Blacken(t) == [color EXCEPT ![t] = "black"]

Return ==
  /\ Validating
  /\ path # <<>> /\ Last(path).rest = {}
  /\ color' = Blacken(Last(path).id)
  /\ path' = Front(path)
  /\ UNCHANGED <<errors, verdict>>

SearchDone == path = <<>> /\ ("cycle" \in errors \/ \A t \in Task : color[t] # "white")

Reject == errors # {} \/ DanglingRefs

Reply ==
  /\ Validating
  /\ SearchDone
  /\ verdict' = IF Reject THEN "rejected" ELSE "accepted"
  /\ UNCHANGED <<color, path, errors>>

(* execute() of an accepted DAG. *)
Execute == verdict = "accepted" /\ BeginSort /\ UNCHANGED dfsVars

AdmissionNext ==
  \/ \E t \in Task : StartDfs(t)
  \/ \E dep \in Task \cup Unknown : SkipEdge(dep) \/ Descend(dep) \/ BackEdge(dep)
  \/ Return \/ Reply \/ Execute
  \/ SortStep /\ UNCHANGED dfsVars

AdmissionSpec ==
  AdmissionInit /\ [][AdmissionNext]_admissionVars /\ WF_admissionVars(AdmissionNext)

-----------------------------------------------------------------------------
(* The search path is a path of the graph.                                   *)
AdmissionTypeOK ==
  /\ TypeOK
  /\ color \in [Task -> {"white", "gray", "black"}]
  /\ path \in Seq([id : Task, rest : SUBSET (Task \cup Unknown)])
  /\ \A i \in DOMAIN path :
       /\ path[i].rest \subseteq dependsOn[path[i].id]
       /\ i > 1 => path[i].id \in dependsOn[path[i - 1].id]
  /\ errors \subseteq {"cycle"}
  /\ verdict \in {"validating", "accepted", "rejected"}

(* A set of tasks each of which depends on a member of the set: a cycle. *)
Cyclic == \E S \in SUBSET Task : S # {} /\ \A t \in S : dependsOn[t] \cap S # {}

(* The validator answers, and rejects exactly the graphs that have a cycle   *)
(* or a dangling reference, whatever order the search takes.                 *)
RejectsExactlyTheInvalid ==
  /\ verdict = "accepted" => ~Cyclic /\ ~DanglingRefs
  /\ verdict = "rejected" => Cyclic \/ DanglingRefs

(* "Should be unreachable for a validated DAG": an accepted DAG is never     *)
(* refused by topologicalSort after its record was created.                  *)
AcceptedNeverThrows == sortPc # "threw"

(* Both loops end: a submission is rejected or gets its waves. *)
SubmissionAnswered == <>(verdict = "rejected" \/ sortPc = "sorted")

=============================================================================
