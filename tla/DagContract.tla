---------------------------- MODULE DagContract ----------------------------
(***************************************************************************)
(* What the DAG subsystem promises about one submitted DAG, with no         *)
(* processes, waves, snapshots, turns or retry counters: the statuses a     *)
(* reader of acp_dag(status) sees, and which steps have an agent at work.   *)
(* Distilled from dispatchStep, gateAllowsDispatch, detectCompletion,       *)
(* cancel and resume of src/src/dag/dag-executor.ts.                        *)
(***************************************************************************)
EXTENDS Naturals

CONSTANTS Step, DependsOn, Gate, FailFast

VARIABLES
  status, \* of the DAG
  step,   \* of each step
  live    \* the steps an agent works on

vars == <<status, step, live>>

Settled(s) == step[s] \in {"completed", "failed", "skipped", "cancelled"}

Open(s) == step[s] \in {"pending", "running"}

(* Does an outcome of the dependencies let s run at all? *)
Satisfied(s) ==
  \/ Gate[s] = "after" \/ ~FailFast
  \/ \A d \in DependsOn[s] : step[d] = "completed"

Ripe(s) == status = "running" /\ step[s] = "pending" /\ \A d \in DependsOn[s] : Settled(d)

Init ==
  /\ status = "none"
  /\ step = [s \in Step |-> "pending"]
  /\ live = {}

Submit ==
  /\ status = "none"
  /\ status' = "pending"
  /\ UNCHANGED <<step, live>>

(* Execution begins, or begins again after an interruption.  A DAG that was *)
(* cancelled while it waited for its resume is run again too: the code's    *)
(* known departure from "cancelled is final".                               *)
Run ==
  /\ status \in {"pending", "running", "cancelled"} /\ live = {}
  /\ status' = "running"
  /\ UNCHANGED <<step, live>>

Launch(s) ==
  /\ Ripe(s) /\ Satisfied(s)
  /\ step' = [step EXCEPT ![s] = "running"]
  /\ live' = live \cup {s}
  /\ UNCHANGED status

(* Closed circuit or unresolved prompt: failed without an agent. *)
Refuse(s) ==
  /\ Ripe(s) /\ Satisfied(s)
  /\ step' = [step EXCEPT ![s] = "failed"]
  /\ UNCHANGED <<status, live>>

Skip(s) ==
  /\ Ripe(s) /\ ~Satisfied(s)
  /\ step' = [step EXCEPT ![s] = "skipped"]
  /\ UNCHANGED <<status, live>>

(* The agent's answer counts even when the step was cancelled meanwhile. *)
Finish(s, outcome) ==
  /\ s \in live
  /\ step' = [step EXCEPT ![s] = outcome]
  /\ live' = live \ {s}
  /\ UNCHANGED status

(* A failed attempt is repeated in place. *)
Retry(s) ==
  /\ s \in live
  /\ step' = [step EXCEPT ![s] = "running"]
  /\ UNCHANGED <<status, live>>

(* The agents of a process die with it; resume reopens what was running. *)
Interrupt == live' = {} /\ UNCHANGED <<status, step>>

Reopen(s) ==
  /\ status = "running" /\ step[s] = "running" /\ live = {}
  /\ step' = [step EXCEPT ![s] = "pending"]
  /\ UNCHANGED <<status, live>>

CancelStep(s) ==
  /\ status \in {"pending", "running", "stale"} /\ Open(s)
  /\ step' = [step EXCEPT ![s] = "cancelled"]
  /\ UNCHANGED <<status, live>>

CancelDag ==
  /\ status \in {"pending", "running", "stale"} /\ ~\E s \in Step : Open(s)
  /\ status' = "cancelled"
  /\ UNCHANGED <<step, live>>

MarkStale ==
  /\ status = "running" /\ live = {}
  /\ status' = "stale"
  /\ UNCHANGED <<step, live>>

Conclude ==
  /\ status = "running" /\ live = {} /\ \A s \in Step : Settled(s)
  /\ status' = IF \A s \in Step : step[s] = "completed" THEN "completed" ELSE "failed"
  /\ UNCHANGED <<step, live>>

Next ==
  \/ Submit \/ Run \/ Interrupt \/ CancelDag \/ MarkStale \/ Conclude
  \/ \E s \in Step :
       \/ Launch(s) \/ Refuse(s) \/ Skip(s) \/ Retry(s) \/ Reopen(s) \/ CancelStep(s)
       \/ \E outcome \in {"completed", "failed"} : Finish(s, outcome)

Spec == Init /\ [][Next]_vars

=============================================================================
