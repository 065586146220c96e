-------------------------- MODULE TopologicalSort --------------------------
(***************************************************************************)
(* DagExecutor.topologicalSort (src/src/dag/dag-executor.ts): group tasks   *)
(* into waves by peeling, pass after pass, the tasks whose dependencies all *)
(* have a wave.  A Set is iterated while elements are deleted from it, so a *)
(* task sees the waves assigned earlier in the same pass; the order inside  *)
(* a pass is the declaration order, here any order.                         *)
(***************************************************************************)
EXTENDS Naturals, FiniteSets

CONSTANTS
  Task,    \* the ids of the tasks
  Unknown  \* ids a dependsOn may mention although no task has them

ASSUME TaskAssumption == IsFiniteSet(Task) /\ Task \cap Unknown = {}

VARIABLES
  dependsOn, \* task -> ids it depends on; fixed at the start
  waveOf,    \* the waves assigned so far: a function on the peeled tasks
  unvisited, \* tasks the current pass has still to look at
  progressed,
  sortPc     \* "idle", "peeling", "sorted" or "threw"

sortVars == <<waveOf, unvisited, progressed, sortPc>>

Remaining == Task \ DOMAIN waveOf

SortInit ==
  /\ waveOf = [t \in {} |-> 0]
  /\ unvisited = {}
  /\ progressed = FALSE
  /\ sortPc = "idle"

BeginSort ==
  /\ sortPc = "idle"
  /\ sortPc' = "peeling"
  /\ unvisited' = Task
  /\ UNCHANGED <<dependsOn, waveOf, progressed>>

HasWave(t) == dependsOn[t] \subseteq DOMAIN waveOf

(* Faulty variants are named X_<fault>, each before the definition it stands  *)
(* in for; nothing refers to them but PROJECT.json's mutants.                 *)
(* w = max over the dependencies of their wave + 1, or 0 without any. *)
NextWaveOf_FirstDependency(t, w) ==
  \/ dependsOn[t] = {} /\ w = 0
  \/ \E d \in dependsOn[t] : w = waveOf[d] + 1

NextWaveOf(t, w) ==
  /\ \A d \in dependsOn[t] : waveOf[d] < w
  /\ IF dependsOn[t] = {} THEN w = 0 ELSE \E d \in dependsOn[t] : w = waveOf[d] + 1

Peel(t) ==
  /\ sortPc = "peeling"
  /\ t \in unvisited /\ HasWave(t)
  /\ \E w \in 0 .. Cardinality(Task) :
       /\ NextWaveOf(t, w)
       /\ waveOf' = [u \in DOMAIN waveOf \cup {t} |-> IF u = t THEN w ELSE waveOf[u]]
  /\ unvisited' = unvisited \ {t}
  /\ progressed' = TRUE
  /\ UNCHANGED <<dependsOn, sortPc>>

PassOver(t) ==
  /\ sortPc = "peeling"
  /\ t \in unvisited /\ ~HasWave(t)
  /\ unvisited' = unvisited \ {t}
  /\ UNCHANGED <<dependsOn, waveOf, progressed, sortPc>>

NextPass_Single == Remaining # {} /\ unvisited # {}

NextPass == Remaining # {} /\ progressed

EndPass ==
  /\ sortPc = "peeling"
  /\ unvisited = {}
  /\ IF NextPass
     THEN unvisited' = Remaining /\ progressed' = FALSE /\ UNCHANGED sortPc
     ELSE /\ sortPc' = IF Remaining = {} THEN "sorted" ELSE "threw"
          /\ UNCHANGED <<unvisited, progressed>>
  /\ UNCHANGED <<dependsOn, waveOf>>

SortStep ==
  \/ \E t \in Task : Peel(t) \/ PassOver(t)
  \/ EndPass

Init == dependsOn \in [Task -> SUBSET (Task \cup Unknown)] /\ SortInit

Next == BeginSort \/ SortStep

Spec == Init /\ [][Next]_<<dependsOn, sortVars>>

-----------------------------------------------------------------------------
(* Waves are numbers, assigned to tasks only.                                *)
TypeOK ==
  /\ dependsOn \in [Task -> SUBSET (Task \cup Unknown)]
  /\ DOMAIN waveOf \subseteq Task
  /\ waveOf \in [DOMAIN waveOf -> 0 .. Cardinality(Task)]
  /\ unvisited \subseteq Task
  /\ progressed \in BOOLEAN
  /\ sortPc \in {"idle", "peeling", "sorted", "threw"}

(* What a caller relies on: every task has a wave later than all of its      *)
(* dependencies' waves, and no later than needed: right after one of them.   *)
IsLayering ==
  \A t \in DOMAIN waveOf :
    /\ dependsOn[t] \subseteq DOMAIN waveOf
    /\ \A d \in dependsOn[t] : waveOf[d] < waveOf[t]
    /\ waveOf[t] > 0 => \E d \in dependsOn[t] : waveOf[t] = waveOf[d] + 1

SortedIsLayering == sortPc = "sorted" => DOMAIN waveOf = Task /\ IsLayering

(* The defensive throw happens only for tasks no execution could ever start: *)
(* each one left depends on another one left or on an id that is no task.    *)
ThrowsOnlyIfStuck ==
  sortPc = "threw" =>
    Remaining # {} /\ \A t \in Remaining : \E d \in dependsOn[t] : d \in Remaining \cup Unknown

=============================================================================
