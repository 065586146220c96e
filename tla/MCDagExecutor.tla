--------------------------- MODULE MCDagExecutor ---------------------------
(* Instances of DagExecutor for TLC. *)
EXTENDS DagExecutor

(* Two roots, a step that needs one of them, and a step after both layers:   *)
(*   a, b  ->  c (needs a, quotes a)  ->  d (after c and b, quotes b).       *)
Steps4 == {"a", "b", "c", "d"}
Deps4 == [a |-> {}, b |-> {}, c |-> {"a"}, d |-> {"b", "c"}]
Gate4 == [a |-> "needs", b |-> "needs", c |-> "needs", d |-> "after"]
Refs4 == [a |-> {}, b |-> {}, c |-> {"a"}, d |-> {"b"}]

(* A single step. *)
Steps1 == {"a"}
Deps1 == [a |-> {}]
Gate1 == [a |-> "needs"]
Refs1 == [a |-> {}]
=============================================================================
