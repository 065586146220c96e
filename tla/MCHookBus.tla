------------------------------ MODULE MCHookBus ------------------------------
(* Event 1 is a completion with a script that hangs; event 2 may be dropped. *)
EXTENDS HookBus

KindOf == [e \in Event |-> IF e = 1 THEN "completion" ELSE "plain"]
=============================================================================
