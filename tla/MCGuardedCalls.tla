--------------------------- MODULE MCGuardedCalls ---------------------------
(* An alias of three agents, and two tool calls at a time.                 *)
EXTENDS GuardedCalls

CONSTANTS a1, a2, a3
MCAlias == <<a1, a2, a3>>

=============================================================================
