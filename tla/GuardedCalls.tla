---------------------------- MODULE GuardedCalls ----------------------------
(***************************************************************************)
(* Tool calls through safeExecute(): the circuit breaker around either an  *)
(* operation on one session (acp_spawn, acp_msg) or an acp_fanout to an    *)
(* alias, whose agents have circuits of their own in the same breaker.     *)
(***************************************************************************)
EXTENDS CircuitBreaker, AliasResolver

ASSUME RequestsAreCalls == Request \subseteq Call     \* those that may be a fanout

VARIABLE purpose          \* what a call in progress does: "session" or "fanout"

vars == <<breakerVars, aliasVars, purpose>>

Init ==
  /\ BreakerInit
  /\ AliasInit
  /\ purpose = [c \in Call |-> "session"]

Guard(c) ==
  /\ Admit(c)
  /\ \/ purpose' = [purpose EXCEPT ![c] = "session"] /\ UNCHANGED aliasVars
     \/ c \in Request /\ purpose' = [purpose EXCEPT ![c] = "fanout"] /\ Resolve(c)

\* broadcast() turns the errors of its agents into results: a fanout that ends is a
\* success for the breaker.
Succeeds(c) ==
  /\ Succeed(c)
  /\ \/ purpose[c] = "session" /\ UNCHANGED request
     \/ /\ purpose[c] = "fanout" /\ request[c].stage \notin Unsettled
        /\ request' = [request EXCEPT ![c] = NoRequest]
  /\ purpose' = [purpose EXCEPT ![c] = "session"]
  /\ UNCHANGED <<agentFailures, agentCooled, working>>

Errs(c) ==
  /\ purpose[c] = "session"
  /\ Fail(c)
  /\ UNCHANGED <<aliasVars, purpose>>

\* A stalled call is given up; its request and its agents go on.
Stalls(c) ==
  /\ Fail(c)
  /\ purpose' = [purpose EXCEPT ![c] = "session"]
  /\ UNCHANGED aliasVars

AliasStep(q) == (AgentEnds(q) \/ RaceTimeout(q)) /\ UNCHANGED <<breakerVars, purpose>>

Next ==
  \/ \E c \in Call : Guard(c) \/ Succeeds(c) \/ Errs(c) \/ Stalls(c)
  \/ \E q \in Request : AliasStep(q)
  \/ CoolDown /\ UNCHANGED <<aliasVars, purpose>>
  \/ \E a \in Agent : AgentCoolsDown(a) /\ UNCHANGED <<breakerVars, purpose>>

Spec == Init /\ [][Next]_vars

\* Agents end what they were asked, the race has a timer and continuations run.  A stall
\* timer fires only for a call that hangs, and nothing makes a call hang.
FairSpec ==
  /\ Spec
  /\ \A c \in Call : WF_vars(Succeeds(c) \/ Errs(c))
  /\ \A q \in Request : WF_vars(AliasStep(q))

\* Every call that was let through returns, and the probe of a half-open breaker
\* decides it, without the stall timer: a race or a failover always settles.
EveryCallReturns ==
  /\ \A c \in Call : call[c] # "none" ~> call[c] = "none"
  /\ circuit = "half-open" ~> circuit # "half-open"

=============================================================================
