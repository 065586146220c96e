--------------------------- MODULE AliasResolver ---------------------------
(***************************************************************************)
(* AliasResolver.resolve(): an alias is answered by the first of its       *)
(* agents (race) or by one after the other (failover), with the circuit    *)
(* each agent has in the breaker.  The race aborts controllers that nobody *)
(* listens to: the losers go on and are still counted.                     *)
(***************************************************************************)
EXTENDS Naturals, Sequences, SequencesExt

CONSTANTS Request,        \* calls of resolve() that can be in progress
          Alias,          \* the agents of the alias, in order
          MaxAgentFailures

ASSUME AliasAssumption ==
  /\ Alias \in Seq(ToSet(Alias)) /\ Alias # <<>> /\ IsInjective(Alias)
  /\ MaxAgentFailures \in Nat \ {0}

Agent == ToSet(Alias)

\* The agents asked are a set; the alias has their order.
Position(a) == CHOOSE i \in DOMAIN Alias : Alias[i] = a
First(agents) == CHOOSE a \in agents : \A b \in agents : Position(a) <= Position(b)

VARIABLES
  agentFailures,  \* consecutive failures of each agent, counted up to the maximum
  agentCooled,    \* agents whose last failure is more than resetTimeoutMs ago
  request,        \* each resolve(): its stage, the agents it may use, and who failed
  working         \* of each request, the agents at work, the losers included

aliasVars == <<agentFailures, agentCooled, request, working>>

NoRequest == [stage |-> "none", agents |-> {}, failed |-> {}, winner |-> {}]
Unsettled == {"racing", "failing over"}

AliasInit ==
  /\ agentFailures = [a \in Agent |-> 0]
  /\ agentCooled = {}
  /\ request = [q \in Request |-> NoRequest]
  /\ working = [q \in Request |-> {}]

\* isHealthy(): an open circuit that has cooled down lets everybody through.
IsHealthy(a) == agentFailures[a] < MaxAgentFailures \/ a \in agentCooled

AgentCoolsDown(a) ==
  /\ ~IsHealthy(a)
  /\ agentCooled' = agentCooled \cup {a}
  /\ UNCHANGED <<agentFailures, request, working>>

RecordSuccess(a) == agentFailures' = [agentFailures EXCEPT ![a] = 0] /\ UNCHANGED agentCooled

RecordFailure(a) ==
  /\ agentFailures' = [agentFailures EXCEPT ![a] =
                         IF @ < MaxAgentFailures THEN @ + 1 ELSE @]
  /\ agentCooled' = agentCooled \ {a}

-----------------------------------------------------------------------------
(* A request.                                                              *)

\* resolve() asks whoever is healthy now; without anyone it throws.
Resolve(q) ==
  /\ request[q].stage \notin Unsettled /\ working[q] = {}
  /\ LET healthy == {a \in Agent : IsHealthy(a)}
     IN \/ /\ healthy = {}
           /\ request' = [request EXCEPT ![q] = [NoRequest EXCEPT !.stage = "unhealthy"]]
           /\ UNCHANGED working
        \/ /\ healthy # {}
           /\ \E strategy \in Unsettled :
                /\ request' = [request EXCEPT ![q] =
                     [NoRequest EXCEPT !.stage = strategy, !.agents = healthy]]
                /\ working' = [working EXCEPT ![q] =
                     IF strategy = "racing" THEN healthy ELSE {First(healthy)}]
  /\ UNCHANGED <<agentFailures, agentCooled>>

AgentAnswers(q, a) ==
  /\ a \in working[q]
  /\ working' = [working EXCEPT ![q] = @ \ {a}]
  /\ RecordSuccess(a)
  /\ request' = IF request[q].stage \in Unsettled
                THEN [request EXCEPT ![q].stage = "resolved", ![q].winner = {a}]
                ELSE request

\* Mutants of AllFailed: the failures are compared with the alias, whose unhealthy agents
\* were not asked; one failure is enough.  Checked to violate EveryCallReturns and
\* AnswersCount.
AllFailed_OfAlias(q, failed) == failed = Agent
AllFailed_AtFirst(q, failed) == failed # {}

AllFailed(q, failed) == failed = request[q].agents

\* Failover goes on with the next agent of the list it made at first, healthy or not.
AgentFails(q, a) ==
  /\ a \in working[q]
  /\ RecordFailure(a)
  /\ IF request[q].stage \notin Unsettled
     THEN /\ working' = [working EXCEPT ![q] = @ \ {a}]
          /\ UNCHANGED request
     ELSE LET r == request[q]
              failed == r.failed \cup {a}
              untried == r.agents \ failed
          IN /\ request' = [request EXCEPT ![q].failed = failed,
                              ![q].stage = IF AllFailed(q, failed) THEN "exhausted" ELSE @]
             /\ working' = [working EXCEPT ![q] =
                  (@ \ {a}) \cup IF r.stage = "failing over" /\ untried # {}
                                 THEN {First(untried)} ELSE {}]

RaceTimeout(q) ==
  /\ request[q].stage = "racing"
  /\ request' = [request EXCEPT ![q].stage = "timed out"]
  /\ UNCHANGED <<agentFailures, agentCooled, working>>

AgentEnds(q) == \E a \in Agent : AgentAnswers(q, a) \/ AgentFails(q, a)

-----------------------------------------------------------------------------

\* No answer and no failure is lost or counted for somebody else: an open race waits
\* for exactly the agents that have not failed, a failover has asked them in order and
\* one at a time, and a request is given up only when everybody it could ask failed.
AnswersCount ==
  \A q \in Request :
    LET r == request[q]
        asked == r.agents
        InOrder(tried) == /\ tried \subseteq asked
                          /\ \A a \in tried, b \in asked :
                               Position(b) < Position(a) => b \in tried
    IN /\ r.stage = "racing" => /\ working[q] # {} /\ working[q] \cap r.failed = {}
                                /\ working[q] \cup r.failed = asked
       /\ r.stage = "failing over" => /\ \E a \in asked : working[q] = {a}
                                      /\ InOrder(r.failed)
                                      /\ InOrder(r.failed \cup working[q])
       /\ r.stage = "exhausted" => r.failed = asked /\ working[q] = {}
       /\ r.stage = "resolved" => r.winner \cap (r.failed \cup working[q]) = {}

AliasTypeOK ==
  /\ agentFailures \in [Agent -> 0..MaxAgentFailures]
  /\ agentCooled \subseteq Agent
  /\ working \in [Request -> SUBSET Agent]
  /\ request \in [Request ->
       [stage : Unsettled \cup {"none", "unhealthy", "resolved", "exhausted", "timed out"},
        agents : SUBSET Agent, failed : SUBSET Agent, winner : SUBSET Agent]]

=============================================================================
