-------------------------- MODULE GuardedCallsProofs --------------------------
(***************************************************************************)
(* Proofs about the tool calls through safeExecute(), for any number of    *)
(* calls, any alias and any number of failures that open a circuit: the    *)
(* state of the circuit breaker, and the books of the requests to an alias.*)
(***************************************************************************)
EXTENDS GuardedCalls, WellFoundedInduction, TLAPS

BreakerIInv == BreakerTypeOK /\ BreakerConsistent

LEMMA InitBreaker == BreakerInit => BreakerIInv
  <1>1. 0 < MaxFailures /\ 0 \in 0..MaxFailures
    BY MaxFailuresPositive
  <1>2. BreakerInit => BreakerTypeOK
    BY <1>1 DEF BreakerInit, BreakerTypeOK
  <1>3. BreakerInit => BreakerConsistent
    BY <1>1 DEF BreakerInit, BreakerConsistent
  <1> QED
    BY <1>2, <1>3 DEF BreakerIInv

\* While the circuit is half-open the flag is set, so that the call that is let through
\* finds it closed, or open and makes itself the probe.
LEMMA AdmitBreaker ==
  ASSUME BreakerIInv, NEW c \in Call, Admit(c)
  PROVE  BreakerIInv'
  <1>1. BreakerTypeOK'
    BY DEF BreakerIInv, BreakerTypeOK, Admit
  <1>2. CASE circuit = "open"
    <2>1. circuit' = "half-open" /\ probing' /\ call'[c] = "probe"
      BY <1>2 DEF Admit, BreakerIInv, BreakerTypeOK
    <2>2. ~(failures < MaxFailures) /\ failures' = failures
      BY <1>2 DEF Admit, BreakerIInv, BreakerConsistent
    <2> QED
      BY <1>1, <2>1, <2>2 DEF BreakerIInv, BreakerConsistent
  <1>3. CASE circuit # "open"
    <2>1. circuit = "closed"
      BY <1>3 DEF Admit, Refused, BreakerIInv, BreakerTypeOK, BreakerConsistent
    <2> QED
      BY <1>1, <1>3, <2>1 DEF Admit, BreakerIInv, BreakerConsistent
  <1> QED
    BY <1>2, <1>3

LEMMA SucceedBreaker ==
  ASSUME BreakerIInv, NEW c \in Call, Succeed(c)
  PROVE  BreakerIInv'
  <1>1. 0 < MaxFailures /\ 0 \in 0..MaxFailures
    BY MaxFailuresPositive
  <1>2. BreakerTypeOK'
    BY <1>1 DEF BreakerIInv, BreakerTypeOK, Succeed
  <1>3. BreakerConsistent'
    BY <1>1 DEF BreakerConsistent, Succeed
  <1> QED
    BY <1>2, <1>3 DEF BreakerIInv

\* A failure can leave the circuit half-open only if it was half-open with fewer failures
\* than the maximum, which it never is.
LEMMA FailBreaker ==
  ASSUME BreakerIInv, NEW c \in Call, Fail(c)
  PROVE  BreakerIInv'
  <1>1. failures \in 0..MaxFailures /\ failures' \in 0..MaxFailures
    BY MaxFailuresPositive DEF BreakerIInv, BreakerTypeOK, Fail
  <1>2. BreakerTypeOK'
    BY <1>1 DEF BreakerIInv, BreakerTypeOK, Fail
  <1>3. CASE failures' = MaxFailures
    BY <1>1, <1>2, <1>3, MaxFailuresPositive DEF BreakerIInv, BreakerConsistent, Fail
  <1>4. CASE failures' # MaxFailures
    <2>1. failures < MaxFailures /\ failures' < MaxFailures
      BY <1>1, <1>4, MaxFailuresPositive DEF Fail
    <2>2. circuit' = "closed"
      BY <1>4, <2>1 DEF BreakerIInv, BreakerConsistent, Fail
    <2> QED
      BY <1>2, <2>1, <2>2 DEF BreakerIInv, BreakerConsistent
  <1> QED
    BY <1>3, <1>4

LEMMA CoolDownBreaker == BreakerIInv /\ CoolDown => BreakerIInv'
  BY DEF BreakerIInv, BreakerTypeOK, BreakerConsistent, CoolDown

LEMMA KeptBreaker == BreakerIInv /\ UNCHANGED breakerVars => BreakerIInv'
  BY DEF BreakerIInv, BreakerTypeOK, BreakerConsistent, breakerVars

LEMMA NextBreaker == BreakerIInv /\ [Next]_vars => BreakerIInv'
  <1> SUFFICES ASSUME BreakerIInv, [Next]_vars PROVE BreakerIInv'
    OBVIOUS
  <1>1. ASSUME NEW c \in Call, Guard(c) PROVE BreakerIInv'
    BY <1>1, AdmitBreaker DEF Guard
  <1>2. ASSUME NEW c \in Call, Succeeds(c) PROVE BreakerIInv'
    BY <1>2, SucceedBreaker DEF Succeeds
  <1>3. ASSUME NEW c \in Call, Errs(c) \/ Stalls(c) PROVE BreakerIInv'
    BY <1>3, FailBreaker DEF Errs, Stalls
  <1>4. ASSUME NEW q \in Request, AliasStep(q) PROVE BreakerIInv'
    BY <1>4, KeptBreaker DEF AliasStep
  <1>5. CASE CoolDown /\ UNCHANGED <<aliasVars, purpose>>
    BY <1>5, CoolDownBreaker
  <1>6. ASSUME NEW a \in Agent, AgentCoolsDown(a) /\ UNCHANGED <<breakerVars, purpose>>
        PROVE  BreakerIInv'
    BY <1>6, KeptBreaker
  <1>7. CASE UNCHANGED vars
    BY <1>7, KeptBreaker DEF vars
  <1> QED
    BY <1>1, <1>2, <1>3, <1>4, <1>5, <1>6, <1>7 DEF Next

(* The state of the breaker agrees with its count, and a half-open breaker    *)
(* has a probe under way that will decide it, for every number of calls.      *)
THEOREM BreakerIsConsistent == Spec => []BreakerConsistent
  <1>1. Init => BreakerIInv
    BY InitBreaker DEF Init
  <1>2. BreakerIInv => BreakerConsistent
    BY DEF BreakerIInv
  <1> QED
    BY <1>1, <1>2, NextBreaker, PTL DEF Spec

-----------------------------------------------------------------------------
(* The requests to the alias.                                                *)
InitialPart(tried, asked) ==
  /\ tried \subseteq asked
  /\ \A a \in tried, b \in asked : Position(b) < Position(a) => b \in tried

\* What a request r and the agents at work for it tell, and that those have not failed it.
Counts(r, w) ==
  /\ r.stage \in Unsettled => w \cap r.failed = {}
  /\ r.stage = "racing" => w # {} /\ w \cup r.failed = r.agents
  /\ r.stage = "failing over" => /\ \E a \in r.agents : w = {a}
                                 /\ InitialPart(r.failed, r.agents)
                                 /\ InitialPart(r.failed \cup w, r.agents)
  /\ r.stage = "exhausted" => r.failed = r.agents /\ w = {}
  /\ r.stage = "resolved" => r.winner \cap (r.failed \cup w) = {}

RequestType ==
  [stage : Unsettled \cup {"none", "unhealthy", "resolved", "exhausted", "timed out"},
   agents : SUBSET Agent, failed : SUBSET Agent, winner : SUBSET Agent]

AnswersIInv ==
  /\ request \in [Request -> RequestType] /\ working \in [Request -> SUBSET Agent]
  /\ \A q \in Request : Counts(request[q], working[q])

LEMMA PositionIsNat ==
  ASSUME NEW a \in Agent
  PROVE  Position(a) \in Nat
  <1>1. \E i \in DOMAIN Alias : Alias[i] = a
    BY DEF Agent, ToSet
  <1>2. Position(a) \in DOMAIN Alias
    BY <1>1 DEF Position
  <1>3. DOMAIN Alias \subseteq Nat
    BY AliasAssumption
  <1> QED
    BY <1>2, <1>3

\* There is a first among agents of the alias.
LEMMA FirstIsFirst ==
  ASSUME NEW agents \in SUBSET Agent, agents # {}
  PROVE  First(agents) \in agents /\ \A b \in agents : Position(First(agents)) <= Position(b)
  <1>1. \A a \in Agent : Position(a) \in Nat
    BY PositionIsNat
  <1> DEFINE T == {Position(a) : a \in agents}
             R == OpToRel(<, Nat)
  <1>2. T \subseteq Nat /\ T # {}
    BY <1>1
  <1>3. \A x, y \in Nat : y < x => <<y, x>> \in R
    BY DEF OpToRel
  <1> HIDE DEF T, R
  <1>4. PICK x \in T : \A y \in T : ~(<<y, x>> \in R)
    BY <1>2, NatLessThanWellFounded, WFMin DEF R
  <1>5. \A y \in T : x <= y
    <2> SUFFICES ASSUME NEW y \in T PROVE x <= y
      OBVIOUS
    <2>1. x \in Nat /\ y \in Nat
      BY <1>2
    <2>2. ~(y < x)
      BY <1>3, <1>4, <2>1
    <2> QED
      BY <2>1, <2>2
  <1>6. \E a \in agents : \A b \in agents : Position(a) <= Position(b)
    BY <1>5 DEF T
  <1> QED
    BY <1>6 DEF First

LEMMA InitAnswers == AliasInit => AnswersIInv
  <1> SUFFICES ASSUME AliasInit PROVE AnswersIInv
    OBVIOUS
  <1>1. NoRequest \in RequestType /\ NoRequest.stage = "none"
    BY DEF NoRequest, RequestType
  <1>2. request \in [Request -> RequestType] /\ working \in [Request -> SUBSET Agent]
    BY <1>1 DEF AliasInit
  <1>3. \A q \in Request : request[q].stage = "none"
    BY <1>1 DEF AliasInit
  <1> QED
    BY <1>2, <1>3 DEF AnswersIInv, Counts, Unsettled

\* What happens to one request leaves the others alone.
LEMMA OneRequest ==
  ASSUME AnswersIInv, NEW q \in Request, NEW r \in RequestType, NEW w \in SUBSET Agent,
         request' = [request EXCEPT ![q] = r], working' = [working EXCEPT ![q] = w],
         Counts(r, w)
  PROVE  AnswersIInv'
  <1>1. request \in [Request -> RequestType] /\ working \in [Request -> SUBSET Agent]
    BY DEF AnswersIInv
  <1>2. request' \in [Request -> RequestType] /\ working' \in [Request -> SUBSET Agent]
    BY <1>1
  <1>3. request'[q] = r /\ working'[q] = w
    BY <1>1
  <1>4. \A p \in Request \ {q} : request'[p] = request[p] /\ working'[p] = working[p]
    BY <1>1
  <1>5. \A p \in Request : Counts(request'[p], working'[p])
    BY <1>3, <1>4 DEF AnswersIInv
  <1> QED
    BY <1>2, <1>5 DEF AnswersIInv

LEMMA ResolveAnswers ==
  ASSUME AnswersIInv, NEW q \in Request, Resolve(q)
  PROVE  AnswersIInv'
  <1> DEFINE healthy == {a \in Agent : IsHealthy(a)}
  <1>1. working \in [Request -> SUBSET Agent]
    BY DEF AnswersIInv
  <1>2. CASE healthy = {} /\ request' = [request EXCEPT ![q] = [NoRequest EXCEPT !.stage = "unhealthy"]]
             /\ UNCHANGED working
    <2> DEFINE r == [NoRequest EXCEPT !.stage = "unhealthy"]
    <2>1. r \in RequestType /\ r.stage = "unhealthy"
      BY DEF RequestType, NoRequest
    <2>2. working' = [working EXCEPT ![q] = working[q]] /\ working[q] \in SUBSET Agent
      BY <1>1, <1>2
    <2>3. Counts(r, working[q])
      BY <2>1 DEF Counts, Unsettled
    <2> HIDE DEF r
    <2> QED
      BY <1>1, <1>2, <2>1, <2>2, <2>3, OneRequest DEF r
  <1>3. ASSUME healthy # {}, NEW strategy \in Unsettled,
               request' = [request EXCEPT ![q] =
                             [NoRequest EXCEPT !.stage = strategy, !.agents = healthy]],
               working' = [working EXCEPT ![q] =
                             IF strategy = "racing" THEN healthy ELSE {First(healthy)}]
        PROVE  AnswersIInv'
    <2> DEFINE r == [NoRequest EXCEPT !.stage = strategy, !.agents = healthy]
               w == IF strategy = "racing" THEN healthy ELSE {First(healthy)}
    <2>1. r \in RequestType /\ r.stage = strategy /\ r.agents = healthy /\ r.failed = {}
      BY DEF RequestType, NoRequest
    <2>2. First(healthy) \in healthy /\ \A b \in healthy : Position(First(healthy)) <= Position(b)
      BY <1>3, FirstIsFirst
    <2>3. w \in SUBSET Agent
      BY <2>2
    <2>4. Counts(r, w)
      <3>1. CASE strategy = "racing"
        BY <1>3, <2>1, <3>1 DEF Counts
      <3>2. CASE strategy = "failing over"
        <4> DEFINE f == First(healthy)
        <4>1. f \in Agent /\ \A b \in healthy : Position(b) \in Nat /\ Position(f) \in Nat
          BY <2>2, PositionIsNat
        <4>2. f \in healthy /\ \A b \in healthy : Position(f) <= Position(b)
          BY <2>2
        <4> HIDE DEF healthy, f
        <4>3. InitialPart({}, healthy) /\ InitialPart({f}, healthy)
          BY <4>1, <4>2 DEF InitialPart
        <4>4. InitialPart({}, healthy) /\ InitialPart({First(healthy)}, healthy)
          BY <4>3 DEF f
        <4> QED
          BY <2>1, <2>2, <3>2, <4>4 DEF Counts
      <3> QED
        BY <3>1, <3>2 DEF Unsettled
    <2> HIDE DEF r, w
    <2> QED
      BY <1>1, <1>3, <2>1, <2>3, <2>4, OneRequest DEF r, w
  <1> QED
    BY <1>2, <1>3 DEF Resolve

\* Without a new request, answer or failure.
LEMMA KeptAnswers == AnswersIInv /\ UNCHANGED <<request, working>> => AnswersIInv'
  BY DEF AnswersIInv

LEMMA RaceTimeoutAnswers ==
  ASSUME AnswersIInv, NEW q \in Request, RaceTimeout(q)
  PROVE  AnswersIInv'
  <1> DEFINE r == [request[q] EXCEPT !.stage = "timed out"]
  <1>1. request[q] \in RequestType /\ working[q] \in SUBSET Agent
    BY DEF AnswersIInv
  <1>2. r \in RequestType /\ r.stage = "timed out"
    BY <1>1 DEF RequestType
  <1>3. request' = [request EXCEPT ![q] = r] /\ working' = [working EXCEPT ![q] = working[q]]
    BY DEF RaceTimeout, AnswersIInv
  <1>4. Counts(r, working[q])
    BY <1>2 DEF Counts, Unsettled
  <1> HIDE DEF r
  <1> QED
    BY <1>1, <1>2, <1>3, <1>4, OneRequest

LEMMA AgentAnswersAnswers ==
  ASSUME AnswersIInv, NEW q \in Request, NEW a \in Agent, AgentAnswers(q, a)
  PROVE  AnswersIInv'
  <1> DEFINE r == request[q]
             w == working[q] \ {a}
             r2 == IF r.stage \in Unsettled THEN [r EXCEPT !.stage = "resolved", !.winner = {a}] ELSE r
  <1>1. /\ request \in [Request -> RequestType] /\ working \in [Request -> SUBSET Agent]
        /\ r \in RequestType /\ a \in working[q] /\ w \in SUBSET Agent
        /\ Counts(r, working[q])
    BY DEF AnswersIInv, AgentAnswers
  <1>3. r2 \in RequestType
    BY <1>1 DEF RequestType
  <1>4. request' = [request EXCEPT ![q] = r2] /\ working' = [working EXCEPT ![q] = w]
    BY <1>1 DEF AgentAnswers
  <1>5. Counts(r2, w)
    <2>1. CASE r.stage \in Unsettled
      <3>1. /\ r2.stage = "resolved" /\ r2.winner = {a} /\ r2.failed = r.failed
        BY <1>1, <2>1 DEF RequestType
      <3>2. a \notin r.failed
        BY <1>1, <2>1 DEF Counts
      <3> QED
        BY <3>1, <3>2 DEF Counts, Unsettled
    <2>2. CASE r.stage \notin Unsettled
      BY <1>1, <2>2 DEF Counts, Unsettled
    <2> QED
      BY <2>1, <2>2
  <1> HIDE DEF r2, w
  <1> QED
    BY <1>1, <1>3, <1>4, <1>5, OneRequest

\* The next of a failover is the first of those that have not failed it.
LEMMA AgentFailsAnswers ==
  ASSUME AnswersIInv, NEW q \in Request, NEW a \in Agent, AgentFails(q, a)
  PROVE  AnswersIInv'
  <1> DEFINE r == request[q]
             failed == r.failed \cup {a}
             untried == r.agents \ failed
  <1>1. /\ request \in [Request -> RequestType] /\ working \in [Request -> SUBSET Agent]
        /\ r \in RequestType /\ a \in working[q] /\ working[q] \in SUBSET Agent
        /\ Counts(r, working[q])
    BY DEF AnswersIInv, AgentFails
  <1>3. CASE r.stage \notin Unsettled
    <2>1. request' = [request EXCEPT ![q] = r] /\ working' = [working EXCEPT ![q] = working[q] \ {a}]
      BY <1>1, <1>3 DEF AgentFails
    <2>2. Counts(r, working[q] \ {a})
      BY <1>1, <1>3 DEF Counts, Unsettled
    <2> QED
      BY <1>1, <2>1, <2>2, OneRequest
  <1>4. CASE r.stage \in Unsettled
    <2> DEFINE stage == IF failed = r.agents THEN "exhausted" ELSE r.stage
               w == (working[q] \ {a}) \cup
                      IF r.stage = "failing over" /\ untried # {} THEN {First(untried)} ELSE {}
               r2 == [r EXCEPT !.failed = failed, !.stage = stage]
    <2>1. request' = [request EXCEPT ![q] = r2] /\ working' = [working EXCEPT ![q] = w]
      BY <1>1, <1>4 DEF AgentFails, AllFailed
    <2>2. /\ r2 \in RequestType /\ r2.stage = stage /\ r2.failed = failed
          /\ r2.agents = r.agents /\ r2.winner = r.winner
      BY <1>1 DEF RequestType
    <2>3. untried # {} => /\ First(untried) \in untried
                          /\ \A b \in untried : Position(First(untried)) <= Position(b)
      <3>1. untried \in SUBSET Agent
        BY <1>1 DEF RequestType
      <3> QED
        BY <3>1, FirstIsFirst
    <2>4. w \in SUBSET Agent
      BY <1>1, <2>3 DEF RequestType
    <2>5. Counts(r2, w)
      <3>1. CASE r.stage = "racing"
        <4>1. w = working[q] \ {a}
          BY <3>1
        <4>2. working[q] \cap r.failed = {} /\ working[q] \cup r.failed = r.agents
          BY <1>1, <1>4, <3>1 DEF Counts
        <4> HIDE DEF w, r2
        <4> QED
          BY <1>1, <2>2, <3>1, <4>1, <4>2 DEF Counts, Unsettled
      <3>2. CASE r.stage = "failing over"
        <4>1. working[q] = {a} /\ a \notin r.failed
          BY <1>1, <1>4, <3>2 DEF Counts
        <4>2. InitialPart(failed, r.agents)
          BY <1>1, <3>2, <4>1 DEF Counts
        <4>3. CASE untried = {}
          <5>1. failed = r.agents /\ w = {}
            BY <4>1, <4>2, <4>3 DEF InitialPart
          <5> HIDE DEF w, r2
          <5> QED
            BY <2>2, <5>1 DEF Counts, Unsettled
        <4>4. CASE untried # {}
          <5> DEFINE f == First(untried)
          <5>1. w = {f} /\ f \in r.agents /\ f \notin failed /\ failed # r.agents
            BY <2>3, <3>2, <4>1, <4>4
          <5>2. InitialPart(failed \cup {f}, r.agents)
            <6>1. SUFFICES ASSUME NEW b \in r.agents, Position(b) < Position(f)
                           PROVE  b \in failed
              BY <4>2, <5>1 DEF InitialPart
            <6>2. b \in Agent /\ f \in Agent
              BY <1>1, <5>1 DEF RequestType
            <6>3. Position(b) \in Nat /\ Position(f) \in Nat
              BY <6>2, PositionIsNat
            <6>4. b \in untried => Position(f) <= Position(b)
              BY <2>3, <4>4
            <6> HIDE DEF f
            <6>5. b \notin untried
              BY <6>1, <6>3, <6>4
            <6> QED
              BY <6>1, <6>5
          <5> HIDE DEF f, w, r2, failed, untried
          <5> QED
            BY <2>2, <3>2, <4>2, <5>1, <5>2 DEF Counts, Unsettled
        <4> QED
          BY <4>3, <4>4
      <3> QED
        BY <1>4, <3>1, <3>2 DEF Unsettled
    <2> HIDE DEF r2, w
    <2> QED
      BY <2>1, <2>2, <2>4, <2>5, OneRequest
  <1> QED
    BY <1>3, <1>4

LEMMA NextAnswers == AnswersIInv /\ [Next]_vars => AnswersIInv'
  <1> SUFFICES ASSUME AnswersIInv, [Next]_vars PROVE AnswersIInv'
    OBVIOUS
  <1>1. ASSUME NEW c \in Call, Guard(c) PROVE AnswersIInv'
    BY <1>1, ResolveAnswers, KeptAnswers DEF Guard, aliasVars
  <1>2. ASSUME NEW c \in Call, Succeeds(c) PROVE AnswersIInv'
    <2>1. CASE UNCHANGED <<request, working>>
      BY <2>1, KeptAnswers
    <2>2. CASE c \in Request /\ request' = [request EXCEPT ![c] = NoRequest] /\ UNCHANGED working
      <3>1. NoRequest \in RequestType /\ Counts(NoRequest, working[c])
        BY DEF NoRequest, RequestType, Counts, Unsettled
      <3>2. working[c] \in SUBSET Agent /\ working' = [working EXCEPT ![c] = working[c]]
        BY <2>2 DEF AnswersIInv
      <3> QED
        BY <2>2, <3>1, <3>2, OneRequest
    <2>3. CASE c \notin Request /\ request' = [request EXCEPT ![c] = NoRequest] /\ UNCHANGED working
      <3>1. request' = request
        BY <2>3 DEF AnswersIInv
      <3> QED
        BY <2>3, <3>1, KeptAnswers
    <2> QED
      BY <1>2, <2>1, <2>2, <2>3 DEF Succeeds
  <1>3. ASSUME NEW c \in Call, Errs(c) \/ Stalls(c) PROVE AnswersIInv'
    BY <1>3, KeptAnswers DEF Errs, Stalls, aliasVars
  <1>4. ASSUME NEW q \in Request, AliasStep(q) PROVE AnswersIInv'
    <2>1. CASE AgentEnds(q)
      BY <2>1, AgentAnswersAnswers, AgentFailsAnswers DEF AgentEnds
    <2>2. CASE RaceTimeout(q)
      BY <2>2, RaceTimeoutAnswers
    <2> QED
      BY <1>4, <2>1, <2>2 DEF AliasStep
  <1>5. CASE CoolDown /\ UNCHANGED <<aliasVars, purpose>>
    BY <1>5, KeptAnswers DEF aliasVars
  <1>6. ASSUME NEW a \in Agent, AgentCoolsDown(a) PROVE AnswersIInv'
    BY <1>6, KeptAnswers DEF AgentCoolsDown
  <1>7. CASE UNCHANGED vars
    BY <1>7, KeptAnswers DEF vars, aliasVars
  <1> QED
    BY <1>1, <1>2, <1>3, <1>4, <1>5, <1>6, <1>7 DEF Next

(* An open race waits for exactly the agents that have not failed it, a failover *)
(* asks the healthy agents in the order of the alias and one at a time, and a    *)
(* request is given up only when all it could ask have failed, however the calls *)
(* through the breaker, their stalls and late answers interleave.                *)
THEOREM AnswersAreCounted == Spec => []AnswersCount
  <1>1. AnswersIInv => AnswersCount
    BY DEF AnswersIInv, Counts, InitialPart, AnswersCount, Unsettled
  <1>2. Init => AnswersIInv
    BY InitAnswers DEF Init
  <1> QED
    BY <1>1, <1>2, NextAnswers, PTL DEF Spec
=============================================================================
