--------------------------- MODULE CircuitBreaker ---------------------------
(***************************************************************************)
(* The circuit breaker that safeExecute() puts every tool call through:    *)
(* closed, open, half-open with a probe flag, and the stall timeout.       *)
(* A call is the code between two awaits of execute(); the operation it    *)
(* guards may go on after the call has been given up as stalled.           *)
(***************************************************************************)
EXTENDS Naturals

CONSTANTS Call,           \* tool calls that can be in progress at the same time
          MaxFailures

ASSUME MaxFailuresPositive == MaxFailures \in Nat \ {0}

VARIABLES
  circuit,    \* "closed", "open" or "half-open"
  failures,   \* consecutive failures, counted up to MaxFailures
  cooled,     \* whether resetTimeoutMs has passed since the last failure
  probing,    \* the flag of EC-46
  call        \* each call: "none", "running" or "probe", the one that half-opened

breakerVars == <<circuit, failures, cooled, probing, call>>

BreakerInit ==
  /\ circuit = "closed"
  /\ failures = 0
  /\ cooled = FALSE
  /\ probing = FALSE
  /\ call = [c \in Call |-> "none"]

CoolDown ==
  /\ circuit = "open" /\ ~cooled
  /\ cooled' = TRUE
  /\ UNCHANGED <<circuit, failures, probing, call>>

Refused == \/ circuit = "half-open" /\ probing
           \/ circuit = "open" /\ ~cooled

\* A refused call throws at once and leaves no trace.
Admit(c) ==
  /\ call[c] = "none"
  /\ ~Refused
  /\ IF circuit = "open"
     THEN /\ circuit' = "half-open"
          /\ probing' = TRUE
          /\ call' = [call EXCEPT ![c] = "probe"]
     ELSE call' = [call EXCEPT ![c] = "running"] /\ UNCHANGED <<circuit, probing>>
  /\ UNCHANGED <<failures, cooled>>

\* Mutant: a success leaves the failures of before.  Checked to violate BreakerConsistent.
Succeed_KeepsCount(c) ==
  /\ call[c] # "none"
  /\ call' = [call EXCEPT ![c] = "none"]
  /\ circuit' = "closed"
  /\ probing' = FALSE
  /\ UNCHANGED <<failures, cooled>>

Succeed(c) ==
  /\ call[c] # "none"
  /\ call' = [call EXCEPT ![c] = "none"]
  /\ failures' = 0
  /\ circuit' = "closed"
  /\ probing' = FALSE
  /\ UNCHANGED cooled

\* An error or a stall: the probe flag goes whoever fails.
Fail(c) ==
  /\ call[c] # "none"
  /\ call' = [call EXCEPT ![c] = "none"]
  /\ failures' = IF failures < MaxFailures THEN failures + 1 ELSE failures
  /\ circuit' = IF failures' = MaxFailures THEN "open" ELSE circuit
  /\ cooled' = FALSE
  /\ probing' = FALSE

\* The breaker is closed exactly while there were fewer than maxFailures failures in
\* a row.  A half-open breaker has its probe in flight and the flag set, so it is never
\* stuck half-open, although calls from before it opened succeed and fail meanwhile.
BreakerConsistent ==
  /\ circuit = "closed" <=> failures < MaxFailures
  /\ circuit = "half-open" => probing /\ \E c \in Call : call[c] = "probe"

BreakerTypeOK ==
  /\ circuit \in {"closed", "open", "half-open"}
  /\ failures \in 0..MaxFailures
  /\ cooled \in BOOLEAN
  /\ probing \in BOOLEAN
  /\ call \in [Call -> {"none", "running", "probe"}]

=============================================================================
