---------------------------- MODULE Coordinator ----------------------------
(***************************************************************************)
(* AgentCoordinator.delegate() for one pool key (an agent and a directory):*)
(* the adapter pool, the creation of an adapter, the chain of prompt locks,*)
(* aborts, and what each caller does to the pool when it fails.            *)
(*                                                                         *)
(* An entry of the pool is its adapter, numbered in order of creation.     *)
(* A lock of an entry is the number of the promise: 0 is the resolved one  *)
(* the entry starts with, and the caller that holds lock n awaits n - 1.   *)
(* One action is the code between two awaits.  The order of continuations  *)
(* is left open, except where it is fixed by JavaScript: reactions to one  *)
(* promise run in the order they were registered, and disposals that are   *)
(* due run before anything the agent sends is read.                        *)
(***************************************************************************)
EXTENDS Naturals, FiniteSets

CONSTANT Caller          \* calls of delegate(), each with an abort signal

ASSUME CallerFinite == IsFiniteSet(Caller) /\ Caller # {}

None == 0
Adapter == 1..Cardinality(Caller)      \* a call creates at most one

VARIABLES
  pool,       \* the pooled entry, or None
  made,       \* adapters created so far
  phase,      \* adapterPromise: "unborn", "starting", "ready" or "failed"
  process,    \* the adapter's child process: "none", "running" or "killed"
  closed,     \* whether the coordinator was disposed
  doomed,     \* adapters with a dispose() registered on their promise
  locks,      \* locks handed out by each entry
  resolved,   \* those that are resolved
  pc,         \* where each call is
  acquire,    \* its getOrCreateAdapter(): "none", "checking" or "awaiting"
  entry,      \* the entry it works with
  lock,       \* the lock it installed
  aborted,    \* calls whose signal has fired
  inflight    \* prompts the agent of each adapter is working on

adapterVars == <<made, phase, process>>
lockVars == <<locks, lock>>
vars == <<pool, adapterVars, closed, doomed, lockVars, resolved, pc, acquire, entry,
          aborted, inflight>>

\* broadcast() and compare() return.
Settled == \A c \in Caller : pc[c] \in {"answered", "rejected"}

Init ==
  /\ pool = None
  /\ made = 0
  /\ phase = [a \in Adapter |-> "unborn"]
  /\ process = [a \in Adapter |-> "none"]
  /\ closed = FALSE
  /\ doomed = {}
  /\ locks = [a \in Adapter |-> 0]
  /\ resolved = [a \in Adapter |-> {0}]
  /\ pc = [c \in Caller |-> "idle"]
  /\ acquire = [c \in Caller |-> "none"]
  /\ entry = [c \in Caller |-> None]
  /\ lock = [c \in Caller |-> 0]
  /\ aborted = {}
  /\ inflight = [a \in Adapter |-> {}]

-----------------------------------------------------------------------------
(* The adapter: spawn, then initialize and newSession, then dispose.       *)

\* A spawn that the timeout has given up on may still succeed.
Spawn(a) ==
  /\ phase[a] \in {"starting", "failed"}
  /\ process[a] = "none"
  /\ process' = [process EXCEPT ![a] = "running"]
  /\ UNCHANGED <<pool, made, phase, doomed, lockVars, resolved, pc, acquire, entry,
                 aborted, inflight, closed>>

Prepare(a) ==
  /\ phase[a] = "starting"
  /\ \/ process[a] = "running" /\ phase' = [phase EXCEPT ![a] = "ready"]
     \/ phase' = [phase EXCEPT ![a] = "failed"]
  /\ UNCHANGED <<pool, made, process, doomed, lockVars, resolved, pc, acquire, entry,
                 aborted, inflight, closed>>

\* dispose() registered on the promise of an evicted entry, after the calls
\* that were already waiting for it.
Dispose(a) ==
  /\ a \in doomed
  /\ phase[a] # "starting"
  /\ \A c \in Caller : entry[c] = a => acquire[c] # "checking"
  /\ doomed' = doomed \ {a}
  /\ process' = IF phase[a] = "ready" THEN [process EXCEPT ![a] = "killed"] ELSE process
  /\ UNCHANGED <<pool, made, phase, lockVars, resolved, pc, acquire, entry,
                 aborted, inflight, closed>>

-----------------------------------------------------------------------------
(* A call.                                                                 *)

\* Mutant: the entry stays in the pool.  Checked to violate FoundIsConnected.
EvictPooled_KeepsEntry == pool' = pool /\ doomed' = doomed \cup ({pool} \ {None})

\* The catch of delegateToAgent(): evict what is pooled by now, dispose it later.
EvictPooled ==
  /\ pool' = None
  /\ doomed' = doomed \cup ({pool} \ {None})

Reject(c) ==
  /\ pc' = [pc EXCEPT ![c] = "rejected"]
  /\ EvictPooled

\* A signal that fired before the call: nothing pooled is touched.
RejectPreAborted(c) ==
  /\ pc[c] = "idle"
  /\ c \in aborted
  /\ pc' = [pc EXCEPT ![c] = "rejected"]
  /\ UNCHANGED <<pool, adapterVars, doomed, lockVars, resolved, acquire, entry,
                 aborted, inflight, closed>>

Create(c) ==
  /\ pool = None
  /\ made' = made + 1
  /\ pool' = made'
  /\ phase' = [phase EXCEPT ![made'] = "starting"]
  /\ entry' = [entry EXCEPT ![c] = made']
  /\ acquire' = [acquire EXCEPT ![c] = "awaiting"]

Reuse(c) ==
  /\ pool # None
  /\ entry' = [entry EXCEPT ![c] = pool]
  /\ acquire' = [acquire EXCEPT ![c] = "checking"]
  /\ UNCHANGED <<pool, made, phase>>

Delegate(c) ==
  /\ pc[c] = "idle"
  /\ c \notin aborted
  /\ pc' = [pc EXCEPT ![c] = "acquiring"]
  /\ Create(c) \/ Reuse(c)
  /\ UNCHANGED <<process, doomed, lockVars, resolved, aborted, inflight, closed>>

\* The call that found an entry checks that its adapter is connected.  It always
\* is (FoundIsConnected), so the branch that evicts here is never taken.
Check(c) ==
  /\ acquire[c] = "checking"
  /\ phase[entry[c]] = "ready"
  /\ acquire' = [acquire EXCEPT ![c] = "awaiting"]
  /\ UNCHANGED <<pool, adapterVars, doomed, lockVars, resolved, pc, entry, aborted,
                 inflight, closed>>

\* Creation failed.  The call that created the entry deletes what is pooled without
\* disposing it; then, unless it was aborted, both kinds of call go through the catch.
CreationFailed(c) ==
  /\ acquire[c] # "none"
  /\ phase[entry[c]] = "failed"
  /\ acquire' = [acquire EXCEPT ![c] = "none"]
  /\ IF acquire[c] = "awaiting"
     THEN /\ pool' = None
          /\ pc' = [pc EXCEPT ![c] = "rejected"]
          /\ UNCHANGED doomed
     ELSE IF pc[c] = "acquiring" THEN Reject(c) ELSE UNCHANGED <<pool, pc, doomed>>
  /\ UNCHANGED <<adapterVars, lockVars, resolved, entry, aborted, inflight, closed>>

\* The adapter is there: take the entry's lock and install the next one.
\* A call aborted meanwhile has left, and its continuation ends here.
Join(c) ==
  /\ acquire[c] = "awaiting"
  /\ phase[entry[c]] = "ready"
  /\ acquire' = [acquire EXCEPT ![c] = "none"]
  /\ IF pc[c] = "acquiring"
     THEN /\ locks' = [locks EXCEPT ![entry[c]] = @ + 1]
          /\ lock' = [lock EXCEPT ![c] = locks[entry[c]] + 1]
          /\ pc' = [pc EXCEPT ![c] = "waiting"]
     ELSE UNCHANGED <<lockVars, pc>>
  /\ UNCHANGED <<pool, adapterVars, doomed, resolved, entry, aborted, inflight, closed>>

\* Mutant: a call that was aborted while it waited forgets its lock.
\* Checked to violate EveryCallSettles.
Release_NotWhenAborted(c) ==
  resolved' = IF c \in aborted THEN resolved
              ELSE [resolved EXCEPT ![entry[c]] = @ \cup {lock[c]}]

Release(c) == resolved' = [resolved EXCEPT ![entry[c]] = @ \cup {lock[c]}]

\* Mutant: calls do not queue.  Checked to violate SharedOnlyAfterAbort.
HasTurn_Unchained(c) == pc[c] = "waiting"

HasTurn(c) == pc[c] = "waiting" /\ lock[c] - 1 \in resolved[entry[c]]

\* The lock before c's is resolved: c prompts, even if it was aborted while it
\* waited; in that case it leaves at once and the prompt goes on at the agent.
\* A disposed adapter throws.
Prompt(c) ==
  /\ HasTurn(c)
  /\ IF process[entry[c]] = "running"
     THEN inflight' = [inflight EXCEPT ![entry[c]] = @ \cup {c}]
     ELSE UNCHANGED inflight
  /\ IF process[entry[c]] = "running" /\ c \notin aborted
     THEN /\ pc' = [pc EXCEPT ![c] = "prompting"]
          /\ UNCHANGED <<pool, doomed, resolved>>
     ELSE Release(c) /\ Reject(c)
  /\ UNCHANGED <<adapterVars, lockVars, acquire, entry, aborted, closed>>

\* The agent ends a prompt, with an answer or an error; nobody may be listening.
AgentEnds(c) ==
  /\ entry[c] # None /\ c \in inflight[entry[c]]
  /\ doomed = {}
  /\ inflight' = [inflight EXCEPT ![entry[c]] = @ \ {c}]
  /\ IF pc[c] = "prompting"
     THEN /\ Release(c)
          /\ \/ pc' = [pc EXCEPT ![c] = "answered"] /\ UNCHANGED <<pool, doomed>>
             \/ Reject(c)
     ELSE UNCHANGED <<resolved, pc, pool, doomed>>
  /\ UNCHANGED <<adapterVars, lockVars, acquire, entry, aborted, closed>>

\* The signal fires.  While it waits for the lock a call is not woken.
Abort(c) ==
  /\ c \notin aborted
  /\ ~Settled
  /\ aborted' = aborted \cup {c}
  /\ \/ /\ pc[c] \in {"idle", "waiting"}
        /\ UNCHANGED <<pc, pool, doomed, resolved>>
     \/ pc[c] = "acquiring" /\ Reject(c) /\ UNCHANGED resolved
     \/ pc[c] = "prompting" /\ Release(c) /\ Reject(c)
  /\ UNCHANGED <<adapterVars, lockVars, acquire, entry, inflight, closed>>

\* Mutant: the pool is cleared and nothing disposed.  Checked to violate
\* LeakNeedsFailedCreation.
DisposeAll_ClearsOnly ==
  /\ ~closed
  /\ \A c \in Caller : pc[c] # "idle"
  /\ closed' = TRUE
  /\ pool' = None
  /\ UNCHANGED <<adapterVars, doomed, lockVars, resolved, pc, acquire, entry, aborted,
                 inflight>>

\* acp_fanout and the DAG handlers dispose the coordinator when they are done with it;
\* acp_fanout also when it has waited too long for calls that are still at work.
DisposeAll ==
  /\ ~closed
  /\ \A c \in Caller : pc[c] # "idle"
  /\ closed' = TRUE
  /\ EvictPooled
  /\ UNCHANGED <<adapterVars, lockVars, resolved, pc, acquire, entry, aborted, inflight>>

CallStep(c) ==
  \/ RejectPreAborted(c) \/ Delegate(c) \/ Check(c) \/ CreationFailed(c) \/ Join(c)
  \/ Prompt(c) \/ AgentEnds(c)
AdapterStep(a) == Spawn(a) \/ Prepare(a) \/ Dispose(a)

Next ==
  \/ \E c \in Caller : CallStep(c) \/ Abort(c)
  \/ \E a \in Adapter : AdapterStep(a)
  \/ DisposeAll

Spec == Init /\ [][Next]_vars

\* Continuations run, disposals run, and an agent that was asked ends its prompt
\* or breaks it; signals need not fire.
FairSpec ==
  /\ Spec
  /\ \A c \in Caller : WF_vars(CallStep(c))
  /\ \A a \in Adapter : WF_vars(Prepare(a)) /\ WF_vars(Dispose(a))

-----------------------------------------------------------------------------
(* Properties.                                                             *)

TypeOK ==
  /\ pool \in Adapter \cup {None}
  /\ made \in 0..Cardinality(Caller)
  /\ phase \in [Adapter -> {"unborn", "starting", "ready", "failed"}]
  /\ process \in [Adapter -> {"none", "running", "killed"}]
  /\ closed \in BOOLEAN
  /\ doomed \subseteq Adapter
  /\ locks \in [Adapter -> Nat]
  /\ resolved \in [Adapter -> SUBSET Nat]
  /\ pc \in [Caller -> {"idle", "acquiring", "waiting", "prompting", "answered",
                        "rejected"}]
  /\ acquire \in [Caller -> {"none", "checking", "awaiting"}]
  /\ entry \in [Caller -> Adapter \cup {None}]
  /\ lock \in [Caller -> Nat]
  /\ aborted \subseteq Caller
  /\ inflight \in [Adapter -> SUBSET Caller]

\* An ACP session serves one prompt at a time.  Two prompts meet in one session only
\* when one of them is the abandoned prompt of an aborted call: the chain of locks
\* never lets two calls through that both still want their answer.
SharedOnlyAfterAbort ==
  \A a \in Adapter : \A c, d \in inflight[a] :
    c # d => c \in aborted \/ d \in aborted

\* A call that finds a ready adapter in the pool finds it connected: eviction takes
\* the entry out of the pool before its adapter is disposed, and dispose() runs after
\* the calls that were already waiting for the entry.
FoundIsConnected ==
  \A c \in Caller :
    acquire[c] = "checking" /\ phase[entry[c]] = "ready" => process[entry[c]] = "running"

\* Neither a failing prompt nor the coordinator's dispose() under way loses an adapter:
\* a child process outlives the coordinator only when creating an adapter failed or a
\* call was aborted.
Drained ==
  closed /\ doomed = {} /\ \A c \in Caller : acquire[c] = "none"
LeakNeedsFailedCreation ==
  Drained /\ aborted = {} /\ (\A a \in Adapter : phase[a] # "failed") =>
    \A a \in Adapter : process[a] # "running"

\* Every call of delegate() settles, so broadcast() and compare() return, whatever
\* fails or is aborted, if agents end their prompts.
EveryCallSettles == <>Settled

=============================================================================
