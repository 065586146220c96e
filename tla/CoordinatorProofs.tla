--------------------------- MODULE CoordinatorProofs ---------------------------
(* The pool and the chain of prompt locks, for any number of calls.          *)
EXTENDS Coordinator, FiniteSetTheorems, TLAPS

(* Each call creates at most one adapter. *)
Called == {c \in Caller : pc[c] # "idle"}

Counted == made <= Cardinality(Called)

(* An adapter leaves the pool before it is disposed, and unless a creation failed or *)
(* a call was aborted, it leaves the pool only to be disposed.                       *)
PoolOK ==
  /\ \A a \in Adapter : phase[a] = "unborn" <=> a > made
  /\ \A a \in Adapter : phase[a] = "unborn" => process[a] = "none"
  /\ \A a \in Adapter : phase[a] = "ready" => process[a] # "none"
  /\ pool <= made
  /\ \A a \in doomed : a <= made /\ a # pool
  /\ \A a \in Adapter : process[a] = "killed" => a # pool
  /\ closed => pool = None /\ \A c \in Caller : pc[c] # "idle"

NoneChecking ==
  \A a \in Adapter : process[a] = "killed" =>
    \A c \in Caller : acquire[c] = "checking" => entry[c] # a

Owned ==
  aborted = {} /\ (\A a \in Adapter : phase[a] # "failed") =>
    \A a \in Adapter : a <= made => a = pool \/ a \in doomed \/ process[a] = "killed"

(* A call that queues holds a lock of its own that is not resolved; the resolved *)
(* locks are an initial part of the chain.                                       *)
Queued(c) == pc[c] \in {"waiting", "prompting"}

Placed ==
  \A c \in Caller :
    /\ acquire[c] # "none" => entry[c] \in Adapter /\ ~Queued(c) /\ pc[c] # "idle"
    /\ pc[c] = "acquiring" => acquire[c] # "none"
    /\ Queued(c) => entry[c] \in Adapter

Downward ==
  \A a \in Adapter :
    /\ 0 \in resolved[a]
    /\ \A n \in resolved[a] : n <= locks[a] /\ 0 .. n \subseteq resolved[a]

Held ==
  \A c \in Caller : Queued(c) =>
    /\ lock[c] >= 1 /\ lock[c] <= locks[entry[c]]
    /\ lock[c] \notin resolved[entry[c]]
    /\ pc[c] = "prompting" => lock[c] - 1 \in resolved[entry[c]]

Apart ==
  \A c, d \in Caller :
    Queued(c) /\ Queued(d) /\ c # d /\ entry[c] = entry[d] => lock[c] # lock[d]

Wanted ==
  \A a \in Adapter : \A c \in inflight[a] :
    c \in aborted \/ (pc[c] = "prompting" /\ entry[c] = a)

ChainOK == Placed /\ Downward /\ Held /\ Apart /\ Wanted

IInv == TypeOK /\ Counted /\ PoolOK /\ NoneChecking /\ Owned /\ ChainOK

-----------------------------------------------------------------------------
LEMMA CallersCounted ==
  /\ Cardinality(Caller) \in Nat
  /\ IsFiniteSet(Called) /\ Cardinality(Called) \in Nat
  /\ Cardinality(Called) <= Cardinality(Caller)
  <1>1. Called \subseteq Caller
    BY DEF Called
  <1> QED
    BY <1>1, CallerFinite, FS_Subset, FS_CardinalityType

LEMMA OneMoreCalled ==
  ASSUME NEW c \in Caller, pc[c] = "idle", TypeOK, NEW s,
         pc' = [pc EXCEPT ![c] = s], s # "idle"
  PROVE  /\ Cardinality(Called') = Cardinality(Called) + 1
         /\ Cardinality(Called') <= Cardinality(Caller)
  <1>1. Called' = Called \cup {c} /\ c \notin Called
    BY DEF Called, TypeOK
  <1>2. Cardinality(Called \cup {c}) = Cardinality(Called) + 1
    BY <1>1, CallersCounted, FS_AddElement
  <1>3. Called \cup {c} \subseteq Caller
    BY DEF Called
  <1> QED
    BY <1>1, <1>2, <1>3, CallerFinite, FS_Subset

LEMMA SameCalled ==
  ASSUME TypeOK, TypeOK', \A c \in Caller : pc[c] = "idle" <=> pc'[c] = "idle"
  PROVE  Called' = Called
  BY DEF Called

LEMMA InitIInv == Init => IInv
  <1> SUFFICES ASSUME Init PROVE IInv
    OBVIOUS
  <1>1. TypeOK
    <2>1. pool \in Adapter \cup {None} /\ made \in 0 .. Cardinality(Caller)
      BY CallersCounted DEF Init
    <2>2. /\ phase \in [Adapter -> {"unborn", "starting", "ready", "failed"}]
          /\ process \in [Adapter -> {"none", "running", "killed"}]
          /\ closed \in BOOLEAN /\ doomed \subseteq Adapter
      BY DEF Init
    <2>3. /\ locks \in [Adapter -> Nat] /\ resolved \in [Adapter -> SUBSET Nat]
          /\ inflight \in [Adapter -> SUBSET Caller] /\ lock \in [Caller -> Nat]
      BY DEF Init
    <2>4. /\ pc \in [Caller -> {"idle", "acquiring", "waiting", "prompting", "answered",
                                "rejected"}]
          /\ acquire \in [Caller -> {"none", "checking", "awaiting"}]
          /\ entry \in [Caller -> Adapter \cup {None}] /\ aborted \subseteq Caller
      BY DEF Init
    <2> QED
      BY <2>1, <2>2, <2>3, <2>4 DEF TypeOK
  <1>2. Counted
    BY CallersCounted DEF Init, Counted
  <1>3. PoolOK /\ NoneChecking /\ Owned
    BY CallersCounted DEF Init, PoolOK, NoneChecking, Owned, None, Adapter
  <1>4. ChainOK
    BY DEF Init, ChainOK, Placed, Downward, Held, Apart, Wanted, Queued
  <1> QED
    BY <1>1, <1>2, <1>3, <1>4 DEF IInv

-----------------------------------------------------------------------------
(* Types. *)

LEMMA NewAdapter ==
  ASSUME IInv, NEW c \in Caller, Delegate(c)
  PROVE  made + 1 \in Adapter
  <1>1. pc[c] = "idle" /\ pc' = [pc EXCEPT ![c] = "acquiring"]
    BY DEF Delegate
  <1>2. made \in Nat /\ made <= Cardinality(Called)
    BY CallersCounted DEF IInv, TypeOK, Counted
  <1>3. /\ Cardinality(Called') = Cardinality(Called) + 1
        /\ Cardinality(Called') <= Cardinality(Caller)
    BY <1>1, OneMoreCalled DEF IInv
  <1> QED
    BY <1>2, <1>3, CallersCounted DEF Adapter

LEMMA AcquiringTypes ==
  ASSUME IInv, NEW c \in Caller,
         RejectPreAborted(c) \/ Delegate(c) \/ Check(c) \/ CreationFailed(c) \/ Join(c)
  PROVE  TypeOK'
  <1>0. TypeOK /\ Placed
    BY DEF IInv, ChainOK
  <1>1. CASE RejectPreAborted(c)
    BY <1>0, <1>1 DEF RejectPreAborted, TypeOK, adapterVars, lockVars
  <1>2. CASE Delegate(c)
    <2>1. made + 1 \in Adapter /\ made + 1 \in 0 .. Cardinality(Caller)
      BY <1>2, NewAdapter DEF Adapter
    <2>2. pool' \in Adapter \cup {None} /\ made' \in 0 .. Cardinality(Caller)
      BY <1>0, <1>2, <2>1 DEF Delegate, Create, Reuse, TypeOK
    <2>3. phase' \in [Adapter -> {"unborn", "starting", "ready", "failed"}]
      BY <1>0, <1>2, <2>1 DEF Delegate, Create, Reuse, TypeOK
    <2>4. entry' \in [Caller -> Adapter \cup {None}]
      BY <1>0, <1>2, <2>1 DEF Delegate, Create, Reuse, TypeOK
    <2>5. /\ pc' = [pc EXCEPT ![c] = "acquiring"]
          /\ acquire' \in [Caller -> {"none", "checking", "awaiting"}]
      BY <1>0, <1>2 DEF Delegate, Create, Reuse, TypeOK
    <2>6. UNCHANGED <<process, doomed, locks, lock, resolved, aborted, inflight, closed>>
      BY <1>2 DEF Delegate, lockVars
    <2>7. pc' \in [Caller -> {"idle", "acquiring", "waiting", "prompting", "answered",
                             "rejected"}]
      BY <1>0, <2>5 DEF TypeOK
    <2> QED
      BY <1>0, <2>2, <2>3, <2>4, <2>5, <2>6, <2>7 DEF TypeOK
  <1>3. CASE Check(c)
    BY <1>0, <1>3 DEF Check, TypeOK, adapterVars, lockVars
  <1>4. CASE CreationFailed(c)
    BY <1>0, <1>4
       DEF CreationFailed, Reject, EvictPooled, TypeOK, adapterVars, lockVars, None
  <1>5. CASE Join(c)
    BY <1>0, <1>5 DEF Join, Placed, TypeOK, adapterVars, lockVars
  <1> QED
    BY <1>1, <1>2, <1>3, <1>4, <1>5

LEMMA PromptingTypes ==
  ASSUME IInv, NEW c \in Caller, Prompt(c) \/ AgentEnds(c) \/ Abort(c)
  PROVE  TypeOK'
  <1>0. TypeOK
    BY DEF IInv
  <1>1. CASE Prompt(c)
    BY <1>0, <1>1
       DEF Prompt, HasTurn, Release, Reject, EvictPooled, TypeOK, adapterVars, lockVars,
           None
  <1>2. CASE AgentEnds(c)
    BY <1>0, <1>2
       DEF AgentEnds, Release, Reject, EvictPooled, TypeOK, adapterVars, lockVars, None
  <1>3. CASE Abort(c)
    BY <1>0, <1>3
       DEF Abort, Release, Reject, EvictPooled, TypeOK, adapterVars, lockVars, None
  <1> QED
    BY <1>1, <1>2, <1>3

LEMMA OtherTypes ==
  ASSUME IInv, (\E a \in Adapter : AdapterStep(a)) \/ DisposeAll \/ UNCHANGED vars
  PROVE  TypeOK'
  <1>0. TypeOK
    BY DEF IInv
  <1>1. ASSUME NEW a \in Adapter, AdapterStep(a) PROVE TypeOK'
    BY <1>0, <1>1 DEF AdapterStep, Spawn, Prepare, Dispose, TypeOK, lockVars
  <1>2. CASE DisposeAll
    BY <1>0, <1>2 DEF DisposeAll, EvictPooled, TypeOK, adapterVars, lockVars, None
  <1>3. CASE UNCHANGED vars
    BY <1>0, <1>3 DEF vars, TypeOK, adapterVars, lockVars
  <1> QED
    BY <1>1, <1>2, <1>3

LEMMA TypesKept == IInv /\ [Next]_vars => TypeOK'
  BY AcquiringTypes, PromptingTypes, OtherTypes DEF Next, CallStep

LEMMA CountedKept == IInv /\ [Next]_vars => Counted'
  <1> SUFFICES ASSUME IInv, [Next]_vars PROVE Counted'
    OBVIOUS
  <1>0. TypeOK /\ TypeOK' /\ made <= Cardinality(Called) /\ Placed
    BY TypesKept DEF IInv, ChainOK, Counted
  <1>1. ASSUME NEW c \in Caller, Delegate(c) PROVE Counted'
    <2>1. Cardinality(Called') = Cardinality(Called) + 1
      BY <1>0, <1>1, OneMoreCalled DEF Delegate
    <2>2. made' <= made + 1
      BY <1>0, <1>1 DEF Delegate, Create, Reuse, TypeOK
    <2> QED
      BY <1>0, <2>1, <2>2, CallersCounted DEF Counted, TypeOK
  <1>2. ASSUME NEW c \in Caller, RejectPreAborted(c) PROVE Counted'
    <2>1. Cardinality(Called') = Cardinality(Called) + 1
      BY <1>0, <1>2, OneMoreCalled DEF RejectPreAborted
    <2>2. made' = made
      BY <1>2 DEF RejectPreAborted, adapterVars
    <2> QED
      BY <1>0, <2>1, <2>2, CallersCounted DEF Counted, TypeOK
  <1>3. ASSUME NEW c \in Caller,
               \/ Check(c) \/ CreationFailed(c) \/ Join(c)
               \/ Prompt(c) \/ AgentEnds(c) \/ Abort(c)
        PROVE  made' = made /\ \A d \in Caller : pc[d] = "idle" <=> pc'[d] = "idle"
    <2>1. made' = made
      BY <1>3 DEF Check, CreationFailed, Join, Prompt, AgentEnds, Abort, adapterVars
    <2>2. CASE Check(c)
      BY <2>1, <2>2 DEF Check
    <2>3. CASE CreationFailed(c) \/ Join(c)
      BY <1>0, <2>1, <2>3 DEF CreationFailed, Join, Reject, Placed, TypeOK
    <2>4. CASE Prompt(c) \/ AgentEnds(c) \/ Abort(c)
      BY <1>0, <2>1, <2>4 DEF Prompt, HasTurn, AgentEnds, Abort, Reject, TypeOK
    <2> QED
      BY <1>3, <2>2, <2>3, <2>4
  <1>4. ASSUME (\E a \in Adapter : AdapterStep(a)) \/ DisposeAll \/ UNCHANGED vars
        PROVE  made' = made /\ pc' = pc
    BY <1>4 DEF AdapterStep, Spawn, Prepare, Dispose, DisposeAll, vars, adapterVars
  <1>5. made' = made /\ (\A d \in Caller : pc[d] = "idle" <=> pc'[d] = "idle") => Counted'
    BY <1>0, SameCalled DEF Counted
  <1> QED
    BY <1>1, <1>2, <1>3, <1>4, <1>5 DEF Next, CallStep

-----------------------------------------------------------------------------
(* The pool. *)

LEMMA DelegatePool ==
  ASSUME IInv, NEW c \in Caller, Delegate(c)
  PROVE  (PoolOK /\ NoneChecking /\ Owned)'
  <1>0. TypeOK /\ PoolOK /\ NoneChecking /\ Owned
    BY DEF IInv
  <1>1. made + 1 \in Adapter /\ made \in Nat /\ None \notin Adapter
    BY <1>0, NewAdapter DEF TypeOK, Adapter, None
  <1>2. /\ pc' = [pc EXCEPT ![c] = "acquiring"] /\ pc[c] = "idle"
        /\ UNCHANGED <<process, doomed, aborted, closed>>
    BY DEF Delegate
  <1>3. ~closed
    BY <1>0, <1>2 DEF PoolOK
  <1>4. CASE Create(c)
    <2>1. /\ made' = made + 1 /\ pool' = made + 1 /\ pool = None
          /\ phase' = [phase EXCEPT ![made + 1] = "starting"]
          /\ entry' = [entry EXCEPT ![c] = made + 1]
          /\ acquire' = [acquire EXCEPT ![c] = "awaiting"]
      BY <1>4 DEF Create
    <2>2. phase[made + 1] = "unborn" /\ process[made + 1] = "none"
      BY <1>0, <1>1 DEF PoolOK
    <2>3. \A a \in Adapter : a \in Nat /\ (a > made + 1 <=> a > made /\ a # made + 1)
      BY <1>1 DEF Adapter
    <2>4. PoolOK'
      <3>1. \A a \in Adapter : phase'[a] = "unborn" <=> a > made'
        BY <1>0, <1>1, <2>1, <2>3 DEF PoolOK, TypeOK
      <3>2. \A a \in Adapter : phase'[a] = "unborn" => process'[a] = "none"
        BY <1>0, <1>1, <1>2, <2>1, <2>2 DEF PoolOK, TypeOK
      <3>3. \A a \in Adapter : phase'[a] = "ready" => process'[a] # "none"
        BY <1>0, <1>1, <1>2, <2>1, <2>2 DEF PoolOK, TypeOK
      <3>4. \A a \in doomed' : a <= made' /\ a # pool'
        BY <1>0, <1>1, <1>2, <2>1, <2>3 DEF PoolOK, TypeOK
      <3>5. \A a \in Adapter : process'[a] = "killed" => a # pool'
        BY <1>0, <1>2, <2>1, <2>2
      <3> QED
        BY <1>1, <1>2, <1>3, <2>1, <3>1, <3>2, <3>3, <3>4, <3>5 DEF PoolOK
    <2>5. NoneChecking'
      BY <1>0, <1>2, <2>1 DEF NoneChecking, TypeOK
    <2>6. Owned'
      <3> SUFFICES ASSUME aborted' = {}, \A a \in Adapter : phase'[a] # "failed",
                          NEW a \in Adapter, a <= made'
                   PROVE  a = pool' \/ a \in doomed' \/ process'[a] = "killed"
        BY DEF Owned
      <3>1. aborted = {} /\ \A b \in Adapter : phase[b] # "failed"
        BY <1>0, <1>1, <1>2, <2>1, <2>2 DEF TypeOK
      <3>2. a = made + 1 \/ a <= made
        BY <1>1, <2>1, <2>3
      <3>3. a # pool
        BY <1>1, <2>1
      <3> QED
        BY <1>0, <1>2, <2>1, <3>1, <3>2, <3>3 DEF Owned
    <2> QED
      BY <2>4, <2>5, <2>6
  <1>5. CASE Reuse(c)
    <2>1. /\ pool # None /\ entry' = [entry EXCEPT ![c] = pool]
          /\ acquire' = [acquire EXCEPT ![c] = "checking"]
          /\ UNCHANGED <<pool, made, phase>>
      BY <1>5 DEF Reuse
    <2>2. PoolOK'
      BY <1>0, <1>2, <1>3, <2>1 DEF PoolOK
    <2>3. NoneChecking'
      BY <1>0, <1>2, <2>1 DEF NoneChecking, PoolOK, TypeOK
    <2>4. Owned'
      BY <1>0, <1>2, <2>1 DEF Owned
    <2> QED
      BY <2>2, <2>3, <2>4
  <1> QED
    BY <1>4, <1>5 DEF Delegate

(* Whoever evicts the pooled entry, by a failure or by dispose(), leaves it doomed. *)
LEMMA EvictPool ==
  ASSUME IInv, EvictPooled, UNCHANGED <<made, phase, process>>,
         \A c \in Caller : acquire'[c] = "checking" => acquire[c] = "checking",
         UNCHANGED entry, aborted \subseteq aborted',
         \A c \in Caller : pc'[c] = "idle" => pc[c] = "idle",
         closed' => closed \/ \A c \in Caller : pc[c] # "idle"
  PROVE  (PoolOK /\ NoneChecking /\ Owned)'
  <1>0. TypeOK /\ PoolOK /\ NoneChecking /\ Owned
    BY DEF IInv
  <1>1. pool' = None /\ doomed' = doomed \cup ({pool} \ {None}) /\ None \notin Adapter
    BY DEF EvictPooled, Adapter, None
  <1>2. PoolOK'
    <2>1. made' >= pool' /\ made \in Nat
      BY <1>0, <1>1 DEF TypeOK, None
    <2>2. \A a \in doomed' : a <= made' /\ a # pool'
      BY <1>0, <1>1 DEF PoolOK, TypeOK
    <2> QED
      BY <1>0, <1>1, <2>1, <2>2 DEF PoolOK
  <1>3. NoneChecking'
    BY <1>0 DEF NoneChecking
  <1>4. Owned'
    BY <1>0, <1>1 DEF Owned
  <1> QED
    BY <1>2, <1>3, <1>4

(* A step that leaves the pool alone, but for an entry whose creation failed. *)
LEMMA SamePool ==
  ASSUME IInv, UNCHANGED <<made, phase, process, doomed, closed, entry>>,
         pool' = pool \/ (pool' = None /\ \E a \in Adapter : phase[a] = "failed"),
         \A c \in Caller : acquire'[c] = "checking" => acquire[c] = "checking",
         aborted \subseteq aborted',
         \A c \in Caller : pc'[c] = "idle" => pc[c] = "idle"
  PROVE  (PoolOK /\ NoneChecking /\ Owned)'
  <1>0. TypeOK /\ PoolOK /\ NoneChecking /\ Owned
    BY DEF IInv
  <1>1. None \notin Adapter /\ None <= made
    BY <1>0 DEF TypeOK, Adapter, None
  <1>2. PoolOK'
    BY <1>0, <1>1 DEF PoolOK, TypeOK
  <1>3. NoneChecking'
    BY <1>0 DEF NoneChecking
  <1>4. Owned'
    BY <1>0 DEF Owned
  <1> QED
    BY <1>2, <1>3, <1>4

LEMMA CallPool ==
  ASSUME IInv, NEW c \in Caller, CallStep(c) \/ Abort(c)
  PROVE  (PoolOK /\ NoneChecking /\ Owned)'
  <1>0. TypeOK /\ Placed
    BY DEF IInv, ChainOK
  <1>1. CASE RejectPreAborted(c)
    BY <1>0, <1>1, SamePool DEF RejectPreAborted, adapterVars, TypeOK
  <1>2. CASE Check(c)
    BY <1>0, <1>2, SamePool DEF Check, adapterVars, TypeOK
  <1>3. CASE CreationFailed(c)
    <2>1. entry[c] \in Adapter /\ phase[entry[c]] = "failed" /\ pc[c] # "idle"
      BY <1>0, <1>3 DEF CreationFailed, Placed
    <2>2. /\ \A d \in Caller : acquire'[d] = "checking" => acquire[d] = "checking"
          /\ UNCHANGED <<made, phase, process, closed, entry, aborted>>
      BY <1>0, <1>3 DEF CreationFailed, adapterVars, TypeOK
    <2>3. \A d \in Caller : pc'[d] = "idle" => pc[d] = "idle"
      BY <1>0, <1>3 DEF CreationFailed, Reject, TypeOK
    <2>4. \/ EvictPooled
          \/ UNCHANGED doomed /\ pool' = None
          \/ UNCHANGED <<doomed, pool>>
      BY <1>3 DEF CreationFailed, Reject
    <2> QED
      BY <2>1, <2>2, <2>3, <2>4, SamePool, EvictPool
  <1>4. CASE Join(c)
    BY <1>0, <1>4, SamePool DEF Join, adapterVars, TypeOK
  <1>5. CASE Prompt(c) \/ AgentEnds(c) \/ Abort(c)
    <2>1. UNCHANGED <<made, phase, process, closed, entry, acquire>>
      BY <1>5 DEF Prompt, AgentEnds, Abort, adapterVars
    <2>2. aborted \subseteq aborted'
      BY <1>5 DEF Prompt, AgentEnds, Abort
    <2>3. EvictPooled \/ UNCHANGED <<doomed, pool>>
      BY <1>5 DEF Prompt, AgentEnds, Abort, Reject
    <2>4. \A d \in Caller : pc'[d] = "idle" => pc[d] = "idle"
      BY <1>0, <1>5 DEF Prompt, AgentEnds, Abort, Reject, TypeOK
    <2> QED
      BY <2>1, <2>2, <2>3, <2>4, SamePool, EvictPool
  <1> QED
    BY <1>1, <1>2, <1>3, <1>4, <1>5, DelegatePool DEF CallStep

LEMMA AdapterPool ==
  ASSUME IInv, NEW a \in Adapter, AdapterStep(a)
  PROVE  (PoolOK /\ NoneChecking /\ Owned)'
  <1>0. TypeOK /\ PoolOK /\ NoneChecking /\ Owned
    BY DEF IInv
  <1>1. CASE Spawn(a)
    <2>1. PoolOK'
      BY <1>0, <1>1 DEF Spawn, PoolOK, TypeOK
    <2>2. NoneChecking'
      BY <1>0, <1>1 DEF Spawn, NoneChecking, TypeOK
    <2>3. Owned'
      BY <1>0, <1>1 DEF Spawn, Owned, TypeOK
    <2> QED
      BY <2>1, <2>2, <2>3
  <1>2. CASE Prepare(a)
    <2>1. PoolOK'
      BY <1>0, <1>2 DEF Prepare, PoolOK, TypeOK
    <2>2. NoneChecking'
      BY <1>0, <1>2 DEF Prepare, NoneChecking
    <2>3. Owned'
      BY <1>0, <1>2 DEF Prepare, Owned, TypeOK
    <2> QED
      BY <2>1, <2>2, <2>3
  <1>3. CASE Dispose(a)
    <2>1. a <= made /\ a # pool /\ phase[a] # "unborn"
      BY <1>0, <1>3 DEF Dispose, PoolOK, TypeOK, Adapter
    <2>2. PoolOK'
      BY <1>0, <1>3, <2>1 DEF Dispose, PoolOK, TypeOK
    <2>3. NoneChecking'
      BY <1>0, <1>3 DEF Dispose, NoneChecking, TypeOK
    <2>4. Owned'
      BY <1>0, <1>3, <2>1 DEF Dispose, Owned, TypeOK
    <2> QED
      BY <2>2, <2>3, <2>4
  <1> QED
    BY <1>1, <1>2, <1>3 DEF AdapterStep

LEMMA PoolKept == IInv /\ [Next]_vars => (PoolOK /\ NoneChecking /\ Owned)'
  <1> SUFFICES ASSUME IInv, [Next]_vars PROVE (PoolOK /\ NoneChecking /\ Owned)'
    OBVIOUS
  <1>1. CASE DisposeAll
    BY <1>1, EvictPool DEF DisposeAll, adapterVars
  <1>2. CASE UNCHANGED vars
    BY <1>2, SamePool DEF vars, adapterVars
  <1> QED
    BY <1>1, <1>2, CallPool, AdapterPool DEF Next

-----------------------------------------------------------------------------
(* The chain of locks. *)

\* A step that hands out and resolves no lock, and begins no prompt.
LEMMA SameChain ==
  ASSUME TypeOK, ChainOK, Placed',
         UNCHANGED <<locks, resolved, lock>>,
         \A c \in Caller :
           Queued(c)' => Queued(c) /\ pc'[c] = pc[c] /\ entry'[c] = entry[c],
         \A a \in Adapter : \A c \in inflight'[a] :
           /\ c \in inflight[a]
           /\ c \in aborted' \/ (pc'[c] = pc[c] /\ entry'[c] = entry[c]),
         aborted \subseteq aborted'
  PROVE  ChainOK'
  <1>0. Placed /\ Downward /\ Held /\ Apart /\ Wanted
    BY DEF ChainOK
  <1>1. Downward'
    BY <1>0 DEF Downward
  <1>2. Held'
    BY <1>0 DEF Held
  <1>3. Apart'
    BY <1>0 DEF Apart
  <1>4. Wanted'
    BY <1>0 DEF Wanted
  <1> QED
    BY <1>1, <1>2, <1>3, <1>4 DEF ChainOK

\* c, whose turn it is or was, resolves its lock and leaves the queue.
LEMMA ReleaseChain ==
  ASSUME TypeOK, ChainOK, Placed', NEW c \in Caller, Queued(c), ~Queued(c)',
         lock[c] - 1 \in resolved[entry[c]], Release(c),
         UNCHANGED <<locks, lock, entry>>,
         \A d \in Caller \ {c} : pc'[d] = pc[d],
         aborted \subseteq aborted',
         \A a \in Adapter : \A d \in inflight'[a] :
           d \in aborted' \/ (d \in inflight[a] /\ d # c)
  PROVE  ChainOK'
  <1>0. Placed /\ Downward /\ Held /\ Apart /\ Wanted
    BY DEF ChainOK
  <1> DEFINE a == entry[c]
             n == lock[c]
  <1>1. a \in Adapter /\ n \in Nat /\ n >= 1 /\ n <= locks[a] /\ n \notin resolved[a]
    BY <1>0 DEF Placed, Held, TypeOK
  <1>2. /\ resolved' = [resolved EXCEPT ![a] = @ \cup {n}]
        /\ resolved'[a] = resolved[a] \cup {n}
        /\ \A b \in Adapter \ {a} : resolved'[b] = resolved[b]
    BY <1>1 DEF Release, TypeOK
  <1>3. Downward'
    <2>1. 0 .. n - 1 \subseteq resolved[a]
      BY <1>0, <1>1 DEF Downward
    <2>2. 0 .. n \subseteq resolved[a] \cup {n}
      <3>1. 0 .. n = (0 .. n - 1) \cup {n}
        BY <1>1
      <3> QED
        BY <2>1, <3>1
    <2> QED
      BY <1>0, <1>1, <1>2, <2>2 DEF Downward
  <1>4. \A d \in Caller : Queued(d)' => d # c /\ Queued(d) /\ pc'[d] = pc[d]
    BY DEF Queued
  <1>5. Held'
    <2> SUFFICES ASSUME NEW d \in Caller, Queued(d)'
                 PROVE  /\ lock[d] >= 1 /\ lock[d] <= locks[entry[d]]
                        /\ lock[d] \notin resolved'[entry[d]]
                        /\ pc[d] = "prompting" => lock[d] - 1 \in resolved'[entry[d]]
      BY <1>4 DEF Held
    <2>1. d # c /\ Queued(d) /\ entry[d] \in Adapter
      BY <1>0, <1>4 DEF Placed
    <2>2. /\ lock[d] >= 1 /\ lock[d] <= locks[entry[d]]
          /\ lock[d] \notin resolved[entry[d]]
          /\ pc[d] = "prompting" => lock[d] - 1 \in resolved[entry[d]]
      BY <1>0, <2>1 DEF Held
    <2>3. entry[d] = a => lock[d] # n
      BY <1>0, <2>1 DEF Apart
    <2> QED
      BY <1>1, <1>2, <2>1, <2>2, <2>3
  <1>6. Apart'
    BY <1>0, <1>4 DEF Apart
  <1>7. Wanted'
    BY <1>0 DEF Wanted, TypeOK
  <1> QED
    BY <1>3, <1>5, <1>6, <1>7 DEF ChainOK

LEMMA PlacedKept == IInv /\ [Next]_vars => Placed'
  <1> SUFFICES ASSUME IInv, [Next]_vars PROVE Placed'
    OBVIOUS
  <1>0. TypeOK /\ Placed
    BY DEF IInv, ChainOK
  <1>1. ASSUME NEW c \in Caller, Delegate(c) PROVE Placed'
    <2>1. made + 1 \in Adapter
      BY <1>1, NewAdapter
    <2>2. /\ pc' = [pc EXCEPT ![c] = "acquiring"]
          /\ \/ entry' = [entry EXCEPT ![c] = made + 1]
             \/ pool # None /\ entry' = [entry EXCEPT ![c] = pool]
          /\ \/ acquire' = [acquire EXCEPT ![c] = "awaiting"]
             \/ acquire' = [acquire EXCEPT ![c] = "checking"]
      BY <1>1 DEF Delegate, Create, Reuse
    <2> QED
      BY <1>0, <2>1, <2>2 DEF Placed, Queued, TypeOK
  <1>2. ASSUME NEW c \in Caller, RejectPreAborted(c) PROVE Placed'
    BY <1>0, <1>2 DEF RejectPreAborted, Placed, Queued, TypeOK
  <1>3. ASSUME NEW c \in Caller, Check(c) PROVE Placed'
    BY <1>0, <1>3 DEF Check, Placed, Queued, TypeOK
  <1>4. ASSUME NEW c \in Caller, CreationFailed(c) \/ Join(c) PROVE Placed'
    BY <1>0, <1>4 DEF CreationFailed, Join, Reject, Placed, Queued, TypeOK
  <1>5. ASSUME NEW c \in Caller, Prompt(c) \/ AgentEnds(c) \/ Abort(c) PROVE Placed'
    BY <1>0, <1>5 DEF Prompt, HasTurn, AgentEnds, Abort, Reject, Placed, Queued, TypeOK
  <1>6. ASSUME (\E a \in Adapter : AdapterStep(a)) \/ DisposeAll \/ UNCHANGED vars
        PROVE  Placed'
    <2>1. UNCHANGED <<pc, acquire, entry>>
      BY <1>6 DEF AdapterStep, Spawn, Prepare, Dispose, DisposeAll, vars
    <2> QED
      BY <1>0, <2>1 DEF Placed, Queued
  <1> QED
    BY <1>1, <1>2, <1>3, <1>4, <1>5, <1>6 DEF Next, CallStep

LEMMA AcquireChain ==
  ASSUME IInv, NEW c \in Caller, Placed',
         RejectPreAborted(c) \/ Delegate(c) \/ Check(c) \/ CreationFailed(c)
  PROVE  ChainOK'
  <1>0. TypeOK /\ ChainOK /\ Placed /\ Wanted
    BY DEF IInv, ChainOK
  <1>1. UNCHANGED <<locks, resolved, lock, inflight, aborted>>
    BY DEF RejectPreAborted, Delegate, Check, CreationFailed, lockVars
  <1>2. ~Queued(c)
    BY <1>0 DEF RejectPreAborted, Delegate, Check, CreationFailed, Placed, Queued
  <1>3. ~Queued(c)'
    BY <1>0, <1>2
       DEF RejectPreAborted, Delegate, Check, CreationFailed, Reject, Queued, TypeOK
  <1>4. \A d \in Caller \ {c} : pc'[d] = pc[d] /\ entry'[d] = entry[d]
    BY <1>0
       DEF RejectPreAborted, Delegate, Create, Reuse, Check, CreationFailed, Reject, TypeOK
  <1>5. \A d \in Caller : Queued(d)' => Queued(d) /\ pc'[d] = pc[d] /\ entry'[d] = entry[d]
    BY <1>3, <1>4 DEF Queued
  <1>6. \A a \in Adapter : \A d \in inflight'[a] :
          d \in inflight[a] /\ (d \in aborted' \/ (pc'[d] = pc[d] /\ entry'[d] = entry[d]))
    BY <1>0, <1>1, <1>2, <1>4 DEF Wanted, Queued, TypeOK
  <1> QED
    BY <1>0, <1>1, <1>5, <1>6, SameChain

LEMMA JoinChain ==
  ASSUME IInv, NEW c \in Caller, Placed', Join(c)
  PROVE  ChainOK'
  <1>0. TypeOK /\ ChainOK /\ Placed /\ Downward /\ Held /\ Apart /\ Wanted
    BY DEF IInv, ChainOK
  <1>1. /\ acquire[c] = "awaiting" /\ ~Queued(c) /\ entry[c] \in Adapter
        /\ UNCHANGED <<resolved, entry, inflight, aborted>>
    BY <1>0 DEF Join, Placed
  <1>2. CASE pc[c] # "acquiring"
    <2>1. UNCHANGED <<locks, lock, pc>>
      BY <1>2 DEF Join, lockVars
    <2> QED
      BY <1>0, <1>1, <2>1, SameChain DEF Queued
  <1>3. CASE pc[c] = "acquiring"
    <2> DEFINE a == entry[c]
               n == locks[a] + 1
    <2>1. /\ locks' = [locks EXCEPT ![a] = n] /\ lock' = [lock EXCEPT ![c] = n]
          /\ pc' = [pc EXCEPT ![c] = "waiting"]
      BY <1>0, <1>3 DEF Join, TypeOK
    <2>2. a \in Adapter /\ locks[a] \in Nat /\ resolved[a] \subseteq Nat
      BY <1>0, <1>1 DEF TypeOK
    <2>3. /\ pc'[c] = "waiting" /\ lock'[c] = n /\ locks'[a] = n
          /\ \A d \in Caller \ {c} : pc'[d] = pc[d] /\ lock'[d] = lock[d]
          /\ \A b \in Adapter \ {a} : locks'[b] = locks[b]
      BY <1>0, <2>1, <2>2 DEF TypeOK
    <2>4. Downward'
      BY <1>0, <1>1, <2>2, <2>3 DEF Downward, TypeOK
    <2>5. Held'
      <3> SUFFICES ASSUME NEW d \in Caller, Queued(d)'
                   PROVE  /\ lock'[d] >= 1 /\ lock'[d] <= locks'[entry[d]]
                          /\ lock'[d] \notin resolved[entry[d]]
                          /\ pc'[d] = "prompting" => lock'[d] - 1 \in resolved[entry[d]]
        BY <1>1 DEF Held
      <3>1. CASE d = c
        <4>1. n \notin resolved[a]
          BY <1>0, <2>2 DEF Downward
        <4> QED
          BY <3>1, <4>1, <2>2, <2>3
      <3>2. CASE d # c
        <4>1. Queued(d) /\ lock'[d] = lock[d] /\ pc'[d] = pc[d] /\ entry[d] \in Adapter
          BY <3>2, <2>3, <1>0 DEF Queued, Placed
        <4>2. /\ lock[d] >= 1 /\ lock[d] <= locks[entry[d]]
              /\ lock[d] \notin resolved[entry[d]]
              /\ pc[d] = "prompting" => lock[d] - 1 \in resolved[entry[d]]
          BY <1>0, <4>1 DEF Held
        <4>3. locks[entry[d]] <= locks'[entry[d]] /\ lock[d] \in Nat
              /\ locks[entry[d]] \in Nat
          BY <1>0, <2>2, <2>3, <4>1 DEF TypeOK
        <4>4. locks'[entry[d]] \in Nat
          BY <2>2, <2>3, <4>1, <4>3
        <4>5. lock[d] <= locks'[entry[d]]
          BY <4>2, <4>3, <4>4
        <4> QED
          BY <4>1, <4>2, <4>5
      <3> QED
        BY <3>1, <3>2
    <2>6. \A d \in Caller \ {c} : Queued(d) /\ entry[d] = a => lock[d] # n
      BY <1>0, <2>2 DEF Held, TypeOK
    <2>7. Apart'
      BY <1>0, <1>1, <2>3, <2>6 DEF Apart, Queued
    <2>8. Wanted'
      BY <1>0, <1>1, <1>3, <2>3 DEF Wanted, TypeOK
    <2> QED
      BY <2>4, <2>5, <2>7, <2>8 DEF ChainOK
  <1> QED
    BY <1>2, <1>3

LEMMA PromptChain ==
  ASSUME IInv, NEW c \in Caller, Placed', Prompt(c)
  PROVE  ChainOK'
  <1>0. TypeOK /\ ChainOK /\ Placed /\ Downward /\ Held /\ Apart /\ Wanted
    BY DEF IInv, ChainOK
  <1>1. /\ pc[c] = "waiting" /\ Queued(c) /\ entry[c] \in Adapter
        /\ lock[c] - 1 \in resolved[entry[c]]
        /\ UNCHANGED <<locks, lock, entry, aborted>>
    BY <1>0 DEF Prompt, HasTurn, Queued, Placed, lockVars
  <1>2. CASE process[entry[c]] = "running" /\ c \notin aborted
    <2>1. /\ inflight' = [inflight EXCEPT ![entry[c]] = @ \cup {c}]
          /\ pc' = [pc EXCEPT ![c] = "prompting"] /\ UNCHANGED resolved
      BY <1>2 DEF Prompt
    <2>2. /\ pc'[c] = "prompting" /\ \A d \in Caller \ {c} : pc'[d] = pc[d]
          /\ \A d \in Caller : Queued(d)' => Queued(d)
      BY <1>0, <1>1, <2>1 DEF Queued, TypeOK
    <2>3. Downward'
      BY <1>0, <1>1, <2>1 DEF Downward
    <2>4. Held'
      BY <1>0, <1>1, <2>1, <2>2 DEF Held
    <2>5. Apart'
      BY <1>0, <1>1, <2>2 DEF Apart
    <2>6. Wanted'
      BY <1>0, <1>1, <2>1, <2>2 DEF Wanted, TypeOK
    <2> QED
      BY <2>3, <2>4, <2>5, <2>6 DEF ChainOK
  <1>3. CASE ~(process[entry[c]] = "running" /\ c \notin aborted)
    <2>1. /\ Release(c) /\ pc' = [pc EXCEPT ![c] = "rejected"]
          /\ \/ inflight' = inflight
             \/ inflight' = [inflight EXCEPT ![entry[c]] = @ \cup {c}] /\ c \in aborted
      BY <1>3 DEF Prompt, Reject
    <2>2. ~Queued(c)' /\ \A d \in Caller \ {c} : pc'[d] = pc[d]
      BY <1>0, <2>1 DEF Queued, TypeOK
    <2>3. \A a \in Adapter : \A d \in inflight'[a] :
            d \in aborted' \/ (d \in inflight[a] /\ d # c)
      BY <1>0, <1>1, <2>1 DEF Wanted, TypeOK
    <2> QED
      BY <1>0, <1>1, <2>1, <2>2, <2>3, ReleaseChain
  <1> QED
    BY <1>2, <1>3

LEMMA AgentEndsChain ==
  ASSUME IInv, NEW c \in Caller, Placed', AgentEnds(c)
  PROVE  ChainOK'
  <1>0. TypeOK /\ ChainOK /\ Placed /\ Held /\ Wanted
    BY DEF IInv, ChainOK
  <1>1. /\ inflight' = [inflight EXCEPT ![entry[c]] = @ \ {c}]
        /\ UNCHANGED <<locks, lock, entry, aborted>>
    BY DEF AgentEnds, lockVars
  <1>2. \A a \in Adapter : inflight'[a] \subseteq inflight[a]
    BY <1>0, <1>1 DEF TypeOK
  <1>3. CASE pc[c] # "prompting"
    <2>1. UNCHANGED <<resolved, pc>>
      BY <1>3 DEF AgentEnds
    <2> QED
      BY <1>0, <1>1, <1>2, <2>1, SameChain DEF Queued
  <1>4. CASE pc[c] = "prompting"
    <2>1. Release(c) /\ \E s \in {"answered", "rejected"} : pc' = [pc EXCEPT ![c] = s]
      BY <1>4 DEF AgentEnds, Reject
    <2>2. ~Queued(c)' /\ \A d \in Caller \ {c} : pc'[d] = pc[d]
      BY <1>0, <2>1 DEF Queued, TypeOK
    <2>3. Queued(c) /\ lock[c] - 1 \in resolved[entry[c]] /\ entry[c] \in Adapter
      BY <1>0, <1>4 DEF Held, Placed, Queued
    <2>4. \A a \in Adapter : \A d \in inflight'[a] :
            d \in aborted' \/ (d \in inflight[a] /\ d # c)
      BY <1>0, <1>1, <1>2, <2>3 DEF Wanted, TypeOK
    <2> QED
      BY <1>0, <1>1, <2>1, <2>2, <2>3, <2>4, ReleaseChain
  <1> QED
    BY <1>3, <1>4

LEMMA AbortChain ==
  ASSUME IInv, NEW c \in Caller, Placed', Abort(c)
  PROVE  ChainOK'
  <1>0. TypeOK /\ ChainOK /\ Placed /\ Held /\ Wanted
    BY DEF IInv, ChainOK
  <1>1. aborted' = aborted \cup {c} /\ UNCHANGED <<locks, lock, entry, inflight>>
    BY DEF Abort, lockVars
  <1>2. CASE UNCHANGED <<pc, resolved>>
    BY <1>0, <1>1, <1>2, SameChain DEF Queued
  <1>3. CASE pc[c] = "acquiring" /\ Reject(c) /\ UNCHANGED resolved
    <2>1. ~Queued(c)' /\ \A d \in Caller \ {c} : pc'[d] = pc[d]
      BY <1>0, <1>3 DEF Reject, Queued, TypeOK
    <2> QED
      BY <1>0, <1>1, <1>3, <2>1, SameChain DEF Queued, TypeOK
  <1>4. CASE pc[c] = "prompting" /\ Release(c) /\ Reject(c)
    <2>1. ~Queued(c)' /\ \A d \in Caller \ {c} : pc'[d] = pc[d]
      BY <1>0, <1>4 DEF Reject, Queued, TypeOK
    <2>2. Queued(c) /\ lock[c] - 1 \in resolved[entry[c]]
      BY <1>0, <1>4 DEF Held, Queued
    <2> QED
      BY <1>0, <1>1, <1>4, <2>1, <2>2, ReleaseChain DEF TypeOK
  <1> QED
    BY <1>2, <1>3, <1>4 DEF Abort

LEMMA ChainKept == IInv /\ [Next]_vars => ChainOK'
  <1> SUFFICES ASSUME IInv, [Next]_vars PROVE ChainOK'
    OBVIOUS
  <1>0. TypeOK /\ ChainOK /\ Placed'
    BY PlacedKept DEF IInv
  <1>1. ASSUME (\E a \in Adapter : AdapterStep(a)) \/ DisposeAll \/ UNCHANGED vars
        PROVE  ChainOK'
    <2>1. UNCHANGED <<locks, resolved, lock, pc, entry, inflight, aborted>>
      BY <1>1 DEF AdapterStep, Spawn, Prepare, Dispose, DisposeAll, vars, lockVars
    <2> QED
      BY <1>0, <2>1, SameChain DEF Queued
  <1> QED
    BY <1>0, <1>1, AcquireChain, JoinChain, PromptChain, AgentEndsChain, AbortChain
       DEF Next, CallStep

-----------------------------------------------------------------------------
LEMMA Inductive == Spec => []IInv
  <1>1. IInv /\ [Next]_vars => IInv'
    BY TypesKept, CountedKept, PoolKept, ChainKept DEF IInv
  <1> QED
    BY <1>1, InitIInv, PTL DEF Spec

(* Every variable of the pool and of the calls keeps its type; in particular there *)
(* are never more adapters than calls of delegate().                               *)
THEOREM CoordinatorTypes == Spec => []TypeOK
  <1>1. IInv => TypeOK
    BY DEF IInv
  <1> QED
    BY <1>1, Inductive, PTL

(* The chain of locks never lets two calls into one session that both still want *)
(* their answer, however many calls there are and however they fail.             *)
THEOREM PromptsAreSerial == Spec => []SharedOnlyAfterAbort
  <1>1. IInv => SharedOnlyAfterAbort
    <2> SUFFICES ASSUME IInv, NEW a \in Adapter,
                        NEW c \in inflight[a], NEW d \in inflight[a], c # d,
                        c \notin aborted, d \notin aborted
                 PROVE  FALSE
      BY DEF SharedOnlyAfterAbort
    <2>0. TypeOK /\ Downward /\ Held /\ Apart /\ Wanted /\ c \in Caller /\ d \in Caller
      BY DEF IInv, ChainOK, TypeOK
    <2>1. /\ pc[c] = "prompting" /\ entry[c] = a /\ pc[d] = "prompting" /\ entry[d] = a
          /\ Queued(c) /\ Queued(d)
      BY <2>0 DEF Wanted, Queued
    <2>2. /\ lock[c] - 1 \in resolved[a] /\ lock[c] \notin resolved[a] /\ lock[c] >= 1
          /\ lock[d] - 1 \in resolved[a] /\ lock[d] \notin resolved[a] /\ lock[d] >= 1
      BY <2>0, <2>1 DEF Held
    <2>3. lock[c] # lock[d] /\ lock[c] \in Nat /\ lock[d] \in Nat
      BY <2>0, <2>1 DEF Apart, TypeOK
    <2>4. 0 .. lock[c] - 1 \subseteq resolved[a] /\ 0 .. lock[d] - 1 \subseteq resolved[a]
      BY <2>0, <2>2 DEF Downward
    <2>5. lock[c] \in 0 .. lock[d] - 1 \/ lock[d] \in 0 .. lock[c] - 1
      BY <2>2, <2>3
    <2> QED
      BY <2>2, <2>4, <2>5
  <1> QED
    BY <1>1, Inductive, PTL

(* A call that finds a ready adapter in the pool finds its process alive. *)
THEOREM PooledIsConnected == Spec => []FoundIsConnected
  <1>1. IInv => FoundIsConnected
    <2> SUFFICES ASSUME IInv, NEW c \in Caller, acquire[c] = "checking",
                        phase[entry[c]] = "ready"
                 PROVE  process[entry[c]] = "running"
      BY DEF FoundIsConnected
    <2>1. TypeOK /\ PoolOK /\ NoneChecking /\ entry[c] \in Adapter
      BY DEF IInv, ChainOK, Placed
    <2>2. process[entry[c]] # "none" /\ process[entry[c]] # "killed"
      BY <2>1 DEF PoolOK, NoneChecking
    <2> QED
      BY <2>1, <2>2 DEF TypeOK
  <1> QED
    BY <1>1, Inductive, PTL

(* Once the coordinator is disposed and every call is out of the pool, a child process *)
(* is left only if a creation failed or a call was aborted.                            *)
THEOREM NothingElseLeaks == Spec => []LeakNeedsFailedCreation
  <1>1. IInv => LeakNeedsFailedCreation
    <2> SUFFICES ASSUME IInv, closed, doomed = {}, aborted = {},
                        \A a \in Adapter : phase[a] # "failed", NEW a \in Adapter
                 PROVE  process[a] # "running"
      BY DEF LeakNeedsFailedCreation, Drained
    <2>1. PoolOK /\ Owned /\ TypeOK /\ a # None
      BY DEF IInv, Adapter, None
    <2>2. CASE a <= made
      BY <2>1, <2>2 DEF Owned, PoolOK
    <2>3. CASE ~(a <= made)
      <3>1. a > made
        BY <2>1, <2>3 DEF TypeOK, Adapter
      <3> QED
        BY <2>1, <3>1 DEF PoolOK
    <2> QED
      BY <2>2, <2>3
  <1> QED
    BY <1>1, Inductive, PTL

=============================================================================
