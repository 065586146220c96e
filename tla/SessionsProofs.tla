--------------------------- MODULE SessionsProofs ---------------------------
(***************************************************************************)
(* Proofs about the registries of sessions and the prompts in them, for    *)
(* any number of handles, tool calls and health checks.                    *)
(***************************************************************************)
EXTENDS Sessions, TLAPS

CallType ==
  [op : {"idle", "opening", "prompting"}, h : Handle \union {None},
   target : Handle \union {None}, closes : Closes]
SweepType == [ids : SUBSET Handle, grace : Handle \union {None}]
Registry == [Handle -> Handle \union {None}]

\* The types of what the handlers find their way by.
Types ==
  /\ phase \in [Handle -> Phases]
  /\ id \in Registry
  /\ sessions \in Registry /\ activeAdapters \in Registry
  /\ call \in [Caller -> CallType]
  /\ sweep \in [Sweep -> SweepType]

\* A handle being opened belongs to its call alone: nobody else can find it.
Opening ==
  \A c \in Caller : call[c].op = "opening" =>
    /\ call[c].h \in Handle /\ call[c].target \in Handle
    /\ phase[call[c].h] \in {"connecting", "creating"}
    /\ \A d \in Caller : call[d].op = "opening" /\ call[d].h = call[c].h => d = c

\* A handle has no id before its session is open.
Unopened == \A h \in Handle : phase[h] \notin {"open", "closed"} => id[h] = None

\* What a call or a check holds across an await was a session once, and may be closed.
WasSession(h) == h \in Handle /\ id[h] \in Handle /\ phase[h] \in {"open", "closed"}
Held ==
  /\ \A c \in Caller : call[c].op = "prompting" => WasSession(call[c].h)
  /\ \A w \in Sweep : sweep[w].grace # None => WasSession(sweep[w].grace)

\* While a session is prompting its busy mark is there, unless it is closed or its id has
\* had another handle.
Only(h) == \A g \in Handle \ {h} : id[g] # id[h]
Marked ==
  \A c \in Caller : call[c].op = "prompting" /\ Only(call[c].h) =>
    phase[call[c].h] = "closed" \/ id[call[c].h] \in busySessions

\* Two calls wait for a prompt of one handle only if its id has had another.
OneWaits ==
  \A c, d \in Caller :
    /\ c # d /\ call[c].op = "prompting" /\ call[d].op = "prompting"
    /\ call[c].h = call[d].h
    => \E g \in Handle \ {call[c].h} : id[g] = id[call[c].h]

SessionsIInv ==
  /\ Types /\ Opening /\ Unopened /\ Held
  /\ RegistriesAgree /\ Marked /\ OneWaits

LEMMA NoneIsNoHandle == None \notin Handle
  BY SessionsAssumption DEF None

LEMMA SessionsInit == Init => SessionsIInv
  <1> SUFFICES ASSUME Init PROVE SessionsIInv
    OBVIOUS
  <1>1. Types
    <2>1. Idle \in CallType /\ NoSweep \in SweepType
      BY DEF Idle, CallType, NoSweep, SweepType, Closes
    <2> QED
      BY <2>1 DEF Init, ClientInit, Types, Registry, Phases
  <1>2. \A c \in Caller : call[c].op = "idle"
    BY DEF Init, Idle
  <1>3. \A w \in Sweep : sweep[w].grace = None
    BY DEF Init, NoSweep
  <1>4. RegistriesAgree
    BY DEF Init, RegistriesAgree
  <1>5. \A h \in Handle : id[h] = None
    BY DEF Init
  <1> QED
    BY <1>1, <1>2, <1>3, <1>4, <1>5
       DEF SessionsIInv, Opening, Unopened, Held, Marked, OneWaits

-----------------------------------------------------------------------------
(* Steps that open nothing: handles stay as they are or are closed, and a    *)
(* call goes on or is over.                                                  *)
OnlyCloses == \A h \in Handle : phase'[h] \in {phase[h], "closed"}
ClosesOpen == \A h \in Handle : phase'[h] # phase[h] => phase[h] = "open"

LEMMA QuietStep ==
  ASSUME SessionsIInv, Types', id' = id, OnlyCloses, RegistriesAgree',
         \A c \in Caller : call'[c] = call[c] \/ call'[c].op = "idle",
         \A c \in Caller : call'[c].op = "opening" => phase'[call[c].h] = phase[call[c].h],
         \A w \in Sweep : sweep'[w].grace # None =>
           sweep'[w].grace = sweep[w].grace \/ WasSession(sweep'[w].grace),
         \A c \in Caller :
           /\ call'[c].op = "prompting" /\ Only(call[c].h)
           /\ id[call[c].h] \in busySessions \ busySessions'
           => phase'[call[c].h] = "closed"
  PROVE  SessionsIInv'
  <1> USE DEF SessionsIInv
  <1>1. \A h : WasSession(h) => WasSession(h)'
    BY DEF WasSession, OnlyCloses
  <1>2. \A c \in Caller : call'[c].op \in {"opening", "prompting"} => call'[c] = call[c]
    OBVIOUS
  <1>3. Opening'
    BY <1>2 DEF Opening, OnlyCloses
  <1>4. Held'
    <2>1. ASSUME NEW c \in Caller, call'[c].op = "prompting" PROVE WasSession(call[c].h)'
      <3>1. call'[c] = call[c] /\ WasSession(call[c].h)
        BY <1>2, <2>1 DEF Held
      <3> QED
        BY <1>1, <3>1 DEF WasSession
    <2>2. ASSUME NEW w \in Sweep, sweep'[w].grace # None PROVE WasSession(sweep[w].grace)'
      <3>1. PICK h : h = sweep'[w].grace
        OBVIOUS
      <3>2. WasSession(h)
        BY <2>2, <3>1 DEF Held
      <3>3. WasSession(h)'
        BY <1>1, <3>2
      <3> QED
        BY <3>1, <3>3 DEF WasSession
    <2> QED
      BY <2>1, <2>2 DEF Held
  <1>5. \A h : Only(h)' <=> Only(h)
    BY DEF Only
  <1>6. Marked'
    <2> SUFFICES ASSUME NEW c \in Caller, (call[c].op = "prompting" /\ Only(call[c].h))'
                 PROVE  (phase[call[c].h] = "closed" \/ id[call[c].h] \in busySessions)'
      BY DEF Marked
    <2>1. call'[c] = call[c] /\ call[c].op = "prompting" /\ Only(call[c].h)
      BY <1>2 DEF Only
    <2>2. phase[call[c].h] = "closed" \/ id[call[c].h] \in busySessions
      BY <2>1 DEF Marked
    <2>3. call[c].h \in Handle
      BY <2>1 DEF Held, WasSession
    <2> QED
      BY <2>1, <2>2, <2>3 DEF OnlyCloses
  <1>7. OneWaits'
    BY <1>2 DEF OneWaits
  <1>8. Unopened'
    BY DEF Unopened, OnlyCloses
  <1> QED
    BY <1>3, <1>4, <1>6, <1>7, <1>8

(* closeSession(): what it disposes was open, under the id it is asked for.  *)
LEMMA ClosingHandles ==
  ASSUME Types, RegistriesAgree, NEW h, WasSession(h)
  PROVE  /\ Closing(h) \subseteq Handle
         /\ \A g \in Closing(h) : phase[g] = "open" /\ id[g] = id[h]
         /\ h \in Closing(h) \/ phase[h] = "closed"
         /\ phase[h] # "closed" => sessions[id[h]] = None \/ sessions[id[h]] \in Closing(h)
  BY DEF Types, Registry, RegistriesAgree, WasSession, Closing

LEMMA CloseSessionKeeps ==
  ASSUME Types, RegistriesAgree, NEW h, WasSession(h), NEW f, CloseSession(h, f), id' = id
  PROVE  /\ phase' \in [Handle -> Phases] /\ sessions' \in Registry
         /\ activeAdapters' \in Registry /\ OnlyCloses /\ ClosesOpen /\ phase'[h] = "closed"
         /\ RegistriesAgree'
  <1>0. h \in Handle /\ id[h] \in Handle /\ None \notin Handle
    BY NoneIsNoHandle DEF WasSession
  <1>1. /\ phase' \in [Handle -> Phases]
        /\ \A g \in Handle : phase'[g] = IF g \in Closing(h) THEN "closed" ELSE phase[g]
    BY DEF CloseSession, Disposed, Types, Phases
  <1>2. OnlyCloses /\ ClosesOpen /\ phase'[h] = "closed"
    BY <1>0, <1>1, ClosingHandles DEF OnlyCloses, ClosesOpen
  <1>3. /\ sessions' \in Registry /\ activeAdapters' \in Registry
        /\ \A i \in Handle :
             /\ sessions'[i] = IF i = id[h] /\ phase[h] # "closed" THEN None ELSE sessions[i]
             /\ activeAdapters'[i] = IF i = id[h] /\ phase[h] # "closed" THEN None
                                                                       ELSE activeAdapters[i]
    BY DEF CloseSession, Types, Registry
  <1>4. RegistriesAgree'
    <2> SUFFICES ASSUME NEW i \in Handle
                 PROVE  /\ sessions'[i] = activeAdapters'[i]
                        /\ sessions'[i] # None =>
                             phase'[sessions'[i]] = "open" /\ id'[sessions'[i]] = i
      BY DEF RegistriesAgree
    <2>1. /\ sessions[i] = activeAdapters[i]
          /\ sessions[i] # None => phase[sessions[i]] = "open" /\ id[sessions[i]] = i
      BY DEF RegistriesAgree
    <2>2. sessions[i] # None => sessions[i] \in Handle
      BY DEF Types, Registry
    <2>3. phase[h] = "closed" => Closing(h) = {}
      BY DEF Closing
    <2> QED
      BY <1>1, <1>3, <2>1, <2>2, <2>3, ClosingHandles
  <1> QED
    BY <1>1, <1>2, <1>3, <1>4

(* Closing a session on behalf of a call that ends or of the monitor takes   *)
(* the busy mark of its id away.                                             *)
LEMMA ClosingStep ==
  ASSUME SessionsIInv, NEW h, WasSession(h), NEW f, CloseSession(h, f), id' = id,
         call' \in [Caller -> CallType], sweep' \in [Sweep -> SweepType],
         \A c \in Caller : call'[c] = call[c] \/ call'[c].op = "idle",
         \A w \in Sweep : sweep'[w].grace # None => sweep'[w].grace = sweep[w].grace,
         busySessions \ busySessions' \subseteq {id[h]}
  PROVE  SessionsIInv'
  <1>0. Types /\ RegistriesAgree /\ Opening /\ Held
    BY DEF SessionsIInv
  <1>1. /\ phase' \in [Handle -> Phases] /\ sessions' \in Registry
        /\ activeAdapters' \in Registry /\ OnlyCloses /\ ClosesOpen /\ phase'[h] = "closed"
        /\ RegistriesAgree'
    BY <1>0, CloseSessionKeeps
  <1>2. Types'
    BY <1>0, <1>1 DEF Types
  <1>3. \A c \in Caller : call'[c].op = "opening" => phase'[call[c].h] = phase[call[c].h]
    BY <1>0, <1>1 DEF Opening, ClosesOpen
  <1>4. ASSUME NEW c \in Caller, call'[c].op = "prompting", Only(call[c].h),
               id[call[c].h] \in busySessions \ busySessions'
        PROVE  phase'[call[c].h] = "closed"
    <2>1. id[call[c].h] = id[h] /\ h \in Handle
      BY <1>4 DEF WasSession
    <2>2. call[c].h = h
      BY <1>4, <2>1 DEF Only
    <2> QED
      BY <2>2, <1>1
  <1> QED
    BY <1>1, <1>2, <1>3, <1>4, QuietStep

LEMMA CallEnds ==
  ASSUME Types, NEW c \in Caller, call' = [call EXCEPT ![c] = Idle]
  PROVE  /\ call' \in [Caller -> CallType]
         /\ \A d \in Caller : call'[d] = call[d] \/ call'[d].op = "idle"
         /\ \A d \in Caller : call'[d].op # "idle" => d # c /\ call'[d] = call[d]
  <1>1. Idle \in CallType /\ Idle.op = "idle"
    BY DEF Idle, CallType, Closes
  <1> QED
    BY <1>1 DEF Types

(* The end of a prompt that leaves its session open. *)
LEMMA KeepingStep ==
  ASSUME SessionsIInv, NEW c \in Caller, call[c].op = "prompting", NEW f, KeepSession(f),
         call' = [call EXCEPT ![c] = Idle], id' = id, sweep' = sweep,
         busySessions' = busySessions \ {id[call[c].h]}
  PROVE  SessionsIInv'
  <1>0. Types /\ RegistriesAgree /\ Held /\ OneWaits
    BY DEF SessionsIInv
  <1>1. phase' = phase /\ sessions' = sessions /\ activeAdapters' = activeAdapters
    BY DEF KeepSession, clientVars
  <1>2. /\ call' \in [Caller -> CallType]
        /\ \A d \in Caller : call'[d] = call[d] \/ call'[d].op = "idle"
        /\ \A d \in Caller : call'[d].op # "idle" => d # c /\ call'[d] = call[d]
    BY <1>0, CallEnds
  <1>3. Types' /\ RegistriesAgree' /\ OnlyCloses
    BY <1>0, <1>1, <1>2 DEF Types, RegistriesAgree, OnlyCloses
  <1>4. ASSUME NEW d \in Caller, call'[d].op = "prompting", Only(call[d].h),
               id[call[d].h] \in busySessions \ busySessions'
        PROVE  FALSE
    <2>1. d # c /\ call[d].op = "prompting" /\ id[call[d].h] = id[call[c].h]
      BY <1>2, <1>4
    <2>2. call[c].h \in Handle /\ call[d].h \in Handle
      BY <1>0, <2>1 DEF Held, WasSession
    <2>3. call[c].h = call[d].h
      BY <1>4, <2>1, <2>2 DEF Only
    <2> QED
      BY <1>0, <1>4, <2>1, <2>3 DEF OneWaits, Only
  <1> QED
    BY <1>1, <1>2, <1>3, <1>4, QuietStep

LEMMA AnsweredKeeps ==
  ASSUME SessionsIInv, NEW c \in Caller,
         Answered(c) \/ PromptFails(c) \/ PromptTimesOut(c)
  PROVE  SessionsIInv'
  <1>0. Types /\ Held
    BY DEF SessionsIInv
  <1>1. /\ call[c].op = "prompting" /\ call' = [call EXCEPT ![c] = Idle] /\ id' = id
        /\ sweep' = sweep /\ busySessions' = busySessions \ {id[call[c].h]}
        /\ \E f : CloseSession(call[c].h, f) \/ KeepSession(f)
    BY DEF Answered, PromptFails, PromptTimesOut, GivesUp
  <1>2. PICK f : CloseSession(call[c].h, f) \/ KeepSession(f)
    BY <1>1
  <1>3. CASE KeepSession(f)
    BY <1>1, <1>3, KeepingStep
  <1>4. CASE CloseSession(call[c].h, f)
    <2>1. /\ call' \in [Caller -> CallType]
          /\ \A d \in Caller : call'[d] = call[d] \/ call'[d].op = "idle"
      BY <1>0, <1>1, CallEnds
    <2>2. sweep' \in [Sweep -> SweepType] /\ WasSession(call[c].h)
      BY <1>0, <1>1 DEF Types, Held
    <2>3. busySessions \ busySessions' \subseteq {id[call[c].h]}
      BY <1>1
    <2> QED
      BY <1>1, <1>4, <2>1, <2>2, <2>3, ClosingStep
  <1> QED
    BY <1>2, <1>3, <1>4

-----------------------------------------------------------------------------
(* Opening a session.                                                        *)

(* The phase of a handle that is no session yet moves on, and calls start.   *)
LEMMA OpeningStep ==
  ASSUME SessionsIInv, NEW h \in Handle, phase[h] \notin {"open", "closed"},
         NEW stage \in {"connecting", "creating"}, phase' = [phase EXCEPT ![h] = stage],
         call' \in [Caller -> CallType], Opening',
         \A c \in Caller : call'[c] = call[c] \/ call'[c].op = "opening",
         UNCHANGED <<id, registryVars, sweep>>
  PROVE  SessionsIInv'
  <1> USE DEF SessionsIInv
  <1>1. /\ id' = id /\ sessions' = sessions /\ activeAdapters' = activeAdapters
        /\ busySessions' = busySessions /\ sweep' = sweep
    BY DEF registryVars
  <1>2. \A g \in Handle : phase'[g] = IF g = h THEN stage ELSE phase[g]
    BY DEF Types
  <1>3. Types'
    BY <1>1 DEF Types, Phases
  <1>4. \A g : WasSession(g) => WasSession(g)' /\ g # h
    BY <1>1, <1>2 DEF WasSession
  <1>5. \A c \in Caller : call'[c].op = "prompting" => call'[c] = call[c]
    OBVIOUS
  <1>6. Held'
    <2>1. ASSUME NEW c \in Caller, call'[c].op = "prompting" PROVE WasSession(call[c].h)'
      <3>1. call'[c] = call[c] /\ WasSession(call[c].h)
        BY <1>5, <2>1 DEF Held
      <3> QED
        BY <1>4, <3>1 DEF WasSession
    <2>2. ASSUME NEW w \in Sweep, sweep'[w].grace # None PROVE WasSession(sweep[w].grace)'
      BY <1>1, <1>4, <2>2 DEF Held, WasSession
    <2> QED
      BY <2>1, <2>2 DEF Held
  <1>7. RegistriesAgree'
    BY <1>1, <1>2, NoneIsNoHandle DEF RegistriesAgree, Types, Registry
  <1>8. Unopened'
    BY <1>1, <1>2 DEF Unopened
  <1>9. Marked'
    <2> SUFFICES ASSUME NEW c \in Caller, (call[c].op = "prompting" /\ Only(call[c].h))'
                 PROVE  (phase[call[c].h] = "closed" \/ id[call[c].h] \in busySessions)'
      BY DEF Marked
    <2>1. call'[c] = call[c] /\ call[c].op = "prompting" /\ Only(call[c].h)
      BY <1>1, <1>5 DEF Only
    <2>2. WasSession(call[c].h)
      BY <2>1 DEF Held
    <2> QED
      BY <1>1, <1>2, <1>4, <2>1, <2>2 DEF Marked, WasSession
  <1>10. OneWaits'
    BY <1>1, <1>5 DEF OneWaits
  <1> QED
    BY <1>3, <1>6, <1>7, <1>8, <1>9, <1>10

LEMMA StartsOpening ==
  ASSUME SessionsIInv, NEW c \in Caller, NEW h \in Handle, NEW target \in Handle,
         NEW closes \in Closes, call[c] = Idle, Connect(h),
         call' = [call EXCEPT ![c] = [op |-> "opening", h |-> h, target |-> target,
                                      closes |-> closes]],
         UNCHANGED <<id, registryVars, sweep>>
  PROVE  SessionsIInv'
  <1> DEFINE new == [op |-> "opening", h |-> h, target |-> target, closes |-> closes]
  <1>0. Types /\ Opening
    BY DEF SessionsIInv
  <1>1. new \in CallType /\ new.op = "opening" /\ new.h = h /\ new.target = target
    BY DEF CallType
  <1> HIDE DEF new
  <1>2. call' = [call EXCEPT ![c] = new]
    BY DEF new
  <1>3. /\ call' \in [Caller -> CallType]
        /\ \A d \in Caller : call'[d] = IF d = c THEN new ELSE call[d]
    BY <1>0, <1>1, <1>2 DEF Types
  <1>4. phase[h] = "unused" /\ phase' = [phase EXCEPT ![h] = "connecting"]
    BY DEF Connect
  <1>5. Opening'
    <2>1. \A d \in Caller : d # c /\ call'[d].op = "opening" =>
            call[d].h # h /\ call'[d] = call[d]
      BY <1>0, <1>3, <1>4 DEF Opening
    <2> QED
      BY <1>0, <1>1, <1>3, <1>4, <2>1 DEF Opening, Types
  <1> QED
    BY <1>1, <1>3, <1>4, <1>5, OpeningStep

LEMMA HandshakeKeeps ==
  ASSUME SessionsIInv, NEW c \in Caller, Handshake(c)
  PROVE  SessionsIInv'
  <1>0. Types /\ Opening
    BY DEF SessionsIInv
  <1> DEFINE h == call[c].h
  <1>1. /\ call[c].op = "opening" /\ h \in Handle /\ phase[h] = "connecting"
        /\ phase' = [phase EXCEPT ![h] = "creating"] /\ call' = call
        /\ UNCHANGED <<id, registryVars, sweep>>
    BY <1>0 DEF Handshake, Initialized, Opening
  <1> HIDE DEF h
  <1>2. Opening' /\ call' \in [Caller -> CallType]
    BY <1>0, <1>1 DEF Opening, Types
  <1> QED
    BY <1>1, <1>2, OpeningStep

LEMMA OpenFailsKeeps ==
  ASSUME SessionsIInv, NEW c \in Caller, OpenFails(c)
  PROVE  SessionsIInv'
  <1>0. Types /\ Opening /\ RegistriesAgree
    BY DEF SessionsIInv
  <1> DEFINE h == call[c].h
  <1>1. /\ call[c].op = "opening" /\ h \in Handle /\ phase[h] \in {"connecting", "creating"}
        /\ call' = [call EXCEPT ![c] = Idle] /\ id' = id /\ sessions' = sessions
        /\ activeAdapters' = activeAdapters /\ busySessions' = busySessions /\ sweep' = sweep
        /\ \A d \in Caller : call[d].op = "opening" /\ call[d].h = h => d = c
    BY <1>0 DEF OpenFails, Opening, registryVars
  <1>2. /\ phase' \in [Handle -> Phases]
        /\ \A g \in Handle : phase'[g] = IF g = h THEN "closed" ELSE phase[g]
    BY <1>0 DEF OpenFails, Disposed, Types, Phases
  <1> HIDE DEF h
  <1>3. /\ call' \in [Caller -> CallType]
        /\ \A d \in Caller : call'[d] = call[d] \/ call'[d].op = "idle"
        /\ \A d \in Caller : call'[d].op # "idle" => d # c /\ call'[d] = call[d]
    BY <1>0, <1>1, CallEnds
  <1>4. \A d \in Caller : call'[d].op = "opening" => phase'[call[d].h] = phase[call[d].h]
    BY <1>0, <1>1, <1>2, <1>3 DEF Opening
  <1>5. Types' /\ OnlyCloses
    BY <1>0, <1>1, <1>2, <1>3 DEF Types, OnlyCloses
  <1>6. RegistriesAgree'
    BY <1>0, <1>1, <1>2, NoneIsNoHandle DEF RegistriesAgree, Types, Registry
  <1> QED
    BY <1>1, <1>3, <1>4, <1>5, <1>6, QuietStep

LEMMA PromptStarts ==
  ASSUME Types, NEW c \in Caller, NEW h \in Handle, NEW i \in Handle, NEW closes \in Closes,
         \E tracked : StartPrompt(c, h, i, closes, tracked)
  PROVE  /\ call' \in [Caller -> CallType] /\ busySessions' = busySessions \union {i}
         /\ call'[c].op = "prompting" /\ call'[c].h = h
         /\ \A d \in Caller \ {c} : call'[d] = call[d]
  <1> DEFINE new == [op |-> "prompting", h |-> h, target |-> i, closes |-> closes]
  <1>1. new \in CallType /\ new.op = "prompting" /\ new.h = h
    BY DEF CallType
  <1>2. call' = [call EXCEPT ![c] = new] /\ busySessions' = busySessions \union {i}
    BY DEF StartPrompt
  <1> HIDE DEF new
  <1> QED
    BY <1>1, <1>2 DEF Types

LEMMA OpenedKeeps ==
  ASSUME SessionsIInv, NEW c \in Caller, Opened(c)
  PROVE  SessionsIInv'
  <1> USE DEF SessionsIInv
  <1> DEFINE h == call[c].h
             i == call[c].target
  <1>1. /\ call[c].op = "opening" /\ h \in Handle /\ i \in Handle /\ phase[h] = "creating"
        /\ \A d \in Caller : call[d].op = "opening" /\ call[d].h = h => d = c
        /\ phase' = [phase EXCEPT ![h] = "open"] /\ id' = [id EXCEPT ![h] = i]
        /\ sessions' = [sessions EXCEPT ![i] = h]
        /\ activeAdapters' = [activeAdapters EXCEPT ![i] = h] /\ sweep' = sweep
        /\ \E tracked : StartPrompt(c, h, i, call[c].closes, tracked)
    BY DEF Opened, SessionOpen, Opening
  <1>2. call[c].closes \in Closes
    BY DEF Types, CallType
  <1> HIDE DEF h, i
  <1>3. /\ call' \in [Caller -> CallType] /\ busySessions' = busySessions \union {i}
        /\ call'[c].op = "prompting" /\ call'[c].h = h
        /\ \A d \in Caller \ {c} : call'[d] = call[d]
    BY <1>1, <1>2, PromptStarts
  <1>4. id[h] = None /\ None \notin Handle
    BY <1>1, NoneIsNoHandle DEF Unopened
  <1>5. \A g \in Handle : /\ phase'[g] = IF g = h THEN "open" ELSE phase[g]
                          /\ id'[g] = IF g = h THEN i ELSE id[g]
    BY <1>1 DEF Types, Registry
  <1>6. Types'
    BY <1>1, <1>3 DEF Types, Registry, Phases
  <1>7. Opening'
    <2>1. \A d \in Caller : call'[d].op = "opening" => call'[d] = call[d] /\ call[d].h # h
      BY <1>1, <1>3
    <2> QED
      BY <1>5, <2>1 DEF Opening
  <1>8. \A g : WasSession(g) => WasSession(g)' /\ g # h
    BY <1>1, <1>5 DEF WasSession
  <1>9. id'[h] \in Handle /\ phase'[h] = "open"
    BY <1>1, <1>5
  <1>10. Held'
    <2>1. ASSUME NEW d \in Caller, call'[d].op = "prompting" PROVE WasSession(call[d].h)'
      <3>1. CASE d = c
        BY <1>1, <1>3, <1>9, <3>1 DEF WasSession
      <3>2. CASE d # c
        BY <1>3, <1>8, <2>1, <3>2 DEF Held, WasSession
      <3> QED
        BY <3>1, <3>2
    <2>2. ASSUME NEW w \in Sweep, sweep'[w].grace # None PROVE WasSession(sweep[w].grace)'
      BY <1>1, <1>8, <2>2 DEF Held, WasSession
    <2> QED
      BY <2>1, <2>2 DEF Held
  <1>11. Unopened'
    BY <1>5 DEF Unopened
  <1>12. RegistriesAgree'
    <2> SUFFICES ASSUME NEW j \in Handle
                 PROVE  /\ sessions'[j] = activeAdapters'[j]
                        /\ sessions'[j] # None =>
                             phase'[sessions'[j]] = "open" /\ id'[sessions'[j]] = j
      BY DEF RegistriesAgree
    <2>1. /\ sessions'[j] = IF j = i THEN h ELSE sessions[j]
          /\ activeAdapters'[j] = IF j = i THEN h ELSE activeAdapters[j]
          /\ sessions[j] \in Handle \union {None}
      BY <1>1 DEF Types, Registry
    <2> QED
      BY <1>1, <1>5, <2>1 DEF RegistriesAgree
  <1>13. \A g \in Handle \ {h} : id[g] \in Handle /\ Only(g)' => Only(g)
    BY <1>4, <1>5 DEF Only
  <1>14. \A d \in Caller \ {c} : call'[d].op = "prompting" =>
           call'[d] = call[d] /\ WasSession(call[d].h) /\ call[d].h # h
    BY <1>3, <1>8 DEF Held
  <1>15. Marked'
    <2> SUFFICES ASSUME NEW d \in Caller, (call[d].op = "prompting" /\ Only(call[d].h))'
                 PROVE  (phase[call[d].h] = "closed" \/ id[call[d].h] \in busySessions)'
      BY DEF Marked
    <2>1. CASE d = c
      BY <1>1, <1>3, <1>5, <2>1
    <2>2. CASE d # c
      <3>1. call'[d] = call[d] /\ WasSession(call[d].h) /\ call[d].h # h
        BY <1>14, <2>2
      <3>2. Only(call[d].h)
        BY <1>13, <3>1 DEF WasSession, Only
      <3> QED
        BY <1>3, <1>5, <3>1, <3>2 DEF Marked, WasSession
    <2> QED
      BY <2>1, <2>2
  <1>16. OneWaits'
    <2> SUFFICES ASSUME NEW d \in Caller, NEW e \in Caller, d # e, call'[d].op = "prompting",
                        call'[e].op = "prompting", call'[d].h = call'[e].h
                 PROVE  \E g \in Handle \ {call'[d].h} : id'[g] = id'[call'[d].h]
      BY DEF OneWaits
    <2>1. d # c /\ e # c
      BY <1>3, <1>14
    <2>2. /\ call'[d] = call[d] /\ call'[e] = call[e] /\ call[d].h # h
          /\ id[call[d].h] \in Handle /\ call[d].h \in Handle
      BY <1>14, <2>1 DEF WasSession
    <2>3. PICK g \in Handle \ {call[d].h} : id[g] = id[call[d].h]
      BY <2>2 DEF OneWaits
    <2> QED
      BY <1>4, <1>5, <2>2, <2>3
  <1> QED
    BY <1>6, <1>7, <1>10, <1>11, <1>12, <1>15, <1>16

LEMMA ReuseKeeps ==
  ASSUME SessionsIInv, NEW c \in Caller, NEW i \in Handle, Reuse(c, i)
  PROVE  SessionsIInv'
  <1> USE DEF SessionsIInv
  <1> DEFINE h == sessions[i]
  <1>1. /\ h # None /\ phase[h] = "open" /\ id[h] = i /\ i \notin busySessions
        /\ (\E tracked : StartPrompt(c, h, i, "never", tracked)) /\ call[c] = Idle
        /\ UNCHANGED <<phase, id, sessions, activeAdapters, sweep>>
    BY DEF Reuse, Idles, RegistriesAgree, clientVars
  <1>2. h \in Handle /\ "never" \in Closes
    BY <1>1 DEF Types, Registry, Closes
  <1> HIDE DEF h
  <1>3. /\ call' \in [Caller -> CallType] /\ busySessions' = busySessions \union {i}
        /\ call'[c].op = "prompting" /\ call'[c].h = h
        /\ \A d \in Caller \ {c} : call'[d] = call[d]
    BY <1>1, <1>2, PromptStarts
  <1>4. Types' /\ RegistriesAgree' /\ Unopened'
    BY <1>1, <1>3 DEF Types, RegistriesAgree, Unopened
  <1>5. Opening'
    BY <1>1, <1>3 DEF Opening
  <1>6. Held'
    <2>1. ASSUME NEW d \in Caller, call'[d].op = "prompting" PROVE WasSession(call[d].h)'
      BY <1>1, <1>2, <1>3, <2>1 DEF Held, WasSession
    <2>2. ASSUME NEW w \in Sweep, sweep'[w].grace # None PROVE WasSession(sweep[w].grace)'
      BY <1>1, <2>2 DEF Held, WasSession
    <2> QED
      BY <2>1, <2>2 DEF Held
  <1>7. Marked'
    BY <1>1, <1>3 DEF Marked, Only
  <1>8. \A d \in Caller \ {c} : call[d].op = "prompting" /\ call[d].h = h => ~Only(h)
    BY <1>1 DEF Marked
  <1>9. OneWaits'
    <2> SUFFICES ASSUME NEW d \in Caller, NEW e \in Caller, d # e, call'[d].op = "prompting",
                        call'[e].op = "prompting", call'[d].h = call'[e].h
                 PROVE  \E g \in Handle \ {call'[d].h} : id'[g] = id'[call'[d].h]
      BY DEF OneWaits
    <2>1. CASE d = c \/ e = c
      <3>1. call'[d].h = h /\ ~Only(h)
        BY <1>3, <1>8, <2>1
      <3> QED
        BY <1>1, <3>1 DEF Only
    <2>2. CASE d # c /\ e # c
      BY <1>1, <1>3, <2>2 DEF OneWaits
    <2> QED
      BY <2>1, <2>2
  <1> QED
    BY <1>4, <1>5, <1>6, <1>7, <1>9

-----------------------------------------------------------------------------
(* The monitor, time and the shutdown.                                       *)

(* Nothing a handler finds its way by changes, but what a check holds.       *)
LEMMA MonitorStep ==
  ASSUME SessionsIInv, UNCHANGED <<phase, id, sessions, activeAdapters, call, busySessions>>,
         sweep' \in [Sweep -> SweepType],
         \A w \in Sweep : sweep'[w].grace # None =>
           sweep'[w].grace = sweep[w].grace \/ WasSession(sweep'[w].grace)
  PROVE  SessionsIInv'
  <1>1. Types' /\ RegistriesAgree' /\ OnlyCloses
    BY DEF SessionsIInv, Types, RegistriesAgree, OnlyCloses
  <1> QED
    BY <1>1, QuietStep

LEMMA SweepMoves ==
  ASSUME Types, NEW w \in Sweep, NEW s \in SweepType, sweep' = [sweep EXCEPT ![w] = s]
  PROVE  /\ sweep' \in [Sweep -> SweepType]
         /\ \A v \in Sweep : sweep'[v] = IF v = w THEN s ELSE sweep[v]
  BY DEF Types

LEMMA CheckKeeps ==
  ASSUME SessionsIInv, NEW w \in Sweep, NEW stalled \in SUBSET Handle, Check(w, stalled)
  PROVE  SessionsIInv'
  <1>0. Types
    BY DEF SessionsIInv
  <1>1. PICK stale \in SUBSET Handle : sweep' = [sweep EXCEPT ![w].ids = stale]
    BY DEF Check
  <1> DEFINE s == [sweep[w] EXCEPT !.ids = stale]
  <1>2. s \in SweepType /\ s.grace = sweep[w].grace
    <2>1. sweep[w] \in SweepType
      BY <1>0 DEF Types
    <2> QED
      BY <2>1 DEF SweepType
  <1>3. sweep' = [sweep EXCEPT ![w] = s]
    BY <1>1
  <1> HIDE DEF s
  <1>4. /\ sweep' \in [Sweep -> SweepType]
        /\ \A v \in Sweep : sweep'[v] = IF v = w THEN s ELSE sweep[v]
    BY <1>0, <1>2, <1>3, SweepMoves
  <1>5. UNCHANGED <<phase, id, sessions, activeAdapters, call, busySessions>>
    BY DEF Check, clientVars
  <1> QED
    BY <1>2, <1>4, <1>5, MonitorStep

LEMMA OnStaleKeeps ==
  ASSUME SessionsIInv, NEW w \in Sweep, NEW i \in Handle, OnStale(w, i)
  PROVE  SessionsIInv'
  <1>0. Types /\ RegistriesAgree
    BY DEF SessionsIInv
  <1> DEFINE h == sessions[i]
             left == sweep[w].ids \ {i}
  <1>1. sweep[w] \in SweepType /\ sweep[w].grace = None /\ h \in Handle \union {None}
    BY <1>0 DEF OnStale, Types, Registry
  <1>2. h # None => WasSession(h) /\ id[h] = i
    BY <1>0, <1>1 DEF RegistriesAgree, WasSession
  <1>3. call' = call /\ id' = id /\ call' \in [Caller -> CallType]
    BY <1>0 DEF OnStale, Types
  <1>4. CASE /\ h # None /\ KeepSession(handle) /\ UNCHANGED busySessions
             /\ sweep' = [sweep EXCEPT ![w] = [ids |-> left, grace |-> h]]
    <2> DEFINE s == [ids |-> left, grace |-> h]
    <2>1. s \in SweepType /\ s.grace = h
      BY <1>1 DEF SweepType
    <2> HIDE DEF s
    <2>2. sweep' = [sweep EXCEPT ![w] = s]
      BY <1>4 DEF s
    <2>3. /\ sweep' \in [Sweep -> SweepType]
          /\ \A v \in Sweep : sweep'[v] = IF v = w THEN s ELSE sweep[v]
      BY <1>0, <2>1, <2>2, SweepMoves
    <2>4. UNCHANGED <<phase, id, sessions, activeAdapters, call, busySessions>>
      BY <1>3, <1>4 DEF KeepSession, clientVars
    <2>5. \A v \in Sweep : sweep'[v].grace # None =>
            sweep'[v].grace = sweep[v].grace \/ WasSession(sweep'[v].grace)
      BY <1>2, <1>4, <2>1, <2>3
    <2> QED
      BY <2>3, <2>4, <2>5, MonitorStep
  <1>5. CASE /\ sweep' = [sweep EXCEPT ![w].ids = left]
             /\ \/ h # None /\ CloseSession(h, handle) /\ busySessions' = busySessions \ {i}
                \/ KeepSession(handle) /\ UNCHANGED busySessions
    <2> DEFINE s == [sweep[w] EXCEPT !.ids = left]
    <2>1. s \in SweepType /\ s.grace = None
      BY <1>1 DEF SweepType
    <2>2. sweep' = [sweep EXCEPT ![w] = s]
      BY <1>5
    <2> HIDE DEF s
    <2>3. /\ sweep' \in [Sweep -> SweepType]
          /\ \A v \in Sweep : sweep'[v] = IF v = w THEN s ELSE sweep[v]
      BY <1>0, <2>1, <2>2, SweepMoves
    <2>4. \A v \in Sweep : sweep'[v].grace # None => sweep'[v].grace = sweep[v].grace
      BY <2>1, <2>3
    <2>5. CASE h # None /\ CloseSession(h, handle) /\ busySessions' = busySessions \ {i}
      <3>1. busySessions \ busySessions' \subseteq {id[h]}
        BY <1>2, <2>5
      <3> QED
        BY <1>2, <1>3, <2>3, <2>4, <2>5, <3>1, ClosingStep
    <2>6. CASE KeepSession(handle) /\ UNCHANGED busySessions
      <3>1. UNCHANGED <<phase, id, sessions, activeAdapters, call, busySessions>>
        BY <1>3, <2>6 DEF KeepSession, clientVars
      <3> QED
        BY <2>3, <2>4, <3>1, MonitorStep
    <2> QED
      BY <1>5, <2>5, <2>6
  <1> QED
    BY <1>4, <1>5 DEF OnStale

LEMMA GraceEndsKeeps ==
  ASSUME SessionsIInv, NEW w \in Sweep, GraceEnds(w)
  PROVE  SessionsIInv'
  <1>0. Types /\ Held
    BY DEF SessionsIInv
  <1> DEFINE h == sweep[w].grace
             s == [sweep[w] EXCEPT !.grace = None]
  <1>1. /\ WasSession(h) /\ CloseSession(h, NoPrompt(h)) /\ id' = id /\ call' = call
        /\ call' \in [Caller -> CallType] /\ busySessions \ busySessions' \subseteq {id[h]}
    BY <1>0 DEF GraceEnds, Held, Types
  <1>2. s \in SweepType /\ s.grace = None
    <2>1. sweep[w] \in SweepType
      BY <1>0 DEF Types
    <2> QED
      BY <2>1 DEF SweepType
  <1>3. sweep' = [sweep EXCEPT ![w] = s]
    BY DEF GraceEnds
  <1> HIDE DEF s
  <1>4. /\ sweep' \in [Sweep -> SweepType]
        /\ \A v \in Sweep : sweep'[v] = IF v = w THEN s ELSE sweep[v]
    BY <1>0, <1>2, <1>3, SweepMoves
  <1>5. \A v \in Sweep : sweep'[v].grace # None => sweep'[v].grace = sweep[v].grace
    BY <1>2, <1>4
  <1> HIDE DEF h
  <1> QED
    BY <1>1, <1>4, <1>5, ClosingStep

LEMMA ShutdownKeeps ==
  ASSUME SessionsIInv, Shutdown
  PROVE  SessionsIInv'
  <1> DEFINE left == {h \in Handle : \E i \in Handle : h \in {sessions[i], activeAdapters[i]}}
  <1>0. Types /\ RegistriesAgree /\ Opening
    BY DEF SessionsIInv
  <1>1. \A h \in left : h \in Handle /\ phase[h] = "open"
    BY <1>0, NoneIsNoHandle DEF RegistriesAgree
  <1>2. /\ phase' \in [Handle -> Phases]
        /\ \A h \in Handle : phase'[h] = IF h \in left THEN "closed" ELSE phase[h]
    BY <1>0 DEF Shutdown, Disposed, Types, Phases
  <1> HIDE DEF left
  <1>3. /\ sessions' = [i \in Handle |-> None] /\ activeAdapters' = [i \in Handle |-> None]
        /\ UNCHANGED <<id, busySessions, call, sweep>>
    BY DEF Shutdown
  <1>4. Types' /\ RegistriesAgree' /\ OnlyCloses
    BY <1>0, <1>2, <1>3 DEF Types, Registry, RegistriesAgree, OnlyCloses
  <1>5. \A c \in Caller : call'[c].op = "opening" => phase'[call[c].h] = phase[call[c].h]
    BY <1>0, <1>1, <1>2, <1>3 DEF Opening
  <1> QED
    BY <1>3, <1>4, <1>5, QuietStep

-----------------------------------------------------------------------------
LEMMA SessionsNext == SessionsIInv /\ [Next]_vars => SessionsIInv'
  <1> SUFFICES ASSUME SessionsIInv, [Next]_vars PROVE SessionsIInv'
    OBVIOUS
  <1>0. Types /\ SpawnCloses \subseteq Closes /\ "on failure" \in Closes
    BY SessionsAssumption DEF SessionsIInv, Closes
  <1>1. ASSUME NEW c \in Caller, CallStep(c) PROVE SessionsIInv'
    BY <1>1, HandshakeKeeps, OpenedKeeps, OpenFailsKeeps, AnsweredKeeps DEF CallStep
  <1>2. ASSUME NEW c \in Caller, NEW h \in Handle, NEW closes \in SpawnCloses,
               Spawn(c, h, closes)
        PROVE  SessionsIInv'
    BY <1>0, <1>2, StartsOpening DEF Spawn, Idles
  <1>3. ASSUME NEW c \in Caller, NEW h \in Handle, NEW i \in Handle, Reopen(c, h, i)
        PROVE  SessionsIInv'
    <2>1. PICK target \in {i, h} :
            call' = [call EXCEPT ![c] = [op |-> "opening", h |-> h, target |-> target,
                                         closes |-> "on failure"]]
      BY <1>3 DEF Reopen
    <2>2. /\ call[c] = Idle /\ Connect(h) /\ target \in Handle
          /\ UNCHANGED <<id, registryVars, sweep>>
      BY <1>3 DEF Reopen, Idles
    <2> QED
      BY <1>0, <2>1, <2>2, StartsOpening
  <1>4. ASSUME NEW c \in Caller, NEW i \in Handle, Reuse(c, i) PROVE SessionsIInv'
    BY <1>4, ReuseKeeps
  <1>5. ASSUME NEW w \in Sweep, NEW stalled \in SUBSET Handle, Check(w, stalled)
        PROVE  SessionsIInv'
    BY <1>5, CheckKeeps
  <1>6. ASSUME NEW w \in Sweep, Sweeps(w) PROVE SessionsIInv'
    BY <1>5, <1>6, GraceEndsKeeps, OnStaleKeeps DEF Sweeps
  <1>7. ASSUME UNCHANGED <<phase, id, sessions, activeAdapters, call, busySessions, sweep>>
        PROVE  SessionsIInv'
    BY <1>0, <1>7, MonitorStep DEF Types
  <1>8. ASSUME NEW h \in Handle,
               \/ CancelPrompt(h) \/ TimePasses(h) \/ AgentEnds(h)
               \/ Reprompt(h) \/ LateAnswer(h)
        PROVE  SessionsIInv'
    BY <1>7, <1>8 DEF CancelPrompt, TimePasses, AgentEnds, Reprompt, LateAnswer, ProcessEnds,
                      clientVars, registryVars
  <1>9. CASE UNCHANGED vars
    BY <1>7, <1>9 DEF vars, clientVars, registryVars
  <1> QED
    BY <1>1, <1>2, <1>3, <1>4, <1>5, <1>6, <1>8, <1>9, ShutdownKeeps DEF Next

(***************************************************************************)
(* The session manager and the table of adapters never disagree and never  *)
(* hold a disposed handle, whatever calls, checks and a shutdown do to one *)
(* id at the same time.                                                    *)
(***************************************************************************)
THEOREM RegistriesAlwaysAgree == Spec => []RegistriesAgree
  <1>1. SessionsIInv => RegistriesAgree
    BY DEF SessionsIInv
  <1> QED
    BY <1>1, SessionsInit, SessionsNext, PTL DEF Spec

(***************************************************************************)
(* Two prompts meet in one session only if one of them runs without a      *)
(* mark, since its call timed out or it resumes a background run, or if    *)
(* its id had another handle: for any number of calls and checks.          *)
(***************************************************************************)
THEOREM PromptsMeetOnlyIfReopened == Spec => []OnePromptUnlessReopened
  <1>1. SessionsIInv => OnePromptUnlessReopened
    <2> SUFFICES ASSUME SessionsIInv, NEW h \in Handle, NEW p \in Prompts(h),
                        NEW q \in Prompts(h), p # q, p # None, q # None
                 PROVE  Reopened(h)
      BY DEF OnePromptUnlessReopened
    <2>1. p \in Waiting(h) /\ q \in Waiting(h)
      BY DEF Prompts
    <2> QED
      BY <2>1 DEF SessionsIInv, OneWaits, Waiting, Reopened
  <1> QED
    BY <1>1, SessionsInit, SessionsNext, PTL DEF Spec
=============================================================================
