------------------------------- MODULE Sessions -------------------------------
(***************************************************************************)
(* The sessions of the extension (index.ts, core/session-manager.ts,       *)
(* core/session-lifecycle.ts, core/health-monitor.ts) on top of their      *)
(* clients: tools that open a session, prompt it, reuse or reopen it, the  *)
(* monitor that reaps what is idle or stalled, and the shutdown.           *)
(*                                                                         *)
(* A session is known by its id; every opening makes a new handle, and a   *)
(* handle that reloads an archived session takes the id of an earlier one. *)
(* The registries map ids to handles, and most of the code goes by id.  A  *)
(* fresh session has its first handle for its id.                          *)
(***************************************************************************)
EXTENDS AcpClient

Closes == {"always", "on failure", "never"}  \* when a call closes its session

CONSTANTS
  Caller,     \* tool calls under way at the same time
  Sweep,      \* health checks under way at the same time
  SpawnCloses \* when acp_spawn closes its session

\* None is no handle and no call, calls are ordered, and a session closes in one of three ways.
ASSUME SessionsAssumption ==
  Handle \subseteq Nat \ {0} /\ Caller \subseteq Nat \ {0} /\ SpawnCloses \subseteq Closes

VARIABLES
  id,                     \* the session id of each handle that has one
  handle,                 \* its fields, see New
  sessions, activeAdapters, entries, \* registries: manager, adapters, monitor
  busySessions,           \* ids with a prompt under way
  call,                   \* each tool call
  sweep,                  \* each health check: what it has still to reap
  shutdown                \* whether pi has shut down

registryVars == <<sessions, activeAdapters, entries, busySessions>>
vars == <<clientVars, id, handle, registryVars, call, sweep, shutdown>>

None == 0                 \* no handle: handles are positive numbers
\* busy, isPrompting, and how long ago completedAt and lastResponseAt are; whether the
\* first prompt is a background run, and whether the agent works on a prompt without a mark.
New == [busy |-> FALSE, isPrompting |-> FALSE, completed |-> "no", answered |-> "no",
        tracked |-> FALSE, unmarked |-> FALSE]
Idle == [op |-> "idle", h |-> None, target |-> None, closes |-> "never"]
NoSweep == [ids |-> {}, grace |-> None]

Init ==
  /\ ClientInit
  /\ id = [h \in Handle |-> None]
  /\ handle = [h \in Handle |-> New]
  /\ sessions = [i \in Handle |-> None]
  /\ activeAdapters = [i \in Handle |-> None]
  /\ entries = [i \in Handle |-> None]
  /\ busySessions = {}
  /\ call = [c \in Caller |-> Idle]
  /\ sweep = [w \in Sweep |-> NoSweep]
  /\ shutdown = FALSE
\* Mutant: a session without an answer is never idle.
AutoCloses_NeedsAnswer(h) == handle[h].answered = "old"

(***************************************************************************)
(* getSessionAutoCloseReason(), with a prompt under way and without one.   *)
(***************************************************************************)
AutoCloses(h) ==
  IF handle[h].busy THEN handle[h].answered = "old" ELSE handle[h].completed = "old"

\* The handles that closeSession() of h disposes.
Closing(h) ==
  IF phase[h] = "closed" THEN {} ELSE {h} \union ({sessions[id[h]]} \ {None})

\* Mutant: the manager forgets the session only if it holds this handle.
CloseSession_OwnEntryOnly(h, f) ==
  /\ Disposed({h})
  /\ handle' = [f EXCEPT ![h] = New]
  /\ activeAdapters' = [i \in Handle |-> IF i = id[h] /\ phase[h] # "closed"
                                           THEN None ELSE activeAdapters[i]]
  /\ sessions' = [i \in Handle |-> IF sessions[i] = h THEN None ELSE sessions[i]]

(***************************************************************************)
(* closeSession(), once the fields of the handles are f: nothing for a     *)
(* handle that is disposed.  Else the handle is disposed, and whatever is  *)
(* registered under its id goes with it: the session manager disposes the  *)
(* handle it holds, which may be another one.  Nobody reads the fields of  *)
(* a disposed handle: the model forgets them.                              *)
(***************************************************************************)
CloseSession(h, f) ==
  LET Without(registry) ==
        [i \in Handle |-> IF i = id[h] /\ phase[h] # "closed" THEN None
                                                               ELSE registry[i]]
  IN
  /\ Disposed(Closing(h))
  /\ handle' = [g \in Handle |-> IF g \in Closing(h) THEN New ELSE f[g]]
  /\ activeAdapters' = Without(activeAdapters)
  /\ sessions' = Without(sessions)

KeepSession(f) == handle' = f /\ UNCHANGED <<clientVars, sessions, activeAdapters>>

-----------------------------------------------------------------------------
(* Opening a session: acp_spawn, and acp_msg on an archived session *)

\* The lowest call that is idle: calls are interchangeable.
Idles(c) ==
  /\ ~shutdown /\ call[c] = Idle
  /\ \A d \in Caller : d < c => call[d] # Idle

\* The lowest handle not used yet.
Unused(h) == phase[h] = "unused" /\ \A g \in 1 .. h - 1 : phase[g] # "unused"

(***************************************************************************)
(* acp_spawn: closed after its prompt if one-shot; if long-lived, only     *)
(* when the prompt fails in the foreground.                                *)
(***************************************************************************)
Spawn(c, h, closes) ==
  /\ Idles(c) /\ Unused(h)
  /\ Connect(h)
  /\ call' = [call EXCEPT ![c] =
                [op |-> "opening", h |-> h, target |-> h, closes |-> closes]]
  /\ UNCHANGED <<id, handle, registryVars, sweep, shutdown>>

(***************************************************************************)
(* acp_msg on a session that is not live: opened again under its id, or,   *)
(* when it cannot be loaded, under a new one.                              *)
(***************************************************************************)
Known(i) == \E h \in Handle : id[h] = i

Reopen(c, h, i) ==
  /\ Idles(c) /\ Unused(h)
  /\ Known(i) /\ activeAdapters[i] = None
  /\ Connect(h)
  /\ \E target \in {i, h} :
       call' = [call EXCEPT ![c] = [op |-> "opening", h |-> h, target |-> target,
                                    closes |-> "on failure"]]
  /\ UNCHANGED <<id, handle, registryVars, sweep, shutdown>>

Handshake(c) ==
  /\ ~shutdown /\ call[c].op = "opening"
  /\ Initialized(call[c].h)
  /\ UNCHANGED <<id, handle, registryVars, call, sweep, shutdown>>

\* The handle h of session i starts a prompt.
StartPrompt(c, h, i, closes, tracked) ==
  /\ busySessions' = busySessions \union {i}
  /\ handle' = [handle EXCEPT ![h].busy = TRUE, ![h].isPrompting = TRUE,
                              ![h].tracked = tracked]
  /\ call' = [call EXCEPT ![c] = [op |-> "prompting", h |-> h, target |-> i,
                                  closes |-> closes]]

(***************************************************************************)
(* makeSessionHandle() and the first prompt: the new handle replaces any   *)
(* other in the registries.  A spawn that prompts in the background is     *)
(* also a run of AsyncExecutor; it closes its session at the end or never. *)
(***************************************************************************)
Opened(c) ==
  LET h == call[c].h
      i == call[c].target IN
  /\ ~shutdown /\ call[c].op = "opening"
  /\ SessionOpen(h)
  /\ id' = [id EXCEPT ![h] = i]
  /\ sessions' = [sessions EXCEPT ![i] = h]
  /\ activeAdapters' = [activeAdapters EXCEPT ![i] = h]
  /\ entries' = [entries EXCEPT ![i] = h]
  /\ StartPrompt(c, h, i, call[c].closes, call[c].closes # "on failure")
  /\ UNCHANGED <<sweep, shutdown>>

\* spawn(), initialize() or newSession() fails: the adapter is disposed.
OpenFails(c) ==
  /\ ~shutdown /\ call[c].op = "opening"
  /\ Disposed({call[c].h})
  /\ call' = [call EXCEPT ![c] = Idle]
  /\ UNCHANGED <<id, handle, registryVars, sweep, shutdown>>

-----------------------------------------------------------------------------
(* Prompts *)

(***************************************************************************)
(* acp_msg on a live session.  A busy one refuses: the message is said to  *)
(* be queued, and is dropped.  The start of a prompt is no activity.       *)
(***************************************************************************)
Reuse(c, i) ==
  LET h == sessions[i] IN
  /\ Idles(c)
  /\ h # None /\ phase[h] # "closed" /\ activeAdapters[i] # None
  /\ i \notin busySessions
  /\ StartPrompt(c, h, i, "never", handle[h].tracked)
  /\ UNCHANGED <<clientVars, id, sessions, activeAdapters, entries, sweep, shutdown>>

(***************************************************************************)
(* The end of a prompt: the busy mark is taken from the id, isPrompting    *)
(* from the handle and from the one the monitor has for the id.            *)
(***************************************************************************)
NoPrompt(h) ==
  [g \in Handle |-> [handle[g] EXCEPT !.isPrompting = @ /\ g \notin {h, entries[id[h]]}]]

\* The agent answers.  A one-shot session is closed.
Answered(c) ==
  LET h == call[c].h
      f == [NoPrompt(h) EXCEPT ![h].busy = FALSE, ![h].completed = "fresh",
                               ![h].answered = "fresh"]
  IN
  /\ ~shutdown /\ call[c].op = "prompting" /\ CanAnswer(h)
  /\ IF call[c].closes = "always" THEN CloseSession(h, f) ELSE KeepSession(f)
  /\ busySessions' = busySessions \ {id[h]}
  /\ call' = [call EXCEPT ![c] = Idle]
  /\ UNCHANGED <<id, entries, sweep, shutdown>>

(***************************************************************************)
(* The call gives its prompt up.  A session that was just opened is        *)
(* closed, except a long-lived one that prompts in the background.         *)
(***************************************************************************)
GivesUp(c, runsOn) ==
  LET h == call[c].h
      f == [NoPrompt(h) EXCEPT ![h].busy = FALSE, ![h].unmarked = @ \/ runsOn]
  IN
  /\ ~shutdown /\ call[c].op = "prompting"
  /\ IF call[c].closes = "never" THEN KeepSession(f) ELSE CloseSession(h, f)
  /\ busySessions' = busySessions \ {id[h]}
  /\ call' = [call EXCEPT ![c] = Idle]
  /\ UNCHANGED <<id, entries, sweep, shutdown>>

PromptFails(c) == GivesUp(c, FALSE)

(***************************************************************************)
(* withTimeoutMs() only stops to wait: the agent works on, and the busy    *)
(* mark is gone.                                                           *)
(***************************************************************************)
PromptTimesOut(c) ==
  call[c].op = "prompting" /\ CanAnswer(call[c].h) /\ GivesUp(c, TRUE)

(***************************************************************************)
(* acp_status resumes the background run of a spawn, which may be over or  *)
(* interrupted: reprompt() asks the agent without a look at the mark.      *)
(***************************************************************************)
Reprompt(h) ==
  /\ ~shutdown /\ CanAnswer(h) /\ handle[h].tracked
  /\ handle' = [handle EXCEPT ![h].unmarked = TRUE]
  /\ UNCHANGED <<clientVars, id, registryVars, call, sweep, shutdown>>

\* The last of the prompts without a mark is over.
LateAnswer(h) ==
  /\ ~shutdown /\ handle[h].unmarked
  /\ handle' = [handle EXCEPT ![h].unmarked = FALSE]
  /\ UNCHANGED <<clientVars, id, registryVars, call, sweep, shutdown>>

\* Mutant: cancelling takes the busy mark away.
CancelPrompt_FreesSession(i) ==
  LET h == sessions[i] IN
  /\ ~shutdown /\ h # None /\ phase[h] # "closed"
  /\ handle' = [handle EXCEPT ![h].completed = "fresh"]
  /\ busySessions' = busySessions \ {i}
  /\ UNCHANGED <<clientVars, id, sessions, activeAdapters, entries, call, sweep,
                 shutdown>>

\* acp_msg with cancel: completedAt is now, whatever the agent makes of it.
CancelPrompt(i) ==
  LET h == sessions[i] IN
  /\ ~shutdown /\ h # None /\ phase[h] # "closed"
  /\ handle' = [handle EXCEPT ![h].completed = "fresh"]
  /\ UNCHANGED <<clientVars, id, registryVars, call, sweep, shutdown>>

-----------------------------------------------------------------------------
(* The health monitor *)

(***************************************************************************)
(* check(): what is stale, stalled or disposed leaves the monitor; the     *)
(* first two are handed to onStale(), one after the other.  A prompt       *)
(* stalls when its session had no activity for long: any may be stalled.   *)
(* A check starts on time even while an earlier one is at work.            *)
(***************************************************************************)
Check(w, stalled) ==
  LET listed == {i \in Handle : entries[i] # None}
      gone   == {i \in listed : phase[entries[i]] = "closed"}
      stale  == {i \in listed \ gone : AutoCloses(entries[i]) \/ i \in stalled}
  IN
  /\ ~shutdown /\ sweep[w] = NoSweep /\ gone \union stale # {}
  /\ \A i \in stalled : i \in listed /\ handle[entries[i]].isPrompting
  /\ entries' = [i \in Handle |-> IF i \in gone \union stale THEN None ELSE entries[i]]
  /\ sweep' = [sweep EXCEPT ![w].ids = stale]
  /\ UNCHANGED <<clientVars, id, handle, sessions, activeAdapters, busySessions, call,
                 shutdown>>

(***************************************************************************)
(* onStale() looks the handle up again: one that prompts is cancelled and  *)
(* given its grace, one that is still due is closed, any other is left     *)
(* alone, in the registries but no longer in the monitor.                  *)
(***************************************************************************)
OnStale(w, i) ==
  LET h == sessions[i] IN
  /\ ~shutdown /\ sweep[w].grace = None /\ i \in sweep[w].ids
  /\ \/ /\ h # None /\ handle[h].isPrompting
        /\ sweep' = [sweep EXCEPT ![w] = [ids |-> @.ids \ {i}, grace |-> h]]
        /\ KeepSession(handle) /\ UNCHANGED busySessions
     \/ /\ ~(h # None /\ handle[h].isPrompting)
        /\ sweep' = [sweep EXCEPT ![w].ids = @ \ {i}]
        /\ IF h # None /\ AutoCloses(h)
             THEN CloseSession(h, handle) /\ busySessions' = busySessions \ {i}
             ELSE KeepSession(handle) /\ UNCHANGED busySessions
  /\ UNCHANGED <<id, entries, call, shutdown>>

\* The grace is over: the session is closed, answered or not.
GraceEnds(w) ==
  LET h == sweep[w].grace IN
  /\ ~shutdown /\ h # None
  /\ CloseSession(h, NoPrompt(h))
  /\ busySessions' = IF phase[h] = "closed" THEN busySessions
                                            ELSE busySessions \ {id[h]}
  /\ sweep' = [sweep EXCEPT ![w].grace = None]
  /\ UNCHANGED <<id, entries, call, shutdown>>

-----------------------------------------------------------------------------
(* Time, the processes and the shutdown *)

\* The timeouts of the monitor pass for what happened so far to a handle.
Aged(age) == IF age = "fresh" THEN "old" ELSE age

TimePasses(h) ==
  /\ ~shutdown
  /\ phase[h] = "open" /\ "fresh" \in {handle[h].completed, handle[h].answered}
  /\ handle' = [handle EXCEPT ![h].completed = Aged(@), ![h].answered = Aged(@)]
  /\ UNCHANGED <<clientVars, id, registryVars, call, sweep, shutdown>>

AgentEnds(h) ==
  /\ ProcessEnds(h)
  /\ UNCHANGED <<id, handle, registryVars, call, sweep, shutdown>>

(***************************************************************************)
(* session_shutdown: the monitor stops and the background prompts are      *)
(* given a while; then every session of the manager and every adapter left *)
(* is disposed.  What could still happen in that while happens before.     *)
(***************************************************************************)
Shutdown ==
  LET left == {h \in Handle : \E i \in Handle : h \in {sessions[i], activeAdapters[i]}}
  IN
  /\ ~shutdown /\ shutdown' = TRUE
  /\ Disposed(left)
  /\ handle' = [h \in Handle |-> IF h \in left THEN New ELSE handle[h]]
  /\ sessions' = [i \in Handle |-> None]
  /\ activeAdapters' = [i \in Handle |-> None]
  /\ UNCHANGED <<id, entries, busySessions, call, sweep>>

\* One pass of the monitor: a check, then what it found, one by one.
Sweeps(w) == Check(w, {}) \/ GraceEnds(w) \/ \E i \in Handle : OnStale(w, i)

CallStep(c) ==
  Handshake(c) \/ Opened(c) \/ OpenFails(c) \/ Answered(c)
  \/ PromptFails(c) \/ PromptTimesOut(c)

Next ==
  \/ \E c \in Caller :
       \/ CallStep(c)
       \/ \E h \in Handle, closes \in SpawnCloses : Spawn(c, h, closes)
       \/ \E h, i \in Handle : Reopen(c, h, i)
       \/ \E i \in Handle : Reuse(c, i)
  \/ \E w \in Sweep :
       \/ Sweeps(w)
       \/ \E stalled \in SUBSET Handle \ {{}} : Check(w, stalled)
  \/ \E h \in Handle :
       \/ CancelPrompt(h) \/ TimePasses(h) \/ AgentEnds(h)
       \/ Reprompt(h) \/ LateAnswer(h)
  \/ Shutdown

Spec == Init /\ [][Next]_vars

(***************************************************************************)
(* The monitor's timer fires and its callbacks run on.  Nothing is assumed *)
(* of the agents, of the tools or of which prompts stall.                  *)
(***************************************************************************)
FairSpec == Spec /\ \A w \in Sweep : WF_vars(Sweeps(w))

-----------------------------------------------------------------------------
(* Properties *)

TypeOK ==
  /\ phase \in [Handle -> Phases]
  /\ proc \in [Handle -> {"none", "running", "failed", "signalled"}]
  /\ id \in [Handle -> Handle \union {None}]
  /\ handle \in [Handle -> [busy : BOOLEAN, isPrompting : BOOLEAN,
                             completed : {"no", "fresh", "old"},
                             answered : {"no", "fresh", "old"},
                             tracked : BOOLEAN, unmarked : BOOLEAN]]
  /\ busySessions \subseteq Handle
  /\ \A registry \in {sessions, activeAdapters, entries} :
       registry \in [Handle -> Handle \union {None}]
  /\ call \in [Caller -> [op : {"idle", "opening", "prompting"},
                          h : Handle \union {None}, target : Handle \union {None},
                          closes : Closes]]
  /\ sweep \in [Sweep -> [ids : SUBSET Handle, grace : Handle \union {None}]]
  /\ shutdown \in BOOLEAN

(***************************************************************************)
(* The session manager and the table of adapters name the same handle for  *)
(* every id, and never one that is disposed: closing goes by id through    *)
(* three registries, two callers may reopen one id at the same time, and   *)
(* the handle that is closed need not be the one that is registered.       *)
(***************************************************************************)
RegistriesAgree ==
  \A i \in Handle :
    /\ sessions[i] = activeAdapters[i]
    /\ sessions[i] # None => phase[sessions[i]] = "open" /\ id[sessions[i]] = i

(***************************************************************************)
(* Two prompts run at once on one agent only if one of them has no mark,   *)
(* because its call timed out or it resumes a background run, or if the id *)
(* has had another handle: cancelling, reaping and reusing a session leave *)
(* the busy mark in place while a call waits for its prompt.               *)
(***************************************************************************)
Waiting(h) == {c \in Caller : call[c].op = "prompting" /\ call[c].h = h}
Prompts(h) == Waiting(h) \union IF handle[h].unmarked THEN {None} ELSE {}
Reopened(h) == \E g \in Handle \ {h} : id[g] = id[h]

OnePromptUnlessReopened ==
  \A h \in Handle : \A p, q \in Prompts(h) : p = q \/ None \in {p, q} \/ Reopened(h)

(***************************************************************************)
(* A session whose last prompt is long over is closed in the end, however  *)
(* its tools interleave with the checks of the monitor, unless it is used  *)
(* or cancelled again, another handle takes its place or pi shuts down.    *)
(***************************************************************************)
Forgotten(h) ==
  /\ phase[h] = "open" /\ entries[id[h]] = h
  /\ ~handle[h].busy /\ handle[h].completed = "old"

IdleIsReaped ==
  \A h \in Handle :
    Forgotten(h) ~> \/ phase[h] = "closed" \/ handle[h].busy
                    \/ handle[h].completed # "old" \/ sessions[id[h]] # h
                    \/ shutdown
=============================================================================
