------------------------------ MODULE AcpClient ------------------------------
(***************************************************************************)
(* The client of one agent process (core/client.ts) behind its adapter     *)
(* (adapters/base.ts): connect, handshake, session and dispose, and the    *)
(* child process (killWithEscalation in core/circuit-breaker.ts).  There   *)
(* is one client for each session handle of the extension.                 *)
(***************************************************************************)
EXTENDS Naturals, FiniteSets

CONSTANT
  Handle      \* session handles, each with an adapter, a client and a process

VARIABLES
  phase,      \* how far the client of each handle is
  proc        \* its child process

clientVars == <<phase, proc>>

Phases == {"unused", "connecting", "creating", "open", "closed"}

ClientInit ==
  /\ phase = [h \in Handle |-> "unused"]
  /\ proc = [h \in Handle |-> "none"]

(***************************************************************************)
(* connect() up to the turn of the event loop it waits for an error of the *)
(* child: the process is there, or will turn out not to be.                *)
(***************************************************************************)
Connect(h) ==
  /\ phase[h] = "unused"
  /\ phase' = [phase EXCEPT ![h] = "connecting"]
  /\ proc' = [proc EXCEPT ![h] = "running"]

(***************************************************************************)
(* The child's 'error' or 'exit' before the handshake is over is fatal for *)
(* the client.  A later end is nothing the client acts on: what waits for  *)
(* an answer of the agent goes on waiting, or fails.                       *)
(***************************************************************************)
ProcessEnds(h) ==
  /\ phase[h] = "connecting" /\ proc[h] = "running"
  /\ proc' = [proc EXCEPT ![h] = "failed"]
  /\ UNCHANGED phase

(***************************************************************************)
(* guardAgainstSpawnError() returns, the adapter keeps the client, and     *)
(* initialize() passes, with authentication and the check of the answer.   *)
(***************************************************************************)
Initialized(h) ==
  /\ phase[h] = "connecting" /\ proc[h] = "running"
  /\ phase' = [phase EXCEPT ![h] = "creating"]
  /\ UNCHANGED proc

\* newSession() or loadSession() is answered.
SessionOpen(h) ==
  /\ phase[h] = "creating"
  /\ phase' = [phase EXCEPT ![h] = "open"]
  /\ UNCHANGED proc

\* prompt() needs a connection and a session, and is answered by the agent.
CanAnswer(h) == phase[h] = "open"

(***************************************************************************)
(* killWithEscalation(): SIGTERM.  The timer that should send SIGKILL      *)
(* looks at `killed', which is set by then, and does nothing: the process  *)
(* may well run on.                                                        *)
(***************************************************************************)
Killed(hs) == proc' = [h \in Handle |-> IF h \in hs THEN "signalled" ELSE proc[h]]

\* dispose() of some clients: the process is killed and let go of.
Disposed(hs) ==
  /\ phase' = [h \in Handle |-> IF h \in hs THEN "closed" ELSE phase[h]]
  /\ Killed(hs)

=============================================================================
