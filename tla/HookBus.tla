------------------------------- MODULE HookBus -------------------------------
(***************************************************************************)
(* The hooks of the extension on top of their bus: HookTriggerManager      *)
(* turns a lifecycle callback into a dispatch, HookDispatcher publishes    *)
(* the event and runs the scripts of the hooks directory beside it, and    *)
(* session_shutdown stops all of it.  No pre- or post-hook is registered   *)
(* anywhere in the program, and the key of the reentrancy guard holds a    *)
(* fresh random id, so neither is part of the model.                       *)
(***************************************************************************)
EXTENDS WakeBus

CONSTANTS
  Scripted,   \* events for which a script runs
  Stubborn    \* scripts that do not end before their timeout

VARIABLES
  raised,     \* what became of each event: "no", "unheard" or "published"
  script,     \* the script of each event
  shutdown    \* "no", "wake stopped" or "done"

hooksVars == <<busVars, raised, script, shutdown>>

HooksInit ==
  /\ BusInit
  /\ raised = [e \in Event |-> "no"]
  /\ script = [e \in Event |-> "none"]
  /\ shutdown = "no"

(***************************************************************************)
(* dispatch(): the scripts of the hooks directory start, and beside them   *)
(* the event goes to the publisher, if there is one yet.                   *)
(***************************************************************************)
Dispatched(e) ==
  /\ script' = [script EXCEPT ![e] = IF e \in Scripted THEN "running" ELSE "ended"]
  /\ IF publisher = "unbound"
       THEN /\ raised' = [raised EXCEPT ![e] = "unheard"]
            /\ UNCHANGED <<critical, plain, wire>>
       ELSE /\ raised' = [raised EXCEPT ![e] = "published"]
            /\ Publish(e)
  /\ UNCHANGED <<path, publisher, consumer, sock, subscriberVars, hostVars, faults>>

\* A trigger fires, each for its own callback, unless the manager is disposed.
Fire(e) ==
  /\ shutdown = "no" /\ raised[e] = "no"
  /\ Dispatched(e)
  /\ UNCHANGED shutdown

(***************************************************************************)
(* The script of a dispatch ends by itself, or the timeout sends SIGTERM   *)
(* and 200 ms later SIGKILL, which no script survives.                     *)
(***************************************************************************)
ScriptStep(e) ==
  /\ script[e] \in {"running", "terminated"}
  /\ script' = [script EXCEPT ![e] =
                  IF @ = "running" /\ e \in Stubborn THEN "terminated" ELSE "ended"]
  /\ UNCHANGED <<busVars, raised, shutdown>>

Shutdown ==
  /\ shutdown = "no"
  /\ IF publisher = "up"
       THEN StopWake /\ shutdown' = "wake stopped"
       ELSE shutdown' = "done" /\ UNCHANGED busVars
  /\ UNCHANGED <<raised, script>>

ShutdownEnds ==
  /\ shutdown = "wake stopped"
  /\ StopPublisher
  /\ shutdown' = "done"
  /\ UNCHANGED <<raised, script>>

HooksUnchanged == UNCHANGED <<raised, script, shutdown>>

\* A client socket reports what happened to it; the publisher's end does.
Report ==
  /\ \E s \in Slot : \/ Closed(s)
                   \/ \E a \in Activity : Connects(a, s) \/ ConnectFails(a, s)
  /\ HooksUnchanged

PublisherReport == ConsumerLeaves /\ HooksUnchanged

\* A timer of the subscriber fires.
Timer ==
  /\ BackoffEnds \/ CooldownEnds \/ \E a \in Activity : Retry(a)
  /\ HooksUnchanged

Hear == (\E s \in Slot : Receive(s)) /\ HooksUnchanged

BusStarts == Bind /\ HooksUnchanged

HostRests == TurnEnds /\ HooksUnchanged

\* What need not happen.
Disturbance ==
  /\ \/ TurnStarts \/ TimePasses \/ MinutePasses \/ SessionStarts \/ TakeOver
     \/ \E s \in Slot : Breaks(s)
  /\ HooksUnchanged

HooksNext ==
  \/ Report \/ PublisherReport \/ Timer \/ Hear \/ BusStarts \/ HostRests
  \/ Disturbance
  \/ \E e \in Event : Fire(e) \/ ScriptStep(e)
  \/ Shutdown \/ ShutdownEnds

HooksSpec == HooksInit /\ [][HooksNext]_hooksVars

(***************************************************************************)
(* Sockets report what happened to them, timers fire, what is written is   *)
(* read, a turn of the host comes to its end and so does a killed script.  *)
(* Nothing is assumed of which socket or which timer comes first.          *)
(***************************************************************************)
Fairness ==
  /\ WF_hooksVars(Report) /\ WF_hooksVars(PublisherReport) /\ WF_hooksVars(Timer) /\ WF_hooksVars(Hear)
  /\ WF_hooksVars(BusStarts) /\ WF_hooksVars(HostRests)
  /\ \A e \in Event : WF_hooksVars(ScriptStep(e))

HooksFairSpec == HooksSpec /\ Fairness

-----------------------------------------------------------------------------
(* Properties *)

HooksTypeOK ==
  /\ path \in {"none", "own", "foreign"}
  /\ publisher \in {"unbound", "up", "stopped"}
  /\ consumer \in Slot \union {NoSocket} /\ current \in Slot \union {NoSocket}
  /\ critical \in Seq(Critical) /\ plain \in Seq(Event \ Critical)
  /\ sock \in [Slot -> {"free", "open", "closing"}] /\ wire \in [Slot -> Seq(Event)]
  /\ loop \in [Activity -> {"off", "backoff", "connecting", "waiting"}]
  /\ tries \in [Activity -> 0 .. MaxSocketRetries]
  /\ reconnectAttempts \in 0 .. MaxReconnectAttempts
  /\ {exhausted, fallback, cooldown, alive, rested, bound} \subseteq BOOLEAN
  /\ ring \in Seq(Event)
  /\ host.sent \in [Event -> 0 .. MaxSent]
  /\ raised \in [Event -> {"no", "unheard", "published"}]

(***************************************************************************)
(* Never deaf: from the moment the bus is bound until it is stopped there  *)
(* is a socket the subscriber hears on, or something under way that leads  *)
(* to the next connect: an activity, a 'close' not yet handled or the      *)
(* cooldown timer.  Two activities, the guard against reentrancy and the   *)
(* close handler must not between them lose the last wake-up.              *)
(***************************************************************************)
NeverDeaf ==
  publisher = "up" /\ alive =>
    \/ \E s \in Slot : sock[s] # "free"
    \/ \E a \in Activity : loop[a] # "off"
    \/ cooldown

(***************************************************************************)
(* Two activities connect, the publisher resends and the ring is replayed, *)
(* and still no event reaches the host twice while no connect fails, no    *)
(* connection breaks and no other pi takes the path.                       *)
(***************************************************************************)
OneMessageWithoutFaults ==
  faults = MaxFaults => \A e \in Event : host.sent[e] <= 1

(***************************************************************************)
(* A completion that reached the publisher is in the end sent to the host, *)
(* kept for a host in a turn, or refused by the ownership filter, however  *)
(* often the connection breaks and whichever activity connects next:       *)
(* unless the extension is shut down or another pi has the path.           *)
(***************************************************************************)
Completion(e) == Kind[e] = "completion" /\ raised[e] = "published"
Over == shutdown # "no" \/ path # "own"
Sends(e) == host.sent[e] > 0
Buffers(e) == e \in ToSet(host.local)

CompletionHandled ==
  \A e \in Event : Completion(e) ~> Sends(e) \/ Buffers(e) \/ e \in host.filtered \/ Over

=============================================================================
