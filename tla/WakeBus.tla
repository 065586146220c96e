------------------------------- MODULE WakeBus -------------------------------
(***************************************************************************)
(* The socket bus that wakes the host of the extension: SocketPublisher    *)
(* (hooks/socket-bus.ts), WakeSubscriber (hooks/wake-subscriber.ts) and    *)
(* the code of index.ts that starts, binds and stops them.  Both ends live *)
(* in one pi process, but the path of the socket is shared by every pi of  *)
(* the machine, so another one may take it over.                           *)
(*                                                                         *)
(* Two activities of the subscriber may connect at the same time: the      *)
(* "init" one, the start() called once at start-up, and "rec", the         *)
(* start() inside reconnectAfterClose().  A client socket stays in `sock'  *)
(* until its 'close' event has been handled.                               *)
(***************************************************************************)
EXTENDS Naturals, Sequences, SequencesExt

CONSTANTS
  Event,                 \* the hook events raised in a behaviour
  Kind,                  \* completion, failed, plain or muted, of each event
  Slot,                  \* client sockets that exist at the same time
  MaxSocketRetries,      \* connects tried by one start()
  MaxReconnectAttempts,  \* reconnects in one episode
  RingSize,              \* of the replay ring and of the publisher's ring
  CriticalCap,           \* events that are never dropped, kept for a resend
  MaxFaults,             \* bound: failed connects, drops and take-overs
  MaxSent                \* bound: messages counted for each event

NoSocket == "none"

\* The limits are numbers, and no socket is called none.
ASSUME BusAssumption ==
  MaxFaults \in Nat /\ RingSize \in Nat /\ CriticalCap \in Nat /\ NoSocket \notin Slot

VARIABLES
  path,       \* whose server the socket path leads to
  publisher,  \* "unbound", "up" or "stopped"
  consumer,   \* the publisher's one consumer, a client socket
  critical, plain,       \* events kept for the next consumer
  sock, wire,            \* client sockets, and what is written to each
  current,    \* the subscriber's `socket' field
  loop, tries,           \* the two connecting activities
  reconnectAttempts, exhausted, fallback, cooldown, alive, \* fields of the subscriber
  rested,     \* whether the last reconnect is more than a minute ago
  ring,       \* events received, for the replay after a reconnect
  bound,      \* whether setHostSessionId() has been called
  host,       \* the pi host: its turn, what deliverEvent() keeps about it, and history:
              \* the messages of each event and the events that were filtered out
  faults

publisherVars == <<path, publisher, consumer, critical, plain>>
socketVars    == <<sock, wire>>
reconnectVars == <<reconnectAttempts, exhausted, fallback, cooldown, rested>>
subscriberVars == <<current, loop, tries, alive, reconnectVars>>
hostVars      == <<ring, bound, host>>
busVars == <<publisherVars, socketVars, subscriberVars, hostVars, faults>>

Activity == {"init", "rec"}

(***************************************************************************)
(* NEVER_DROP_EVENT_TYPES: completions and failures of sessions and tasks. *)
(***************************************************************************)
Critical == {e \in Event : Kind[e] \in {"completion", "failed"}}

\* The last n elements of a sequence: push and shift from the front.
Keep(s, n) == IF Len(s) > n THEN SubSeq(s, Len(s) - n + 1, Len(s)) ELSE s

BusInit ==
  /\ path = "none" /\ publisher = "unbound" /\ consumer = NoSocket
  /\ critical = <<>> /\ plain = <<>>
  /\ sock = [s \in Slot |-> "free"] /\ wire = [s \in Slot |-> <<>>]
  /\ current = NoSocket
  /\ loop = [a \in Activity |-> "off"] /\ tries = [a \in Activity |-> 0]
  /\ reconnectAttempts = 0 /\ exhausted = FALSE /\ fallback = FALSE /\ cooldown = FALSE
  /\ alive = TRUE /\ rested = FALSE
  /\ ring = <<>> /\ bound = FALSE
  /\ host = [idle |-> TRUE, local |-> <<>>, recent |-> {},
             sent |-> [e \in Event |-> 0], filtered |-> {}]
  /\ faults = MaxFaults

-----------------------------------------------------------------------------
(* The publisher *)

\* Mutant: an event written to a consumer is not kept for the next one.
Publish_KeepsUnwritten(e) ==
  IF consumer # NoSocket
    THEN /\ UNCHANGED <<critical, plain>>
         /\ wire' = IF sock[consumer] = "open"
                      THEN [wire EXCEPT ![consumer] = Append(@, e)] ELSE wire
    ELSE /\ critical' = IF e \in Critical THEN Append(critical, e) ELSE critical
         /\ plain' = IF e \in Critical THEN plain ELSE Keep(Append(plain, e), RingSize)
         /\ UNCHANGED wire

\* Mutant: every event is kept in the bounded ring, too.
Publish_KeptTwice(e) ==
  /\ critical' = IF e \in Critical THEN Keep(Append(critical, e), CriticalCap) ELSE critical
  /\ plain' = Keep(Append(plain, e), RingSize)
  /\ wire' = IF consumer # NoSocket /\ sock[consumer] = "open"
               THEN [wire EXCEPT ![consumer] = Append(@, e)] ELSE wire

(***************************************************************************)
(* Publish: the event is buffered and written to the consumer.  A consumer *)
(* whose other end is gone takes the bytes all the same.                   *)
(***************************************************************************)
Publish(e) ==
  /\ IF e \in Critical
       THEN /\ critical' = Keep(Append(critical, e), CriticalCap)
            /\ UNCHANGED plain
       ELSE /\ plain' = Keep(Append(plain, e), RingSize)
            /\ UNCHANGED critical
  /\ wire' = IF consumer # NoSocket /\ sock[consumer] = "open"
               THEN [wire EXCEPT ![consumer] = Append(@, e)] ELSE wire

(***************************************************************************)
(* The publisher's end of a socket the client has closed: 'close'.         *)
(***************************************************************************)
ConsumerLeaves ==
  /\ consumer # NoSocket /\ sock[consumer] # "open"
  /\ consumer' = NoSocket
  /\ UNCHANGED <<path, publisher, critical, plain, socketVars, subscriberVars,
                 hostVars, faults>>

-----------------------------------------------------------------------------
(* Delivery to the host *)

(***************************************************************************)
(* deliverEvent(): buffered while a turn runs, in a buffer nothing ever    *)
(* empties: flush() has no caller; a failure is throttled by               *)
(* the last failure, any other event that may be dropped by the last       *)
(* message.  h is the host, and so is the result.                          *)
(***************************************************************************)
Sent(h, e) ==
  [h EXCEPT !.sent[e] = IF @ < MaxSent THEN @ + 1 ELSE @]

Deliver(h, e) ==
  IF ~h.idle THEN [h EXCEPT !.local = Append(@, e)]
  ELSE IF Kind[e] = "failed" /\ "failed" \in h.recent THEN h
  ELSE IF e \notin Critical /\ "any" \in h.recent THEN h
  ELSE [Sent(h, e) EXCEPT
          !.recent = {"any"} \union IF Kind[e] = "failed" THEN {"failed"} ELSE @]

\* reconnect(): everything in the ring again, whatever the host does.
Replayed(h) ==
  FoldLeft(Sent, h, SelectSeq(ring, LAMBDA e : Kind[e] # "muted"))

(***************************************************************************)
(* handleEvent().  The ownership filter compares the session of the event  *)
(* with the host's: events carry the id of the agent's session, or none    *)
(* for a task, and so a subscriber that knows its host drops every event.  *)
(***************************************************************************)
Receive(s) ==
  /\ sock[s] = "open" /\ wire[s] # <<>>
  /\ wire' = [wire EXCEPT ![s] = Tail(@)]
  /\ LET e == Head(wire[s]) IN
       IF bound THEN /\ host' = [host EXCEPT !.filtered = @ \union {e}]
                     /\ UNCHANGED <<ring, bound>>
       ELSE /\ ring' = Keep(Append(ring, e), RingSize)
            /\ host' = IF Kind[e] = "muted" THEN host ELSE Deliver(host, e)
            /\ UNCHANGED bound
  /\ UNCHANGED <<publisherVars, sock, subscriberVars, faults>>

-----------------------------------------------------------------------------
(* Connecting and reconnecting *)

(***************************************************************************)
(* Sockets report a connect or a close at once, the timers of the          *)
(* subscriber take a second or more: none fires while a report is due.     *)
(***************************************************************************)
Settled ==
  /\ \A s \in Slot : sock[s] # "closing"
  /\ \A a \in Activity : loop[a] # "connecting"

(***************************************************************************)
(* The head of start(): the socket in use is destroyed, unless the         *)
(* subscriber believes it has fallen back to the intercom.                 *)
(***************************************************************************)
Start(a) ==
  /\ loop' = [loop EXCEPT ![a] = "connecting"]
  /\ tries' = [tries EXCEPT ![a] = 0]
  /\ IF current # NoSocket /\ ~fallback
       THEN /\ sock' = [sock EXCEPT ![current] = "closing"]
            /\ wire' = [wire EXCEPT ![current] = <<>>]
            /\ current' = NoSocket
       ELSE UNCHANGED <<sock, wire, current>>

(***************************************************************************)
(* pub.start() returns: the path is taken from whoever had it.  The        *)
(* subscriber is created and started only now.                             *)
(***************************************************************************)
Bind ==
  /\ publisher = "unbound"
  /\ publisher' = "up" /\ path' = "own"
  /\ Start("init")
  /\ UNCHANGED <<consumer, critical, plain, alive, reconnectVars, hostVars, faults>>

\* Sockets are interchangeable: a connect takes the first that is free.
NextSlot == CHOOSE s \in Slot : sock[s] = "free" /\ consumer # s

(***************************************************************************)
(* A connect succeeds.  The publisher takes the socket as its consumer and *)
(* writes what it kept, or ends it when it has one already.  The server of *)
(* another pi may do either.                                               *)
(***************************************************************************)
Accepted == path = "own" /\ consumer = NoSocket

Connects(a, s) ==
  /\ loop[a] = "connecting" /\ path # "none"
  /\ s = NextSlot /\ sock[s] = "free" /\ consumer # s
  /\ IF Accepted
       THEN /\ consumer' = s
            /\ sock' = [sock EXCEPT ![s] = "open"]
            /\ wire' = [wire EXCEPT ![s] = plain \o critical]
       ELSE /\ \E outcome \in {"closing"} \union
                              IF path = "foreign" THEN {"open"} ELSE {} :
                 sock' = [sock EXCEPT ![s] = outcome]
            /\ UNCHANGED <<consumer, wire>>
  /\ current' = s
  /\ fallback' = FALSE
  /\ loop' = [loop EXCEPT ![a] = "off"]
  /\ host' = IF a = "rec" /\ alive THEN Replayed(host) ELSE host
  /\ UNCHANGED <<path, publisher, critical, plain, tries, alive, reconnectAttempts,
                 exhausted, cooldown, rested, ring, bound, faults>>

(***************************************************************************)
(* A connect fails; the 'close' of the failed socket is still to come.     *)
(* After the last try the subscriber falls back to the intercom, which     *)
(* the extension does not have.                                            *)
(***************************************************************************)
ConnectFails(a, s) ==
  /\ loop[a] = "connecting"
  /\ s = NextSlot /\ sock[s] = "free" /\ consumer # s
  /\ IF path = "none" THEN UNCHANGED faults
                      ELSE faults > 0 /\ faults' = faults - 1
  /\ sock' = [sock EXCEPT ![s] = "closing"]
  /\ tries' = [tries EXCEPT ![a] = @ + 1]
  /\ IF tries[a] + 1 < MaxSocketRetries
       THEN /\ loop' = [loop EXCEPT ![a] = "waiting"]
            /\ UNCHANGED <<fallback, current>>
       ELSE /\ loop' = [loop EXCEPT ![a] = "off"]
            /\ fallback' = TRUE /\ current' = NoSocket
  /\ UNCHANGED <<publisherVars, wire, alive, reconnectAttempts, exhausted, cooldown, rested,
                 hostVars>>

Retry(a) ==
  /\ loop[a] = "waiting" /\ Settled
  /\ loop' = [loop EXCEPT ![a] = "connecting"]
  /\ UNCHANGED <<publisherVars, socketVars, current, tries, alive, reconnectVars,
                 hostVars, faults>>

\* Mutant: a spent budget leaves the subscriber dormant, without a timer.
ReconnectAfterClose_NoTimer ==
  IF loop["rec"] # "off" THEN UNCHANGED <<loop, reconnectVars>>
  ELSE /\ reconnectAttempts' = IF rested THEN 0 ELSE reconnectAttempts
       /\ IF reconnectAttempts' < MaxReconnectAttempts
            THEN /\ loop' = [loop EXCEPT !["rec"] = "backoff"]
                 /\ exhausted' = FALSE /\ UNCHANGED fallback
            ELSE /\ exhausted' = TRUE /\ fallback' = TRUE
                 /\ UNCHANGED loop
       /\ UNCHANGED <<cooldown, rested>>

(***************************************************************************)
(* reconnectAfterClose() up to its backoff: refused while a reconnect is   *)
(* under way; the budget is renewed after a minute of rest; when it is     *)
(* spent the cooldown timer is armed, once.                                *)
(***************************************************************************)
ReconnectAfterClose ==
  IF loop["rec"] # "off" THEN UNCHANGED <<loop, reconnectVars>>
  ELSE /\ reconnectAttempts' = IF rested THEN 0 ELSE reconnectAttempts
       /\ IF reconnectAttempts' < MaxReconnectAttempts
            THEN /\ loop' = [loop EXCEPT !["rec"] = "backoff"]
                 /\ exhausted' = (exhausted /\ ~rested)
                 /\ UNCHANGED <<fallback, cooldown>>
            ELSE /\ exhausted' = TRUE
                 /\ fallback' = (fallback \/ ~exhausted)
                 /\ cooldown' = (cooldown \/ ~exhausted)
                 /\ UNCHANGED loop
       /\ UNCHANGED rested

(***************************************************************************)
(* The 'close' event of a client socket, whichever it is: the handler      *)
(* clears the field `socket' without a look at what the field holds.       *)
(***************************************************************************)
Closed(s) ==
  /\ sock[s] = "closing"
  /\ sock' = [sock EXCEPT ![s] = "free"]
  /\ IF alive
       THEN /\ current' = NoSocket
            /\ ReconnectAfterClose
       ELSE UNCHANGED <<current, loop, reconnectVars>>
  /\ UNCHANGED <<publisherVars, wire, tries, alive, hostVars, faults>>

\* The backoff of a reconnect is over, and stop() may have been called.
BackoffEnds ==
  /\ loop["rec"] = "backoff" /\ Settled
  /\ rested' = (rested /\ ~alive)
  /\ IF alive
       THEN /\ reconnectAttempts' = reconnectAttempts + 1
            /\ exhausted' = FALSE
            /\ Start("rec")
       ELSE /\ loop' = [loop EXCEPT !["rec"] = "off"]
            /\ UNCHANGED <<reconnectAttempts, exhausted, tries, sock, wire, current>>
  /\ UNCHANGED <<publisherVars, fallback, cooldown, alive, hostVars, faults>>

\* scheduleCooldownRecovery(): the timer fires.
CooldownEnds ==
  /\ cooldown /\ Settled
  /\ IF loop["rec"] # "off"
       THEN UNCHANGED loop
       ELSE loop' = [loop EXCEPT !["rec"] = "backoff"]
  /\ cooldown' = FALSE
  /\ reconnectAttempts' = 0 /\ exhausted' = FALSE /\ fallback' = FALSE
  /\ UNCHANGED <<rested, publisherVars, socketVars, current, tries, alive,
                 hostVars, faults>>

-----------------------------------------------------------------------------
(* The host *)

TurnStarts ==
  /\ host.idle
  /\ host' = [host EXCEPT !.idle = FALSE]
  /\ UNCHANGED <<publisherVars, socketVars, subscriberVars, ring, bound, faults>>

\* The end of a turn sets hostIdle, and that is all.
TurnEnds ==
  /\ ~host.idle
  /\ host' = [host EXCEPT !.idle = TRUE]
  /\ UNCHANGED <<publisherVars, socketVars, subscriberVars, ring, bound, faults>>

\* 200 ms pass since the last failure was sent, a second since any message.
TimePasses ==
  /\ host.recent # {}
  /\ host' = [host EXCEPT !.recent = IF "failed" \in @ THEN {"any"} ELSE {}]
  /\ UNCHANGED <<publisherVars, socketVars, subscriberVars, ring, bound, faults>>

\* A minute passes since the last reconnect: nothing else can be under way.
MinutePasses ==
  /\ ~rested /\ reconnectAttempts > 0 /\ Settled /\ \A a \in Activity : loop[a] = "off"
  /\ rested' = TRUE
  /\ host' = [host EXCEPT !.recent = {}]
  /\ UNCHANGED <<publisherVars, socketVars, current, loop, tries, alive, reconnectAttempts,
                 exhausted, fallback, cooldown, ring, bound, faults>>

\* session_start: the id is bound if the subscriber exists by then.
SessionStarts ==
  /\ publisher # "unbound" /\ ~bound
  /\ bound' = TRUE
  /\ UNCHANGED <<publisherVars, socketVars, subscriberVars, ring, host, faults>>

(***************************************************************************)
(* session_shutdown: first the subscriber, then the publisher, which       *)
(* unlinks the path whoever serves it.                                     *)
(***************************************************************************)
StopWake ==
  /\ alive' = FALSE /\ cooldown' = FALSE
  /\ current' = NoSocket
  /\ IF current # NoSocket
       THEN /\ sock' = [sock EXCEPT ![current] = "closing"]
            /\ wire' = [wire EXCEPT ![current] = <<>>]
       ELSE UNCHANGED socketVars
  /\ UNCHANGED <<publisherVars, loop, tries, reconnectAttempts, exhausted, fallback, rested,
                 hostVars, faults>>

StopPublisher ==
  /\ publisher' = "stopped" /\ path' = "none" /\ consumer' = NoSocket
  /\ IF consumer # NoSocket /\ sock[consumer] = "open"
       THEN /\ sock' = [sock EXCEPT ![consumer] = "closing"]
            /\ wire' = [wire EXCEPT ![consumer] = <<>>]
       ELSE UNCHANGED socketVars
  /\ UNCHANGED <<critical, plain, subscriberVars, hostVars, faults>>

-----------------------------------------------------------------------------
(* Faults *)

\* A connection breaks, with what was on its way.
Breaks(s) ==
  /\ faults > 0 /\ sock[s] = "open"
  /\ faults' = faults - 1
  /\ sock' = [sock EXCEPT ![s] = "closing"]
  /\ wire' = [wire EXCEPT ![s] = <<>>]
  /\ UNCHANGED <<publisherVars, subscriberVars, hostVars>>

\* Another pi starts and takes the path; it stops and unlinks it.
TakeOver ==
  /\ \/ faults > 0 /\ path = "own" /\ path' = "foreign" /\ faults' = faults - 1
     \/ path = "foreign" /\ path' = "none" /\ UNCHANGED faults
  /\ UNCHANGED <<publisher, consumer, critical, plain, socketVars, subscriberVars,
                 hostVars>>

=============================================================================
