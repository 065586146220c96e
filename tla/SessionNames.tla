----------------------------- MODULE SessionNames -----------------------------
(***************************************************************************)
(* Friendly names of sessions: the registry of names and the archive of    *)
(* sessions on disk (management/session-name-store.ts and                  *)
(* session-archive-store.ts), which outlive the process, the handles in    *)
(* memory, and the mailbox that takes what no session is found for.        *)
(*                                                                         *)
(* A name is <<label, k>>: the label itself when k is 0, else the label    *)
(* with the random suffix of the k-th handle made.  Two suffixes are never *)
(* the same here; in the code they differ with odds of 65,535 to 1.        *)
(***************************************************************************)
EXTENDS Naturals, FiniteSets

CONSTANTS
  Label,        \* what users call their sessions
  Agent,        \* the configured agents, whose mail a cleanup removes
  Caller,       \* tool calls under way at the same time
  MaxOpenings,  \* bound on the handles made
  MaxMail       \* bound on the names with mail

ASSUME SessionNamesAssumption ==
  /\ Agent \subseteq Label
  /\ Caller \subseteq Nat
  /\ MaxOpenings \in Nat /\ MaxMail \in Nat

VARIABLES
  registry,     \* the session each name is assigned to
  archive,      \* the archived record of each session
  handle,       \* the live handle of each session
  mail,         \* the names with mail
  call,         \* the tool calls
  opened        \* handles made so far

stores == <<registry, archive, mail>>
vars == <<stores, handle, call, opened>>

None == 0
Session == 1 .. MaxOpenings
NoName == <<>>
Named == Label \X (0 .. MaxOpenings)
Names == Named \union {NoName}
Hopeless == 3  \* failed loads after which a session is not loaded again

\* What the archive holds: the name shown, and the loads that failed in a row.
NoRecord == [known |-> FALSE, name |-> NoName, failures |-> 0]
Record(n, k) == [known |-> TRUE, name |-> n, failures |-> k]
\* A handle: the name it was opened under, and the name with its suffix.
NoHandle == [live |-> FALSE, asked |-> NoName, name |-> NoName]
Idle == [op |-> "idle", id |-> None, name |-> NoName, copy |-> NoRecord]

Init ==
  /\ registry = [n \in Named |-> None]
  /\ archive = [i \in Session |-> NoRecord]
  /\ handle = [i \in Session |-> NoHandle]
  /\ mail = {}
  /\ call = [c \in Caller |-> Idle]
  /\ opened = 0

-----------------------------------------------------------------------------
(* The stores *)

\* getName()
NameOf(i) ==
  IF \E n \in Named : registry[n] = i THEN CHOOSE n \in Named : registry[n] = i
                                       ELSE NoName

\* Mutant: the name's owner is not looked at.
MayRegister_IgnoresOwner(n, i) == NameOf(i) \in {NoName, n}

\* register() throws unless the name and the session are free, or a pair.
MayRegister(n, i) == registry[n] \in {None, i} /\ NameOf(i) \in {NoName, n}

\* Mutant: names are looked up among the live handles only.
ByName_LiveOnly(n) ==
  IF \E i \in Session : handle[i].live /\ handle[i].name = n
    THEN CHOOSE i \in Session : handle[i].live /\ handle[i].name = n ELSE None

(***************************************************************************)
(* The session resolveSessionTarget() finds for a name: a live one that    *)
(* shows it, or the one it is registered for, if anything is known of it.  *)
(***************************************************************************)
ByName(n) ==
  LET shows == {i \in Session : handle[i].live /\ handle[i].name = n} IN
  IF shows # {} THEN CHOOSE i \in shows : TRUE
  ELSE IF registry[n] # None /\ archive[registry[n]].known THEN registry[n] ELSE None

\* release() of the names of some sessions, and send() of a message.
Released(ids) == [n \in Named |-> IF registry[n] \in ids THEN None ELSE registry[n]]
Sent(n) == mail \union {n}

\* archiveSession() of a handle: what was noted of its loads is lost.
Archived(i) == [archive EXCEPT ![i] = Record(handle[i].name, 0)]

-----------------------------------------------------------------------------
(* Opening *)

(***************************************************************************)
(* makeSessionHandle(), which appends a suffix to the name asked for or    *)
(* registered, and the registration of the name asked for.  When that      *)
(* throws the new handle is closed, and no handle is left for the id.      *)
(***************************************************************************)
MakeSession(i, n) ==
  LET base   == IF n # NoName THEN n ELSE NameOf(i)
      shown  == IF base = NoName THEN NoName ELSE <<base[1], opened + 1>>
      throws == n # NoName /\ ~MayRegister(n, i)
  IN
  /\ opened' = opened + 1
  /\ archive' = [archive EXCEPT ![i] = Record(shown, 0)]
  /\ handle' = [handle EXCEPT ![i] = IF throws THEN NoHandle
                              ELSE [live |-> TRUE, asked |-> n, name |-> shown]]
  /\ registry' = IF n = NoName \/ throws THEN registry
                                          ELSE [registry EXCEPT ![n] = i]

\* Calls are interchangeable: the lowest idle one is used.
Idles(c) == call[c] = Idle /\ \A d \in Caller : d < c => call[d] # Idle

\* acp_spawn, with a name or without; the agent process is being started.
Spawn(c, n) ==
  /\ Idles(c) /\ opened < MaxOpenings
  /\ call' = [call EXCEPT ![c] = [Idle EXCEPT !.op = "creating", !.name = n]]
  /\ UNCHANGED <<stores, handle, opened>>

(***************************************************************************)
(* acp_msg on a session that is not live: opened again.  The call keeps a  *)
(* copy of the record; if that says hopeless it will not try to load it.   *)
(***************************************************************************)
Reopen(c, i, n) ==
  /\ Idles(c) /\ opened < MaxOpenings
  /\ ~handle[i].live /\ archive[i].known
  /\ call' = [call EXCEPT ![c] =
                [op |-> IF archive[i].failures >= Hopeless THEN "creating" ELSE "loading",
                 id |-> i, name |-> n, copy |-> archive[i]]]
  /\ UNCHANGED <<stores, handle, opened>>

(***************************************************************************)
(* acp_msg with `to': to a session of that name, else into the mailbox.    *)
(* On a live session it is a prompt, see Prompted.                         *)
(***************************************************************************)
MessageTo(c, n) ==
  \/ ByName(n) # None /\ Reopen(c, ByName(n), n)
  \/ /\ ByName(n) = None /\ Cardinality(mail) < MaxMail
     /\ mail' = Sent(n)
     /\ UNCHANGED <<registry, archive, handle, call, opened>>

\* acp_msg with the id of a session; its name is the one it was shown with.
MessageId(c, i) ==
  Reopen(c, i, IF archive[i].name # NoName THEN archive[i].name ELSE NameOf(i))

Ends(c) == call' = [call EXCEPT ![c] = Idle]

\* newSession() answers: a session nobody knew before.
Created(c) ==
  /\ call[c].op = "creating" /\ opened < MaxOpenings
  /\ MakeSession(opened + 1, call[c].name)
  /\ Ends(c)
  /\ UNCHANGED mail

\* loadSession() answers.
Loaded(c) ==
  /\ call[c].op = "loading" /\ opened < MaxOpenings
  /\ MakeSession(call[c].id, call[c].name)
  /\ Ends(c)
  /\ UNCHANGED mail

\* loadSession() fails: noted in the copy, which is written back whole.
LoadFails(c) ==
  /\ call[c].op = "loading"
  /\ archive' = [archive EXCEPT ![call[c].id] =
                   [call[c].copy EXCEPT !.failures = @ + 1]]
  /\ call' = [call EXCEPT ![c].op = "creating"]
  /\ UNCHANGED <<registry, handle, mail, opened>>

\* spawn(), initialize() or newSession() fails.
OpenFails(c) ==
  /\ call[c].op # "idle"
  /\ Ends(c)
  /\ UNCHANGED <<stores, handle, opened>>

-----------------------------------------------------------------------------
(* Live sessions *)

\* A prompt of a live session writes its record.
Prompted(i) ==
  /\ handle[i].live
  /\ archive' = Archived(i)
  /\ UNCHANGED <<registry, handle, mail, call, opened>>

\* The session is closed, and its name stays assigned to it.
Close(i) ==
  /\ handle[i].live
  /\ archive' = Archived(i)
  /\ handle' = [handle EXCEPT ![i] = NoHandle]
  /\ UNCHANGED <<registry, mail, call, opened>>

\* acp_status cleanup of the sessions: the names of live ones are released.
CleanupSessions ==
  LET live == {i \in Session : handle[i].live} IN
  /\ archive' = [i \in Session |-> IF i \in live THEN Record(handle[i].name, 0)
                                                 ELSE archive[i]]
  /\ registry' = Released(live)
  /\ handle' = [i \in Session |-> NoHandle]
  /\ UNCHANGED <<mail, call, opened>>

\* acp_status cleanup of the mailboxes: those of the agents, and no other.
CleanupMail ==
  /\ mail' = {n \in mail : n[1] \notin Agent}
  /\ UNCHANGED <<registry, archive, handle, call, opened>>

\* pi ends and starts again on the same files.
Restart ==
  /\ handle' = [i \in Session |-> NoHandle]
  /\ call' = [c \in Caller |-> Idle]
  /\ UNCHANGED <<stores, opened>>

\* The names a user knows of: labels, and what sessions were shown with.
Seen == (Label \X {0}) \union ({archive[i].name : i \in Session} \ {NoName})

Next ==
  \/ \E c \in Caller :
       \/ \E n \in (Label \X {0}) \union {NoName} : Spawn(c, n)
       \/ \E n \in Seen : MessageTo(c, n)
       \/ \E i \in Session : MessageId(c, i)
       \/ Created(c) \/ Loaded(c) \/ LoadFails(c) \/ OpenFails(c)
  \/ \E i \in Session : Prompted(i) \/ Close(i)
  \/ CleanupSessions \/ CleanupMail \/ Restart

Spec == Init /\ [][Next]_vars

-----------------------------------------------------------------------------
(* Properties *)

TypeOK ==
  /\ registry \in [Named -> Session \union {None}]
  /\ archive \in [Session -> [known : BOOLEAN, name : Names, failures : 0 .. Hopeless]]
  /\ handle \in [Session -> [live : BOOLEAN, asked : Names, name : Names]]
  /\ mail \subseteq Named
  /\ call \in [Caller -> [op : {"idle", "creating", "loading"},
                          id : Session \union {None}, name : Names,
                          copy : [known : BOOLEAN, name : Names, failures : 0 .. Hopeless]]]
  /\ opened \in 0 .. MaxOpenings

(***************************************************************************)
(* A live session that was opened under a name is the one session the name *)
(* leads to, although names are checked when the session is already there, *)
(* several calls open, reload and replace sessions under one name or one   *)
(* id at a time, and a cleanup releases names by id.  In particular no two *)
(* live sessions have one name.                                            *)
(***************************************************************************)
NameLeadsToSession ==
  \A i \in Session :
    handle[i].live /\ handle[i].asked # NoName => registry[handle[i].asked] = i

(***************************************************************************)
(* A message lands in the mailbox, where nothing delivers it, only if no   *)
(* live session has that name, as it was asked for or as it is shown, and  *)
(* the name is not assigned to an earlier one.                             *)
(***************************************************************************)
MailForNobody ==
  [][\A n \in mail' \ mail :
       /\ registry[n] = None
       /\ \A i \in Session : handle[i].live => n \notin {handle[i].asked, handle[i].name}]_vars
=============================================================================
