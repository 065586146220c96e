-------------------------- MODULE SessionNamesProofs --------------------------
(* Names of sessions, for any set of labels, any number of tool calls under  *)
(* way and any number of openings.                                           *)
EXTENDS SessionNames, TLAPS

RecordType == [known : BOOLEAN, name : Names, failures : 0 .. Hopeless]
HandleType == [live : BOOLEAN, asked : Names, name : Names]
CallType == [op : {"idle", "creating", "loading"}, id : Session \union {None},
             name : Names, copy : RecordType]

\* Whoever has a name assigned has an archived record.
RegisteredIsKnown ==
  \A n \in Named : registry[n] # None => archive[registry[n]].known

\* A session is loaded from a record, one that has not failed too often.
LoadsFromRecord ==
  \A c \in Caller : call[c].op = "loading" =>
    call[c].id \in Session /\ call[c].copy.known /\ call[c].copy.failures < Hopeless

IInv == TypeOK /\ RegisteredIsKnown /\ LoadsFromRecord /\ NameLeadsToSession

USE DEF None

LEMMA Constants ==
  /\ None \notin Session
  /\ NoName \notin Named
  /\ NoRecord \in RecordType /\ NoHandle \in HandleType /\ Idle \in CallType
  /\ ~NoHandle.live /\ NoHandle.asked = NoName
  /\ \A n \in Names, k \in 0 .. Hopeless : Record(n, k) \in RecordType /\ Record(n, k).known
  <1>1. None \notin Session
    BY SessionNamesAssumption DEF Session
  <1>2. NoName \notin Named
    BY DEF NoName, Named
  <1>3. NoName \in Names
    BY DEF Names
  <1>4. NoRecord \in RecordType
    BY <1>3 DEF NoRecord, RecordType, Hopeless
  <1>5. NoHandle \in HandleType /\ ~NoHandle.live /\ NoHandle.asked = NoName
    BY <1>3 DEF NoHandle, HandleType
  <1>6. Idle \in CallType
    BY <1>3, <1>4 DEF Idle, CallType
  <1>7. \A n \in Names, k \in 0 .. Hopeless :
          Record(n, k) \in RecordType /\ Record(n, k).known
    BY DEF Record, RecordType
  <1> QED
    BY <1>1, <1>2, <1>4, <1>5, <1>6, <1>7

LEMMA TypesOf ==
  TypeOK <=> /\ registry \in [Named -> Session \union {None}]
             /\ archive \in [Session -> RecordType]
             /\ handle \in [Session -> HandleType]
             /\ mail \subseteq Named
             /\ call \in [Caller -> CallType]
             /\ opened \in 0 .. MaxOpenings
  BY DEF TypeOK, RecordType, HandleType, CallType

LEMMA TypesOfNext ==
  TypeOK' <=> /\ registry' \in [Named -> Session \union {None}]
              /\ archive' \in [Session -> RecordType]
              /\ handle' \in [Session -> HandleType]
              /\ mail' \subseteq Named
              /\ call' \in [Caller -> CallType]
              /\ opened' \in 0 .. MaxOpenings
  BY DEF TypeOK, RecordType, HandleType, CallType

-----------------------------------------------------------------------------
(* The stores.                                                               *)

LEMMA NameOfType ==
  ASSUME NEW i
  PROVE  NameOf(i) \in Names
  BY DEF NameOf, Names

\* What resolveSessionTarget() has looked at when it finds nobody.
LEMMA ByNameFinds ==
  ASSUME TypeOK, NEW n \in Named
  PROVE  /\ ByName(n) \in Session \union {None}
         /\ ByName(n) = None =>
              /\ \A i \in Session : handle[i].live => handle[i].name # n
              /\ registry[n] # None => ~archive[registry[n]].known
  <1> DEFINE shows == {i \in Session : handle[i].live /\ handle[i].name = n}
  <1>1. CASE shows # {}
    <2>1. ByName(n) = CHOOSE i \in shows : TRUE
      BY <1>1 DEF ByName
    <2>2. ByName(n) \in shows
      BY <1>1, <2>1
    <2> QED
      BY <2>2, Constants
  <1>2. CASE shows = {}
    <2>1. ByName(n) = IF registry[n] # None /\ archive[registry[n]].known
                      THEN registry[n] ELSE None
      BY <1>2 DEF ByName
    <2> QED
      BY <1>2, <2>1, TypesOf
  <1> QED
    BY <1>1, <1>2

-----------------------------------------------------------------------------
(* Opening.                                                                  *)

\* register() gives a name that is free, or was this session's already: no other
\* session loses it.
LEMMA MakeSessionKeeps ==
  ASSUME IInv, NEW i \in Session, NEW n \in Names, MakeSession(i, n), opened < MaxOpenings
  PROVE  /\ registry' \in [Named -> Session \union {None}]
         /\ archive' \in [Session -> RecordType]
         /\ handle' \in [Session -> HandleType]
         /\ opened' \in 0 .. MaxOpenings
         /\ RegisteredIsKnown'
         /\ NameLeadsToSession'
  <1> DEFINE base   == IF n # NoName THEN n ELSE NameOf(i)
             shown  == IF base = NoName THEN NoName ELSE <<base[1], opened + 1>>
             throws == n # NoName /\ ~MayRegister(n, i)
             new    == [live |-> TRUE, asked |-> n, name |-> shown]
  <1>1. /\ opened' = opened + 1
        /\ archive' = [archive EXCEPT ![i] = Record(shown, 0)]
        /\ handle' = [handle EXCEPT ![i] = IF throws THEN NoHandle ELSE new]
        /\ registry' = IF n = NoName \/ throws THEN registry ELSE [registry EXCEPT ![n] = i]
    BY DEF MakeSession
  <1>2. /\ registry \in [Named -> Session \union {None}]
        /\ archive \in [Session -> RecordType] /\ handle \in [Session -> HandleType]
        /\ opened \in 0 .. MaxOpenings
    BY TypesOf DEF IInv
  <1>3. opened + 1 \in 0 .. MaxOpenings
    BY <1>2, SessionNamesAssumption
  <1>4. shown \in Names
    <2>1. base \in Names
      BY NameOfType
    <2>2. CASE base = NoName
      BY <2>1, <2>2
    <2>3. CASE base # NoName
      <3>1. base \in Label \X (0 .. MaxOpenings)
        BY <2>1, <2>3 DEF Names, Named
      <3>2. <<base[1], opened + 1>> \in Label \X (0 .. MaxOpenings)
        BY <3>1, <1>3
      <3> QED
        BY <3>2, <2>3 DEF Names, Named
    <2> QED
      BY <2>2, <2>3
  <1> HIDE DEF base, shown
  <1>5. new \in HandleType
    BY <1>4 DEF HandleType
  <1>6. Record(shown, 0) \in RecordType /\ Record(shown, 0).known
    BY <1>4, Constants DEF Hopeless
  <1>7. n # NoName => n \in Named
    BY DEF Names
  <1>8. registry' \in [Named -> Session \union {None}]
    BY <1>1, <1>2, <1>7
  <1>9. archive' \in [Session -> RecordType] /\ handle' \in [Session -> HandleType]
    BY <1>1, <1>2, <1>5, <1>6, Constants
  <1>10. RegisteredIsKnown'
    <2> SUFFICES ASSUME NEW m \in Named, registry'[m] # None
                 PROVE  archive'[registry'[m]].known
      BY DEF RegisteredIsKnown
    <2>1. archive'[i].known
      BY <1>1, <1>2, <1>6
    <2>2. CASE registry'[m] = i
      BY <2>1, <2>2
    <2>3. CASE registry'[m] # i
      <3>1. registry'[m] = registry[m]
        BY <2>3, <1>1, <1>2
      <3>2. archive[registry[m]].known /\ registry[m] \in Session
        BY <3>1, <1>2 DEF IInv, RegisteredIsKnown
      <3> QED
        BY <3>1, <3>2, <2>3, <1>1, <1>2
    <2> QED
      BY <2>2, <2>3
  <1>11. NameLeadsToSession'
    <2> SUFFICES ASSUME NEW j \in Session, handle'[j].live, handle'[j].asked # NoName
                 PROVE  registry'[handle'[j].asked] = j
      BY DEF NameLeadsToSession
    <2>1. CASE j = i
      <3>1. ~throws /\ handle'[i] = new
        BY <2>1, <1>1, <1>2, Constants
      <3>2. handle'[j].asked = n /\ n # NoName
        BY <2>1, <3>1
      <3>3. registry' = [registry EXCEPT ![n] = i] /\ n \in Named
        BY <3>1, <3>2, <1>1, <1>7
      <3> QED
        BY <2>1, <3>2, <3>3, <1>2
    <2>2. CASE j # i
      <3>1. handle'[j] = handle[j]
        BY <2>2, <1>1, <1>2
      <3>2. registry[handle[j].asked] = j
        BY <3>1 DEF IInv, NameLeadsToSession
      <3>3. handle[j].asked \in Named
        BY <3>1, <1>2 DEF HandleType, Names
      <3>4. CASE registry' = registry
        BY <3>1, <3>2, <3>4
      <3>5. CASE n # NoName /\ ~throws
        <4>1. registry[n] \in {None, i}
          BY <3>5 DEF MayRegister
        <4>2. handle[j].asked # n
          BY <4>1, <3>2, <2>2, Constants
        <4> QED
          BY <4>2, <3>1, <3>2, <3>3, <3>5, <1>1, <1>2
      <3> QED
        BY <3>4, <3>5, <1>1
    <2> QED
      BY <2>1, <2>2
  <1> QED
    BY <1>1, <1>3, <1>8, <1>9, <1>10, <1>11

LEMMA SpawnKeeps ==
  ASSUME IInv, NEW c \in Caller, NEW n \in (Label \X {0}) \union {NoName}, Spawn(c, n)
  PROVE  IInv'
  <1>1. n \in Names
    BY SessionNamesAssumption DEF Names, Named
  <1>2. [Idle EXCEPT !.op = "creating", !.name = n] \in CallType
    BY <1>1, Constants DEF CallType
  <1>3. TypeOK'
    BY <1>2, TypesOf, TypesOfNext DEF IInv, Spawn, stores
  <1>4. LoadsFromRecord'
    BY TypesOf DEF IInv, Spawn, LoadsFromRecord, Idle
  <1> QED
    BY <1>3, <1>4 DEF IInv, Spawn, stores, RegisteredIsKnown, NameLeadsToSession

LEMMA ReopenKeeps ==
  ASSUME IInv, NEW c \in Caller, NEW i \in Session, NEW n \in Names, Reopen(c, i, n)
  PROVE  IInv'
  <1> DEFINE new ==
        [op |-> IF archive[i].failures >= Hopeless THEN "creating" ELSE "loading",
         id |-> i, name |-> n, copy |-> archive[i]]
  <1>1. archive[i] \in RecordType /\ archive[i].known
    BY TypesOf DEF IInv, Reopen
  <1>2. new \in CallType
    BY <1>1 DEF CallType
  <1>3. new.op = "loading" =>
          new.id \in Session /\ new.copy.known /\ new.copy.failures < Hopeless
    BY <1>1 DEF RecordType, Hopeless
  <1>4. call' = [call EXCEPT ![c] = new] /\ UNCHANGED <<stores, handle, opened>>
    BY DEF Reopen
  <1> HIDE DEF new
  <1>5. TypeOK'
    BY <1>2, <1>4, TypesOf, TypesOfNext DEF IInv, stores
  <1>6. LoadsFromRecord'
    BY <1>3, <1>4, TypesOf DEF IInv, LoadsFromRecord
  <1> QED
    BY <1>4, <1>5, <1>6 DEF IInv, stores, RegisteredIsKnown, NameLeadsToSession

LEMMA SeenNames == TypeOK => Seen \subseteq Named
  <1> SUFFICES ASSUME TypeOK, NEW n \in Seen PROVE n \in Named
    OBVIOUS
  <1>1. CASE n \in Label \X {0}
    BY <1>1, SessionNamesAssumption DEF Named
  <1>2. CASE n \in {archive[i].name : i \in Session} \ {NoName}
    BY <1>2, TypesOf DEF RecordType, Names
  <1> QED
    BY <1>1, <1>2 DEF Seen

LEMMA MessageToKeeps ==
  ASSUME IInv, NEW c \in Caller, NEW n \in Seen, MessageTo(c, n)
  PROVE  IInv'
  <1>1. n \in Named /\ n \in Names
    BY SeenNames DEF IInv, Names
  <1>2. CASE ByName(n) # None /\ Reopen(c, ByName(n), n)
    BY <1>1, <1>2, ByNameFinds, ReopenKeeps DEF IInv
  <1>3. CASE mail' = Sent(n) /\ UNCHANGED <<registry, archive, handle, call, opened>>
    <2>1. TypeOK'
      BY <1>1, <1>3, TypesOf, TypesOfNext DEF IInv, Sent
    <2> QED
      BY <1>3, <2>1 DEF IInv, RegisteredIsKnown, LoadsFromRecord, NameLeadsToSession
  <1> QED
    BY <1>2, <1>3 DEF MessageTo

LEMMA MessageIdKeeps ==
  ASSUME IInv, NEW c \in Caller, NEW i \in Session, MessageId(c, i)
  PROVE  IInv'
  <1>1. (IF archive[i].name # NoName THEN archive[i].name ELSE NameOf(i)) \in Names
    BY TypesOf, NameOfType DEF IInv, RecordType
  <1> QED
    BY <1>1, ReopenKeeps DEF MessageId

\* Created() and Loaded(): a handle is made and the call ends.
LEMMA OpenedKeeps ==
  ASSUME IInv, NEW c \in Caller, NEW i \in Session, MakeSession(i, call[c].name),
         opened < MaxOpenings, Ends(c), UNCHANGED mail
  PROVE  IInv'
  <1>1. call \in [Caller -> CallType] /\ mail \subseteq Named
    BY TypesOf DEF IInv
  <1>2. call[c].name \in Names
    BY <1>1 DEF CallType
  <1>3. /\ registry' \in [Named -> Session \union {None}]
        /\ archive' \in [Session -> RecordType] /\ handle' \in [Session -> HandleType]
        /\ opened' \in 0 .. MaxOpenings
        /\ RegisteredIsKnown' /\ NameLeadsToSession'
    BY <1>2, MakeSessionKeeps
  <1>4. call' \in [Caller -> CallType]
    BY <1>1, Constants DEF Ends
  <1>5. TypeOK'
    BY <1>1, <1>3, <1>4, TypesOfNext
  <1>6. LoadsFromRecord'
    BY <1>1 DEF IInv, LoadsFromRecord, Ends, Idle
  <1> QED
    BY <1>3, <1>5, <1>6 DEF IInv

LEMMA CreatedKeeps ==
  ASSUME IInv, NEW c \in Caller, Created(c)
  PROVE  IInv'
  <1>1. opened \in 0 .. MaxOpenings /\ opened < MaxOpenings
    BY TypesOf DEF IInv, Created
  <1>2. opened + 1 \in Session
    BY <1>1, SessionNamesAssumption DEF Session
  <1> QED
    BY <1>1, <1>2, OpenedKeeps DEF Created

LEMMA LoadedKeeps ==
  ASSUME IInv, NEW c \in Caller, Loaded(c)
  PROVE  IInv'
  <1>1. call[c].id \in Session
    BY DEF IInv, LoadsFromRecord, Loaded
  <1> QED
    BY <1>1, OpenedKeeps DEF Loaded

\* The copy is a record, so the session written back is still known.
LEMMA LoadFailsKeeps ==
  ASSUME IInv, NEW c \in Caller, LoadFails(c)
  PROVE  IInv'
  <1> DEFINE i == call[c].id
             copy == [call[c].copy EXCEPT !.failures = @ + 1]
             over == [call[c] EXCEPT !.op = "creating"]
  <1>1. /\ call \in [Caller -> CallType] /\ archive \in [Session -> RecordType]
        /\ registry \in [Named -> Session \union {None}]
    BY TypesOf DEF IInv
  <1>2. i \in Session /\ call[c].copy.known /\ call[c].copy.failures < Hopeless
    BY DEF IInv, LoadsFromRecord, LoadFails
  <1>3. call[c].copy \in RecordType
    BY <1>1 DEF CallType
  <1>4. copy \in RecordType /\ copy.known
    <2>1. call[c].copy.failures + 1 \in 0 .. Hopeless
      BY <1>2, <1>3 DEF RecordType, Hopeless
    <2> QED
      BY <1>2, <1>3, <2>1 DEF RecordType
  <1>5. over \in CallType /\ over.op = "creating"
    BY <1>1 DEF CallType
  <1>6. /\ archive' = [archive EXCEPT ![i] = copy]
        /\ call' = [call EXCEPT ![c] = over]
        /\ UNCHANGED <<registry, handle, mail, opened>>
    BY <1>1 DEF LoadFails
  <1> HIDE DEF i, copy, over
  <1>7. TypeOK'
    BY <1>1, <1>2, <1>4, <1>5, <1>6, TypesOf, TypesOfNext DEF IInv
  <1>8. LoadsFromRecord'
    BY <1>1, <1>5, <1>6 DEF IInv, LoadsFromRecord
  <1>9. RegisteredIsKnown'
    BY <1>1, <1>2, <1>4, <1>6 DEF IInv, RegisteredIsKnown
  <1>10. NameLeadsToSession'
    BY <1>6 DEF IInv, NameLeadsToSession
  <1> QED
    BY <1>7, <1>8, <1>9, <1>10 DEF IInv

LEMMA OpenFailsKeeps ==
  ASSUME IInv, NEW c \in Caller, OpenFails(c)
  PROVE  IInv'
  <1>1. TypeOK'
    BY TypesOf, TypesOfNext, Constants DEF IInv, OpenFails, Ends, stores
  <1>2. LoadsFromRecord'
    BY TypesOf DEF IInv, OpenFails, Ends, LoadsFromRecord, Idle
  <1> QED
    BY <1>1, <1>2 DEF IInv, OpenFails, stores, RegisteredIsKnown, NameLeadsToSession

-----------------------------------------------------------------------------
(* Live sessions.                                                            *)

LEMMA ArchivedKeeps ==
  ASSUME IInv, NEW i \in Session, archive' = Archived(i), registry' = registry
  PROVE  archive' \in [Session -> RecordType] /\ RegisteredIsKnown'
  <1>1. /\ archive \in [Session -> RecordType] /\ handle \in [Session -> HandleType]
        /\ registry \in [Named -> Session \union {None}]
    BY TypesOf DEF IInv
  <1>2. handle[i].name \in Names
    BY <1>1 DEF HandleType
  <1>3. Record(handle[i].name, 0) \in RecordType /\ Record(handle[i].name, 0).known
    BY <1>2, Constants DEF Hopeless
  <1> QED
    BY <1>1, <1>3 DEF Archived, IInv, RegisteredIsKnown

LEMMA PromptedKeeps ==
  ASSUME IInv, NEW i \in Session, Prompted(i)
  PROVE  IInv'
  <1>1. archive' \in [Session -> RecordType] /\ RegisteredIsKnown'
    BY ArchivedKeeps DEF Prompted
  <1>2. TypeOK'
    BY <1>1, TypesOf, TypesOfNext DEF IInv, Prompted
  <1> QED
    BY <1>1, <1>2 DEF IInv, Prompted, LoadsFromRecord, NameLeadsToSession

LEMMA CloseKeeps ==
  ASSUME IInv, NEW i \in Session, Close(i)
  PROVE  IInv'
  <1>1. archive' \in [Session -> RecordType] /\ RegisteredIsKnown'
    BY ArchivedKeeps DEF Close
  <1>2. handle \in [Session -> HandleType] /\ handle' = [handle EXCEPT ![i] = NoHandle]
    BY TypesOf DEF IInv, Close
  <1>3. TypeOK'
    BY <1>1, <1>2, Constants, TypesOf, TypesOfNext DEF IInv, Close
  <1>4. NameLeadsToSession'
    BY <1>2, Constants DEF IInv, Close, NameLeadsToSession
  <1> QED
    BY <1>1, <1>3, <1>4 DEF IInv, Close, LoadsFromRecord

LEMMA CleanupSessionsKeeps ==
  ASSUME IInv, CleanupSessions
  PROVE  IInv'
  <1> DEFINE live == {i \in Session : handle[i].live}
  <1>1. /\ archive \in [Session -> RecordType] /\ handle \in [Session -> HandleType]
        /\ registry \in [Named -> Session \union {None}]
    BY TypesOf DEF IInv
  <1>2. /\ archive' = [i \in Session |-> IF i \in live THEN Record(handle[i].name, 0)
                                                      ELSE archive[i]]
        /\ registry' = [n \in Named |-> IF registry[n] \in live THEN None ELSE registry[n]]
        /\ handle' = [i \in Session |-> NoHandle]
        /\ UNCHANGED <<mail, call, opened>>
    BY DEF CleanupSessions, Released
  <1>3. \A i \in Session : /\ Record(handle[i].name, 0) \in RecordType
                          /\ Record(handle[i].name, 0).known
    BY <1>1, Constants DEF HandleType, Hopeless
  <1>4. TypeOK'
    BY <1>1, <1>2, <1>3, Constants, TypesOf, TypesOfNext DEF IInv
  <1>5. RegisteredIsKnown'
    BY <1>1, <1>2, <1>3 DEF IInv, RegisteredIsKnown
  <1>6. NameLeadsToSession'
    BY <1>2, Constants DEF NameLeadsToSession
  <1> QED
    BY <1>2, <1>4, <1>5, <1>6 DEF IInv, LoadsFromRecord

LEMMA CleanupMailKeeps == IInv /\ CleanupMail => IInv'
  BY TypesOf, TypesOfNext
  DEF IInv, CleanupMail, RegisteredIsKnown, LoadsFromRecord, NameLeadsToSession

LEMMA RestartKeeps == IInv /\ Restart => IInv'
  <1> SUFFICES ASSUME IInv, Restart PROVE IInv'
    OBVIOUS
  <1>1. TypeOK'
    BY TypesOf, TypesOfNext, Constants DEF IInv, Restart, stores
  <1>2. LoadsFromRecord'
    BY DEF Restart, LoadsFromRecord, Idle
  <1>3. NameLeadsToSession'
    BY Constants DEF Restart, NameLeadsToSession
  <1> QED
    BY <1>1, <1>2, <1>3 DEF IInv, Restart, stores, RegisteredIsKnown

-----------------------------------------------------------------------------
(* The theorems.                                                             *)

LEMMA InitIInv == Init => IInv
  <1> SUFFICES ASSUME Init PROVE IInv
    OBVIOUS
  <1>1. TypeOK
    BY Constants, SessionNamesAssumption, TypesOf DEF Init
  <1> QED
    BY <1>1, Constants
    DEF Init, IInv, RegisteredIsKnown, LoadsFromRecord, NameLeadsToSession, Idle

LEMMA NextIInv == IInv /\ [Next]_vars => IInv'
  <1> SUFFICES ASSUME IInv, [Next]_vars PROVE IInv'
    OBVIOUS
  <1>1. ASSUME NEW c \in Caller, NEW n \in (Label \X {0}) \union {NoName}, Spawn(c, n)
        PROVE  IInv'
    BY <1>1, SpawnKeeps
  <1>2. ASSUME NEW c \in Caller, NEW n \in Seen, MessageTo(c, n) PROVE IInv'
    BY <1>2, MessageToKeeps
  <1>3. ASSUME NEW c \in Caller, NEW i \in Session, MessageId(c, i) PROVE IInv'
    BY <1>3, MessageIdKeeps
  <1>4. ASSUME NEW c \in Caller, Created(c) \/ Loaded(c) \/ LoadFails(c) \/ OpenFails(c)
        PROVE  IInv'
    BY <1>4, CreatedKeeps, LoadedKeeps, LoadFailsKeeps, OpenFailsKeeps
  <1>5. ASSUME NEW i \in Session, Prompted(i) \/ Close(i) PROVE IInv'
    BY <1>5, PromptedKeeps, CloseKeeps
  <1>6. CASE CleanupSessions \/ CleanupMail \/ Restart
    BY <1>6, CleanupSessionsKeeps, CleanupMailKeeps, RestartKeeps
  <1>7. CASE UNCHANGED vars
    BY <1>7, TypesOf, TypesOfNext
    DEF vars, stores, IInv, RegisteredIsKnown, LoadsFromRecord, NameLeadsToSession
  <1> QED
    BY <1>1, <1>2, <1>3, <1>4, <1>5, <1>6, <1>7 DEF Next

LEMMA Inductive == Spec => []IInv
  BY InitIInv, NextIInv, PTL DEF Spec

(* The state of names, archive and calls keeps its types; in particular no    *)
(* session is loaded without a record or after three failures in a row.       *)
THEOREM NameTypes == Spec => []TypeOK
  <1>1. IInv => TypeOK
    BY DEF IInv
  <1> QED
    BY <1>1, Inductive, PTL

(* A name leads to the live session that was opened under it, for any number  *)
(* of calls that open, reload and clean up at the same time.                  *)
THEOREM NamesLeadToSessions == Spec => []NameLeadsToSession
  <1>1. IInv => NameLeadsToSession
    BY DEF IInv
  <1> QED
    BY <1>1, Inductive, PTL

\* New mail comes from a message to a name for which nobody was found.
LEMMA NewMail ==
  ASSUME IInv, [Next]_vars, NEW n \in mail' \ mail
  PROVE  n \in Named /\ ByName(n) = None
  <1>1. ASSUME NEW c \in Caller, NEW m \in Seen, MessageTo(c, m)
        PROVE  n \in Named /\ ByName(n) = None
    <2>1. mail' = Sent(m) /\ ByName(m) = None
      BY <1>1 DEF MessageTo, Reopen, stores
    <2>2. n = m
      BY <2>1 DEF Sent
    <2> QED
      BY <2>1, <2>2, SeenNames DEF IInv
  <1>2. ASSUME NEW c \in Caller, NEW i \in Session, MessageId(c, i) PROVE FALSE
    BY <1>2 DEF MessageId, Reopen, stores
  <1>3. ASSUME NEW c \in Caller, NEW m, Spawn(c, m) PROVE FALSE
    BY <1>3 DEF Spawn, stores
  <1>4. ASSUME NEW c \in Caller, Created(c) \/ Loaded(c) \/ LoadFails(c) \/ OpenFails(c)
        PROVE  FALSE
    BY <1>4 DEF Created, Loaded, LoadFails, OpenFails, stores
  <1>5. ASSUME NEW i \in Session, Prompted(i) \/ Close(i) PROVE FALSE
    BY <1>5 DEF Prompted, Close
  <1>6. ~(CleanupSessions \/ CleanupMail \/ Restart \/ UNCHANGED vars)
    BY DEF CleanupSessions, CleanupMail, Restart, vars, stores
  <1> QED
    BY <1>1, <1>2, <1>3, <1>4, <1>5, <1>6 DEF Next

(* The mailbox takes a message only for a name that is not assigned and that  *)
(* no live session was opened under or shows.                                 *)
THEOREM MailIsForNobody == Spec => MailForNobody
  <1>1. IInv /\ [Next]_vars =>
          [\A n \in mail' \ mail :
             /\ registry[n] = None
             /\ \A i \in Session : handle[i].live =>
                                  n \notin {handle[i].asked, handle[i].name}]_vars
    <2> SUFFICES ASSUME IInv, [Next]_vars, NEW n \in mail' \ mail
                 PROVE  /\ registry[n] = None
                        /\ \A i \in Session : handle[i].live =>
                                             n \notin {handle[i].asked, handle[i].name}
      OBVIOUS
    <2>1. n \in Named /\ ByName(n) = None
      BY NewMail
    <2>2. /\ \A i \in Session : handle[i].live => handle[i].name # n
          /\ registry[n] # None => ~archive[registry[n]].known
      BY <2>1, ByNameFinds DEF IInv
    <2>3. registry[n] = None
      BY <2>1, <2>2 DEF IInv, RegisteredIsKnown
    <2>4. \A i \in Session : handle[i].live => handle[i].asked # n
      BY <2>1, <2>3, Constants DEF IInv, NameLeadsToSession
    <2> QED
      BY <2>2, <2>3, <2>4
  <1> QED
    BY <1>1, Inductive, PTL DEF Spec, MailForNobody
=============================================================================
