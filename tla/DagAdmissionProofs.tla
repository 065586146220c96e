-------------------------- MODULE DagAdmissionProofs --------------------------
(* topologicalSort and the validator, and that they agree, for every finite  *)
(* set of tasks, every dependsOn and every order of the passes and searches. *)
EXTENDS DagAdmission, SequenceTheorems, TLAPS

-----------------------------------------------------------------------------
(* The sort.                                                                 *)

(* A task is looked at only before it has a wave; and in a pass without       *)
(* progress so far, every task already looked at is stuck.                    *)
Fresh == unvisited \cap DOMAIN waveOf = {}

Stuck ==
  /\ sortPc = "idle" => DOMAIN waveOf = {}
  /\ sortPc = "peeling" /\ ~progressed => \A t \in Remaining \ unvisited : ~HasWave(t)
  /\ sortPc = "threw" => Remaining # {} /\ \A t \in Remaining : ~HasWave(t)
  /\ sortPc = "sorted" => Remaining = {}

IInv == TypeOK /\ IsLayering /\ Fresh /\ Stuck

LEMMA InitIInv == Init => IInv
  <1> SUFFICES ASSUME Init PROVE IInv
    OBVIOUS
  <1>1. DOMAIN waveOf = {} /\ unvisited = {}
    BY DEF Init, SortInit
  <1>2. waveOf \in [DOMAIN waveOf -> 0 .. Cardinality(Task)]
    BY DEF Init, SortInit
  <1> QED
    BY <1>1, <1>2 DEF Init, SortInit, IInv, TypeOK, IsLayering, Fresh, Stuck

LEMMA BeginSortIInv == IInv /\ BeginSort => IInv'
  <1> SUFFICES ASSUME IInv, BeginSort PROVE IInv'
    OBVIOUS
  <1>1. DOMAIN waveOf = {} /\ waveOf' = waveOf /\ dependsOn' = dependsOn
    BY DEF BeginSort, IInv, Stuck
  <1>2. TypeOK'
    BY <1>1 DEF BeginSort, IInv, TypeOK
  <1>3. IsLayering'
    BY <1>1 DEF IsLayering
  <1>4. Fresh'
    BY <1>1 DEF Fresh
  <1>5. Stuck'
    BY DEF BeginSort, Stuck, Remaining
  <1> QED
    BY <1>2, <1>3, <1>4, <1>5 DEF IInv

(* Peeling t keeps every wave assigned before and puts t after its deps.     *)
LEMMA PeelIInv ==
  ASSUME IInv, NEW t \in Task, Peel(t)
  PROVE  IInv'
  <1>1. PICK w \in 0 .. Cardinality(Task) :
          /\ NextWaveOf(t, w)
          /\ waveOf' = [u \in DOMAIN waveOf \cup {t} |-> IF u = t THEN w ELSE waveOf[u]]
    BY DEF Peel
  <1>2. DOMAIN waveOf' = DOMAIN waveOf \cup {t}
    BY <1>1
  <1>3. dependsOn' = dependsOn /\ dependsOn[t] \subseteq DOMAIN waveOf
    BY DEF Peel, HasWave
  <1>4. t \notin DOMAIN waveOf
    BY DEF IInv, Fresh, Peel
  <1>5. TypeOK'
    <2>1. waveOf' \in [DOMAIN waveOf \cup {t} -> 0 .. Cardinality(Task)]
      BY <1>1 DEF IInv, TypeOK
    <2> QED
      BY <2>1, <1>2, <1>3 DEF IInv, TypeOK, Peel
  <1>6. waveOf'[t] = w /\ \A u \in DOMAIN waveOf : u # t /\ waveOf'[u] = waveOf[u]
    BY <1>1, <1>4
  <1>7. IsLayering'
    <2> SUFFICES ASSUME NEW u \in DOMAIN waveOf'
                 PROVE  /\ dependsOn[u] \subseteq DOMAIN waveOf'
                        /\ \A d \in dependsOn[u] : waveOf'[d] < waveOf'[u]
                        /\ waveOf'[u] > 0 => \E d \in dependsOn[u] : waveOf'[u] = waveOf'[d] + 1
      BY <1>3 DEF IsLayering
    <2>1. CASE u = t
      <3>1. \A d \in dependsOn[t] : waveOf'[d] = waveOf[d]
        BY <1>3, <1>6
      <3>2. (\A d \in dependsOn[t] : waveOf[d] < w)
            /\ (w > 0 => \E d \in dependsOn[t] : w = waveOf[d] + 1)
        BY <1>1 DEF NextWaveOf
      <3> QED
        BY <3>1, <3>2, <1>2, <1>3, <1>6, <2>1
    <2>2. CASE u \in DOMAIN waveOf
      <3>1. /\ dependsOn[u] \subseteq DOMAIN waveOf
            /\ \A d \in dependsOn[u] : waveOf[d] < waveOf[u]
            /\ waveOf[u] > 0 => \E d \in dependsOn[u] : waveOf[u] = waveOf[d] + 1
        BY <2>2 DEF IInv, IsLayering
      <3>2. waveOf'[u] = waveOf[u] /\ \A d \in dependsOn[u] : waveOf'[d] = waveOf[d]
        BY <3>1, <1>6, <2>2
      <3> QED
        BY <3>1, <3>2, <1>2
    <2> QED
      BY <1>2, <2>1, <2>2
  <1>8. Fresh'
    BY <1>2 DEF IInv, Fresh, Peel
  <1>9. Stuck'
    BY DEF Peel, Stuck
  <1> QED
    BY <1>5, <1>7, <1>8, <1>9 DEF IInv

LEMMA PassOverIInv ==
  ASSUME IInv, NEW t \in Task, PassOver(t)
  PROVE  IInv'
  <1>1. waveOf' = waveOf /\ dependsOn' = dependsOn /\ unvisited' = unvisited \ {t}
    BY DEF PassOver
  <1>2. TypeOK' /\ Fresh'
    BY <1>1 DEF PassOver, IInv, TypeOK, Fresh
  <1>3. IsLayering'
    BY <1>1 DEF IInv, IsLayering
  <1>4. Stuck'
    BY <1>1 DEF PassOver, IInv, Stuck, Remaining, HasWave
  <1> QED
    BY <1>2, <1>3, <1>4 DEF IInv

(* A pass that peeled nothing has looked at every task left: all are stuck.  *)
LEMMA EndPassIInv == IInv /\ EndPass => IInv'
  <1> SUFFICES ASSUME IInv, EndPass PROVE IInv'
    OBVIOUS
  <1>1. waveOf' = waveOf /\ dependsOn' = dependsOn
    BY DEF EndPass
  <1>2. TypeOK' /\ Fresh'
    BY <1>1 DEF EndPass, NextPass, IInv, TypeOK, Fresh, Remaining
  <1>3. IsLayering'
    BY <1>1 DEF IInv, IsLayering
  <1>4. Stuck'
    <2>1. CASE NextPass
      BY <2>1, <1>1 DEF EndPass, Stuck, Remaining
    <2>2. CASE ~NextPass
      BY <2>2, <1>1 DEF EndPass, NextPass, IInv, Stuck, Remaining, HasWave
    <2> QED
      BY <2>1, <2>2
  <1> QED
    BY <1>2, <1>3, <1>4 DEF IInv

LEMMA NextIInv == IInv /\ [Next]_<<dependsOn, sortVars>> => IInv'
  <1> SUFFICES ASSUME IInv, [Next]_<<dependsOn, sortVars>> PROVE IInv'
    OBVIOUS
  <1>1. CASE BeginSort
    BY <1>1, BeginSortIInv
  <1>2. ASSUME NEW t \in Task, Peel(t) \/ PassOver(t) PROVE IInv'
    BY <1>2, PeelIInv, PassOverIInv
  <1>3. CASE EndPass
    BY <1>3, EndPassIInv
  <1>4. CASE UNCHANGED <<dependsOn, sortVars>>
    BY <1>4 DEF sortVars, IInv, TypeOK, IsLayering, Fresh, Stuck, Remaining, HasWave
  <1> QED
    BY <1>1, <1>2, <1>3, <1>4 DEF Next, SortStep

LEMMA Inductive == Spec => []IInv
  <1> QED
    BY InitIInv, NextIInv, PTL DEF Spec

(* The types hold: no wave exceeds the number of tasks.                      *)
THEOREM SortTypes == Spec => []TypeOK
  <1>1. IInv => TypeOK
    BY DEF IInv
  <1> QED
    BY <1>1, Inductive, PTL

(* What topologicalSort returns is a layering of all tasks, for every graph. *)
THEOREM SortReturnsLayering == Spec => []SortedIsLayering
  <1>1. IInv => SortedIsLayering
    BY DEF IInv, SortedIsLayering, Stuck, TypeOK, Remaining
  <1> QED
    BY <1>1, Inductive, PTL

(* It throws only when no task left could ever start.                        *)
THEOREM SortThrowsOnlyIfStuck == Spec => []ThrowsOnlyIfStuck
  <1>1. IInv => ThrowsOnlyIfStuck
    BY DEF IInv, ThrowsOnlyIfStuck, Stuck, TypeOK, Remaining, HasWave
  <1> QED
    BY <1>1, Inductive, PTL

-----------------------------------------------------------------------------
(* The validator, and how it agrees with the sort.                           *)

FrameType == [id : Task, rest : SUBSET (Task \cup Unknown)]

PathType ==
  /\ dependsOn \in [Task -> SUBSET (Task \cup Unknown)]
  /\ color \in [Task -> {"white", "gray", "black"}]
  /\ path \in Seq(FrameType)
  /\ errors \subseteq {"cycle"}
  /\ verdict \in {"validating", "accepted", "rejected"}

\* The frames are gray tasks, each entered once and from one that depends on it.
PathOK ==
  /\ \A i \in 1 .. Len(path) :
       /\ color[path[i].id] = "gray"
       /\ path[i].rest \subseteq dependsOn[path[i].id]
       /\ i > 1 => path[i].id \in dependsOn[path[i - 1].id]
  /\ \A i, j \in 1 .. Len(path) : path[i].id = path[j].id => i = j

\* Until a cycle is found: every gray task is on the path, and an edge that was followed
\* led to no task, to an explored one or to the next frame.
GrayOnPath == \A t \in Task : color[t] = "gray" => \E i \in 1 .. Len(path) : path[i].id = t

Followed ==
  \A i \in 1 .. Len(path) : \A d \in dependsOn[path[i].id] \ path[i].rest :
    \/ d \in Unknown
    \/ d \in Task /\ color[d] = "black"
    \/ i < Len(path) /\ d = path[i + 1].id

\* Explored tasks depend on explored tasks only, and are on no cycle.
BlackIsDone ==
  \A t \in Task : color[t] = "black" => \A d \in dependsOn[t] \cap Task : color[d] = "black"

IsCycle(S) == S # {} /\ \A t \in S : dependsOn[t] \cap S # {}

BlackIsAcyclic ==
  \A S \in SUBSET Task : IsCycle(S) => \A t \in S : color[t] # "black"

SearchIInv ==
  /\ PathType /\ PathOK
  /\ errors = {} => GrayOnPath /\ Followed /\ BlackIsDone /\ BlackIsAcyclic
  /\ errors # {} => Cyclic /\ path = <<>>
  /\ RejectsExactlyTheInvalid
  /\ sortPc # "idle" => verdict = "accepted"

LEMMA CyclicHasCycle == Cyclic <=> \E S \in SUBSET Task : IsCycle(S)
  BY DEF Cyclic, IsCycle

-----------------------------------------------------------------------------
(* The stack.                                                                *)

LEMMA FrameOf ==
  ASSUME NEW s \in Seq(FrameType), NEW i \in 1 .. Len(s)
  PROVE  s[i].id \in Task /\ s[i].rest \subseteq Task \cup Unknown
  <1>1. s[i] \in FrameType
    BY ElementOfSeq
  <1> QED
    BY <1>1 DEF FrameType

LEMMA FollowEdge ==
  ASSUME path \in Seq(FrameType), path # <<>>, NEW dep
  PROVE  /\ Crossed(dep) \in Seq(FrameType)
         /\ Len(Crossed(dep)) = Len(path)
         /\ \A i \in 1 .. Len(path) : Crossed(dep)[i].id = path[i].id
         /\ \A i \in 1 .. Len(path) : Crossed(dep)[i].rest \subseteq path[i].rest
         /\ \A i \in 1 .. Len(path), d \in Task \cup Unknown :
              d \in path[i].rest => d \in Crossed(dep)[i].rest \/ (i = Len(path) /\ d = dep)
  <1> DEFINE n == Len(path)
             f == [path[n] EXCEPT !.rest = @ \ {dep}]
  <1>1. n \in 1 .. Len(path)
    BY EmptySeq
  <1>2. path[n] \in FrameType
    BY <1>1, ElementOfSeq
  <1>3. f \in FrameType /\ f.id = path[n].id /\ f.rest = path[n].rest \ {dep}
    BY <1>2 DEF FrameType
  <1>4. Crossed(dep) = [path EXCEPT ![n] = f]
    BY DEF Crossed
  <1> HIDE DEF f
  <1>5. /\ [path EXCEPT ![n] = f] \in Seq(FrameType)
        /\ Len([path EXCEPT ![n] = f]) = Len(path)
        /\ \A j \in 1 .. Len(path) : [path EXCEPT ![n] = f][j] = IF j = n THEN f ELSE path[j]
    BY <1>1, <1>3, ExceptSeq
  <1> QED
    BY <1>1, <1>3, <1>4, <1>5

LEMMA PushFrame ==
  ASSUME NEW s \in Seq(FrameType), NEW f \in FrameType
  PROVE  /\ Append(s, f) \in Seq(FrameType)
         /\ Len(Append(s, f)) = Len(s) + 1
         /\ Append(s, f)[Len(s) + 1] = f
         /\ \A i \in 1 .. Len(s) : Append(s, f)[i] = s[i]
  OBVIOUS

LEMMA PopFrame ==
  ASSUME NEW s \in Seq(FrameType), s # <<>>
  PROVE  /\ Front(s) \in Seq(FrameType)
         /\ Len(Front(s)) = Len(s) - 1
         /\ \A i \in 1 .. Len(s) - 1 : Front(s)[i] = s[i]
  <1>1. Len(s) \in Nat \ {0}
    BY EmptySeq
  <1>2. \A i \in 1 .. Len(s) - 1 : s[i] \in FrameType
    BY <1>1, ElementOfSeq
  <1>3. /\ SubSeq(s, 1, Len(s) - 1) \in Seq(FrameType)
        /\ Len(SubSeq(s, 1, Len(s) - 1)) =
             IF 1 <= Len(s) - 1 THEN Len(s) - 1 - 1 + 1 ELSE 0
        /\ \A i \in 1 .. Len(s) - 1 - 1 + 1 : SubSeq(s, 1, Len(s) - 1)[i] = s[1 + i - 1]
    BY <1>1, <1>2, SubSeqProperties
  <1>4. Len(s) - 1 - 1 + 1 = Len(s) - 1 /\ (1 <= Len(s) - 1 \/ Len(s) - 1 = 0)
    <2>1. \A k \in Nat \ {0} : k - 1 - 1 + 1 = k - 1 /\ (1 <= k - 1 \/ k - 1 = 0)
      OBVIOUS
    <2> QED
      BY <1>1, <2>1
  <1>5. Len(SubSeq(s, 1, Len(s) - 1)) = Len(s) - 1
    BY <1>1, <1>3, <1>4
  <1>6. \A i \in 1 .. Len(s) - 1 : 1 + i - 1 = i
    BY <1>1
  <1>7. \A i \in 1 .. Len(s) - 1 : SubSeq(s, 1, Len(s) - 1)[i] = s[i]
    BY <1>3, <1>4, <1>6
  <1> QED
    BY <1>3, <1>5, <1>7 DEF Front

-----------------------------------------------------------------------------
(* The steps of the search.                                                  *)

LEMMA StartDfsKeeps ==
  ASSUME SearchIInv, NEW t \in Task, StartDfs(t)
  PROVE  SearchIInv'
  <1>0. /\ PathType /\ PathOK /\ RejectsExactlyTheInvalid
        /\ errors = {} => GrayOnPath /\ Followed /\ BlackIsDone /\ BlackIsAcyclic
        /\ errors # {} => Cyclic /\ path = <<>>
        /\ sortPc # "idle" => verdict = "accepted"
    BY DEF SearchIInv
  <1>1. /\ errors = {} /\ errors' = {} /\ path = <<>> /\ color[t] = "white"
        /\ color' = [color EXCEPT ![t] = "gray"] /\ path' = <<Frame(t)>>
        /\ UNCHANGED <<dependsOn, verdict, sortVars>>
    BY <1>0 DEF StartDfs, Validating, PathType
  <1>2. Frame(t) \in FrameType /\ Frame(t).id = t /\ Frame(t).rest = dependsOn[t]
    BY <1>0 DEF Frame, FrameType, PathType
  <1>3. /\ path' \in Seq(FrameType) /\ Len(path') = 1
        /\ path'[1].id = t /\ path'[1].rest = dependsOn[t]
    BY <1>1, <1>2
  <1>4. PathType'
    BY <1>0, <1>1, <1>3 DEF PathType
  <1>5. PathOK'
    BY <1>0, <1>1, <1>3 DEF PathOK, PathType
  <1>6. GrayOnPath' /\ Followed'
    BY <1>0, <1>1, <1>3 DEF GrayOnPath, Followed, PathType
  <1>7. BlackIsDone' /\ BlackIsAcyclic'
    BY <1>0, <1>1 DEF BlackIsDone, BlackIsAcyclic, IsCycle, PathType
  <1>8. RejectsExactlyTheInvalid'
    BY <1>0, <1>1 DEF RejectsExactlyTheInvalid, Cyclic, DanglingRefs
  <1> QED
    BY <1>0, <1>1, <1>4, <1>5, <1>6, <1>7, <1>8 DEF sortVars, SearchIInv

LEMMA SkipEdgeKeeps ==
  ASSUME SearchIInv, NEW dep \in Task \cup Unknown, SkipEdge(dep)
  PROVE  SearchIInv'
  <1>0. /\ PathType /\ PathOK /\ RejectsExactlyTheInvalid
        /\ errors = {} => GrayOnPath /\ Followed /\ BlackIsDone /\ BlackIsAcyclic
        /\ errors # {} => Cyclic /\ path = <<>>
        /\ sortPc # "idle" => verdict = "accepted"
    BY DEF SearchIInv
  <1>1. /\ errors = {} /\ path # <<>> /\ path' = Crossed(dep)
        /\ dep \in Task => color[dep] = "black"
        /\ UNCHANGED <<dependsOn, color, errors, verdict, sortVars>>
    BY <1>0 DEF SkipEdge, OnTop, Validating, PathType
  <1>2. path' \in Seq(FrameType) /\ Len(path') = Len(path) /\ Len(path) \in Nat
    BY <1>0, <1>1, FollowEdge, LenProperties DEF PathType
  <1>3. \A i \in 1 .. Len(path) : path'[i].id = path[i].id
    BY <1>0, <1>1, FollowEdge DEF PathType
  <1>4. \A i \in 1 .. Len(path) : path'[i].rest \subseteq path[i].rest
    BY <1>0, <1>1, FollowEdge DEF PathType
  <1>5. \A i \in 1 .. Len(path), d \in Task \cup Unknown :
          d \in path[i].rest => d \in path'[i].rest \/ d = dep
    BY <1>0, <1>1, FollowEdge DEF PathType
  <1>6. PathType'
    BY <1>0, <1>1, <1>2 DEF PathType
  <1>7. PathOK'
    <2>1. \A i \in 1 .. Len(path) :
            /\ color[path'[i].id] = "gray"
            /\ path'[i].rest \subseteq dependsOn[path'[i].id]
      BY <1>0, <1>3, <1>4 DEF PathOK
    <2>2. \A i \in 1 .. Len(path) : i > 1 => path'[i].id \in dependsOn[path'[i - 1].id]
      <3> SUFFICES ASSUME NEW i \in 1 .. Len(path), i > 1
                   PROVE  path'[i].id \in dependsOn[path'[i - 1].id]
        OBVIOUS
      <3>1. i - 1 \in 1 .. Len(path)
        BY <1>2
      <3> QED
        BY <1>0, <1>3, <3>1 DEF PathOK
    <2>3. \A i, j \in 1 .. Len(path) : path'[i].id = path'[j].id => i = j
      BY <1>0, <1>3 DEF PathOK
    <2> QED
      BY <1>1, <1>2, <2>1, <2>2, <2>3 DEF PathOK
  <1>8. GrayOnPath'
    BY <1>0, <1>1, <1>2, <1>3 DEF GrayOnPath
  <1>9. Followed'
    <2> SUFFICES ASSUME NEW i \in 1 .. Len(path),
                        NEW d \in dependsOn[path[i].id] \ path'[i].rest
                 PROVE  \/ d \in Unknown
                        \/ d \in Task /\ color[d] = "black"
                        \/ i < Len(path) /\ d = path'[i + 1].id
      BY <1>1, <1>2, <1>3 DEF Followed
    <2>1. path[i].id \in Task /\ d \in Task \cup Unknown
      BY <1>0, FrameOf DEF PathType
    <2>2. CASE d \in path[i].rest
      BY <1>1, <1>5, <2>1, <2>2
    <2>3. CASE d \notin path[i].rest
      <3>1. \/ d \in Unknown
            \/ d \in Task /\ color[d] = "black"
            \/ i < Len(path) /\ d = path[i + 1].id
        BY <1>0, <1>1, <2>3 DEF Followed
      <3>2. i < Len(path) => i + 1 \in 1 .. Len(path)
        BY <1>2
      <3> QED
        BY <1>3, <3>1, <3>2
    <2> QED
      BY <2>2, <2>3
  <1>10. BlackIsDone' /\ BlackIsAcyclic'
    BY <1>0, <1>1 DEF BlackIsDone, BlackIsAcyclic, IsCycle
  <1>11. RejectsExactlyTheInvalid'
    BY <1>0, <1>1 DEF RejectsExactlyTheInvalid, Cyclic, DanglingRefs
  <1> QED
    BY <1>0, <1>1, <1>6, <1>7, <1>8, <1>9, <1>10, <1>11 DEF sortVars, SearchIInv

LEMMA DescendKeeps ==
  ASSUME SearchIInv, NEW dep \in Task \cup Unknown, Descend(dep)
  PROVE  SearchIInv'
  <1> DEFINE n == Len(path)
  <1>0. /\ PathType /\ PathOK /\ RejectsExactlyTheInvalid
        /\ errors = {} => GrayOnPath /\ Followed /\ BlackIsDone /\ BlackIsAcyclic
        /\ errors # {} => Cyclic /\ path = <<>>
        /\ sortPc # "idle" => verdict = "accepted"
    BY DEF SearchIInv
  <1>1. /\ errors = {} /\ path # <<>> /\ dep \in Task /\ color[dep] = "white"
        /\ dep \in path[n].rest
        /\ path' = Append(Crossed(dep), Frame(dep))
        /\ color' = [color EXCEPT ![dep] = "gray"]
        /\ UNCHANGED <<dependsOn, errors, verdict, sortVars>>
    BY <1>0 DEF Descend, OnTop, Validating, PathType, Last
  <1>2. Frame(dep) \in FrameType /\ Frame(dep).id = dep /\ Frame(dep).rest = dependsOn[dep]
    BY <1>0, <1>1 DEF Frame, FrameType, PathType
  <1>3. n \in Nat \ {0} /\ Crossed(dep) \in Seq(FrameType) /\ Len(Crossed(dep)) = n
    BY <1>0, <1>1, FollowEdge, EmptySeq DEF PathType
  <1>4. /\ path' \in Seq(FrameType) /\ Len(path') = n + 1 /\ path'[n + 1] = Frame(dep)
        /\ \A i \in 1 .. n : path'[i] = Crossed(dep)[i]
    BY <1>1, <1>2, <1>3, PushFrame
  <1>5. path'[n + 1].id = dep /\ path'[n + 1].rest = dependsOn[dep]
    BY <1>2, <1>4
  <1>6. \A i \in 1 .. n : path'[i].id = path[i].id
    BY <1>0, <1>1, <1>4, FollowEdge DEF PathType
  <1>7. \A i \in 1 .. n : path'[i].rest \subseteq path[i].rest
    BY <1>0, <1>1, <1>4, FollowEdge DEF PathType
  <1>8. \A i \in 1 .. n, d \in Task \cup Unknown :
          d \in path[i].rest => d \in path'[i].rest \/ (i = n /\ d = dep)
    BY <1>0, <1>1, <1>4, FollowEdge DEF PathType
  <1>9. \A i \in 1 .. n : path[i].id \in Task /\ path[i].id # dep
    <2>1. \A i \in 1 .. n : path[i].id \in Task
      BY <1>0, FrameOf DEF PathType
    <2>2. \A i \in 1 .. n : color[path[i].id] # color[dep]
      BY <1>0, <1>1 DEF PathOK
    <2> QED
      BY <2>1, <2>2
  <1>10. /\ \A t \in Task \ {dep} : color'[t] = color[t]
         /\ color'[dep] = "gray"
    BY <1>0, <1>1 DEF PathType
  <1>11. PathType'
    BY <1>0, <1>1, <1>4 DEF PathType
  <1>12. \A i \in 1 .. n + 1 : i = n + 1 \/ i \in 1 .. n
    BY <1>3
  <1>13. n \in 1 .. n /\ n + 1 \in 1 .. n + 1 /\ 1 .. n \subseteq 1 .. n + 1
    BY <1>3
  <1>14. PathOK'
    <2>1. \A i \in 1 .. n + 1 :
            /\ color'[path'[i].id] = "gray"
            /\ path'[i].rest \subseteq dependsOn[path'[i].id]
      <3> SUFFICES ASSUME NEW i \in 1 .. n + 1
                   PROVE  /\ color'[path'[i].id] = "gray"
                          /\ path'[i].rest \subseteq dependsOn[path'[i].id]
        OBVIOUS
      <3>1. CASE i = n + 1
        BY <3>1, <1>5, <1>10
      <3>2. CASE i \in 1 .. n
        <4>1. color[path[i].id] = "gray" /\ path[i].rest \subseteq dependsOn[path[i].id]
          BY <3>2, <1>0 DEF PathOK
        <4> QED
          BY <4>1, <3>2, <1>6, <1>7, <1>9, <1>10
      <3> QED
        BY <3>1, <3>2, <1>12
    <2>2. \A i \in 1 .. n + 1 : i > 1 => path'[i].id \in dependsOn[path'[i - 1].id]
      <3> SUFFICES ASSUME NEW i \in 1 .. n + 1, i > 1
                   PROVE  path'[i].id \in dependsOn[path'[i - 1].id]
        OBVIOUS
      <3>1. i - 1 \in 1 .. n
        BY <1>3
      <3>2. path'[i - 1].id = path[i - 1].id
        BY <1>6, <3>1
      <3>3. CASE i = n + 1
        <4>1. path[n].rest \subseteq dependsOn[path[n].id]
          BY <1>0, <1>13 DEF PathOK
        <4>2. i - 1 = n
          BY <3>3, <1>3
        <4> QED
          BY <4>1, <4>2, <3>2, <3>3, <1>1, <1>5
      <3>4. CASE i \in 1 .. n
        <4>1. path[i].id \in dependsOn[path[i - 1].id]
          BY <1>0, <3>4 DEF PathOK
        <4> QED
          BY <4>1, <3>2, <3>4, <1>6
      <3> QED
        BY <3>3, <3>4, <1>12
    <2>3. \A i, j \in 1 .. n + 1 : path'[i].id = path'[j].id => i = j
      <3> SUFFICES ASSUME NEW i \in 1 .. n + 1, NEW j \in 1 .. n + 1,
                          path'[i].id = path'[j].id
                   PROVE  i = j
        OBVIOUS
      <3>1. CASE i \in 1 .. n /\ j \in 1 .. n
        BY <3>1, <1>0, <1>6 DEF PathOK
      <3>2. \A k \in 1 .. n : path'[k].id # path'[n + 1].id
        BY <1>5, <1>6, <1>9
      <3> QED
        BY <3>1, <3>2, <1>12
    <2> QED
      BY <2>1, <2>2, <2>3, <1>1, <1>4 DEF PathOK
  <1>15. GrayOnPath'
    <2> SUFFICES ASSUME NEW t \in Task, color'[t] = "gray"
                 PROVE  \E i \in 1 .. n + 1 : path'[i].id = t
      BY <1>4 DEF GrayOnPath
    <2>1. CASE t = dep
      BY <2>1, <1>5, <1>13
    <2>2. CASE t # dep
      <3>1. PICK i \in 1 .. n : path[i].id = t
        BY <2>2, <1>0, <1>1, <1>10 DEF GrayOnPath
      <3> QED
        BY <3>1, <1>6, <1>13
    <2> QED
      BY <2>1, <2>2
  <1>16. Followed'
    <2> SUFFICES ASSUME NEW i \in 1 .. n + 1,
                        NEW d \in dependsOn[path'[i].id] \ path'[i].rest
                 PROVE  \/ d \in Unknown
                        \/ d \in Task /\ color'[d] = "black"
                        \/ i < n + 1 /\ d = path'[i + 1].id
      BY <1>1, <1>4 DEF Followed
    <2>1. CASE i = n + 1
      BY <2>1, <1>5
    <2>2. CASE i \in 1 .. n
      <3>1. path'[i].id = path[i].id /\ path[i].id \in Task /\ i < n + 1
        BY <2>2, <1>3, <1>6, <1>9
      <3>2. d \in Task \cup Unknown /\ d \in dependsOn[path[i].id]
        BY <3>1, <1>0 DEF PathType
      <3>3. CASE d \in path[i].rest
        <4>1. i = n /\ d = dep
          BY <2>2, <3>2, <3>3, <1>8
        <4> QED
          BY <4>1, <3>1, <1>5
      <3>4. CASE d \notin path[i].rest
        <4>1. \/ d \in Unknown
              \/ d \in Task /\ color[d] = "black"
              \/ i < n /\ d = path[i + 1].id
          BY <2>2, <3>2, <3>4, <1>0, <1>1 DEF Followed
        <4>2. d \in Task /\ color[d] = "black" => color'[d] = "black"
          BY <1>1, <1>10
        <4>3. i < n => i + 1 \in 1 .. n
          BY <2>2, <1>3
        <4> QED
          BY <4>1, <4>2, <4>3, <3>1, <1>6
      <3> QED
        BY <3>3, <3>4
    <2> QED
      BY <2>1, <2>2, <1>12
  <1>17. \A t \in Task : color'[t] = "black" <=> color[t] = "black"
    BY <1>1, <1>10
  <1>18. BlackIsDone' /\ BlackIsAcyclic'
    BY <1>0, <1>1, <1>17 DEF BlackIsDone, BlackIsAcyclic, IsCycle
  <1>19. RejectsExactlyTheInvalid'
    BY <1>0, <1>1 DEF RejectsExactlyTheInvalid, Cyclic, DanglingRefs
  <1> QED
    BY <1>0, <1>1, <1>11, <1>14, <1>15, <1>16, <1>18, <1>19 DEF sortVars, SearchIInv

LEMMA BackEdgeKeeps ==
  ASSUME SearchIInv, NEW dep \in Task \cup Unknown, BackEdge(dep)
  PROVE  SearchIInv'
  <1> DEFINE n == Len(path)
  <1>0. /\ PathType /\ PathOK
        /\ errors = {} => GrayOnPath
        /\ errors # {} => Cyclic /\ path = <<>>
        /\ sortPc # "idle" => verdict = "accepted"
    BY DEF SearchIInv
  <1>1. /\ errors = {} /\ path # <<>> /\ dep \in Task /\ color[dep] = "gray"
        /\ dep \in path[n].rest /\ verdict = "validating"
        /\ errors' = {"cycle"} /\ path' = <<>>
        /\ UNCHANGED <<dependsOn, color, verdict, sortVars>>
    BY <1>0 DEF BackEdge, OnTop, Validating, PathType, Last
  <1>2. n \in Nat \ {0} /\ n \in 1 .. n
    BY <1>0, <1>1, EmptySeq DEF PathType
  <1>3. PICK k \in 1 .. n : path[k].id = dep
    BY <1>0, <1>1 DEF GrayOnPath
  <1> DEFINE S == {path[i].id : i \in k .. n}
  <1>4. S \in SUBSET Task
    <2>1. \A i \in 1 .. n : path[i].id \in Task
      BY <1>0, FrameOf DEF PathType
    <2>2. k .. n \subseteq 1 .. n
      BY <1>2, <1>3
    <2> QED
      BY <2>1, <2>2
  <1>5. dep \in S
    <2>1. k \in k .. n
      BY <1>2, <1>3
    <2> QED
      BY <2>1, <1>3
  <1>6. \A i \in k .. n : dependsOn[path[i].id] \cap S # {}
    <2> SUFFICES ASSUME NEW i \in k .. n
                 PROVE  dependsOn[path[i].id] \cap S # {}
      OBVIOUS
    <2>1. CASE i = n
      <3>1. dep \in dependsOn[path[n].id]
        BY <1>0, <1>1, <1>2 DEF PathOK
      <3> QED
        BY <2>1, <3>1, <1>5
    <2>2. CASE i # n
      <3>1. i + 1 \in k .. n /\ i + 1 \in 1 .. n /\ i + 1 > 1 /\ (i + 1) - 1 = i
        BY <2>2, <1>2, <1>3
      <3>2. path[i + 1].id \in dependsOn[path[(i + 1) - 1].id]
        BY <3>1, <1>0 DEF PathOK
      <3>3. path[i + 1].id \in dependsOn[path[i].id]
        BY <3>1, <3>2
      <3>4. path[i + 1].id \in S
        BY <3>1
      <3> QED
        BY <3>3, <3>4
    <2> QED
      BY <2>1, <2>2
  <1>7. IsCycle(S)
    BY <1>5, <1>6 DEF IsCycle
  <1> HIDE DEF S
  <1>8. Cyclic
    BY <1>4, <1>7, CyclicHasCycle
  <1>9. Cyclic'
    BY <1>1, <1>8 DEF Cyclic
  <1>10. path' \in Seq(FrameType) /\ Len(path') = 0
    BY <1>1
  <1>11. PathType' /\ PathOK'
    BY <1>0, <1>1, <1>10 DEF PathType, PathOK
  <1>12. RejectsExactlyTheInvalid'
    BY <1>1 DEF RejectsExactlyTheInvalid
  <1>13. sortPc' # "idle" => verdict' = "accepted"
    BY <1>0, <1>1 DEF sortVars
  <1> QED
    BY <1>1, <1>9, <1>11, <1>12, <1>13 DEF SearchIInv

LEMMA ReturnKeeps ==
  ASSUME SearchIInv, Return
  PROVE  SearchIInv'
  <1> DEFINE n == Len(path)
             t == path[n].id
  <1>0. /\ PathType /\ PathOK /\ RejectsExactlyTheInvalid
        /\ errors = {} => GrayOnPath /\ Followed /\ BlackIsDone /\ BlackIsAcyclic
        /\ errors # {} => Cyclic /\ path = <<>>
        /\ sortPc # "idle" => verdict = "accepted"
    BY DEF SearchIInv
  <1>1. /\ errors = {} /\ path # <<>> /\ path[n].rest = {}
        /\ color' = [color EXCEPT ![t] = "black"] /\ path' = Front(path)
        /\ UNCHANGED <<dependsOn, errors, verdict, sortVars>>
    BY <1>0 DEF Return, Validating, Blacken, Last
  <1>2. n \in Nat \ {0} /\ n \in 1 .. n /\ n - 1 \in Nat
    BY <1>0, <1>1, EmptySeq DEF PathType
  <1>3. t \in Task /\ color[t] = "gray"
    BY <1>0, <1>2, FrameOf DEF PathType, PathOK
  <1>4. /\ path' \in Seq(FrameType) /\ Len(path') = n - 1
        /\ \A i \in 1 .. n - 1 : path'[i] = path[i]
    BY <1>0, <1>1, PopFrame DEF PathType
  <1>5. /\ \A i \in 1 .. n - 1 : i \in 1 .. n /\ i # n /\ i < n
        /\ \A i \in 1 .. n : i = n \/ i \in 1 .. n - 1
    BY <1>2
  <1>6. \A i \in 1 .. n - 1 : path[i].id # t
    BY <1>0, <1>2, <1>5 DEF PathOK
  <1>7. color'[t] = "black" /\ \A u \in Task \ {t} : color'[u] = color[u]
    BY <1>0, <1>1, <1>3 DEF PathType
  <1>8. \A i \in 1 .. n - 1 : path[i].id \in Task
    BY <1>0, <1>5, FrameOf DEF PathType
  <1>9. \A d \in dependsOn[t] \cap Task : color[d] = "black"
    <2>1. \A d \in dependsOn[t] : d \in Unknown \/ (d \in Task /\ color[d] = "black")
      BY <1>0, <1>1, <1>2 DEF Followed
    <2> QED
      BY <2>1, TaskAssumption
  <1> HIDE DEF t
  <1>10. PathType'
    BY <1>0, <1>1, <1>4 DEF PathType
  <1>11. PathOK'
    <2>1. \A i \in 1 .. n - 1 :
            /\ color'[path'[i].id] = "gray"
            /\ path'[i].rest \subseteq dependsOn[path'[i].id]
      <3> SUFFICES ASSUME NEW i \in 1 .. n - 1
                   PROVE  /\ color'[path'[i].id] = "gray"
                          /\ path'[i].rest \subseteq dependsOn[path'[i].id]
        OBVIOUS
      <3>1. color[path[i].id] = "gray" /\ path[i].rest \subseteq dependsOn[path[i].id]
        BY <1>0, <1>5 DEF PathOK
      <3> QED
        BY <3>1, <1>4, <1>6, <1>7, <1>8
    <2>2. \A i \in 1 .. n - 1 : i > 1 => path'[i].id \in dependsOn[path'[i - 1].id]
      <3> SUFFICES ASSUME NEW i \in 1 .. n - 1, i > 1
                   PROVE  path'[i].id \in dependsOn[path'[i - 1].id]
        OBVIOUS
      <3>1. i - 1 \in 1 .. n - 1
        BY <1>2
      <3>2. path[i].id \in dependsOn[path[i - 1].id]
        BY <1>0, <1>5 DEF PathOK
      <3> QED
        BY <3>1, <3>2, <1>4
    <2>3. \A i, j \in 1 .. n - 1 : path'[i].id = path'[j].id => i = j
      BY <1>0, <1>4, <1>5 DEF PathOK
    <2> QED
      BY <2>1, <2>2, <2>3, <1>1, <1>4 DEF PathOK
  <1>12. GrayOnPath'
    <2> SUFFICES ASSUME NEW u \in Task, color'[u] = "gray"
                 PROVE  \E i \in 1 .. n - 1 : path'[i].id = u
      BY <1>4 DEF GrayOnPath
    <2>1. u # t /\ color[u] = "gray"
      BY <1>7
    <2>2. PICK i \in 1 .. n : path[i].id = u
      BY <1>0, <1>1, <2>1 DEF GrayOnPath
    <2>3. i # n
      BY <2>1, <2>2 DEF t
    <2> QED
      BY <2>2, <2>3, <1>4, <1>5
  <1>13. Followed'
    <2> SUFFICES ASSUME NEW i \in 1 .. n - 1,
                        NEW d \in dependsOn[path[i].id] \ path[i].rest
                 PROVE  \/ d \in Unknown
                        \/ d \in Task /\ color'[d] = "black"
                        \/ i < n - 1 /\ d = path'[i + 1].id
      BY <1>1, <1>4 DEF Followed
    <2>1. \/ d \in Unknown
          \/ d \in Task /\ color[d] = "black"
          \/ d = path[i + 1].id
      BY <1>0, <1>1, <1>5 DEF Followed
    <2>2. d \in Task /\ color[d] = "black" => color'[d] = "black"
      BY <1>7
    <2>3. CASE i + 1 = n
      <3>1. path[i + 1].id = t
        BY <2>3 DEF t
      <3> QED
        BY <3>1, <2>1, <2>2, <1>3, <1>7
    <2>4. CASE i + 1 # n
      <3>1. i + 1 \in 1 .. n - 1 /\ i < n - 1
        BY <2>4, <1>2
      <3> QED
        BY <3>1, <2>1, <2>2, <1>4
    <2> QED
      BY <2>3, <2>4
  <1>14. BlackIsDone'
    BY <1>0, <1>1, <1>7, <1>9 DEF BlackIsDone
  <1>15. BlackIsAcyclic'
    <2> SUFFICES ASSUME NEW S \in SUBSET Task, IsCycle(S), NEW u \in S
                 PROVE  color'[u] # "black"
      BY <1>1 DEF BlackIsAcyclic, IsCycle
    <2>1. \A v \in S : color[v] # "black"
      BY <1>0, <1>1 DEF BlackIsAcyclic
    <2>2. t \notin S
      BY <2>1, <1>9 DEF IsCycle
    <2> QED
      BY <2>1, <2>2, <1>7
  <1>16. RejectsExactlyTheInvalid'
    BY <1>0, <1>1 DEF RejectsExactlyTheInvalid, Cyclic, DanglingRefs
  <1>17. sortPc' # "idle" => verdict' = "accepted"
    BY <1>0, <1>1 DEF sortVars
  <1> QED
    BY <1>1, <1>10, <1>11, <1>12, <1>13, <1>14, <1>15, <1>16, <1>17 DEF SearchIInv

(* When the search is over without a back edge every task is explored, and a  *)
(* cycle would hold an explored task.                                        *)
LEMMA ReplyKeeps ==
  ASSUME SearchIInv, Reply
  PROVE  SearchIInv'
  <1>0. /\ PathType /\ PathOK
        /\ errors = {} => GrayOnPath /\ Followed /\ BlackIsDone /\ BlackIsAcyclic
        /\ errors # {} => Cyclic /\ path = <<>>
        /\ sortPc # "idle" => verdict = "accepted"
    BY DEF SearchIInv
  <1>1. /\ verdict = "validating" /\ path = <<>>
        /\ "cycle" \in errors \/ \A t \in Task : color[t] # "white"
        /\ verdict' = IF errors # {} \/ DanglingRefs THEN "rejected" ELSE "accepted"
        /\ UNCHANGED <<dependsOn, color, path, errors, sortVars>>
    BY DEF Reply, Reject, Validating, SearchDone
  <1>2. errors = {} => ~Cyclic
    <2> SUFFICES ASSUME errors = {}, NEW S \in SUBSET Task, IsCycle(S)
                 PROVE  FALSE
      BY CyclicHasCycle
    <2>1. PICK t \in S : TRUE
      BY DEF IsCycle
    <2>2. color[t] # "black" /\ color[t] # "white"
      BY <1>0, <1>1, <2>1 DEF BlackIsAcyclic
    <2>3. color[t] = "gray"
      BY <1>0, <2>1, <2>2 DEF PathType
    <2>4. Len(path) = 0
      BY <1>1
    <2> QED
      BY <1>0, <2>1, <2>3, <2>4 DEF GrayOnPath
  <1>3. RejectsExactlyTheInvalid'
    BY <1>0, <1>1, <1>2 DEF RejectsExactlyTheInvalid, Cyclic, DanglingRefs
  <1>4. sortPc' # "idle" => verdict' = "accepted"
    BY <1>0, <1>1 DEF sortVars
  <1>5. PathType' /\ PathOK'
    BY <1>0, <1>1 DEF PathType, PathOK
  <1>6. errors' = {} => (GrayOnPath /\ Followed /\ BlackIsDone /\ BlackIsAcyclic)'
    BY <1>0, <1>1
       DEF GrayOnPath, Followed, BlackIsDone, BlackIsAcyclic, IsCycle
  <1>7. errors' # {} => Cyclic' /\ path' = <<>>
    BY <1>0, <1>1 DEF Cyclic
  <1> QED
    BY <1>3, <1>4, <1>5, <1>6, <1>7 DEF SearchIInv

(* Sorting begins after the verdict and leaves the search alone. *)
LEMMA SortingKeeps ==
  ASSUME SearchIInv, UNCHANGED <<dependsOn, dfsVars>>,
         verdict = "accepted" \/ sortPc' = sortPc
  PROVE  SearchIInv'
  BY DEF dfsVars, SearchIInv, PathType, PathOK, GrayOnPath, Followed, BlackIsDone,
         BlackIsAcyclic, IsCycle, Cyclic, RejectsExactlyTheInvalid, DanglingRefs

LEMMA SearchIsInductive == SearchIInv /\ [AdmissionNext]_admissionVars => SearchIInv'
  <1> SUFFICES ASSUME SearchIInv, [AdmissionNext]_admissionVars PROVE SearchIInv'
    OBVIOUS
  <1>1. CASE Execute
    BY <1>1, SortingKeeps DEF Execute, BeginSort
  <1>2. CASE SortStep /\ UNCHANGED dfsVars
    <2>1. sortPc = "peeling" /\ UNCHANGED dependsOn
      BY <1>2 DEF SortStep, Peel, PassOver, EndPass
    <2>2. verdict = "accepted"
      BY <2>1 DEF SearchIInv
    <2> QED
      BY <1>2, <2>1, <2>2, SortingKeeps
  <1>3. CASE UNCHANGED admissionVars
    BY <1>3, SortingKeeps DEF admissionVars, sortVars
  <1> QED
    BY <1>1, <1>2, <1>3, StartDfsKeeps, SkipEdgeKeeps, DescendKeeps, BackEdgeKeeps,
       ReturnKeeps, ReplyKeeps DEF AdmissionNext

LEMMA SearchInit == AdmissionInit => SearchIInv
  <1> SUFFICES ASSUME AdmissionInit PROVE SearchIInv
    OBVIOUS
  <1>1. /\ path = <<>> /\ path \in Seq(FrameType) /\ Len(path) = 0 /\ errors = {}
        /\ color = [t \in Task |-> "white"]
        /\ verdict = "validating" /\ sortPc = "idle"
        /\ dependsOn \in [Task -> SUBSET (Task \cup Unknown)]
    BY DEF AdmissionInit, Init, SortInit
  <1>2. PathType /\ PathOK
    BY <1>1 DEF PathType, PathOK
  <1>3. \A t \in Task : color[t] = "white"
    BY <1>1
  <1>4. GrayOnPath /\ Followed /\ BlackIsDone /\ BlackIsAcyclic
    BY <1>1, <1>3 DEF GrayOnPath, Followed, BlackIsDone, BlackIsAcyclic
  <1> QED
    BY <1>1, <1>2, <1>4 DEF SearchIInv, RejectsExactlyTheInvalid

(* A submission is a run of the search and then of topologicalSort, so what is *)
(* proved of topologicalSort's steps holds here too.                           *)
LEMMA AdmissionSorts == [AdmissionNext]_admissionVars => [Next]_<<dependsOn, sortVars>>
  BY DEF AdmissionNext, admissionVars, Next, Execute, StartDfs, SkipEdge, Descend,
         BackEdge, Return, Reply, OnTop, Validating

LEMMA AdmissionInductive == AdmissionSpec => [](SearchIInv /\ IInv)
  <1>1. AdmissionInit => Init
    BY DEF AdmissionInit
  <1> QED
    BY <1>1, SearchInit, SearchIsInductive, InitIInv, NextIInv, AdmissionSorts, PTL
       DEF AdmissionSpec

(* The validator accepts no DAG with a cycle or a dangling reference and      *)
(* rejects no other, for every graph and every order of the search.          *)
THEOREM ValidatorIsExact == AdmissionSpec => []RejectsExactlyTheInvalid
  <1>1. SearchIInv /\ IInv => RejectsExactlyTheInvalid
    BY DEF SearchIInv
  <1> QED
    BY <1>1, AdmissionInductive, PTL

(* execute() of an accepted DAG never meets topologicalSort's defensive throw: *)
(* the tasks left without a wave would be a cycle.                            *)
THEOREM AcceptedIsSortable == AdmissionSpec => []AcceptedNeverThrows
  <1>1. SearchIInv /\ IInv => AcceptedNeverThrows
    <2> SUFFICES ASSUME SearchIInv, IInv, sortPc = "threw" PROVE FALSE
      BY DEF AcceptedNeverThrows
    <2>1. ~Cyclic /\ ~DanglingRefs
      BY DEF SearchIInv, RejectsExactlyTheInvalid
    <2>2. Remaining # {} /\ \A t \in Remaining : ~HasWave(t)
      BY DEF IInv, Stuck
    <2>3. Remaining \in SUBSET Task
      BY DEF Remaining
    <2>4. \A t \in Task : dependsOn[t] \subseteq Task
      BY <2>1 DEF SearchIInv, PathType, DanglingRefs
    <2>5. \A t \in Remaining : dependsOn[t] \cap Remaining # {}
      BY <2>2, <2>3, <2>4 DEF HasWave, Remaining
    <2> QED
      BY <2>1, <2>2, <2>3, <2>5 DEF Cyclic
  <1> QED
    BY <1>1, AdmissionInductive, PTL
=============================================================================
