------------------------- MODULE SessionIndex_proofs -------------------------
(***************************************************************************)
(* Theorems about the tasks of a workspace, for any number of them and any *)
(* number and kind of faults.                                              *)
(***************************************************************************)
EXTENDS SessionIndex, TLAPS

-----------------------------------------------------------------------------
(* Typing. *)

\* The types of the variables but the Boolean one and the counter.
DataOK ==
    /\ index \in Index
    /\ container \in {"running", "stopped"}
    /\ thread \in [Session -> {"add", "adding", "close", "closing", "new", "queued",
                               "waiting", "agent", "over", "done", "refused", "dead"}]
    /\ copy \in [Session -> Index]
    /\ success \in [Session -> {"unknown", "yes", "no"}]
    /\ mirror \in Index
    /\ fetched \in {"never", "old", "fresh"}
    /\ missing \subseteq Session
    /\ shown \in [Session -> (Status \ {"absent"}) \cup {"nothing", "not found"}]

OverlapOK == overlapped \in BOOLEAN
FaultsOK == faults \in Nat

LEMMA TypeIs == TypeOK <=> DataOK /\ OverlapOK /\ FaultsOK
<1>1. Updating \cup {"new", "queued", "waiting", "agent", "over", "done", "refused", "dead"}
        = {"add", "adding", "close", "closing", "new", "queued",
           "waiting", "agent", "over", "done", "refused", "dead"}
  BY DEF Updating
<1> QED
  BY <1>1, Zenon DEF TypeOK, DataOK, OverlapOK, FaultsOK

LEMMA EmptyType == Empty \in Index
BY DEF Empty, Index, Status

LEMMA TypeInit == Init => TypeOK
<1> SUFFICES ASSUME Init PROVE DataOK /\ OverlapOK /\ FaultsOK
  BY TypeIs
<1>1. DataOK
  BY EmptyType DEF Init, DataOK
<1>2. OverlapOK
  BY Zenon DEF Init, OverlapOK
<1>3. FaultsOK
  BY DEF Init, FaultsOK
<1> QED
  BY <1>1, <1>2, <1>3

\* One update of the index, as read or taken for empty.
LEMMA UpdateType ==
    ASSUME NEW s \in Session, NEW read \in Index
    PROVE  Started(s, read) \in Index /\ Finished(s, read) \in Index
BY DEF Started, Finished, EndStatus, Index, Status

LEMMA OverlapStep ==
    ASSUME OverlapOK, [Next]_vars
    PROVE  OverlapOK'
<1>1. \/ UNCHANGED overlapped
      \/ \E s \in Session : overlapped' =
            (overlapped \/ \E t \in Session \ {s} : thread[t] \in Updating)
  BY Zenon
     DEF Next, Task, vars, tasks, MarkStarted, MarkFinished, ReadIndex, OpenIndex,
         WriteIndex, WriteFails, CheckContainer, RunAgent, AgentEnds, SessionDetail,
         MissingExpires, Dashboard, MirrorAges, ContainerStops, ServerRestarts
<1> QED
  BY <1>1, Zenon DEF OverlapOK

LEMMA FaultsStep ==
    ASSUME FaultsOK, [Next]_vars
    PROVE  FaultsOK'
<1>1. faults' = faults \/ faults' = faults + 1
  BY Zenon
     DEF Next, Task, vars, tasks, Fault, MarkStarted, MarkFinished, ReadIndex, OpenIndex,
         WriteIndex, WriteFails, CheckContainer, RunAgent, AgentEnds, SessionDetail,
         MissingExpires, Dashboard, EnsureMirror, MirrorAges, ContainerStops,
         ServerRestarts
<1> QED
  BY <1>1 DEF FaultsOK

LEMMA TypeStep ==
    ASSUME TypeOK, [Next]_vars
    PROVE  TypeOK'
<1> SUFFICES DataOK'
  <2>1. TypeOK' <=> DataOK' /\ OverlapOK' /\ FaultsOK'
    BY TypeIs, PTL
  <2>2. OverlapOK' /\ FaultsOK'
    BY TypeIs, OverlapStep, FaultsStep
  <2> QED
    BY <2>1, <2>2
<1>0. DataOK
  BY TypeIs
<1> USE <1>0, EmptyType DEF DataOK, tasks, views, Updating
<1>1. ASSUME NEW s \in Session, MarkStarted(s) \/ MarkFinished(s) PROVE DataOK'
  <2>1. /\ Started(s, index) \in Index /\ Started(s, Empty) \in Index
        /\ Finished(s, index) \in Index /\ Finished(s, Empty) \in Index
    BY UpdateType
  <2>2. /\ UNCHANGED <<index, success, mirror, fetched, missing, shown>>
        /\ container' \in {container, "running"}
        /\ \E p \in {"add", "close"} : thread' = [thread EXCEPT ![s] = p]
        /\ \E read \in {Started(s, index), Started(s, Empty),
                         Finished(s, index), Finished(s, Empty)} :
               copy' = [copy EXCEPT ![s] = read]
    BY <1>1 DEF MarkStarted, MarkFinished, ReadIndex
  <2>3. copy' \in [Session -> Index]
    <3>1. PICK read : /\ read \in {Started(s, index), Started(s, Empty),
                                    Finished(s, index), Finished(s, Empty)}
                     /\ copy' = [copy EXCEPT ![s] = read]
      BY <2>2
    <3>2. read \in Index
      BY <2>1, <3>1
    <3> QED
      BY <3>1, <3>2
  <2>4. thread' \in [Session -> {"add", "adding", "close", "closing", "new", "queued",
                               "waiting", "agent", "over", "done", "refused", "dead"}]
    BY <2>2
  <2>5. container' \in {"running", "stopped"}
    BY <2>2
  <2> QED
    BY <2>2, <2>3, <2>4, <2>5
<1>2. ASSUME NEW s \in Session, OpenIndex(s) \/ WriteIndex(s) \/ WriteFails(s)
      PROVE  DataOK'
  <2>1. copy[s] \in Index
    OBVIOUS
  <2> QED
    BY <1>2, <2>1 DEF OpenIndex, WriteIndex, WriteFails
<1>3. ASSUME NEW s \in Session, CheckContainer(s) \/ RunAgent(s) \/ AgentEnds(s)
      PROVE  DataOK'
  BY <1>3 DEF CheckContainer, RunAgent, AgentEnds
<1>4. ASSUME NEW s \in Session, SessionDetail(s) PROVE DataOK'
  <2>1. mirror' \in Index /\ fetched' \in {"never", "old", "fresh"}
    BY <1>4 DEF SessionDetail, EnsureMirror
  <2>2. mirror'[s] \in Status
    BY <2>1 DEF Index
  <2>3. shown' \in [Session -> (Status \ {"absent"}) \cup {"nothing", "not found"}]
    BY <1>4, <2>2 DEF SessionDetail
  <2>4. missing' \subseteq Session
    BY <1>4 DEF SessionDetail
  <2> QED
    BY <1>4, <2>1, <2>3, <2>4 DEF SessionDetail
<1>5. CASE Dashboard
  BY <1>5 DEF Dashboard, EnsureMirror
<1>6. CASE MirrorAges \/ ContainerStops \/ \E s \in Session : MissingExpires(s)
  BY <1>6 DEF MirrorAges, ContainerStops, MissingExpires
<1>7. CASE ServerRestarts
  <2>1. index' \in Index
    BY <1>7 DEF ServerRestarts
  <2>2. thread' \in [Session -> Updating \cup
            {"new", "queued", "waiting", "agent", "over", "done", "refused", "dead"}]
    BY <1>7 DEF ServerRestarts
  <2> QED
    BY <1>7, <2>1, <2>2 DEF ServerRestarts
<1>8. CASE UNCHANGED vars
  BY <1>8 DEF vars
<1> QED
  BY <1>1, <1>2, <1>3, <1>4, <1>5, <1>6, <1>7, <1>8 DEF Next, Task

\* Every variable of the session index keeps its type, whatever fails.
THEOREM TypeCorrect == Spec => []TypeOK
BY TypeInit, TypeStep, PTL DEF Spec

-----------------------------------------------------------------------------
(* No end is told that did not happen.                                       *)
(*                                                                           *)
(* A status goes from an index that is read to a copy, from the copy to the  *)
(* file and from there to the mirror and the page, at any time and in any    *)
(* order.  All of them are true at once because a session's end is decided   *)
(* once, and no end is written before it is.                                 *)

\* What is said of an end is so.
TrueOf(s, status) ==
    /\ status = "completed" => success[s] = "yes"
    /\ status = "failed" => success[s] = "no"

\* The copies that threads hold are true as well.
CopiesTold == \A t, s \in Session : TrueOf(s, copy[t][s])

\* The end of an agent is known when its thread is over and not before.
EndKnown ==
    \A s \in Session :
        /\ thread[s] = "over" => success[s] # "unknown"
        /\ thread[s] \in {"new", "add", "adding", "queued", "waiting", "agent"} =>
               success[s] = "unknown"

EndInv == TypeOK /\ EndsTold /\ CopiesTold /\ EndKnown

LEMMA EndsToldIs ==
    EndsTold <=> \A s \in Session : /\ TrueOf(s, index[s]) /\ TrueOf(s, mirror[s])
                                    /\ TrueOf(s, shown[s])
BY DEF EndsTold, TrueOf

LEMMA EndsToldNextIs ==
    EndsTold' <=> \A s \in Session : /\ TrueOf(s, index[s])' /\ TrueOf(s, mirror[s])'
                                     /\ TrueOf(s, shown[s])'
BY DEF EndsTold, TrueOf

LEMMA EndInit == Init => EndInv
BY TypeInit DEF Init, EndInv, EndsTold, CopiesTold, EndKnown, TrueOf, Empty

LEMMA EndStep ==
    ASSUME EndInv, [Next]_vars
    PROVE  EndInv'
<1>0. TypeOK /\ TypeOK' /\ DataOK
  BY TypeStep, TypeIs DEF EndInv
<1> USE DEF tasks, views
<1>1. ASSUME NEW t \in Session, MarkStarted(t) \/ MarkFinished(t) PROVE EndInv'
  <2>1. UNCHANGED <<index, success, mirror, shown>>
    BY <1>1 DEF MarkStarted, MarkFinished, ReadIndex
  <2>2. EndKnown'
    BY <1>0, <1>1, <2>1 DEF EndInv, EndKnown, MarkStarted, MarkFinished, DataOK
  <2>3. \E read \in {index, Empty} :
            \/ thread[t] = "new" /\ copy' = [copy EXCEPT ![t] = Started(t, read)]
            \/ thread[t] = "over" /\ copy' = [copy EXCEPT ![t] = Finished(t, read)]
    BY <1>1 DEF MarkStarted, MarkFinished, ReadIndex
  <2>4. ASSUME NEW s \in Session, NEW read \in {index, Empty}
        PROVE  read \in Index /\ TrueOf(s, read[s])
    BY <1>0, EmptyType, EndsToldIs DEF EndInv, DataOK, TrueOf, Empty
  <2>5. ASSUME NEW s \in Session, NEW read \in {index, Empty}
        PROVE  TrueOf(s, Started(t, read)[s])
    BY <2>4 DEF Started, Index, TrueOf
  <2>6. ASSUME NEW s \in Session, NEW read \in {index, Empty}, thread[t] = "over"
        PROVE  TrueOf(s, Finished(t, read)[s])
    <3>1. success[t] \in {"yes", "no"}
      BY <1>0, <2>6 DEF EndInv, EndKnown, DataOK
    <3> QED
      BY <2>4, <3>1 DEF Finished, EndStatus, Index, TrueOf
  <2>7. \A u, s \in Session : TrueOf(s, copy'[u][s])
    BY <1>0, <2>3, <2>5, <2>6 DEF EndInv, CopiesTold, DataOK
  <2> QED
    BY <1>0, <2>1, <2>2, <2>7 DEF EndInv, EndsTold, CopiesTold, TrueOf
<1>2. ASSUME NEW t \in Session, OpenIndex(t) \/ WriteIndex(t) \/ WriteFails(t)
      PROVE  EndInv'
  <2>1. /\ UNCHANGED <<success, mirror, shown>>
        /\ index' \in {index, Empty, copy[t]}
        /\ copy' \in {copy, [copy EXCEPT ![t] = Empty]}
    BY <1>2 DEF OpenIndex, WriteIndex, WriteFails
  <2>2. \A s \in Session : TrueOf(s, index'[s])
    BY <2>1, EndsToldIs DEF EndInv, CopiesTold, TrueOf, Empty
  <2>3. ASSUME NEW u \in Session, NEW s \in Session
        PROVE  TrueOf(s, copy'[u][s])
    <3>1. copy'[u] \in {copy[u], Empty}
      BY <1>0, <2>1 DEF DataOK
    <3>2. TrueOf(s, copy[u][s])
      BY DEF EndInv, CopiesTold
    <3>3. TrueOf(s, Empty[s])
      BY DEF TrueOf, Empty
    <3> QED
      BY <3>1, <3>2, <3>3
  <2>4. EndKnown'
    BY <1>0, <1>2, <2>1
       DEF EndInv, EndKnown, OpenIndex, WriteIndex, WriteFails, DataOK, Updating
  <2> QED
    BY <1>0, <2>1, <2>2, <2>3, <2>4 DEF EndInv, EndsTold, CopiesTold, TrueOf
<1>3. ASSUME NEW t \in Session, CheckContainer(t) \/ RunAgent(t) \/ AgentEnds(t)
      PROVE  EndInv'
  <2>1. /\ UNCHANGED <<index, copy, mirror, shown>>
        /\ \A s \in Session : s # t => success'[s] = success[s] /\ thread'[s] = thread[s]
        /\ success[t] = "unknown"
        /\ \/ success'[t] = "unknown" /\ thread'[t] # "over"
           \/ success'[t] # "unknown" /\ thread'[t] = "over"
    BY <1>0, <1>3
       DEF EndInv, EndKnown, CheckContainer, RunAgent, AgentEnds, DataOK
  <2>2. EndKnown'
    BY <1>0, <2>1 DEF EndInv, EndKnown, DataOK
  <2> QED
    BY <1>0, <2>1, <2>2 DEF EndInv, EndsTold, CopiesTold, TrueOf
<1>4. ASSUME Dashboard \/ \E s \in Session : SessionDetail(s) PROVE EndInv'
  <2>1. UNCHANGED <<index, copy, success, thread>> /\ mirror' \in {mirror, index, Empty}
    BY <1>4 DEF Dashboard, SessionDetail, EnsureMirror
  <2>2. ASSUME NEW s \in Session PROVE shown'[s] \in {shown[s], mirror'[s], "not found"}
    <3>1. CASE Dashboard
      BY <3>1 DEF Dashboard
    <3>2. ASSUME NEW t \in Session, SessionDetail(t)
          PROVE  shown'[s] \in {shown[s], mirror'[s], "not found"}
      <4>1. shown' \in {[shown EXCEPT ![t] = "not found"], [shown EXCEPT ![t] = mirror'[t]]}
        BY <3>2 DEF SessionDetail
      <4> QED
        BY <1>0, <4>1 DEF DataOK
    <3> QED
      BY <1>4, <3>1, <3>2
  <2>3. \A s \in Session : TrueOf(s, mirror'[s]) /\ TrueOf(s, shown'[s])
    BY <2>1, <2>2, EndsToldIs DEF EndInv, TrueOf, Empty
  <2> QED
    BY <1>0, <2>1, <2>3 DEF EndInv, EndsTold, CopiesTold, EndKnown, TrueOf
<1>5. CASE MirrorAges \/ ContainerStops \/ \E s \in Session : MissingExpires(s)
  BY <1>0, <1>5
     DEF MirrorAges, ContainerStops, MissingExpires, EndInv, EndsTold, CopiesTold,
         EndKnown, TrueOf
<1>6. CASE ServerRestarts
  <2>1. /\ UNCHANGED <<success, mirror, shown>>
        /\ copy' = [s \in Session |-> Empty]
        /\ index' = index \/ \E t \in Session : index' = copy[t]
        /\ \A s \in Session : thread'[s] \in {thread[s], "dead"}
    BY <1>6 DEF ServerRestarts
  <2>2. \A s \in Session : TrueOf(s, index'[s])
    BY <2>1, EndsToldIs DEF EndInv, CopiesTold
  <2>3. \A u, s \in Session : TrueOf(s, copy'[u][s])
    BY <2>1 DEF TrueOf, Empty
  <2>4. EndKnown'
    BY <2>1 DEF EndInv, EndKnown
  <2> QED
    BY <1>0, <2>1, <2>2, <2>3, <2>4 DEF EndInv, EndsTold, CopiesTold, TrueOf
<1>7. CASE UNCHANGED vars
  BY <1>0, <1>7 DEF vars, EndInv, EndsTold, CopiesTold, EndKnown, TrueOf
<1> QED
  BY <1>1, <1>2, <1>3, <1>4, <1>5, <1>6, <1>7 DEF Next, Task

\* Whatever fails, overlaps or dies: a session listed or shown as completed is one
\* whose agent succeeded, and one listed or shown as failed did not.
THEOREM EndsAreTrue == Spec => []EndsTold
<1>1. EndInv => EndsTold
  BY DEF EndInv
<1> QED
  BY <1>1, EndInit, EndStep, PTL DEF Spec

-----------------------------------------------------------------------------
(* The index while updates do not overlap.                                   *)
(*                                                                           *)
(* IndexTold speaks of the moments between updates.  The invariant follows   *)
(* an update from its read to its write: it is the only one, and its copy is *)
(* the index as it should be with the update made.                           *)

\* What the index should say of a session.
Row(s) ==
    CASE thread[s] \in {"new", "add"} -> "absent"
      [] thread[s] = "done" -> End(s)
      [] OTHER -> "running"

\* What an update makes of the row of its own session.
Update(s) == IF thread[s] \in {"add", "adding"} THEN "running" ELSE End(s)

OneUpdate ==
    \A s, t \in Session : thread[s] \in Updating /\ thread[t] \in Updating => s = t

NoneLost == \A s \in Session : thread[s] \notin {"refused", "dead"}

IndexRight == Closed => \A s \in Session : index[s] = Row(s)

CopyRight ==
    \A s \in Session : thread[s] \in Updating =>
        \A u \in Session : copy[s][u] = IF u = s THEN Update(s) ELSE Row(u)

IndexInv == OneUpdate /\ NoneLost /\ IndexRight /\ CopyRight

CalmInv == TypeOK /\ (Calm => IndexInv)

\* What fails or overlaps does so for good.
LEMMA CalmBefore ==
    ASSUME TypeOK, [Next]_vars, Calm'
    PROVE  Calm /\ faults' = faults
<1>1. ~overlapped
  <2>1. \/ UNCHANGED overlapped
        \/ \E s \in Session : overlapped' =
              (overlapped \/ \E t \in Session \ {s} : thread[t] \in Updating)
    BY Zenon
       DEF Next, Task, vars, tasks, MarkStarted, MarkFinished, ReadIndex, OpenIndex,
           WriteIndex, WriteFails, CheckContainer, RunAgent, AgentEnds, SessionDetail,
           MissingExpires, Dashboard, MirrorAges, ContainerStops, ServerRestarts
  <2> QED
    BY <2>1, Zenon DEF Calm
<1>2. faults = 0 /\ faults' = faults
  <2>1. faults \in Nat
    BY TypeIs DEF FaultsOK
  <2>2. faults' = faults \/ faults' = faults + 1
    BY Zenon
       DEF Next, Task, vars, tasks, Fault, MarkStarted, MarkFinished, ReadIndex, OpenIndex,
           WriteIndex, WriteFails, CheckContainer, RunAgent, AgentEnds, SessionDetail,
           MissingExpires, Dashboard, EnsureMirror, MirrorAges, ContainerStops,
           ServerRestarts
  <2>3. faults' = 0
    BY Zenon DEF Calm
  <2> QED
    BY <2>1, <2>2, <2>3
<1> QED
  BY <1>1, <1>2, Zenon DEF Calm

\* An update that begins while none is under way is the only one.
LEMMA UpdateAlone ==
    ASSUME NEW s \in Session, MarkStarted(s) \/ MarkFinished(s), Calm'
    PROVE  \A t \in Session \ {s} : thread[t] \notin Updating
<1>1. overlapped' = (overlapped \/ \E t \in Session \ {s} : thread[t] \in Updating)
  BY Zenon DEF MarkStarted, MarkFinished, ReadIndex
<1> QED
  BY <1>1, Zenon DEF Calm

LEMMA NoFault ==
    ASSUME TypeOK, faults' = faults, NEW kind
    PROVE  ~Fault(kind)
<1>1. faults \in Nat
  BY TypeIs DEF FaultsOK
<1> QED
  BY <1>1 DEF Fault

LEMMA CalmInit == Init => CalmInv
<1> SUFFICES ASSUME Init PROVE IndexInv
  BY TypeInit DEF CalmInv
<1> QED
  BY DEF Init, IndexInv, OneUpdate, NoneLost, IndexRight, CopyRight, Row, Updating, Empty

LEMMA CalmStep ==
    ASSUME CalmInv, [Next]_vars
    PROVE  CalmInv'
<1>0. TypeOK /\ TypeOK' /\ DataOK
  BY TypeStep, TypeIs DEF CalmInv
<1> SUFFICES ASSUME Calm' PROVE IndexInv'
  BY <1>0, Zenon DEF CalmInv
<1>a. Calm /\ faults' = faults
  BY <1>0, CalmBefore
<1>b. IndexInv
  BY <1>a, Zenon DEF CalmInv
<1>c. \A kind : ~Fault(kind)
  BY <1>0, <1>a, NoFault
<1> USE DEF tasks, views, Updating
<1>1. ASSUME NEW t \in Session, MarkStarted(t) \/ MarkFinished(t) PROVE IndexInv'
  <2>1. \A u \in Session \ {t} : thread[u] \notin Updating
    BY <1>1, UpdateAlone
  <2>2. /\ UNCHANGED <<index, success>>
        /\ \/ /\ thread[t] = "new"
              /\ thread' = [thread EXCEPT ![t] = "add"]
              /\ copy' = [copy EXCEPT ![t] = Started(t, index)]
           \/ /\ thread[t] = "over"
              /\ thread' = [thread EXCEPT ![t] = "close"]
              /\ copy' = [copy EXCEPT ![t] = Finished(t, index)]
    BY <1>1, <1>c DEF MarkStarted, MarkFinished, ReadIndex
  <2>3. Closed
    BY <2>1, <2>2 DEF Closed
  <2>4. \A u \in Session : index[u] = Row(u)
    BY <1>b, <2>3 DEF IndexInv, IndexRight
  <2>5. /\ thread'[t] = IF thread[t] = "new" THEN "add" ELSE "close"
        /\ \A u \in Session \ {t} : thread'[u] = thread[u]
    BY <1>0, <2>2 DEF DataOK
  <2>6. \A u \in Session : Row(u)' = Row(u)
    BY <2>2, <2>5 DEF Row, End
  <2>7. OneUpdate'
    BY <2>1, <2>5 DEF OneUpdate
  <2>8. NoneLost'
    BY <1>b, <2>5 DEF IndexInv, NoneLost
  <2>9. IndexRight'
    BY <2>2, <2>4, <2>6 DEF IndexRight
  <2>10. CopyRight'
    <3>1. \A u \in Session : copy'[t][u] = IF u = t THEN Update(t)' ELSE Row(u)
      <4>1. index \in [Session -> Status] /\ copy \in [Session -> Index]
        BY <1>0 DEF DataOK, Index
      <4>2. CASE thread[t] = "new"
        <5>1. copy'[t] = [index EXCEPT ![t] = "running"] /\ Update(t)' = "running"
          BY <2>2, <2>5, <4>1, <4>2 DEF Started, Update
        <5> QED
          BY <2>4, <4>1, <5>1
      <4>3. CASE thread[t] # "new"
        <5>1. copy'[t] = [index EXCEPT ![t] = End(t)]
          BY <2>2, <4>1, <4>3 DEF Finished, EndStatus, End
        <5>2. Update(t)' = End(t)
          BY <2>2, <2>5, <4>3 DEF Update, End
        <5> QED
          BY <2>4, <4>1, <5>1, <5>2
      <4> QED
        BY <4>2, <4>3
    <3> QED
      BY <2>1, <2>5, <2>6, <3>1 DEF CopyRight
  <2> QED
    BY <2>7, <2>8, <2>9, <2>10 DEF IndexInv
<1>2. ASSUME NEW t \in Session, OpenIndex(t) PROVE IndexInv'
  <2>1. /\ UNCHANGED <<copy, success>>
        /\ \/ thread[t] = "add" /\ thread' = [thread EXCEPT ![t] = "adding"]
           \/ thread[t] = "close" /\ thread' = [thread EXCEPT ![t] = "closing"]
    BY <1>2 DEF OpenIndex
  <2>2. /\ thread'[t] = IF thread[t] = "add" THEN "adding" ELSE "closing"
        /\ \A u \in Session \ {t} : thread'[u] = thread[u]
    BY <1>0, <2>1 DEF DataOK
  <2>3. OneUpdate' /\ NoneLost'
    BY <1>b, <2>1, <2>2 DEF IndexInv, OneUpdate, NoneLost
  <2>4. IndexRight'
    BY <2>2 DEF IndexRight, Closed
  <2>5. CopyRight'
    BY <1>b, <2>1, <2>2 DEF IndexInv, OneUpdate, CopyRight, Update, Row, End
  <2> QED
    BY <2>3, <2>4, <2>5 DEF IndexInv
<1>3. ASSUME NEW t \in Session, WriteIndex(t) PROVE IndexInv'
  <2>1. /\ UNCHANGED success
        /\ index' = copy[t]
        /\ \/ thread[t] = "adding" /\ thread' = [thread EXCEPT ![t] = "queued"]
           \/ thread[t] = "closing" /\ thread' = [thread EXCEPT ![t] = "done"]
    BY <1>3 DEF WriteIndex
  <2>2. /\ thread'[t] = IF thread[t] = "adding" THEN "queued" ELSE "done"
        /\ \A u \in Session \ {t} : thread'[u] = thread[u]
    BY <1>0, <2>1 DEF DataOK
  <2>3. \A u \in Session : thread'[u] \notin Updating
    BY <1>b, <2>1, <2>2 DEF IndexInv, OneUpdate
  <2>4. OneUpdate' /\ NoneLost' /\ CopyRight'
    BY <1>b, <2>2, <2>3 DEF IndexInv, OneUpdate, NoneLost, CopyRight
  <2>5. \A u \in Session : index'[u] = Row(u)'
    BY <1>b, <2>1, <2>2 DEF IndexInv, CopyRight, Update, Row, End
  <2> QED
    BY <2>4, <2>5 DEF IndexInv, IndexRight
<1>4. ASSUME NEW t \in Session, CheckContainer(t) \/ RunAgent(t) \/ AgentEnds(t)
      PROVE  IndexInv'
  <2>1. /\ UNCHANGED <<index, copy>>
        /\ thread[t] \in {"queued", "waiting", "agent"}
        /\ \E p \in {"waiting", "agent", "over"} : thread' = [thread EXCEPT ![t] = p]
        /\ \A u \in Session \ {t} : success'[u] = success[u]
    BY <1>0, <1>4, <1>c DEF CheckContainer, RunAgent, AgentEnds, DataOK
  <2>2. /\ thread'[t] \in {"waiting", "agent", "over"}
        /\ \A u \in Session \ {t} : thread'[u] = thread[u]
    BY <1>0, <2>1 DEF DataOK
  <2>3. \A u \in Session : Row(u)' = Row(u)
    BY <2>1, <2>2 DEF Row, End
  <2>4. \A u \in Session : thread[u] \in Updating => Update(u)' = Update(u)
    BY <2>1, <2>2 DEF Update, End
  <2>5. OneUpdate' /\ NoneLost'
    BY <1>b, <2>1, <2>2 DEF IndexInv, OneUpdate, NoneLost
  <2>6. IndexRight'
    BY <1>b, <2>1, <2>2, <2>3 DEF IndexInv, IndexRight, Closed
  <2>7. CopyRight'
    BY <1>b, <2>1, <2>2, <2>3, <2>4 DEF IndexInv, CopyRight
  <2> QED
    BY <2>5, <2>6, <2>7 DEF IndexInv
<1>5. ASSUME \E t \in Session : WriteFails(t) PROVE IndexInv'
  BY <1>5, <1>c DEF WriteFails
<1>6. CASE ContainerStops \/ ServerRestarts
  BY <1>6, <1>c DEF ContainerStops, ServerRestarts
<1>7. ASSUME UNCHANGED <<index, thread, copy, success>> PROVE IndexInv'
  BY <1>b, <1>7
     DEF IndexInv, OneUpdate, NoneLost, IndexRight, CopyRight, Closed, Row, Update, End
<1>8. CASE \/ Dashboard \/ MirrorAges \/ UNCHANGED vars
           \/ \E t \in Session : SessionDetail(t) \/ MissingExpires(t)
  BY <1>7, <1>8 DEF Dashboard, MirrorAges, SessionDetail, MissingExpires, vars
<1> QED
  BY <1>1, <1>2, <1>3, <1>4, <1>5, <1>6, <1>8 DEF Next, Task

\* While updates of the index do not overlap and nothing fails, the index lists
\* every session that was accepted, as running and then with its end.
THEOREM IndexIsTold == Spec => []IndexTold
<1>1. CalmInv => IndexTold
  <2> SUFFICES ASSUME CalmInv, Calm, Closed, NEW s \in Session
      PROVE  index[s] = CASE thread[s] \in {"new", "add"} -> "absent"
                          [] thread[s] = "done" -> End(s)
                          [] OTHER -> "running"
    BY Zenon DEF IndexTold
  <2>1. IndexInv
    BY Zenon DEF CalmInv
  <2> QED
    BY <2>1 DEF IndexInv, IndexRight, Row
<1> QED
  BY <1>1, CalmInit, CalmStep, PTL DEF Spec
=============================================================================
