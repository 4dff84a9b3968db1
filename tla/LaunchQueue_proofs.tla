-------------------------- MODULE LaunchQueue_proofs --------------------------
(***************************************************************************)
(* Theorems about the batch launcher for every set of batches, items and   *)
(* workspaces, every cap, with or without crashes and faults.              *)
(***************************************************************************)
EXTENDS LaunchQueue, FiniteSetTheorems, TLAPS

-----------------------------------------------------------------------------
(* Typing. *)

BatchRows == {"absent", "running", "completed", "failed"}

\* The scheduler thread, where it works on an item, works on one of the table:
\* typing alone does not say that the row it ends exists.
TypeInv ==
    /\ TypeOK
    /\ scheduler # "idle" => current \in Item

\* The status an end leaves to a batch is one of the table.
LEMMA RefreshedType ==
    ASSUME NEW b, NEW st
    PROVE  Refreshed(b, st) \in BatchRows \ {"absent"}
BY DEF Refreshed, BatchRows

\* _finish keeps both tables well typed.
LEMMA FinishType ==
    ASSUME TypeOK, NEW i \in Item, NEW outcome \in Terminal, Finish(i, outcome)
    PROVE  status' \in [Item -> Statuses] /\ batchRow' \in [Batch -> BatchRows]
<1>1. CASE status[i] = "absent"
  BY <1>1 DEF Finish, TypeOK, BatchRows
<1>2. CASE status[i] # "absent"
  <2>1. status' = [status EXCEPT ![i] = outcome]
    BY <1>2 DEF Finish
  <2>2. batchRow' = [batchRow EXCEPT ![BatchOf[i]] = Refreshed(BatchOf[i], status')]
    BY <1>2 DEF Finish
  <2>3. Refreshed(BatchOf[i], status') \in BatchRows
    BY RefreshedType
  <2> QED
    BY <2>1, <2>2, <2>3 DEF TypeOK, Statuses, BatchRows
<1> QED
  BY <1>1, <1>2

\* A deletion leaves a batch its row, none, or one that its other items imply.
LEMMA AfterDeleteType ==
    ASSUME TypeOK, NEW b \in Batch, NEW gone, NEW st
    PROVE  AfterDelete(b, gone, st) \in BatchRows
BY RefreshedType DEF AfterDelete, TypeOK, BatchRows

\* Every step keeps the types.
LEMMA TypeStep ==
    ASSUME TypeInv, [Next]_vars
    PROVE  TypeInv'
<1> USE LaunchAssumption DEF TypeInv, TypeOK, store, submitter, threads, docker, BatchRows
<1>1. ASSUME NEW b \in Batch, SubmitBegin(b) PROVE TypeInv'
  BY <1>1 DEF SubmitBegin, ActiveWorkspaces, ItemsOf
<1>2. ASSUME NEW b \in Batch, Enqueue(b) PROVE TypeInv'
  BY <1>2 DEF Enqueue, SubmitEnds, Statuses, Pending
<1>3. ASSUME NEW b \in Batch, EnqueueFails(b) PROVE TypeInv'
  BY <1>3 DEF EnqueueFails, SubmitEnds
<1>4. ASSUME NEW b \in Batch, NEW i \in Item, SubmitRow(b, i) PROVE TypeInv'
  BY <1>4 DEF SubmitRow
<1>5. ASSUME NEW i \in Item, ClaimNext(i) PROVE TypeInv'
  BY <1>5 DEF ClaimNext, Statuses, Pending, Active
<1>6. CASE Spawn
  BY <1>6 DEF Spawn, Alive
<1>7. CASE SpawnFails
  <2>1. status' \in [Item -> Statuses] /\ batchRow' \in [Batch -> BatchRows]
    BY <1>7, FinishType DEF SpawnFails, Terminal
  <2> QED
    BY <1>7, <2>1 DEF SpawnFails
<1>8. CASE MarkRunning
  BY <1>8 DEF MarkRunning, Statuses, Pending, Active
<1>9. CASE MarkRunningFails
  <2>1. status' \in [Item -> Statuses] /\ hasPid' \in [Item -> BOOLEAN]
    <3>1. CASE UNCHANGED <<status, hasPid>>
      BY <3>1
    <3>2. CASE /\ status' = [status EXCEPT ![current] = "running"]
               /\ hasPid' = [hasPid EXCEPT ![current] = TRUE]
      BY <3>2 DEF Statuses, Pending, Active
    <3> QED
      BY <1>9, <3>1, <3>2 DEF MarkRunningFails
  <2> QED
    BY <1>9, <2>1 DEF MarkRunningFails
<1>10. ASSUME NEW i \in Item, MonitorExit(i) PROVE TypeInv'
  <2>1. status' \in [Item -> Statuses] /\ batchRow' \in [Batch -> BatchRows]
    BY <1>10, FinishType DEF MonitorExit, Terminal
  <2> QED
    BY <1>10, <2>1 DEF MonitorExit
<1>11. ASSUME NEW i \in Item, MonitorFails(i) PROVE TypeInv'
  <2>1. status' \in [Item -> Statuses] /\ batchRow' \in [Batch -> BatchRows]
    BY <1>11, FinishType DEF MonitorFails, Terminal
  <2> QED
    BY <1>11, <2>1 DEF MonitorFails
<1>12. ASSUME NEW i \in Item, CliStep(i) PROVE TypeInv'
  <2>1. CASE CliCheck(i)
    BY <2>1 DEF CliCheck, Alive, Exited
  <2>2. CASE CliCreate(i)
    BY <2>2 DEF CliCreate, Alive
  <2>3. CASE CliExit(i)
    BY <2>3 DEF CliExit, Exited
  <2> QED
    BY <1>12, <2>1, <2>2, <2>3 DEF CliStep
<1>13. ASSUME NEW w \in Workspace, DeleteStep(w) PROVE TypeInv'
  <2>1. CASE DeleteCheck(w)
    BY <2>1 DEF DeleteCheck
  <2>2. CASE DeleteRefused(w)
    BY <2>2 DEF DeleteRefused
  <2>3. CASE DeleteRows(w)
    <3>1. batchRow' \in [Batch -> BatchRows]
      BY <2>3, AfterDeleteType DEF DeleteRows
    <3>2. status' \in [Item -> Statuses]
      BY <2>3 DEF DeleteRows, Statuses
    <3> QED
      BY <2>3, <3>1, <3>2 DEF DeleteRows
  <2>4. CASE DeleteContainer(w)
    BY <2>4 DEF DeleteContainer
  <2> QED
    BY <1>13, <2>1, <2>2, <2>3, <2>4 DEF DeleteStep
<1>14. CASE ServerStops
  BY <1>14 DEF ServerStops
<1>15. CASE ServerStarts
  BY <1>15 DEF ServerStarts, UnfinishedItems, ActiveItems
<1>16. CASE ReconcileEnds
  BY <1>16 DEF ReconcileEnds
<1>17. ASSUME NEW i \in Item, ReconcileRow(i) PROVE TypeInv'
  <2>1. status' \in [Item -> Statuses] /\ batchRow' \in [Batch -> BatchRows]
    BY <1>17, FinishType DEF ReconcileRow, Terminal
  <2> QED
    BY <1>17, <2>1 DEF ReconcileRow
<1>18. CASE UNCHANGED vars
  BY <1>18 DEF vars
<1> QED
  BY <1>1, <1>2, <1>3, <1>4, <1>5, <1>6, <1>7, <1>8, <1>9, <1>10, <1>11, <1>12, <1>13,
     <1>14, <1>15, <1>16, <1>17, <1>18 DEF Next, SchedulerStep

\* Every variable of the launcher keeps its type: the columns of the two tables,
\* the copies of the HTTP threads and the places of the other threads.
THEOREM TypeCorrect == Spec => []TypeOK
<1>1. Init => TypeInv
  BY LaunchAssumption DEF Init, TypeInv, TypeOK, Statuses, Pending, Active, Terminal
<1>2. TypeInv => TypeOK
  BY DEF TypeInv
<1> QED
  BY <1>1, <1>2, TypeStep, PTL DEF Spec

-----------------------------------------------------------------------------
(* Capacity. *)

\* _finish changes the status of its own row only, and never creates a row.
LEMMA FinishEffect ==
    ASSUME TypeOK, NEW i \in Item, NEW outcome \in Terminal, Finish(i, outcome),
           NEW j \in Item
    PROVE  status'[j] = IF j = i /\ status[i] # "absent" THEN outcome ELSE status[j]
BY DEF Finish, TypeOK

\* Bounds on the active items survive every step that makes no other item active.
LEMMA FewerActive ==
    ASSUME CapacityRespected, \A i \in Item : status'[i] \in Active => status[i] \in Active
    PROVE  CapacityRespected'
<1> USE LaunchAssumption
<1>1. ActiveItems' \subseteq ActiveItems /\ ActiveItems \subseteq Item
  BY DEF ActiveItems
<1>2. Cardinality(ActiveItems') <= GlobalCap
  <2>1. IsFiniteSet(ActiveItems)
    BY <1>1, FS_Subset
  <2>2. /\ Cardinality(ActiveItems') <= Cardinality(ActiveItems)
        /\ Cardinality(ActiveItems) \in Nat /\ Cardinality(ActiveItems') \in Nat
    BY <1>1, <2>1, FS_Subset, FS_CardinalityType
  <2> QED
    BY <2>2 DEF CapacityRespected
<1>3. ASSUME NEW b \in Batch PROVE Cardinality(ActiveIn(b)') <= Concurrency[b]
  <2>1. ActiveIn(b)' \subseteq ActiveIn(b) /\ ActiveIn(b) \subseteq Item
    BY <1>1 DEF ActiveIn
  <2>2. IsFiniteSet(ActiveIn(b))
    BY <2>1, FS_Subset
  <2>3. /\ Cardinality(ActiveIn(b)') <= Cardinality(ActiveIn(b))
        /\ Cardinality(ActiveIn(b)) \in Nat /\ Cardinality(ActiveIn(b)') \in Nat
    BY <2>1, <2>2, FS_Subset, FS_CardinalityType
  <2> QED
    BY <2>3 DEF CapacityRespected
<1> QED
  BY <1>2, <1>3 DEF CapacityRespected

\* A claim takes one unit of each capacity, both of which had one to give.
LEMMA ClaimWithinCapacity ==
    ASSUME TypeOK, CapacityRespected, NEW i \in Item, ClaimNext(i)
    PROVE  CapacityRespected'
<1> USE LaunchAssumption
<1>1. status[i] = "queued" /\ status' = [status EXCEPT ![i] = "launching"]
  BY DEF ClaimNext, Claimable
<1>2. i \notin ActiveItems /\ ActiveItems' = ActiveItems \cup {i}
  BY <1>1 DEF ActiveItems, Active, TypeOK
<1>3. IsFiniteSet(ActiveItems)
  BY FS_Subset DEF ActiveItems
<1>4. Cardinality(ActiveItems') <= GlobalCap
  <2>1. Cardinality(ActiveItems') = Cardinality(ActiveItems) + 1
    BY <1>2, <1>3, FS_AddElement
  <2>2. Cardinality(ActiveItems) < GlobalCap /\ Cardinality(ActiveItems) \in Nat
    BY <1>3, FS_CardinalityType DEF ClaimNext, HasCapacity
  <2> QED
    BY <2>1, <2>2
<1>5. ASSUME NEW b \in Batch PROVE Cardinality(ActiveIn(b)') <= Concurrency[b]
  <2>1. IsFiniteSet(ActiveIn(b))
    BY <1>3, FS_Subset DEF ActiveIn
  <2>2. Cardinality(ActiveIn(b)) \in Nat
    BY <2>1, FS_CardinalityType
  <2>3. CASE b = BatchOf[i]
    <3>1. i \notin ActiveIn(b) /\ ActiveIn(b)' = ActiveIn(b) \cup {i}
      BY <1>2, <2>3 DEF ActiveIn
    <3>2. Cardinality(ActiveIn(b)') = Cardinality(ActiveIn(b)) + 1
      BY <2>1, <3>1, FS_AddElement
    <3>3. Cardinality(ActiveIn(b)) < Concurrency[b]
      BY <2>3 DEF ClaimNext, Claimable
    <3> QED
      BY <2>2, <3>2, <3>3
  <2>4. CASE b # BatchOf[i]
    <3>1. ActiveIn(b)' = ActiveIn(b)
      BY <1>2, <2>4 DEF ActiveIn
    <3> QED
      BY <3>1 DEF CapacityRespected
  <2> QED
    BY <2>3, <2>4
<1> QED
  BY <1>4, <1>5 DEF CapacityRespected

\* Every step but a claim makes no item active.
LEMMA OnlyClaimsActivate ==
    ASSUME TypeInv, [Next]_vars, \A i \in Item : ~ClaimNext(i),
           NEW j \in Item, status'[j] \in Active
    PROVE  status[j] \in Active
<1> USE LaunchAssumption DEF TypeInv, store, Active
<1>1. CASE UNCHANGED status
  BY <1>1
<1>2. ASSUME NEW i \in Item, NEW outcome \in Terminal, Finish(i, outcome)
      PROVE  status[j] \in Active
  BY <1>2, FinishEffect DEF Terminal
<1>3. ASSUME NEW b \in Batch, Enqueue(b) PROVE status[j] \in Active
  BY <1>3 DEF Enqueue
<1>4. CASE MarkRunning \/ MarkRunningFails
  BY <1>4, <1>1 DEF MarkRunning, MarkRunningFails, TypeOK
<1>5. ASSUME NEW w \in Workspace, DeleteRows(w) PROVE status[j] \in Active
  BY <1>5 DEF DeleteRows
<1>6. CASE SpawnFails
  BY <1>6, <1>1, <1>2 DEF SpawnFails, Terminal
<1>7. ASSUME NEW i \in Item, MonitorExit(i) \/ MonitorFails(i) \/ ReconcileRow(i)
      PROVE  status[j] \in Active
  BY <1>7, <1>1, <1>2 DEF MonitorExit, MonitorFails, ReconcileRow, Terminal
<1>8. ASSUME NEW b \in Batch,
             SubmitBegin(b) \/ EnqueueFails(b) \/ \E i \in Item : SubmitRow(b, i)
      PROVE  status[j] \in Active
  BY <1>8, <1>1 DEF SubmitBegin, EnqueueFails, SubmitRow
<1>9. CASE Spawn
  BY <1>9, <1>1 DEF Spawn
<1>10. ASSUME NEW i \in Item, CliStep(i) PROVE status[j] \in Active
  BY <1>10, <1>1 DEF CliStep, CliCheck, CliCreate, CliExit
<1>11. ASSUME NEW w \in Workspace, DeleteCheck(w) \/ DeleteRefused(w) \/ DeleteContainer(w)
       PROVE  status[j] \in Active
  BY <1>11, <1>1 DEF DeleteCheck, DeleteRefused, DeleteContainer
<1>12. CASE ServerStops \/ ServerStarts \/ ReconcileEnds
  BY <1>12, <1>1 DEF ServerStops, ServerStarts, ReconcileEnds
<1>13. CASE UNCHANGED vars
  BY <1>13, <1>1 DEF vars
<1> QED
  BY <1>3, <1>4, <1>5, <1>6, <1>7, <1>8, <1>9, <1>10, <1>11, <1>12, <1>13
     DEF Next, SchedulerStep, DeleteStep

\* The hard cap and the concurrency of every batch are never exceeded: whatever
\* the order of claims, ends, deletions and restarts, only claim_next makes an
\* item active, and it counts and claims in one transaction.
THEOREM CapacityHolds == Spec => []CapacityRespected
<1>1. Init => TypeInv /\ CapacityRespected
  <2>1. Init => TypeInv
    BY LaunchAssumption DEF Init, TypeInv, TypeOK, Statuses, Pending, Active, Terminal
  <2>2. ASSUME Init PROVE CapacityRespected
    <3>1. ActiveItems = {} /\ \A b \in Batch : ActiveIn(b) = {}
      BY <2>2 DEF Init, ActiveItems, ActiveIn, Active
    <3>2. Cardinality(ActiveItems) = 0 /\ \A b \in Batch : Cardinality(ActiveIn(b)) = 0
      BY <3>1, FS_EmptySet
    <3> QED
      BY <3>2, LaunchAssumption DEF CapacityRespected
  <2> QED
    BY <2>1, <2>2
<1>2. TypeInv /\ CapacityRespected /\ [Next]_vars => (TypeInv /\ CapacityRespected)'
  <2> SUFFICES ASSUME TypeInv, CapacityRespected, [Next]_vars
               PROVE  CapacityRespected'
    BY TypeStep
  <2>1. CASE \E i \in Item : ClaimNext(i)
    BY <2>1, ClaimWithinCapacity DEF TypeInv
  <2>2. CASE \A i \in Item : ~ClaimNext(i)
    BY <2>2, OnlyClaimsActivate, FewerActive
  <2> QED
    BY <2>1, <2>2
<1> QED
  BY <1>1, <1>2, PTL DEF Spec

-----------------------------------------------------------------------------
(* The rows that the threads write. *)

\* What _finish and the start of a monitor rely on, made inductive: an item is
\* submitted once, so its row is new when it is enqueued, and its subprocess is
\* started once; a reconciliation runs while no thread of the server does, over
\* rows that are still active.
OwnInv ==
    /\ TypeInv
    /\ ThreadsOwnRows
    /\ scheduler = "mark" => process[current] # "none"
    /\ \A b \in Batch : unread[b] \cup accepted[b] \subseteq ItemsOf(b)
    /\ \A i \in Item :
        /\ submit[BatchOf[i]] # "done" => status[i] = "absent" /\ process[i] = "none"
        /\ status[i] = "queued" => process[i] = "none"
    /\ \A i \in stale : status[i] \in Active
    /\ server # "reconcile" => stale = {}

\* Every step keeps the threads and their rows together.
LEMMA OwnStep ==
    ASSUME OwnInv, [Next]_vars
    PROVE  OwnInv'
<1> USE LaunchAssumption DEF OwnInv, ThreadsOwnRows, store, submitter, threads, docker
<1>t. TypeInv' /\ TypeInv /\ TypeOK
  BY TypeStep DEF TypeInv
<1> USE <1>t
<1>1. ASSUME NEW b \in Batch, SubmitBegin(b) PROVE OwnInv'
  BY <1>1 DEF SubmitBegin, ItemsOf, TypeOK
<1>2. ASSUME NEW b \in Batch, Enqueue(b) PROVE OwnInv'
  BY <1>2 DEF Enqueue, SubmitEnds, ItemsOf, TypeOK, Active
<1>3. ASSUME NEW b \in Batch, EnqueueFails(b) PROVE OwnInv'
  BY <1>3 DEF EnqueueFails, SubmitEnds, ItemsOf, TypeOK
<1>4. ASSUME NEW b \in Batch, NEW i \in Item, SubmitRow(b, i) PROVE OwnInv'
  BY <1>4 DEF SubmitRow, ItemsOf, TypeOK
<1>5. ASSUME NEW i \in Item, ClaimNext(i) PROVE OwnInv'
  BY <1>5 DEF ClaimNext, Claimable, TypeOK
<1>6. CASE Spawn
  BY <1>6 DEF Spawn, TypeOK, TypeInv
<1>7. CASE SpawnFails
  <2>1. current \in Item /\ status[current] = "launching"
    BY <1>7 DEF SpawnFails
  <2>2. \A j \in Item : j # current => status'[j] = status[j]
    BY <1>7, <2>1, FinishEffect DEF SpawnFails, Terminal
  <2>3. status'[current] \in {status[current], "failed"}
    BY <1>7, <2>1, FinishEffect DEF SpawnFails, Terminal
  <2> QED
    BY <1>7, <2>1, <2>2, <2>3 DEF SpawnFails, TypeOK
<1>8. CASE MarkRunning
  BY <1>8 DEF MarkRunning, TypeOK, TypeInv
<1>9. CASE MarkRunningFails
  BY <1>9 DEF MarkRunningFails, TypeOK, TypeInv
<1>10. ASSUME NEW i \in Item, MonitorExit(i) \/ MonitorFails(i) PROVE OwnInv'
  <2>1. PICK outcome \in Terminal : Finish(i, outcome) \/ UNCHANGED <<status, batchRow>>
    BY <1>10 DEF MonitorExit, MonitorFails, Terminal
  <2>2. \A j \in Item : j # i => status'[j] = status[j]
    BY <2>1, FinishEffect
  <2>3. status'[i] \in {status[i], "completed", "failed"}
    BY <2>1, FinishEffect DEF Terminal
  <2> QED
    BY <1>10, <2>2, <2>3 DEF MonitorExit, MonitorFails, TypeOK
<1>11. ASSUME NEW i \in Item, CliStep(i) PROVE OwnInv'
  BY <1>11 DEF CliStep, CliCheck, CliCreate, CliExit, TypeOK, Alive
<1>12. ASSUME NEW w \in Workspace, DeleteStep(w) PROVE OwnInv'
  <2>1. CASE DeleteRows(w)
    <3>1. \A i \in Item : status[i] \in Active => status'[i] = status[i]
      BY <2>1 DEF DeleteRows, Busy, ActiveItems
    <3>2. \A i \in Item : status'[i] \in {status[i], "absent"}
      BY <2>1 DEF DeleteRows
    <3>3. UNCHANGED <<hasPid, submitter, server, stale, threads, docker>> /\ server = "up"
      BY <2>1 DEF DeleteRows
    <3>4. ThreadsOwnRows'
      BY <3>1, <3>3 DEF TypeOK, Active
    <3> QED
      BY <3>2, <3>3, <3>4 DEF ItemsOf
  <2> QED
    BY <1>12, <2>1 DEF DeleteStep, DeleteCheck, DeleteRefused, DeleteContainer
<1>13. CASE ServerStops
  BY <1>13 DEF ServerStops, TypeOK
<1>14. CASE ServerStarts
  BY <1>14 DEF ServerStarts, UnfinishedItems, ActiveItems
<1>15. CASE ReconcileEnds
  BY <1>15 DEF ReconcileEnds
<1>16. ASSUME NEW i \in Item, ReconcileRow(i) PROVE OwnInv'
  <2>1. PICK outcome \in Terminal : Finish(i, outcome) \/ UNCHANGED <<status, batchRow>>
    BY <1>16 DEF ReconcileRow, Terminal
  <2>2. \A j \in Item : j # i => status'[j] = status[j]
    BY <2>1, FinishEffect
  <2>3. status'[i] \in {status[i], "completed", "failed"}
    BY <2>1, FinishEffect DEF Terminal
  <2>4. /\ status[i] \in Active /\ stale' = stale \ {i} /\ server = "reconcile"
        /\ UNCHANGED <<hasPid, submitter, server, threads, deleting, docker>>
    BY <1>16 DEF ReconcileRow
  <2>5. ThreadsOwnRows'
    BY <2>4 DEF TypeOK
  <2>6. \A j \in stale' : status'[j] \in Active
    BY <2>2, <2>4 DEF TypeOK
  <2> QED
    BY <2>2, <2>3, <2>4, <2>5, <2>6 DEF Active, TypeOK, ItemsOf
<1>17. CASE UNCHANGED vars
  BY <1>17 DEF vars
<1> QED
  BY <1>1, <1>2, <1>3, <1>4, <1>5, <1>6, <1>7, <1>8, <1>9, <1>10, <1>11, <1>12, <1>13,
     <1>14, <1>15, <1>16, <1>17 DEF Next, SchedulerStep

\* The invariant holds initially.
LEMMA OwnInit == Init => OwnInv
BY LaunchAssumption
   DEF Init, OwnInv, TypeInv, TypeOK, ThreadsOwnRows, Statuses, Pending, Active, Terminal

\* A thread that writes a row finds it as it left it: the row of a monitor is
\* running, the row of the scheduler is launching, its subprocess not yet started.
THEOREM RowsOwned == Spec => []ThreadsOwnRows
<1>1. OwnInv => ThreadsOwnRows
  BY DEF OwnInv
<1> QED
  BY <1>1, OwnInit, OwnStep, PTL DEF Spec

\* What a step may do to a row that is active or has ended.
LEMMA RowStep ==
    ASSUME OwnInv, [Next]_vars, NEW j \in Item
    PROVE  /\ status[j] \in Terminal => status'[j] \in {status[j], "absent"}
           /\ status[j] \in Active => status'[j] # "absent"
<1> USE LaunchAssumption DEF OwnInv, ThreadsOwnRows, store, Active, Terminal
<1>t. TypeInv /\ TypeOK
  BY DEF TypeInv
<1> USE <1>t
<1> DEFINE Goal == /\ status[j] \in Terminal => status'[j] \in {status[j], "absent"}
                   /\ status[j] \in Active => status'[j] # "absent"
<1>1. CASE UNCHANGED status
  BY <1>1
<1>2. ASSUME NEW i \in Item, status[i] \in Active, NEW outcome \in Terminal,
             Finish(i, outcome)
      PROVE  Goal
  BY <1>2, FinishEffect
<1>3. ASSUME NEW b \in Batch, Enqueue(b) PROVE Goal
  BY <1>3 DEF Enqueue, ItemsOf
<1>4. ASSUME NEW i \in Item, ClaimNext(i) PROVE Goal
  BY <1>4 DEF ClaimNext, Claimable, TypeOK
<1>5. CASE SpawnFails
  BY <1>5, <1>1, <1>2 DEF SpawnFails
<1>6. CASE MarkRunning \/ MarkRunningFails
  BY <1>6, <1>1 DEF MarkRunning, MarkRunningFails, TypeOK
<1>7. ASSUME NEW i \in Item, MonitorExit(i) \/ MonitorFails(i) \/ ReconcileRow(i)
      PROVE  Goal
  BY <1>7, <1>1, <1>2 DEF MonitorExit, MonitorFails, ReconcileRow
<1>8. ASSUME NEW w \in Workspace, DeleteStep(w) PROVE Goal
  BY <1>8, <1>1
     DEF DeleteStep, DeleteCheck, DeleteRefused, DeleteRows, DeleteContainer, Busy, ActiveItems
<1>9. ASSUME NEW b \in Batch,
             SubmitBegin(b) \/ EnqueueFails(b) \/ \E i \in Item : SubmitRow(b, i)
      PROVE  Goal
  BY <1>9, <1>1 DEF SubmitBegin, EnqueueFails, SubmitRow
<1>10. CASE Spawn
  BY <1>10, <1>1 DEF Spawn
<1>11. ASSUME NEW i \in Item, CliStep(i) PROVE Goal
  BY <1>11, <1>1 DEF CliStep, CliCheck, CliCreate, CliExit
<1>12. CASE ServerStops \/ ServerStarts \/ ReconcileEnds
  BY <1>12, <1>1 DEF ServerStops, ServerStarts, ReconcileEnds
<1>13. CASE UNCHANGED vars
  BY <1>13, <1>1 DEF vars
<1> QED
  BY <1>3, <1>4, <1>5, <1>6, <1>7, <1>8, <1>9, <1>10, <1>11, <1>12, <1>13
     DEF Next, SchedulerStep

\* No late monitor and no restart rewrites a recorded end: _finish does not test
\* the status it overwrites, and never has to.
THEOREM EndsAreFinal == Spec => TerminalIsFinal
<1>1. OwnInv /\ [Next]_vars =>
        [\A i \in Item : status[i] \in Terminal => status'[i] \in {status[i], "absent"}]_vars
  BY RowStep
<1> QED
  BY <1>1, OwnInit, OwnStep, PTL DEF Spec, TerminalIsFinal

\* No deletion takes a row whose threads are still to write it: the guard is asked
\* again in the transaction that deletes.
THEOREM ActiveRowsAreKept == Spec => ActiveRowsStay
<1>1. OwnInv /\ [Next]_vars =>
        [\A i \in Item : status[i] \in Active => status'[i] # "absent"]_vars
  BY RowStep
<1> QED
  BY <1>1, OwnInit, OwnStep, PTL DEF Spec, ActiveRowsStay

-----------------------------------------------------------------------------
(* The status of a batch. *)

\* What the items of a batch imply for its row, when they are in st.
Implied(b, st) ==
    IF \A i \in ItemsOf(b) : st[i] = "absent" THEN "absent" ELSE Refreshed(b, st)

\* Claiming, starting and enqueueing move items within the pending statuses, which
\* a batch does not tell apart.
LEMMA ImpliedSame ==
    ASSUME NEW b, NEW st, NEW tt,
           \A i \in ItemsOf(b) : tt[i] = st[i] \/ (st[i] \in Pending /\ tt[i] \in Pending)
    PROVE  Implied(b, tt) = Implied(b, st)
<1>1. \A i \in ItemsOf(b) : (tt[i] \in Pending <=> st[i] \in Pending)
  OBVIOUS
<1>2. \A i \in ItemsOf(b) : (tt[i] = "failed" <=> st[i] = "failed")
  BY DEF Pending, Active
<1>3. \A i \in ItemsOf(b) : (tt[i] = "absent" <=> st[i] = "absent")
  BY DEF Pending, Active
<1> QED
  BY <1>1, <1>2, <1>3, Zenon DEF Implied, Refreshed

\* A step that leaves every batch its items, up to that, leaves it its row.
LEMMA DerivedSame ==
    ASSUME BatchStatusDerived, UNCHANGED batchRow,
           \A i \in Item : status'[i] = status[i] \/ (status[i] \in Pending /\ status'[i] \in Pending)
    PROVE  BatchStatusDerived'
<1>1. ASSUME NEW b \in Batch PROVE Implied(b, status') = Implied(b, status)
  <2>1. \A i \in ItemsOf(b) :
            status'[i] = status[i] \/ (status[i] \in Pending /\ status'[i] \in Pending)
    BY DEF ItemsOf
  <2> QED
    BY <2>1, ImpliedSame, Zenon
<1>2. ASSUME NEW b \in Batch PROVE batchRow'[b] = Implied(b, status')
  BY <1>1, <1>2 DEF BatchStatusDerived, Implied
<1> QED
  BY <1>2 DEF BatchStatusDerived, Implied

\* _finish refreshes the batch of the item it ends, and no other batch has it.
LEMMA DerivedFinish ==
    ASSUME TypeOK, BatchStatusDerived, NEW i \in Item, NEW outcome \in Terminal,
           Finish(i, outcome)
    PROVE  BatchStatusDerived'
<1>1. CASE status[i] = "absent"
  BY <1>1, DerivedSame DEF Finish
<1>2. CASE status[i] # "absent"
  <2>1. /\ status' = [status EXCEPT ![i] = outcome]
        /\ batchRow' = [batchRow EXCEPT ![BatchOf[i]] = Refreshed(BatchOf[i], status')]
    BY <1>2 DEF Finish
  <2>2. i \in ItemsOf(BatchOf[i]) /\ status'[i] # "absent" /\ BatchOf[i] \in Batch
    BY <2>1, LaunchAssumption DEF ItemsOf, TypeOK, Terminal
  <2>3. ASSUME NEW b \in Batch PROVE batchRow'[b] = Implied(b, status')
    <3>1. CASE b = BatchOf[i]
      BY <2>1, <2>2, <3>1 DEF Implied, TypeOK
    <3>2. CASE b # BatchOf[i]
      <4>1. \A j \in ItemsOf(b) : status'[j] = status[j]
        BY <2>1, <3>2 DEF ItemsOf, TypeOK
      <4>2. Implied(b, status') = Implied(b, status)
        BY <4>1, ImpliedSame, Zenon
      <4>3. batchRow'[b] = batchRow[b]
        BY <2>1, <3>2 DEF TypeOK
      <4> QED
        BY <4>2, <4>3 DEF BatchStatusDerived, Implied
    <3> QED
      BY <3>1, <3>2
  <2> QED
    BY <2>3 DEF BatchStatusDerived, Implied
<1> QED
  BY <1>1, <1>2

\* Enqueueing a batch makes its row running, and touches the items of no other.
LEMMA DerivedEnqueue ==
    ASSUME OwnInv, BatchStatusDerived, NEW b \in Batch, Enqueue(b)
    PROVE  BatchStatusDerived'
<1>t. TypeOK /\ accepted[b] \subseteq ItemsOf(b) /\ ItemsOf(b) \subseteq Item
  BY DEF OwnInv, TypeInv, ItemsOf
<1>1. status' = [i \in Item |-> IF i \in accepted[b] THEN "queued" ELSE status[i]]
  BY DEF Enqueue
<1>2. CASE accepted[b] = {}
  <2>1. UNCHANGED batchRow
    BY <1>2 DEF Enqueue
  <2> QED
    BY <1>1, <1>2, <2>1, DerivedSame
<1>3. CASE accepted[b] # {}
  <2>1. batchRow' = [batchRow EXCEPT ![b] = "running"]
    BY <1>3 DEF Enqueue
  <2>2. PICK i \in ItemsOf(b) : i \in accepted[b] /\ status'[i] = "queued"
    BY <1>t, <1>1, <1>3
  <2>3. status'[i] \in Pending /\ status'[i] # "absent"
    BY <2>2 DEF Pending
  <2>4. ASSUME NEW c \in Batch PROVE batchRow'[c] = Implied(c, status')
    <3>1. CASE c = b
      <4>1. Implied(c, status') = "running"
        BY <3>1, <2>3 DEF Implied, Refreshed
      <4> QED
        BY <3>1, <4>1, <2>1, <1>t DEF TypeOK
    <3>2. CASE c # b
      <4>1. \A j \in ItemsOf(c) : status'[j] = status[j]
        BY <1>t, <1>1, <3>2 DEF ItemsOf
      <4>2. Implied(c, status') = Implied(c, status)
        BY <4>1, ImpliedSame, Zenon
      <4>3. batchRow'[c] = batchRow[c]
        BY <2>1, <3>2, <1>t DEF TypeOK
      <4> QED
        BY <4>2, <4>3 DEF BatchStatusDerived, Implied
    <3> QED
      BY <3>1, <3>2
  <2> QED
    BY <2>4 DEF BatchStatusDerived, Implied
<1> QED
  BY <1>2, <1>3

\* A deletion refreshes the batches it takes items from and drops the emptied ones.
LEMMA DerivedDelete ==
    ASSUME TypeOK, BatchStatusDerived, NEW w \in Workspace, DeleteRows(w)
    PROVE  BatchStatusDerived'
<1> DEFINE gone == {i \in Item : WorkspaceOf[i] = w /\ status[i] # "absent"}
<1>1. /\ status' = [i \in Item |-> IF i \in gone THEN "absent" ELSE status[i]]
      /\ batchRow' = [b \in Batch |-> AfterDelete(b, gone, status')]
  BY DEF DeleteRows
<1> HIDE DEF gone
<1>2. ASSUME NEW b \in Batch PROVE batchRow'[b] = Implied(b, status')
  <2>0. batchRow'[b] = AfterDelete(b, gone, status')
    BY <1>1
  <2>1. CASE b \in {BatchOf[i] : i \in gone}
    BY <2>0, <2>1, Zenon DEF AfterDelete, Implied
  <2>2. CASE b \notin {BatchOf[i] : i \in gone}
    <3>1. \A j \in ItemsOf(b) : status'[j] = status[j]
      BY <1>1, <2>2 DEF ItemsOf
    <3>2. Implied(b, status') = Implied(b, status)
      BY <3>1, ImpliedSame, Zenon
    <3>3. batchRow'[b] = batchRow[b]
      BY <2>0, <2>2 DEF AfterDelete
    <3> QED
      BY <3>2, <3>3 DEF BatchStatusDerived, Implied
  <2> QED
    BY <2>1, <2>2
<1> QED
  BY <1>2 DEF BatchStatusDerived, Implied

\* Every step keeps the rows of the batches true to their items.
LEMMA DerivedStep ==
    ASSUME OwnInv, BatchStatusDerived, [Next]_vars
    PROVE  BatchStatusDerived'
<1>t. TypeOK
  BY DEF OwnInv, TypeInv
<1>1. CASE UNCHANGED <<status, batchRow>>
  BY <1>1, DerivedSame
<1>2. ASSUME NEW i \in Item, NEW outcome \in Terminal, Finish(i, outcome)
      PROVE  BatchStatusDerived'
  BY <1>2, <1>t, DerivedFinish
<1>3. ASSUME NEW b \in Batch, Enqueue(b) PROVE BatchStatusDerived'
  BY <1>3, DerivedEnqueue
<1>4. ASSUME NEW i \in Item, ClaimNext(i) PROVE BatchStatusDerived'
  <2>1. /\ status[i] = "queued" /\ status' = [status EXCEPT ![i] = "launching"]
        /\ UNCHANGED batchRow
    BY <1>4 DEF ClaimNext, Claimable
  <2>2. \A j \in Item : status'[j] = status[j] \/ (status[j] \in Pending /\ status'[j] \in Pending)
    BY <1>t, <2>1 DEF TypeOK, Pending, Active
  <2> QED
    BY <2>1, <2>2, DerivedSame
<1>5. CASE SpawnFails
  <2>1. current \in Item /\ "failed" \in Terminal
    BY <1>5 DEF SpawnFails, OwnInv, TypeInv, Terminal
  <2> QED
    BY <1>5, <1>1, <1>2, <2>1 DEF SpawnFails
<1>6. CASE MarkRunning \/ MarkRunningFails
  <2>1. UNCHANGED batchRow
    BY <1>6 DEF MarkRunning, MarkRunningFails
  <2>2. \A j \in Item : status'[j] = status[j] \/ (status[j] \in Pending /\ status'[j] \in Pending)
    BY <1>t, <1>6 DEF MarkRunning, MarkRunningFails, TypeOK, Pending, Active
  <2> QED
    BY <2>1, <2>2, DerivedSame
<1>7. ASSUME NEW i \in Item, MonitorExit(i) \/ MonitorFails(i) \/ ReconcileRow(i)
      PROVE  BatchStatusDerived'
  <2>1. "failed" \in Terminal /\ "completed" \in Terminal
    BY DEF Terminal
  <2> QED
    BY <1>7, <1>1, <1>2, <2>1 DEF MonitorExit, MonitorFails, ReconcileRow
<1>8. ASSUME NEW w \in Workspace, DeleteStep(w) PROVE BatchStatusDerived'
  <2>1. CASE DeleteRows(w)
    BY <2>1, <1>t, DerivedDelete
  <2> QED
    BY <1>8, <2>1, <1>1
       DEF DeleteStep, DeleteCheck, DeleteRefused, DeleteContainer, store
<1>9. ASSUME NEW b \in Batch,
             SubmitBegin(b) \/ EnqueueFails(b) \/ \E i \in Item : SubmitRow(b, i)
      PROVE  BatchStatusDerived'
  BY <1>9, <1>1 DEF SubmitBegin, EnqueueFails, SubmitRow, store
<1>10. CASE Spawn
  BY <1>10, <1>1 DEF Spawn, store
<1>11. ASSUME NEW i \in Item, CliStep(i) PROVE BatchStatusDerived'
  BY <1>11, <1>1 DEF CliStep, CliCheck, CliCreate, CliExit, store
<1>12. CASE ServerStops \/ ServerStarts \/ ReconcileEnds
  BY <1>12, <1>1 DEF ServerStops, ServerStarts, ReconcileEnds, store
<1>13. CASE UNCHANGED vars
  BY <1>13, <1>1 DEF vars, store
<1> QED
  BY <1>3, <1>4, <1>5, <1>6, <1>7, <1>8, <1>9, <1>10, <1>11, <1>12, <1>13
     DEF Next, SchedulerStep

\* The stored status of a batch is the one its items imply, after every claim, end,
\* deletion, failure and restart: it is refreshed in the transaction that moves them.
THEOREM BatchStatusIsDerived == Spec => []BatchStatusDerived
<1>1. Init => BatchStatusDerived
  BY DEF Init, BatchStatusDerived, ItemsOf
<1> QED
  BY <1>1, OwnInit, OwnStep, DerivedStep, PTL DEF Spec

-----------------------------------------------------------------------------
(* Capacity that is not given back. *)

\* Who answers for an active row, made inductive: while a restarted server still
\* reconciles, the row is either to be resolved or the running row of a process, for
\* a pid is written in the transaction that makes the row running.
LeakInv ==
    /\ scheduler = "idle" => current = NoItem
    /\ \A i \in Item :
        /\ hasPid[i] => status[i] \notin {"queued", "launching"}
        /\ submit[BatchOf[i]] # "done" => ~hasPid[i]
    /\ NoLeakedCapacity
    /\ server = "reconcile" =>
         \A i \in ActiveItems : i \in stale \/ (status[i] = "running" /\ hasPid[i])

\* A thread that ends an active row leaves the others alone and gives its capacity back.
LEMMA FinishEnds ==
    ASSUME TypeOK, NEW i \in Item, NEW outcome \in Terminal, Finish(i, outcome),
           status[i] \in Active
    PROVE  /\ status' = [status EXCEPT ![i] = outcome]
           /\ ActiveItems' = ActiveItems \ {i}
<1>1. status' = [status EXCEPT ![i] = outcome]
  BY DEF Finish, Active
<1> QED
  BY <1>1 DEF ActiveItems, Active, Terminal, TypeOK

\* Without faults every step keeps an answer for every active row.
LEMMA LeakStep ==
    ASSUME Faults = FALSE, OwnInv, LeakInv, [Next]_vars
    PROVE  LeakInv'
<1> USE LaunchAssumption
    DEF LeakInv, NoLeakedCapacity, ActiveItems, Active, store, submitter, threads, docker
<1>t. TypeOK /\ ThreadsOwnRows
  BY DEF OwnInv, TypeInv
<1> USE <1>t
<1>1. ASSUME NEW b \in Batch, SubmitBegin(b) PROVE LeakInv'
  BY <1>1 DEF SubmitBegin, TypeOK
<1>2. ASSUME NEW b \in Batch, Enqueue(b) PROVE LeakInv'
  <2>1. accepted[b] \subseteq ItemsOf(b) /\ submit[b] # "done"
    BY <1>2 DEF OwnInv, Enqueue
  <2>2. \A i \in Item : i \in accepted[b] => ~hasPid[i]
    BY <2>1 DEF ItemsOf
  <2> QED
    BY <1>2, <2>2 DEF Enqueue, SubmitEnds, TypeOK
<1>3. ASSUME NEW b \in Batch, NEW i \in Item, SubmitRow(b, i) PROVE LeakInv'
  BY <1>3 DEF SubmitRow
<1>4. ASSUME NEW i \in Item, ClaimNext(i) PROVE LeakInv'
  BY <1>4 DEF ClaimNext, Claimable, TypeOK
<1>5. CASE Spawn
  BY <1>5 DEF Spawn
<1>6. CASE MarkRunning
  <2>1. current \in Item /\ status[current] = "launching"
    BY <1>6 DEF MarkRunning, ThreadsOwnRows
  <2>2. /\ status' = [status EXCEPT ![current] = "running"]
        /\ hasPid' = [hasPid EXCEPT ![current] = TRUE]
    BY <1>6, <2>1 DEF MarkRunning
  <2>3. submit[BatchOf[current]] = "done"
    BY <2>1 DEF OwnInv
  <2> QED
    BY <1>6, <2>1, <2>2, <2>3 DEF MarkRunning, TypeOK
<1>7. ASSUME NEW i \in Item, MonitorExit(i) PROVE LeakInv'
  <2>1. PICK outcome \in Terminal : Finish(i, outcome)
    BY <1>7 DEF MonitorExit, Terminal
  <2>2. status[i] = "running"
    BY <1>7 DEF MonitorExit, ThreadsOwnRows
  <2>3. status' = [status EXCEPT ![i] = outcome] /\ ActiveItems' = ActiveItems \ {i}
    BY <2>1, <2>2, FinishEnds
  <2>4. /\ monitored' = monitored \ {i} /\ server = "up"
        /\ UNCHANGED <<hasPid, submit, server, stale, scheduler, current>>
    BY <1>7 DEF MonitorExit
  <2> QED
    BY <2>3, <2>4 DEF TypeOK, Terminal
<1>8. ASSUME NEW i \in Item, ReconcileRow(i) PROVE LeakInv'
  <2>1. /\ server = "reconcile" /\ i \in stale /\ stale' = stale \ {i}
        /\ UNCHANGED <<hasPid, submit, server, scheduler, current>>
    BY <1>8 DEF ReconcileRow
  <2>2. status[i] \in Active
    BY <2>1 DEF OwnInv
  <2>3. CASE UNCHANGED <<status, batchRow>> /\ hasPid[i]
    BY <2>1, <2>2, <2>3
  <2>4. ASSUME NEW outcome \in Terminal, Finish(i, outcome) PROVE LeakInv'
    <3>1. status' = [status EXCEPT ![i] = outcome] /\ ActiveItems' = ActiveItems \ {i}
      BY <2>2, <2>4, FinishEnds
    <3> QED
      BY <3>1, <2>1 DEF TypeOK, Terminal
  <2> QED
    BY <1>8, <2>3, <2>4 DEF ReconcileRow, PidAlive, Terminal
<1>9. ASSUME NEW w \in Workspace, DeleteStep(w) PROVE LeakInv'
  <2>1. CASE DeleteRows(w)
    BY <2>1 DEF DeleteRows, TypeOK
  <2> QED
    BY <1>9, <2>1 DEF DeleteStep, DeleteCheck, DeleteRefused, DeleteContainer
<1>10. ASSUME NEW i \in Item, CliStep(i) PROVE LeakInv'
  BY <1>10 DEF CliStep, CliCheck, CliCreate, CliExit
<1>11. CASE ServerStops
  BY <1>11 DEF ServerStops, TypeOK
<1>12. CASE ServerStarts
  BY <1>12 DEF ServerStarts, UnfinishedItems
<1>13. CASE ReconcileEnds
  BY <1>13 DEF ReconcileEnds
<1>14. CASE UNCHANGED vars
  BY <1>14 DEF vars
<1> QED
  BY <1>1, <1>2, <1>3, <1>4, <1>5, <1>6, <1>7, <1>8, <1>9, <1>10, <1>11, <1>12, <1>13, <1>14
     DEF Next, SchedulerStep, EnqueueFails, SpawnFails, MarkRunningFails, MonitorFails

\* Without faults no capacity leaks, however often the server stops and wherever its
\* threads stand then: at a running server an active row has a thread that will end it,
\* or is the row of a subprocess that an earlier server started.
THEOREM CapacityIsGivenBack ==
    ASSUME Faults = FALSE
    PROVE  Spec => []NoLeakedCapacity
<1>1. Init => LeakInv
  BY DEF Init, LeakInv, NoLeakedCapacity, ActiveItems, Active
<1>2. OwnInv /\ LeakInv /\ [Next]_vars => LeakInv'
  BY LeakStep
<1>3. LeakInv => NoLeakedCapacity
  BY DEF LeakInv
<1> QED
  BY <1>1, <1>2, <1>3, OwnInit, OwnStep, PTL DEF Spec

-----------------------------------------------------------------------------
(* Subprocesses, while the server stays up. *)

\* Of a server that does not stop, every subprocess has its monitor or is being given
\* one: the pass of the scheduler that started it has not ended.
WatchInv ==
    /\ server = "up"
    /\ \A i \in Item : process[i] \in Alive =>
         i \in monitored \/ (scheduler = "mark" /\ i = current)

\* Every step keeps a subprocess that is alive in the hands of a thread.
LEMMA WatchStep ==
    ASSUME Crashes = FALSE, Faults = FALSE, OwnInv, WatchInv, [Next]_vars
    PROVE  WatchInv'
<1> USE DEF WatchInv, store, submitter, threads, docker
<1>t. TypeOK /\ ThreadsOwnRows
  BY DEF OwnInv, TypeInv
<1> USE <1>t
<1>1. ASSUME NEW b \in Batch, SubmitBegin(b) \/ Enqueue(b) \/ EnqueueFails(b) PROVE WatchInv'
  BY <1>1 DEF SubmitBegin, Enqueue, EnqueueFails
<1>2. ASSUME NEW b \in Batch, NEW i \in Item, SubmitRow(b, i) PROVE WatchInv'
  BY <1>2 DEF SubmitRow
<1>3. ASSUME NEW i \in Item, ClaimNext(i) PROVE WatchInv'
  BY <1>3 DEF ClaimNext
<1>4. CASE Spawn
  BY <1>4 DEF Spawn, TypeOK
<1>5. CASE MarkRunning
  BY <1>5 DEF MarkRunning
<1>6. ASSUME NEW i \in Item, MonitorExit(i) PROVE WatchInv'
  BY <1>6 DEF MonitorExit, Exited, Alive
<1>7. ASSUME NEW i \in Item, CliStep(i) PROVE WatchInv'
  BY <1>7 DEF CliStep, CliCheck, CliCreate, CliExit, Alive, TypeOK
<1>8. ASSUME NEW w \in Workspace, DeleteStep(w) PROVE WatchInv'
  BY <1>8 DEF DeleteStep, DeleteCheck, DeleteRefused, DeleteRows, DeleteContainer
<1>9. CASE UNCHANGED vars
  BY <1>9 DEF vars
<1> QED
  BY <1>1, <1>2, <1>3, <1>4, <1>5, <1>6, <1>7, <1>8, <1>9
     DEF Next, SchedulerStep, SpawnFails, MarkRunningFails, MonitorFails, ServerStops,
         ServerStarts, ReconcileEnds, ReconcileRow

\* Then every subprocess that is alive has its row active.
LEMMA AliveIsActive ==
    ASSUME OwnInv, WatchInv, NEW i \in Item, process[i] \in Alive
    PROVE  status[i] \in Active
BY DEF OwnInv, WatchInv, ThreadsOwnRows, Active

\* Initially there is no subprocess and the server is up.
LEMMA WatchInit == Init => WatchInv
BY DEF Init, WatchInv, Alive

\* While no fault and no restart parts a subprocess from its row, the cap on rows is a
\* cap on the setup subprocesses that are alive.
THEOREM ProcessesAreCapped ==
    ASSUME Crashes = FALSE, Faults = FALSE
    PROVE  Spec => []ProcessCap
<1>1. OwnInv /\ WatchInv /\ [Next]_vars => WatchInv'
  BY WatchStep
<1>2. ASSUME OwnInv, WatchInv, CapacityRespected PROVE ProcessCap
  <2> DEFINE alive == {i \in Item : process[i] \in Alive}
  <2>1. alive \subseteq ActiveItems
    BY <1>2, AliveIsActive DEF ActiveItems
  <2>2. IsFiniteSet(ActiveItems)
    BY LaunchAssumption, FS_Subset DEF ActiveItems
  <2>3. /\ Cardinality(alive) <= Cardinality(ActiveItems)
        /\ Cardinality(ActiveItems) \in Nat /\ Cardinality(alive) \in Nat
    BY <2>1, <2>2, FS_Subset, FS_CardinalityType
  <2> QED
    BY <1>2, <2>3, LaunchAssumption DEF CapacityRespected, ProcessCap
<1> QED
  BY <1>1, <1>2, OwnInit, OwnStep, WatchInit, CapacityHolds, PTL DEF Spec

-----------------------------------------------------------------------------
(* Submissions that do not overlap. *)

\* What keeps the launches of a workspace apart when submissions do not overlap: while
\* a batch is being submitted its copy of the active workspaces covers every unfinished
\* item, and what it has accepted is outside the copy and without repetition.
DistinctInv ==
    /\ Serial
    /\ NoDuplicateLaunch
    /\ \A b \in Batch :
        /\ submit[b] # "rows" => accepted[b] = {}
        /\ \A i \in accepted[b] : WorkspaceOf[i] \notin active[b]
        /\ \A i, j \in accepted[b] : WorkspaceOf[i] = WorkspaceOf[j] => i = j
        /\ submit[b] = "rows" =>
             \A i \in Item : status[i] \in Pending => WorkspaceOf[i] \in active[b]

\* Nothing but a submission disturbs that, for nothing else makes an item unfinished.
LEMMA FewerPending ==
    ASSUME DistinctInv, UNCHANGED <<submit, active, accepted>>,
           \A i \in Item : status'[i] \in Pending => status[i] \in Pending
    PROVE  DistinctInv'
BY DEF DistinctInv, Serial, NoDuplicateLaunch

\* _finish makes no item unfinished.
LEMMA FinishNotPending ==
    ASSUME TypeOK, NEW i \in Item, NEW outcome \in Terminal, Finish(i, outcome), NEW j \in Item,
           status'[j] \in Pending
    PROVE  status[j] \in Pending
BY FinishEffect DEF Terminal, Pending, Active

\* The copy that a submission takes covers every unfinished item.
LEMMA DistinctBegin ==
    ASSUME TypeOK, DistinctInv, Serial', NEW b \in Batch, SubmitBegin(b)
    PROVE  DistinctInv'
<1>1. /\ submit[b] = "new" /\ submit' = [submit EXCEPT ![b] = "rows"]
      /\ active' = [active EXCEPT ![b] = ActiveWorkspaces]
      /\ UNCHANGED <<status, accepted>>
  BY DEF SubmitBegin, store
<1>2. submit'[b] = "rows" /\ active'[b] = ActiveWorkspaces
  BY <1>1 DEF TypeOK
<1>3. ASSUME NEW c \in Batch, c # b
      PROVE  active'[c] = active[c] /\ submit'[c] = submit[c]
  BY <1>1, <1>3 DEF TypeOK
<1>4. \A i \in Item : status[i] \in Pending => WorkspaceOf[i] \in ActiveWorkspaces
  BY DEF ActiveWorkspaces
<1>5. accepted[b] = {}
  BY <1>1 DEF DistinctInv
<1> QED
  BY <1>1, <1>2, <1>3, <1>4, <1>5 DEF DistinctInv, NoDuplicateLaunch

\* A row is accepted for a workspace outside the copy and new to the batch.
LEMMA DistinctRow ==
    ASSUME OwnInv, DistinctInv, NEW b \in Batch, NEW i \in Item, SubmitRow(b, i)
    PROVE  DistinctInv'
<1>t. TypeOK
  BY DEF OwnInv, TypeInv
<1>1. submit[b] = "rows" /\ UNCHANGED <<status, submit, active>>
  BY DEF SubmitRow, store
<1>2. \/ UNCHANGED accepted
      \/ /\ accepted' = [accepted EXCEPT ![b] = @ \cup {i}]
         /\ WorkspaceOf[i] \notin {WorkspaceOf[j] : j \in accepted[b]}
         /\ WorkspaceOf[i] \notin active[b]
  BY <1>t DEF SubmitRow, TypeOK
<1>3. CASE UNCHANGED accepted
  BY <1>1, <1>3, FewerPending
<1>4. ASSUME accepted' = [accepted EXCEPT ![b] = @ \cup {i}],
             WorkspaceOf[i] \notin {WorkspaceOf[j] : j \in accepted[b]},
             WorkspaceOf[i] \notin active[b]
      PROVE  DistinctInv'
  <2>1. accepted'[b] = accepted[b] \cup {i}
    BY <1>4, <1>t DEF TypeOK
  <2>2. \A c \in Batch : c # b => accepted'[c] = accepted[c]
    BY <1>4, <1>t DEF TypeOK
  <2> QED
    BY <1>1, <1>4, <2>1, <2>2 DEF DistinctInv, Serial, NoDuplicateLaunch
<1> QED
  BY <1>2, <1>3, <1>4

\* What is enqueued is apart from what is unfinished, and no other batch is under way.
LEMMA DistinctEnqueue ==
    ASSUME TypeOK, DistinctInv, NEW b \in Batch, Enqueue(b)
    PROVE  DistinctInv'
<1>1. /\ submit[b] = "rows" /\ submit' = [submit EXCEPT ![b] = "done"]
      /\ active' = [active EXCEPT ![b] = {}] /\ accepted' = [accepted EXCEPT ![b] = {}]
      /\ status' = [i \in Item |-> IF i \in accepted[b] THEN "queued" ELSE status[i]]
  BY DEF Enqueue, SubmitEnds
<1>2. submit'[b] = "done" /\ active'[b] = {} /\ accepted'[b] = {}
  BY <1>1 DEF TypeOK
<1>3. ASSUME NEW c \in Batch, c # b
      PROVE  /\ submit'[c] = submit[c] /\ submit[c] # "rows"
             /\ accepted'[c] = accepted[c] /\ accepted[c] = {}
  BY <1>1, <1>3 DEF TypeOK, DistinctInv, Serial
<1>4. NoDuplicateLaunch'
  <2> SUFFICES ASSUME NEW i \in Item, NEW j \in Item,
                      status'[i] \in Pending, status'[j] \in Pending,
                      WorkspaceOf[i] = WorkspaceOf[j]
               PROVE  i = j
    BY DEF NoDuplicateLaunch
  <2>1. /\ i \in accepted[b] \/ status[i] \in Pending
        /\ j \in accepted[b] \/ status[j] \in Pending
    BY <1>1
  <2> QED
    BY <1>1, <2>1 DEF DistinctInv, NoDuplicateLaunch
<1>5. Serial'
  BY <1>2, <1>3 DEF Serial
<1> QED
  BY <1>2, <1>3, <1>4, <1>5 DEF DistinctInv

\* Every step of submissions that do not overlap keeps the launches apart.
LEMMA DistinctStep ==
    ASSUME OwnInv, DistinctInv, [Next /\ Serial']_vars
    PROVE  DistinctInv'
<1>t. TypeOK
  BY DEF OwnInv, TypeInv
<1> USE <1>t DEF store, submitter, threads, docker
<1>1. ASSUME NEW b \in Batch, SubmitBegin(b), Serial' PROVE DistinctInv'
  BY <1>1, DistinctBegin
<1>2. ASSUME NEW b \in Batch, NEW i \in Item, SubmitRow(b, i) PROVE DistinctInv'
  BY <1>2, DistinctRow
<1>3. ASSUME NEW b \in Batch, Enqueue(b) PROVE DistinctInv'
  BY <1>3, DistinctEnqueue
<1>4. ASSUME NEW b \in Batch, EnqueueFails(b) PROVE DistinctInv'
  BY <1>4 DEF EnqueueFails, SubmitEnds, DistinctInv, Serial, NoDuplicateLaunch, TypeOK
<1>5. ASSUME NEW i \in Item, ClaimNext(i) PROVE DistinctInv'
  <2>1. \A j \in Item : status'[j] \in Pending => status[j] \in Pending
    BY <1>5 DEF ClaimNext, Claimable, TypeOK, Pending
  <2> QED
    BY <1>5, <2>1, FewerPending DEF ClaimNext
<1>6. CASE Spawn
  BY <1>6, FewerPending DEF Spawn
<1>7. CASE SpawnFails
  <2>1. \A j \in Item : status'[j] \in Pending => status[j] \in Pending
    BY <1>7, FinishNotPending DEF SpawnFails, Terminal, OwnInv, TypeInv
  <2> QED
    BY <1>7, <2>1, FewerPending DEF SpawnFails
<1>8. CASE MarkRunning \/ MarkRunningFails
  <2>1. \A j \in Item : status'[j] \in Pending => status[j] \in Pending
    BY <1>8 DEF MarkRunning, MarkRunningFails, TypeOK, Pending, Active
  <2> QED
    BY <1>8, <2>1, FewerPending DEF MarkRunning, MarkRunningFails
<1>9. ASSUME NEW i \in Item, MonitorExit(i) \/ MonitorFails(i) \/ ReconcileRow(i)
      PROVE  DistinctInv'
  <2>1. \/ UNCHANGED status
        \/ \E outcome \in Terminal : Finish(i, outcome)
    BY <1>9 DEF MonitorExit, MonitorFails, ReconcileRow, Terminal
  <2>2. \A j \in Item : status'[j] \in Pending => status[j] \in Pending
    BY <2>1, FinishNotPending
  <2> QED
    BY <1>9, <2>2, FewerPending DEF MonitorExit, MonitorFails, ReconcileRow
<1>10. ASSUME NEW i \in Item, CliStep(i) PROVE DistinctInv'
  BY <1>10, FewerPending DEF CliStep, CliCheck, CliCreate, CliExit
<1>11. ASSUME NEW w \in Workspace, DeleteStep(w) PROVE DistinctInv'
  <2>1. \A j \in Item : status'[j] \in Pending => status[j] \in Pending
    BY <1>11
       DEF DeleteStep, DeleteCheck, DeleteRefused, DeleteRows, DeleteContainer, Pending, Active
  <2> QED
    BY <1>11, <2>1, FewerPending
       DEF DeleteStep, DeleteCheck, DeleteRefused, DeleteRows, DeleteContainer
<1>12. CASE ServerStops
  BY <1>12 DEF ServerStops, DistinctInv, Serial, NoDuplicateLaunch, TypeOK
<1>13. CASE ServerStarts \/ ReconcileEnds
  BY <1>13, FewerPending DEF ServerStarts, ReconcileEnds
<1>14. CASE UNCHANGED vars
  BY <1>14, FewerPending DEF vars
<1> QED
  BY <1>1, <1>2, <1>3, <1>4, <1>5, <1>6, <1>7, <1>8, <1>9, <1>10, <1>11, <1>12, <1>13,
     <1>14 DEF Next, SchedulerStep

\* Nothing is under way initially.
LEMMA DistinctInit == Init => DistinctInv
BY DEF Init, DistinctInv, Serial, NoDuplicateLaunch, Pending, Active

\* If submissions do not overlap, no two unfinished items are for one workspace, with
\* crashes, faults and deletions too.  The hypothesis is needed: the copy of the active
\* workspaces is taken outside of the transaction that enqueues.
THEOREM LaunchesAreDistinct == SerialSpec => []NoDuplicateLaunch
<1>1. [Next /\ Serial']_vars => [Next]_vars
  OBVIOUS
<1>2. DistinctInv => NoDuplicateLaunch
  BY DEF DistinctInv
<1> QED
  BY <1>1, <1>2, OwnInit, OwnStep, DistinctInit, DistinctStep, PTL DEF SerialSpec

\* What makes a reported completion true: a workspace about to be set up has no
\* container, so no subprocess ends as a conflict, which exits with code 0 too.
SetupInv ==
    /\ \A i \in Item :
        /\ process[i] # "conflict"
        /\ status[i] \in Pending /\ process[i] \in {"none", "checking"} =>
             WorkspaceOf[i] \notin container
    /\ \A b \in Batch : \A i \in accepted[b] : WorkspaceOf[i] \notin container
    /\ NoFalseCompleted

\* A step that neither creates a container, nor moves a subprocess, nor accepts or
\* ends an item keeps that.
LEMMA SetupSame ==
    ASSUME SetupInv, UNCHANGED <<process, accepted>>, container' \subseteq container,
           \A i \in Item : /\ status'[i] \in Pending => status[i] \in Pending
                           /\ status'[i] = "completed" => status[i] = "completed"
    PROVE  SetupInv'
BY DEF SetupInv, NoFalseCompleted

\* A subprocess finds no container, and what it creates is in the way of nobody: its own
\* row is active, so the workspace is nobody else's.
LEMMA SetupCli ==
    ASSUME Faults = FALSE, OwnInv, WatchInv, DistinctInv, SetupInv, NEW i \in Item, CliStep(i)
    PROVE  SetupInv'
<1>t. TypeOK
  BY DEF OwnInv, TypeInv
<1> USE <1>t
<1>0. UNCHANGED <<status, accepted>>
  BY DEF CliStep, CliCheck, CliCreate, CliExit, store, submitter
<1>1. process[i] \in Alive
  BY DEF CliStep, CliCheck, CliCreate, CliExit, Alive
<1>2. status[i] \in Active /\ status[i] \in Pending /\ status[i] # "completed"
  BY <1>1, AliveIsActive DEF Active, Pending
<1>3. CASE CliCheck(i)
  <2>1. WorkspaceOf[i] \notin container
    BY <1>2, <1>3 DEF CliCheck, SetupInv
  <2>2. process' = [process EXCEPT ![i] = "creating"] /\ UNCHANGED container
    BY <1>3, <2>1 DEF CliCheck, Probe
  <2> QED
    BY <1>0, <1>2, <2>2 DEF SetupInv, NoFalseCompleted, TypeOK
<1>4. CASE CliCreate(i)
  <2>1. /\ process' = [process EXCEPT ![i] = "setup"]
        /\ container' = container \cup {WorkspaceOf[i]}
    BY <1>4 DEF CliCreate
  <2>2. ASSUME NEW j \in Item, status[j] \in Pending, j # i
        PROVE  WorkspaceOf[j] # WorkspaceOf[i]
    BY <1>2, <2>2 DEF DistinctInv, NoDuplicateLaunch
  <2>3. ASSUME NEW b \in Batch, NEW j \in accepted[b] PROVE WorkspaceOf[j] # WorkspaceOf[i]
    BY <1>2 DEF DistinctInv
  <2> QED
    BY <1>0, <1>2, <2>1, <2>2, <2>3 DEF SetupInv, NoFalseCompleted, TypeOK
<1>5. CASE CliExit(i)
  <2>1. /\ \E code \in {"exit0", "exit1"} : process' = [process EXCEPT ![i] = code]
        /\ UNCHANGED container
    BY <1>5 DEF CliExit
  <2> QED
    BY <1>0, <1>2, <2>1 DEF SetupInv, NoFalseCompleted, TypeOK
<1> QED
  BY <1>3, <1>4, <1>5 DEF CliStep

\* Every step of a fault-free server that stays up keeps completions true.
LEMMA SetupStep ==
    ASSUME Crashes = FALSE, Faults = FALSE, OwnInv, WatchInv, DistinctInv, SetupInv,
           [Next]_vars
    PROVE  SetupInv'
<1>t. TypeOK /\ ThreadsOwnRows
  BY DEF OwnInv, TypeInv
<1> USE <1>t DEF store, submitter, threads, docker
<1>1. ASSUME NEW b \in Batch, SubmitBegin(b) PROVE SetupInv'
  BY <1>1, SetupSame DEF SubmitBegin
<1>2. ASSUME NEW b \in Batch, NEW i \in Item, SubmitRow(b, i) PROVE SetupInv'
  <2>1. UNCHANGED <<status, process, container>>
    BY <1>2 DEF SubmitRow
  <2>2. \/ UNCHANGED accepted
        \/ /\ accepted' = [accepted EXCEPT ![b] = @ \cup {i}]
           /\ WorkspaceOf[i] \notin container
    BY <1>2 DEF SubmitRow, Probe, TypeOK
  <2> QED
    BY <2>1, <2>2 DEF SetupInv, NoFalseCompleted, TypeOK
<1>3. ASSUME NEW b \in Batch, Enqueue(b) PROVE SetupInv'
  <2>1. /\ status' = [i \in Item |-> IF i \in accepted[b] THEN "queued" ELSE status[i]]
        /\ accepted' = [accepted EXCEPT ![b] = {}] /\ UNCHANGED <<process, container>>
    BY <1>3 DEF Enqueue, SubmitEnds
  <2> QED
    BY <2>1 DEF SetupInv, NoFalseCompleted, TypeOK
<1>4. ASSUME NEW i \in Item, ClaimNext(i) PROVE SetupInv'
  <2>1. \A j \in Item : /\ status'[j] \in Pending => status[j] \in Pending
                        /\ status'[j] = "completed" => status[j] = "completed"
    BY <1>4 DEF ClaimNext, Claimable, TypeOK, Pending
  <2> QED
    BY <1>4, <2>1, SetupSame DEF ClaimNext
<1>5. CASE Spawn
  <2>1. current \in Item /\ status[current] = "launching" /\ process[current] = "none"
    BY <1>5 DEF Spawn, ThreadsOwnRows
  <2>2. process' = [process EXCEPT ![current] = "checking"]
        /\ UNCHANGED <<status, accepted, container>>
    BY <1>5 DEF Spawn
  <2> QED
    BY <2>1, <2>2 DEF SetupInv, NoFalseCompleted, TypeOK, Pending, Active
<1>6. CASE MarkRunning
  <2>1. \A j \in Item : /\ status'[j] \in Pending => status[j] \in Pending
                        /\ status'[j] = "completed" => status[j] = "completed"
    BY <1>6 DEF MarkRunning, TypeOK, Pending, Active
  <2> QED
    BY <1>6, <2>1, SetupSame DEF MarkRunning
<1>7. ASSUME NEW i \in Item, MonitorExit(i) PROVE SetupInv'
  <2>1. process[i] \in {"exit0", "exit1"}
    BY <1>7 DEF MonitorExit, Exited, SetupInv
  <2>2. PICK outcome \in Terminal :
            Finish(i, outcome) /\ (outcome = "completed" => process[i] = "exit0")
    BY <1>7, <2>1 DEF MonitorExit, Terminal
  <2>3. status' = [status EXCEPT ![i] = outcome]
    BY <1>7, <2>2, FinishEnds DEF MonitorExit, ThreadsOwnRows, Active
  <2>4. UNCHANGED <<process, accepted, container>>
    BY <1>7 DEF MonitorExit
  <2> QED
    BY <2>2, <2>3, <2>4 DEF SetupInv, NoFalseCompleted, TypeOK, Terminal, Pending, Active
<1>8. ASSUME NEW i \in Item, CliStep(i) PROVE SetupInv'
  BY <1>8, SetupCli
<1>9. ASSUME NEW w \in Workspace, DeleteStep(w) PROVE SetupInv'
  <2>1. \A j \in Item : /\ status'[j] \in Pending => status[j] \in Pending
                        /\ status'[j] = "completed" => status[j] = "completed"
    BY <1>9
       DEF DeleteStep, DeleteCheck, DeleteRefused, DeleteRows, DeleteContainer, Pending, Active
  <2> QED
    BY <1>9, <2>1, SetupSame
       DEF DeleteStep, DeleteCheck, DeleteRefused, DeleteRows, DeleteContainer
<1>10. CASE UNCHANGED vars
  BY <1>10, SetupSame DEF vars
<1> QED
  BY <1>1, <1>2, <1>3, <1>4, <1>5, <1>6, <1>7, <1>8, <1>9, <1>10
     DEF Next, SchedulerStep, EnqueueFails, SpawnFails, MarkRunningFails, MonitorFails,
         ServerStops, ServerStarts, ReconcileEnds, ReconcileRow, WatchInv

\* If submissions do not overlap and nothing fails, an item is reported completed only
\* of a setup that ran: exit code 0 of a run refused for an existing container, which
\* the monitor would take for a completion, does not happen.
THEOREM CompletionsAreTrue ==
    ASSUME Crashes = FALSE, Faults = FALSE
    PROVE  SerialSpec => []NoFalseCompleted
<1>1. [Next /\ Serial']_vars => [Next]_vars
  OBVIOUS
<1>2. Init => SetupInv
  BY DEF Init, SetupInv, NoFalseCompleted, Pending, Active
<1>3. OwnInv /\ WatchInv /\ [Next]_vars => WatchInv'
  BY WatchStep
<1>4. OwnInv /\ WatchInv /\ DistinctInv /\ SetupInv /\ [Next]_vars => SetupInv'
  BY SetupStep
<1>5. SetupInv => NoFalseCompleted
  BY DEF SetupInv
<1> QED
  BY <1>1, <1>2, <1>3, <1>4, <1>5, OwnInit, OwnStep, DistinctInit, DistinctStep, WatchInit,
     PTL DEF SerialSpec
=============================================================================
