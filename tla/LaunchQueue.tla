----------------------------- MODULE LaunchQueue -----------------------------
(***************************************************************************)
(* The batch launcher of the Web UI: a SQLite table of launch items, the   *)
(* HTTP threads that submit batches and delete workspaces, the scheduler   *)
(* thread that claims an item and starts `sag project` as a subprocess,    *)
(* one monitor thread per subprocess, and the restart of the UI server.    *)
(*                                                                         *)
(* Every store method runs in one BEGIN IMMEDIATE transaction and is one   *)
(* action or part of one.  What a thread does between two transactions,    *)
(* Docker probes and the spawn included, is interleaved with the others.   *)
(* A subprocess is started in a session of its own and outlives the server.*)
(***************************************************************************)
EXTENDS Naturals, FiniteSets

CONSTANTS
    Batch,       \* the batch requests users submit; each is submitted once
    Item,        \* their rows, which become launch items when accepted
    Workspace,   \* docker labels, named sag-<label>
    BatchOf,     \* the batch of an item
    RowOf,       \* its row_index
    WorkspaceOf, \* its workspace; outside Workspace: a URL without a name
    Concurrency, \* the concurrency a batch asks for
    GlobalCap,   \* the cap on active items across all batches
    Seconds,     \* the readings of the wall clock, a bound on created_at
    Crashes,     \* whether the UI server may stop or crash
    Faults,      \* whether Docker, spawning and SQLite may fail, and pids recur
    NoItem       \* no item

ASSUME LaunchAssumption ==
    /\ IsFiniteSet(Item)
    /\ BatchOf \in [Item -> Batch]
    /\ RowOf \in [Item -> Nat]
    /\ Concurrency \in [Batch -> Nat \ {0}]
    /\ GlobalCap \in Nat \ {0}
    /\ Seconds \subseteq Nat
    /\ Crashes \in BOOLEAN
    /\ Faults \in BOOLEAN
    /\ NoItem \notin Item

VARIABLES
    status,     \* launch_items.status; "absent": no such row
    hasPid,     \* launch_items.pid is set
    batchRow,   \* launch_batches.status; "absent": no such row
    created,    \* created_at of a batch, in seconds
    submit,     \* where the HTTP thread that submits a batch stands
    active,     \* its copy of active_workspace_ids
    unread,     \* the rows it has not examined
    accepted,   \* the rows it will enqueue
    server,     \* the UI server process
    stale,      \* the rows reconcile_stale has still to resolve
    scheduler,  \* where the scheduler thread stands
    current,    \* the item it has claimed
    monitored,  \* the items a monitor thread waits for
    deleting,   \* where the HTTP thread that deletes a workspace stands
    process,    \* the subprocess of an item
    container   \* the workspaces that have a container

store == <<status, hasPid, batchRow>>
submitter == <<created, submit, active, unread, accepted>>
threads == <<scheduler, current, monitored>>
docker == <<process, container>>
vars == <<store, submitter, server, stale, threads, deleting, docker>>

Active == {"launching", "running"}
Pending == Active \cup {"queued"}
Terminal == {"completed", "failed"}
Statuses == Pending \cup Terminal \cup {"absent"}
Alive == {"checking", "creating", "setup"}
Exited == {"conflict", "exit0", "exit1"}  \* a conflict exits with code 0

ItemsOf(b) == {i \in Item : BatchOf[i] = b}
ActiveItems == {i \in Item : status[i] \in Active}
ActiveIn(b) == {i \in ActiveItems : BatchOf[i] = b}

Init ==
    /\ status = [i \in Item |-> "absent"]
    /\ hasPid = [i \in Item |-> FALSE]
    /\ batchRow = [b \in Batch |-> "absent"]
    /\ created = [b \in Batch |-> 0]
    /\ submit = [b \in Batch |-> "new"]
    /\ active = [b \in Batch |-> {}]
    /\ unread = [b \in Batch |-> {}]
    /\ accepted = [b \in Batch |-> {}]
    /\ server = "up"
    /\ stale = {}
    /\ scheduler = "idle"
    /\ current = NoItem
    /\ monitored = {}
    /\ deleting = [w \in Workspace |-> "no"]
    /\ process = [i \in Item |-> "none"]
    /\ container = {}

-----------------------------------------------------------------------------
(* Variants that plausible bugs would produce.  No action uses them: a run     *)
(* put over one of them must find the property named with it violated.         *)

\* TypeOK: a batch takes the status of any one of its items.
RefreshedFromOne(b, st) == st[CHOOSE i \in ItemsOf(b) : st[i] # "absent"]

\* BatchStatusDerived: a deletion forgets the batches it takes items from.
AfterDeleteKeeps(b, gone, st) == batchRow[b]

\* NoDuplicateLaunch, NoFalseCompleted: a queued launch is not in progress.
ActiveWorkspacesStarted == {WorkspaceOf[i] : i \in ActiveItems}

\* ThreadsOwnRows, ActiveRowsStay: an item being started does not count as busy.
BusyIfRunning(w) == \E i \in Item : status[i] = "running" /\ WorkspaceOf[i] = w

\* ProcessCap, CapacityRespected with batches that together ask for more than the
\* cap: one item too many.
HasCapacityAtCap == Cardinality(ActiveItems) <= GlobalCap

\* CapacityRespected with a batch that asks for less than the cap: its concurrency
\* is forgotten; QueueDrains: it is off by one.
ClaimableAnyway(i) == status[i] = "queued"
ClaimableTooLate(i) ==
    /\ status[i] = "queued"
    /\ Cardinality(ActiveIn(BatchOf[i])) + 1 < Concurrency[BatchOf[i]]

\* QueueResumes: the oldest queued item is claimed or none.
ClaimableAtHead(i) ==
    /\ status[i] = "queued"
    /\ Cardinality(ActiveIn(BatchOf[i])) < Concurrency[BatchOf[i]]
    /\ \A j \in Item :
         /\ status[j] = "queued"
         /\ created[BatchOf[j]] = created[BatchOf[i]]
         => RowOf[i] <= RowOf[j]

\* TerminalIsFinal: a restart resolves the finished rows again.
UnfinishedItemsOrEnded == {i \in Item : status[i] \notin {"absent", "queued"}}

\* NoLeakedCapacity: a row whose pid was never written counts as alive.
PidAliveWithout(i) == IF ~hasPid[i] THEN {TRUE} ELSE {process[i] \in Alive}

-----------------------------------------------------------------------------
(* The store. *)

\* _refresh_batch_status: what the status of b becomes when the items are in st.
Refreshed(b, st) ==
    IF \E i \in ItemsOf(b) : st[i] \in Pending THEN "running"
    ELSE IF \E i \in ItemsOf(b) : st[i] = "failed" THEN "failed"
    ELSE "completed"

\* What is left of the row of batch b once the items in gone are deleted.
AfterDelete(b, gone, st) ==
    IF b \notin {BatchOf[i] : i \in gone} THEN batchRow[b]
    ELSE IF \A i \in ItemsOf(b) : st[i] = "absent" THEN "absent"
    ELSE Refreshed(b, st)

\* _finish: the UPDATE asks for the item only, not for the status it had.
Finish(i, outcome) ==
    IF status[i] = "absent"
    THEN UNCHANGED <<status, batchRow>>
    ELSE /\ status' = [status EXCEPT ![i] = outcome]
         /\ batchRow' = [batchRow EXCEPT ![BatchOf[i]] =
                            Refreshed(BatchOf[i], status')]

\* active_workspace_ids: the workspaces with an unfinished item.
ActiveWorkspaces == {WorkspaceOf[i] : i \in {j \in Item : status[j] \in Pending}}

\* is_workspace_busy, and the guard inside delete_workspace_items.
Busy(w) == \E i \in ActiveItems : WorkspaceOf[i] = w

\* container_exists: an error of the Docker client is logged and read as "no".
Probe(w) == {w \in container} \cup (IF Faults THEN {FALSE} ELSE {})

-----------------------------------------------------------------------------
(* submit_batch, in an HTTP thread. *)

\* The creation stamp, local time in whole seconds, which two batches can share
\* and which can step back; and the copy of the active workspaces.
SubmitBegin(b) ==
    /\ server = "up"
    /\ submit[b] = "new"
    /\ \E t \in Seconds : created' = [created EXCEPT ![b] = t]
    /\ active' = [active EXCEPT ![b] = ActiveWorkspaces]
    /\ unread' = [unread EXCEPT ![b] = ItemsOf(b)]
    /\ submit' = [submit EXCEPT ![b] = "rows"]
    /\ UNCHANGED <<store, accepted, server, stale, threads, deleting, docker>>

\* One row: no workspace name, a duplicate in the batch, a launch in progress
\* according to the copy, or an existing container reject it.
SubmitRow(b, i) ==
    /\ server = "up"
    /\ submit[b] = "rows"
    /\ i \in unread[b]
    /\ \A j \in unread[b] : RowOf[i] <= RowOf[j]
    /\ unread' = [unread EXCEPT ![b] = @ \ {i}]
    /\ IF /\ WorkspaceOf[i] \in Workspace
          /\ WorkspaceOf[i] \notin {WorkspaceOf[j] : j \in accepted[b]}
          /\ WorkspaceOf[i] \notin active[b]
       THEN \E exists \in Probe(WorkspaceOf[i]) :
              accepted' = [accepted EXCEPT ![b] = IF exists THEN @ ELSE @ \cup {i}]
       ELSE UNCHANGED accepted
    /\ UNCHANGED <<store, created, submit, active, server, stale, threads,
                   deleting, docker>>

\* The request is answered and the thread's own copies are gone.
SubmitEnds(b) ==
    /\ submit' = [submit EXCEPT ![b] = "done"]
    /\ active' = [active EXCEPT ![b] = {}]
    /\ unread' = [unread EXCEPT ![b] = {}]
    /\ accepted' = [accepted EXCEPT ![b] = {}]

\* enqueue_batch, if a row was accepted.
Enqueue(b) ==
    /\ server = "up"
    /\ submit[b] = "rows"
    /\ unread[b] = {}
    /\ status' = [i \in Item |-> IF i \in accepted[b] THEN "queued" ELSE status[i]]
    /\ batchRow' = IF accepted[b] = {} THEN batchRow
                   ELSE [batchRow EXCEPT ![b] = "running"]
    /\ SubmitEnds(b)
    /\ UNCHANGED <<hasPid, created, server, stale, threads, deleting, docker>>

\* The transaction is refused and the request answered with an error.
EnqueueFails(b) ==
    /\ Faults
    /\ server = "up"
    /\ submit[b] = "rows"
    /\ SubmitEnds(b)
    /\ UNCHANGED <<store, created, server, stale, threads, deleting, docker>>

-----------------------------------------------------------------------------
(* The scheduler thread.  A pass that claims nothing changes no state. *)

HasCapacity == Cardinality(ActiveItems) < GlobalCap

Claimable(i) ==
    /\ status[i] = "queued"
    /\ Cardinality(ActiveIn(BatchOf[i])) < Concurrency[BatchOf[i]]

Before(i, j) ==
    \/ created[BatchOf[i]] < created[BatchOf[j]]
    \/ /\ created[BatchOf[i]] = created[BatchOf[j]]
       /\ RowOf[i] < RowOf[j]

\* claim_next: items with the same stamp and row are ordered by a random id.
ClaimNext(i) ==
    /\ server = "up"
    /\ scheduler = "idle"
    /\ HasCapacity
    /\ Claimable(i)
    /\ \A j \in Item : Claimable(j) => ~Before(j, i)
    /\ status' = [status EXCEPT ![i] = "launching"]
    /\ scheduler' = "spawn"
    /\ current' = i
    /\ UNCHANGED <<hasPid, batchRow, submitter, server, stale, monitored,
                   deleting, docker>>

Spawn ==
    /\ server = "up"
    /\ scheduler = "spawn"
    /\ process' = [process EXCEPT ![current] = "checking"]
    /\ scheduler' = "mark"
    /\ UNCHANGED <<store, submitter, server, stale, current, monitored,
                   deleting, container>>

\* The spawn fails and the item is marked failed, unless that fails too.
SpawnFails ==
    /\ Faults
    /\ server = "up"
    /\ scheduler = "spawn"
    /\ Finish(current, "failed") \/ UNCHANGED <<status, batchRow>>
    /\ scheduler' = "idle"
    /\ current' = NoItem
    /\ UNCHANGED <<hasPid, submitter, server, stale, monitored, deleting, docker>>

\* mark_running writes only a launching row; then the monitor thread starts.
MarkRunning ==
    /\ server = "up"
    /\ scheduler = "mark"
    /\ IF status[current] = "launching"
       THEN /\ status' = [status EXCEPT ![current] = "running"]
            /\ hasPid' = [hasPid EXCEPT ![current] = TRUE]
       ELSE UNCHANGED <<status, hasPid>>
    /\ monitored' = monitored \cup {current}
    /\ scheduler' = "idle"
    /\ current' = NoItem
    /\ UNCHANGED <<batchRow, submitter, server, stale, deleting, docker>>

\* mark_running raises, or the start of the thread after it does: _loop logs it,
\* and the subprocess gets no monitor.
MarkRunningFails ==
    /\ Faults
    /\ server = "up"
    /\ scheduler = "mark"
    /\ \/ UNCHANGED <<status, hasPid>>
       \/ /\ status[current] = "launching"
          /\ status' = [status EXCEPT ![current] = "running"]
          /\ hasPid' = [hasPid EXCEPT ![current] = TRUE]
    /\ scheduler' = "idle"
    /\ current' = NoItem
    /\ UNCHANGED <<batchRow, submitter, server, stale, monitored, deleting, docker>>

-----------------------------------------------------------------------------
(* The monitor threads. *)

MonitorExit(i) ==
    /\ server = "up"
    /\ i \in monitored
    /\ process[i] \in Exited
    /\ Finish(i, IF process[i] = "exit1" THEN "failed" ELSE "completed")
    /\ monitored' = monitored \ {i}
    /\ UNCHANGED <<hasPid, submitter, server, stale, scheduler, current,
                   deleting, docker>>

\* process.wait raises, or the transaction that records the end does.
MonitorFails(i) ==
    /\ Faults
    /\ server = "up"
    /\ i \in monitored
    /\ Finish(i, "failed") \/ UNCHANGED <<status, batchRow>>
    /\ monitored' = monitored \ {i}
    /\ UNCHANGED <<hasPid, submitter, server, stale, scheduler, current,
                   deleting, docker>>

-----------------------------------------------------------------------------
(* delete_workspace, in an HTTP thread. *)

DeleteCheck(w) ==
    /\ server = "up"
    /\ deleting[w] = "no"
    /\ ~Busy(w)
    /\ deleting' = [deleting EXCEPT ![w] = "checked"]
    /\ UNCHANGED <<store, submitter, server, stale, threads, docker>>

\* The Docker daemon does not answer, or the workspace has become busy.
DeleteRefused(w) ==
    /\ server = "up"
    /\ deleting[w] = "checked"
    /\ Faults \/ Busy(w)
    /\ deleting' = [deleting EXCEPT ![w] = "no"]
    /\ UNCHANGED <<store, submitter, server, stale, threads, docker>>

\* delete_workspace_items: queued and finished rows go, emptied batches too.
DeleteRows(w) ==
    /\ server = "up"
    /\ deleting[w] = "checked"
    /\ ~Busy(w)
    /\ LET gone == {i \in Item : WorkspaceOf[i] = w /\ status[i] # "absent"}
       IN /\ status' = [i \in Item |-> IF i \in gone THEN "absent" ELSE status[i]]
          /\ batchRow' = [b \in Batch |-> AfterDelete(b, gone, status')]
    /\ deleting' = [deleting EXCEPT ![w] = "rows"]
    /\ UNCHANGED <<hasPid, submitter, server, stale, threads, docker>>

DeleteContainer(w) ==
    /\ server = "up"
    /\ deleting[w] = "rows"
    /\ \/ container' = container \ {w}
       \/ Faults /\ UNCHANGED container
    /\ deleting' = [deleting EXCEPT ![w] = "no"]
    /\ UNCHANGED <<store, submitter, server, stale, threads, process>>

-----------------------------------------------------------------------------
(* The subprocess, `sag project`. *)

\* An existing container ends the run with exit code 0 and no setup.
CliCheck(i) ==
    /\ process[i] = "checking"
    /\ \E exists \in Probe(WorkspaceOf[i]) :
         process' = [process EXCEPT ![i] = IF exists THEN "conflict" ELSE "creating"]
    /\ UNCHANGED <<store, submitter, server, stale, threads, deleting, container>>

\* create_and_start_container: a container that exists by now is used.
CliCreate(i) ==
    /\ process[i] = "creating"
    /\ process' = [process EXCEPT ![i] = "setup"]
    /\ container' = container \cup {WorkspaceOf[i]}
    /\ UNCHANGED <<store, submitter, server, stale, threads, deleting>>

\* The setup ends; without its container it can only fail.
CliExit(i) ==
    /\ \/ /\ process[i] = "setup"
          /\ WorkspaceOf[i] \in container
          /\ process' = [process EXCEPT ![i] = "exit0"]
       \/ /\ process[i] \in Alive
          /\ process' = [process EXCEPT ![i] = "exit1"]
    /\ UNCHANGED <<store, submitter, server, stale, threads, deleting, container>>

-----------------------------------------------------------------------------
(* The UI server stops, or crashes, and starts again. *)

\* Its threads end where they stand; the store and the subprocesses stay.
ServerStops ==
    /\ Crashes
    /\ server # "down"
    /\ server' = "down"
    /\ stale' = {}
    /\ scheduler' = "idle"
    /\ current' = NoItem
    /\ monitored' = {}
    /\ deleting' = [w \in Workspace |-> "no"]
    /\ submit' = [b \in Batch |-> IF submit[b] = "rows" THEN "done" ELSE submit[b]]
    /\ accepted' = [b \in Batch |-> {}]
    /\ unread' = [b \in Batch |-> {}]
    /\ active' = [b \in Batch |-> {}]
    /\ UNCHANGED <<store, created, docker>>

UnfinishedItems == ActiveItems

\* reconcile_stale reads the unfinished rows; no request is served before it ends.
ServerStarts ==
    /\ server = "down"
    /\ server' = "reconcile"
    /\ stale' = UnfinishedItems
    /\ UNCHANGED <<store, submitter, threads, deleting, docker>>

\* The answers of the liveness test of a row's pid.  The pid of a subprocess that
\* has exited may belong to another process by now.
PidAlive(i) ==
    IF ~hasPid[i] THEN {FALSE}
    ELSE {process[i] \in Alive} \cup (IF Faults THEN {TRUE} ELSE {})

\* A row whose pid is alive is left alone; the others are resolved.
ReconcileRow(i) ==
    /\ server = "reconcile"
    /\ i \in stale
    /\ stale' = stale \ {i}
    /\ \E alive \in PidAlive(i), exists \in Probe(WorkspaceOf[i]) :
         IF alive THEN UNCHANGED <<status, batchRow>>
         ELSE Finish(i, IF exists THEN "completed" ELSE "failed")
    /\ UNCHANGED <<hasPid, submitter, server, threads, deleting, docker>>

\* The scheduler thread starts, after a reconciliation that failed half-way too.
ReconcileEnds ==
    /\ server = "reconcile"
    /\ stale = {} \/ Faults
    /\ server' = "up"
    /\ stale' = {}
    /\ UNCHANGED <<store, submitter, threads, deleting, docker>>

-----------------------------------------------------------------------------
SchedulerStep ==
    \/ \E i \in Item : ClaimNext(i)
    \/ Spawn \/ SpawnFails \/ MarkRunning \/ MarkRunningFails

CliStep(i) == CliCheck(i) \/ CliCreate(i) \/ CliExit(i)

DeleteStep(w) ==
    DeleteCheck(w) \/ DeleteRefused(w) \/ DeleteRows(w) \/ DeleteContainer(w)

Next ==
    \/ \E b \in Batch : SubmitBegin(b) \/ Enqueue(b) \/ EnqueueFails(b)
    \/ \E b \in Batch : \E i \in Item : SubmitRow(b, i)
    \/ SchedulerStep
    \/ \E i \in Item : MonitorExit(i) \/ MonitorFails(i) \/ CliStep(i)
    \/ \E w \in Workspace : DeleteStep(w)
    \/ ServerStops \/ ServerStarts \/ ReconcileEnds
    \/ \E i \in Item : ReconcileRow(i)

Spec == Init /\ [][Next]_vars

\* The threads of a running server are scheduled, the subprocess ends, and a
\* stopped server is started again.
Fairness ==
    /\ WF_vars(SchedulerStep)
    /\ \A i \in Item : WF_vars(MonitorExit(i)) /\ WF_vars(CliStep(i))
    /\ \A i \in Item : WF_vars(ReconcileRow(i))
    /\ WF_vars(ReconcileEnds)
    /\ WF_vars(ServerStarts)

FairSpec == Spec /\ Fairness

\* Submissions that do not overlap: no two HTTP threads are between the copy of
\* the active workspaces and the transaction that enqueues their rows.
Serial == \A b, c \in Batch : submit[b] = "rows" /\ submit[c] = "rows" => b = c
SerialSpec == Init /\ [][Next /\ Serial']_vars /\ Fairness

-----------------------------------------------------------------------------
(* Properties. *)

TypeOK ==
    /\ status \in [Item -> Statuses]
    /\ hasPid \in [Item -> BOOLEAN]
    /\ batchRow \in [Batch -> {"absent", "running", "completed", "failed"}]
    /\ created \in [Batch -> Nat]
    /\ submit \in [Batch -> {"new", "rows", "done"}]
    /\ active \in [Batch -> SUBSET {WorkspaceOf[i] : i \in Item}]
    /\ unread \in [Batch -> SUBSET Item]
    /\ accepted \in [Batch -> SUBSET Item]
    /\ server \in {"up", "down", "reconcile"}
    /\ stale \subseteq Item
    /\ scheduler \in {"idle", "spawn", "mark"}
    /\ current \in Item \cup {NoItem}
    /\ monitored \subseteq Item
    /\ deleting \in [Workspace -> {"no", "checked", "rows"}]
    /\ process \in [Item -> {"none"} \cup Alive \cup Exited]
    /\ container \subseteq {WorkspaceOf[i] : i \in Item}

\* The hard cap and every batch's concurrency bound the claimed items, whatever
\* the interleaving of claims, ends, deletions and restarts.
CapacityRespected ==
    /\ Cardinality(ActiveItems) <= GlobalCap
    /\ \A b \in Batch : Cardinality(ActiveIn(b)) <= Concurrency[b]

\* A thread that will write a row finds it as it left it: what a monitor waits
\* for is running, what the scheduler starts is launching.  _finish and the
\* start of the monitor test no status and rely on this.
ThreadsOwnRows ==
    /\ \A i \in monitored : status[i] = "running" /\ hasPid[i] /\ process[i] # "none"
    /\ scheduler # "idle" => current \in Item /\ status[current] = "launching"
    /\ scheduler = "spawn" => process[current] = "none"
    /\ server = "up" \/ (monitored = {} /\ scheduler = "idle")

\* The stored status of a batch is the one its items imply, and a batch without
\* items has no row.
BatchStatusDerived ==
    \A b \in Batch :
        batchRow[b] = IF \A i \in ItemsOf(b) : status[i] = "absent" THEN "absent"
                      ELSE Refreshed(b, status)

\* A recorded end is never overwritten, by a late monitor or by a restart; only
\* a deletion takes it away.
TerminalIsFinal ==
    [][\A i \in Item : status[i] \in Terminal => status'[i] \in {status[i], "absent"}]_vars

\* A deletion never takes an active row: its threads would write to nothing and
\* its capacity would be given away.
ActiveRowsStay ==
    [][\A i \in Item : status[i] \in Active => status'[i] # "absent"]_vars

\* Without faults no capacity leaks: at a running server an active row has a
\* thread that will end it, or is a subprocess of an earlier server.
NoLeakedCapacity ==
    server = "up" =>
        \A i \in ActiveItems :
            \/ i \in monitored
            \/ i = current /\ status[i] = "launching"
            \/ status[i] = "running" /\ hasPid[i]

\* No more setup subprocesses are alive than the hard cap allows.
ProcessCap == Cardinality({i \in Item : process[i] \in Alive}) <= GlobalCap

\* Of two unfinished items, no two are for the same workspace.
NoDuplicateLaunch ==
    \A i, j \in Item :
        /\ status[i] \in Pending /\ status[j] \in Pending
        /\ WorkspaceOf[i] = WorkspaceOf[j]
        => i = j

\* An item reported completed did run its setup.
NoFalseCompleted == \A i \in Item : status[i] = "completed" => process[i] = "exit0"

\* A deletion never removes the container of a workspace that is being set up.
NoOrphanedLaunch ==
    [][\A w \in Workspace :
         w \in container /\ w \notin container' => ~Busy(w)]_vars

\* Every accepted item ends, unless it is deleted first.
QueueDrains ==
    \A i \in Item : status[i] = "queued" ~> status[i] \in Terminal \cup {"absent"}

\* The rows no thread of this server waits for: they hold capacity until a restart.
Pinned == {i \in ActiveItems : i \notin monitored /\ i # current}

\* The pinned rows leave a place for i, under the cap and in its batch.
RoomFor(i) ==
    /\ Cardinality(Pinned) < GlobalCap
    /\ Cardinality(Pinned \cap ItemsOf(BatchOf[i])) < Concurrency[BatchOf[i]]

\* The queue of an earlier server drains: once a restarted server stays up, every
\* item ends for which the pinned rows leave room, also behind a batch that they
\* keep full for good.
QueueResumes ==
    \A i \in Item :
        <>[](server = "up" /\ RoomFor(i)) =>
            (status[i] = "queued" ~> status[i] \in Terminal \cup {"absent"})
=============================================================================
