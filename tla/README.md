# Verification of SAG (Setup-Agent)

TLA+ models of SAG, the agent that clones a repository into a Docker container,
builds it, runs its tests and reports what it could verify, and of the Web UI
that launches such runs in batches. The models are translated from the Python
sources under `src/sag`; TLC checks them on small instances and TLAPS proves
theorems about them for every value of their parameters.

## The system

### Inventory

| Component | State it keeps | Operations | Correct when |
|---|---|---|---|
| Batch launcher (`web/launch_queue.py`, `launch_service.py`, `launch_runner.py`) | a SQLite table of items and one of batches; one scheduler thread, one monitor thread per subprocess | submit a batch, claim the next item, spawn, mark running, record an end, reconcile at start | caps hold, no row is written by a thread that does not own it, ends are final, nothing is launched twice, everything accepted ends |
| Workspace deletion (`web/workspace_service.py`) | none; rows and a container | delete the rows, then the container | a workspace that is being set up is not deleted |
| Run engine (`agent/react_engine.py`, `agent/agent.py`) | the turn counter, the window of steps, the clock | one model turn, a batch of tool calls, phase signals, floors, close, abort, cancel | a run ends, with a sealed and persisted verdict that tells why |
| Phase machine and policy (`agent/phase_machine.py`, `agent/phase_transitions.py`) | the attempt records and the current phase | close an attempt, advance, repair, evidence-close, skip | phases follow their prerequisites, repairs are bounded |
| Gates (`agent/phase_gates.py`, `agent/attempt_policy.py`, `tools/phase_tool.py`) | none | grade a claim, ask for the mandatory test attempt | no outcome better than the evidence, none while a job is unsettled |
| Evidence state and verdict (`agent/evidence_state.py`, `agent/verdict_finalizer.py`) | facts, blockers, records, conflicts, the seal | record, seal, persist the snapshot | nothing enters after the seal; the snapshot is the sealed state |
| Ledger of detached jobs (`agent/job_obligations.py`, dispatch in `docker_orch/orch.py`) | an obligation, a receipt, pid, log and exit files per job; the settlements announced | dispatch, hold and poll, hand off, settle, announce | each job that ends is settled and announced or named on the verdict; each report content is counted as written once |
| Receipts (`agent/invocation_receipts.py`) | one file per invocation in the container, an ordinal per process | snapshot, compare, file | one order of claims, no double count, nothing left to nobody |
| Claims and assessments (`claim_records.py`, `evidence_assessments.py`) | append-only records in the container | write, read, supersede | written once per identity (not modelled) |
| Loop memory (`agent/loop_memory.py`) and the engine's books of it | a chain of recurrences per call and outcome, the armed chain, active blockers, poll cursors | observe a call, a poll or a repair request; guide, break, close the phase | a repeated failure climbs, a changed state starts again, blockers stand until progress lifts them |
| Retry authority (`retry_authority.py`, `repair_contracts.py`) | a ledger of failed builds, proposals | sign a failure, refuse an identical repeat | a failed build is not repeated without a material change (not modelled) |
| Session index and tasks (`web/session_registry.py`, `session_mirror.py`, `task_runner.py`) | one JSON file per workspace in the container, its mirror on the host, the memory of sessions not found, one lock | mark a session started or finished, run its agent, show it | no session is lost, none is shown with an end it did not have, the lock is handed on |
| Control events (`agent/control_events.py`, `agent/replay.py`) | an append-only journal | emit, replay | sequence numbers are contiguous |
| Verdict kernel (`verdict.py`, `evidence.py`) | none | fold observations | monotone, order-independent where it says so |
| Physical survey and validator, build tools, report layout, prompts, terminal UI, front end | none of their own | probes, parsers, formatting | (not modelled) |

### How the parts interact

The Web UI's HTTP threads write launch items; its scheduler thread claims them
and starts `sag project` as a subprocess in a session of its own, so that a run
survives the server. The CLI runs one engine thread. The engine asks the model
for calls and executes them in order. A long command is detached in the container
and becomes a job with an obligation in the ledger; jobs end when they end. The
`phase` tool grades a claim through the gate, which settles the ledger first; the
engine then routes the claim through the phase machine and the policy. The test
phase closes the evidence: the engine waits for jobs, settles, names what is
left, seals the evidence state and persists the snapshot of the verdict. Only then
is the report allowed. An abort or a cancellation takes the same close without
the wait.

Every observed call goes through the loop memory as well, whose decision comes
back into the conversation, into the evidence state as a blocker, or closes the
phase. Every finished invocation, and every settled job, files a receipt that
claims the test reports it wrote; the verdict counts what receipts claim.

A task submitted in the Web UI to a workspace that exists is not queued as a
launch: the HTTP thread lists it in the workspace's index, a thread runs its
agent under a lock common to all workspaces and lists its end, and pages read the
index through a mirror.

### What is hard

Threads and processes that interleave between transactions; a server that dies
between a spawn and its record; a stored pid that means something else later; a
deletion in two steps; jobs that exit between the settlement, the grading and the
seal; aborts inside aborts; a container that stops answering around a write; the
last turns of a run, for which floors, forced test runs and repairs compete;
signals of one turn of which only one is handled; two jobs that write the same
report and end in the same window; a settlement that has filed its receipt and
fails to book it; a file that two threads read, change and write back; a page that
is served from memory; a ladder of warnings that other events interrupt.
PROJECT.json lists each hazard at
its line, with the properties that look for it.

## Modules

| Module | Models | Used by |
|---|---|---|
| `LaunchQueue` | the batch launcher, workspace deletion, and of `sag project` what the launcher sees | `MCLaunchQueue`, `LaunchQueue_proofs` |
| `PhaseRun` | one run: engine, phase machine, policy, gates, ledger as the phases see it, seal, close | `MCPhaseRun`, `PhaseRun_proofs` |
| `JobLedger` | runner commands, detached jobs, their receipts and the report files they claim | `MCJobLedger`, `JobLedger_proofs` |
| `JobPool` | the abstract promise of that ledger | `JobLedger` (refinement) |
| `LoopMemory` | the recurrence memory and the books the engine keeps from it | `MCLoopMemory`, `LoopMemory_proofs` |
| `SessionIndex` | tasks of a workspace, their index, its mirror, the page | `MCSessionIndex`, `SessionIndex_proofs` |
| `MC...` | instances for TLC | the `.cfg` files of the same name or prefix |
| `..._proofs` | theorems about the module of that name | |

### LaunchQueue

Every store method is one `BEGIN IMMEDIATE` transaction, so it is one action.
What a thread does between two transactions is interleaved with everything else:
a submission reads the active workspaces (`SubmitBegin`), probes Docker row by
row (`SubmitRow`) and enqueues (`Enqueue`); the scheduler claims (`ClaimNext`), spawns
(`Spawn`) and marks (`MarkRunning`); a deletion asks (`DeleteCheck`), deletes the
rows under a guard in the same transaction (`DeleteRows`) and then removes the
container (`DeleteContainer`). The subprocess checks for a container, creates it
and works (`CliCheck`, `CliCreate`, `CliExit`); a conflict exits with code 0,
as `main.py` does. `MarkRunningFails` is a `mark_running` that raises, or a thread that does
not start after it has committed. `ServerStops` ends all threads where they stand,
`ServerStarts`, `ReconcileRow` and `ReconcileEnds` are the reconciliation.

Two of the choices are about time. The creation stamp of a batch is a string in
whole local seconds, so two batches may share it and the clock may step back:
`created` is any reading. And a stored pid may be recycled: `PidAlive` may say yes
for a subprocess that has exited.

### PhaseRun

`pc` is where the engine thread stands: at the top of the loop (`floor`), in a turn
(`turn`, `calls`), after the batch (`sweep`, `signals`), in the close of the
evidence (`wait`, `settle`, `name`, `seal`, `persist`) or at its end. Jobs exit and Ctrl-C
comes between any two of these steps.

* `records` is the phase machine's list, `audit` the copy of it on the evidence
  state, which stops growing at the seal.
* `Observations` are the states a validator can return with the entry fact it
  states; `Graded`, `Capped` and `Accepts` are what `validate_phase_claim` makes
  of a claim against them.
* `Domains` says whether a surveyed domain has not closed: the build gate states the
  domains, and the test gate those of its own statistics.
* `attempt` is what the open test attempt has to show: a terminal receipt of the
  runner, the refusal of a forced run, a refreshed survey. `AttemptRequired` is
  what is still owed.
* `Take` is `close_attempt` with `_apply_phase_decision`; `Stop` is `abort` and
  `cancel`; `Raise` is an exception on its way through the handler of the loop and
  that of `setup_project`.

What the model says, what the container shows and what a tool returns are free
choices. The loop breaker may close a phase whenever it likes (`LoopCloses`), the
recurrence guard may refuse any repair.

### JobLedger

`pc` is where the engine thread stands: `idle` between calls; `poll` and `kill0` for the
two looks of `poll_detached_command`, first for the exit file, then for the
process; `record` before the receipt of a call that saw its command end; `batch` after
a batch of calls; `settle` and `book` in a settlement, before the receipt of one job and
between that receipt and its obligation. Commands write reports, clean them and
end between any two of these steps (`Writes`, `Ends`).

* `Dispatch` takes the snapshot and starts the command; `HandOff` is the deadline of the
  hold, which writes the obligation (`record_dispatch_obligation`); `Record` is
  `record_invocation`.
* `Sweep` and `Gate` are the two callers of `settle_jobs`. Each reads the ledger and
  the receipts once (`BeginSettlement`) and then works from what it read: `Settle` is
  `_settle_one` up to the receipt, `Book` the rest, `EndSettlement` the announcements
  of `_sweep_job_obligations`, of which those read back from the ledger
  (`settlement_from_ledger`) may be left to a later sweep.
* `Claim(p, to)` is a report file, the content found there and the writing of the file that
  left it. The code compares hashes; the number of the writing is a history that tells
  two writings of the same bytes apart.
* `Delta` is `report_delta` with both of its sets: `written`, the reports new or changed
  since the snapshot, and `cached`, those that are as they were and that the tool says it
  served from its cache or found up to date. `Vouchable` holds the reports for which the
  tool of a command can say so (Gradle's; none for Maven), `vouched` is what its output says
  in one receipt, and a tool that vouches may also put an earlier content back
  (`Writes`). A report vouched for is claimed, by one receipt after another, whether or not
  somebody has claimed it before.
* `Intervening` is `_intervening_claims`: the paths, of either set, that receipts since the
  dispatch have claimed. `Settle` takes them out of the window (`Without`) and compares
  again, as `_settle_one` does.
* `Fails(kind)` is a container call of that kind that fails; what follows is what the code
  does with the failure. `Restart` is a process that ends and another that enters the
  same container, with a receipt ordinal that starts again.

The order in which one settlement takes its jobs is free here and that of the job
identifiers in the code. A write of a receipt whose answer is lost although it
landed and the outcome each receipt records per module are left out. A run sealed in the meantime sweeps nothing; that is in
`PhaseRun`.

`JobPool` says in four actions what this amounts to: a command is started once, ends in
its call or is owed, and is accounted for. What is counted as its own is versions that
nobody has accounted for; it may vouch for any. `PoolSpec` maps `PoolStage`, the `written` sets
of all receipts (`counted`) and their `cached` sets (`vouched`) to it.

### LoopMemory

One call of `observe` is `Observe`: the decision, the chain, the armed key, the
blockers and the poll cursor, in terms of the key of the event, the epochs it is
given and the scopes these are of. `Call` and `Poll` are tool calls, which record facts,
are observed and are booked in the evidence state (`Book`), a poll that reports success
included; `Repair` is a repair request
that the transition policy takes to its guard, whose decision is observed but not
booked; `Gate` is an accepted gate, which records facts only. `log` is a history for the
properties: `Due` tells from it what every decision should be.

### SessionIndex

`thread` follows one task: `add` and `adding` are the update that lists it, before and
after the shell has emptied the file; `queued`, `waiting` and `agent` its thread before the
container check, at the lock and in the agent; `over`, `close`, `closing`, `done` the
listing of its end. `copy` is what an update has read and is about to write. A page
is answered by `EnsureMirror` and the memory of sessions that were not found
(`SessionDetail`, `MissingExpires`); the dashboard refreshes the mirror too. A refresh that
fails leaves the mirror alone, or, if it breaks off during the transfer, leaves it old or
without the index and yet counted as fresh. `ServerRestarts`
ends all threads where they stand; a write that the container had begun may still be
carried out.

### Faulty variants

The modules contain operators marked as faulty or mutated. No action uses them: a
run with one of them in the place of the definition it varies must find the property
violated, which shows that the run can tell them apart.

## Runs

| Run | Instance | Shows |
|---|---|---|
| `launch_safety` | two batches, three items, two workspaces, cap 2, concurrency 2 and 1; crashes and faults | types, `CapacityRespected`, `ThreadsOwnRows`, `BatchStatusDerived`, `TerminalIsFinal` |
| `launch_recovery` | two batches, three items, two workspaces, cap 2, concurrency 1; crashes | `CapacityRespected`, `NoLeakedCapacity`, `QueueResumes` |
| `launch_live` | two batches, three items, cap 1, two clock readings; submissions one at a time, no crash | `ProcessCap`, `NoDuplicateLaunch`, `NoFalseCompleted`, `QueueDrains` |
| `phase_faults` | five turns, floors of one, one job; failing container, Ctrl-C, early ends | types, `SealedRunIsFrozen`, `CloseReasonTold`, `ReportAfterEvidence`, `EndsHonestly`, `RunEnds` |
| `phase_flow` | ten turns, floors of two, one job, both answers of a survey | `FlowFollowsPrerequisites`, `ReportReachedOrPolling`, `BooksStated`, `NoSuccessOnOpenBooks`, `TestAttempted` |
| `job_ledger` | two commands with nested directories, two report files, one of which either tool may vouch for, one failure or restart of nine kinds | types, `WrittenOnce`, `SettledByOwnReceipt`, `NothingHidden`, `ExclusionJustified`, `JobsAnnounced`, `PoolSpec` |
| `loop_memory` | six events of three kinds of calls, two scopes, two interchangeable cursors (a poll only asks whether the cursor moved) | types, `ArmedByLast`, `LadderKept`, `BlockersStand`, `BlockersBooked` |
| `sessions` | two tasks, one fault of six kinds | types, `IndexTold`, `EndsTold`, `TasksEnd`, `EndsShown` |

Four more runs each check one property that a comment or a document states and the
code does not keep; see below.

### Bounds

*LaunchQueue.* Two batches are what every race here needs: a second submission,
a second claim, another batch's items in the same workspace. Three items give one
batch two rows and the other one; both ask for workspace `w1`. In `launch_safety` the first
batch may run its two items at once and the second its one, which is more than the cap
of two: the cap binds by itself. In `launch_recovery` each batch runs one item at a time,
so that the limit of a batch binds below the cap, and a row that an earlier server left
can fill the first batch while the second has room; the row of the second batch comes
after those of the first in the order of claims. `launch_live` uses a cap of one, because
the exclusion of busy workspaces alone keeps two of the three items apart. Each batch is
submitted once, each subprocess started at most once: identifiers are fresh in the
code as well.

*PhaseRun.* `MaxIterations` bounds the turns, as the program's own limit does. A flow
without repairs takes five and one with both repairs seven; ten leave room for
floors as well. The program scales floors down to two turns in a run of fewer than
thirty, so `MCFloor` is what a ten-turn run really uses; `MCSmallFloor` is a
configuration that asks for one. One job is enough for each race between its exit
and a step of the engine. `Verdicts` names the outcomes that validators report and
claims name in a run: success and one that is not. `Surveys` are the answers of a
survey; `Faults`, `Interrupts` and `Aborts` switch the environment's actions on, so
that a property that holds only without them has a run of its own.

*JobLedger.* Overlap needs two commands and a report both can write: the directory of
`c1` holds `p1` and `p2`, that of `c2` only `p1`, as the root of a build holds its
modules. `p1` may be written twice, so that a report is rewritten by the other command,
put back in the same bytes, or written anew after its deletion; `p2` once. Both tools may
vouch for `p1` (`MCVouchable`), neither for `p2`, so that both kinds of report occur in the window of
`c1`. One failure or restart reaches every single step that fails; the kinds `snapshot`
(a report listing that fails and counts as empty) and `claims` (receipts that cannot be
read) are left out, because the properties about claims fail with them: see below.

*LoopMemory.* Four recurrences lead to a break and a fifth at once to the close; the
sixth event is one of another kind in between, or what comes after the close. Histories of
five events are all explored; a sixth is asked for only where a chain has recurred three
times or something was broken (`WorthASixth`), since elsewhere no sixth event can break
anything. One step of an epoch tells a scope that moved from one that did not. A
compilation needs one scope, a poll two, of which only one moves.

*SessionIndex.* Two tasks are what an overlap of updates, a wait at the lock and a page
of another session need. One fault at any step; a second one adds nothing that the
properties, which each speak of what a fault leaves, could tell apart. The theorems
have no such bound.

### Fairness

*LaunchQueue.* Weak fairness of the scheduler thread, of each monitor, of each
subprocess, and of the restart. The threads run loops of their own and are never
blocked for good; a subprocess has a wall-clock cap. Submissions, deletions and
crashes need not happen. `QueueResumes` is conditional: rows that no thread of this server
waits for (`Pinned`) hold their place until the next restart, as `launch_runner.py:119`
says of a subprocess that survives; the property is that an item for which they leave
room, under the cap and in its batch (`RoomFor`), ends once a server stays up, also when
they keep another batch full in front of it.

*PhaseRun.* Weak fairness of the engine's steps: of the top of the loop, of a turn's
start, of the end of its calls (the list of calls of a turn is finite), of the
signals and of the close. A job need never exit; the wait ends by its deadline.

*JobLedger.* The engine goes on: its hold, its batches and its settlements are weakly
fair, since a model turn and a container call are bounded by time-outs. The end of a
hold is strongly fair, because the two looks of the poll alternate until the deadline
that the code keeps. Jobs need not end, nothing need be dispatched, no gate need be
called. `JobsAnnounced` says that again and again all that ended is announced, which a
process that starts over has to earn again.

*SessionIndex.* The threads are weakly fair (agents have a bounded number of turns); time
passes, and the page of a session is asked for again, which `EndsShown` is about. Nobody
need submit a task or open the dashboard.

*LoopMemory* has no liveness: a bounded run of events is all there is.

Deadlock checking is off because these systems stop: a run ends, a queue is empty, the
events are used up.

## What the runs found

| Run | Stated | The code |
|---|---|---|
| `launch_false_completed` | `launch_service.py:113`: pending launches are excluded, or a duplicate would be reported a false "completed" | two overlapping submissions both pass the exclusion, which is read once and not repeated by the insert |
| `launch_orphan` | `workspace_service.py:66`: busy workspaces are rejected so that an active launch is never orphaned | the container is removed in a second step, after which a new launch may be in it |
| `phase_report` | `README.md:51`, `settings.py:94`: the run always reaches the report phase | a forced test command that is still running makes every later turn another poll until the turns are used up |
| `phase_note` | `react_engine.py:1849`, `phase_tool.py:426`: a terminal claim is validated, then routed | a note before it in the same turn is handled in its place |

`ProcessCap`, the bound on subprocesses rather than rows, is checked without crashes: the
cap counts rows, and a row whose pid a dying server did not record is resolved by the
next one although its subprocess may live on.

`ReportReachedOrPolling` is the first of the phase properties as far as it holds: a run that
repairs nothing and is not left polling a test job does reach its report.

Met while modelling, and not the subject of a run:

* `invocation_receipts.py:97`: the ordinal of receipts starts again with each process. A second
  run in the same container can file a receipt under the identity of an older one,
  which line 24 says is finalized once and never rewritten, and its ordinals no longer
  order its receipts after the dispatches of the first. The properties about claims are
  therefore those of the first process in a container (`alone`).
* `job_obligations.py:607`: receipts that cannot be read count as no receipts, so a settlement
  then claims what another receipt has claimed; a listing of reports that fails counts
  as an empty one, and what it hides is claimed again later or by nobody.
* A path that another receipt has claimed since the dispatch is left out of a job's window as
  a whole: a newer content the job wrote there is counted as excluded and claimed
  by nobody. `NothingHidden` is stated accordingly.
* An obligation that could not be written after its receipt is settled once more; the second
  receipt counts nothing as written and at most vouches again, as the first has it all.
* Receipts overlap in what they vouch for: that is meant (`test_cached_report_claims.py:47`,
  `job_obligations.py:483`), and the reason why `WrittenOnce` is about what receipts count as
  written. Where a cache has put the bytes back that were there at the dispatch, the job is
  known to have left a report only if its output says so, hence the exception in
  `NothingHidden`.
* `orch.py:1090`: the poll looks for the exit file and then for the process. A command that ends
  between the two looks is reported as crashed; its reports are claimed all the same.
* `session_registry.py:300`: two updates of the index that overlap lose one of them, so that a
  session is not listed or stays running; TLC does it in eight steps once the guard `Calm`
  of `IndexTold` is dropped. The design of the Web UI
  (`docs/superpowers/specs/2026-06-06-sag-web-ui-redesign-design.md:115`) has the sessions tab
  list current and historical executions.
* `session_mirror.py:52`: the mirror of a container that stops after it was mirrored is not fetched
  again, its results being taken for immutable; an end listed between the two is not shown
  while the container is stopped.
* `task_runner.py:41`: a server that stops leaves its sessions listed as running; nothing
  reconciles them.
* `react_engine.py:3337`: what a repair request lifts from the memory stays active as a blocker in
  the evidence state. `BlockersBooked` says exactly that: no other difference is possible.
* `loop_memory.py:456`: the cursor is kept per target, and each job has its own; polling two
  stalled jobs in turn is taken for progress where they share a target.

## Proofs

Every safety property that a passing run checks, invariant or action property, is also a
theorem, for every value of the constants; so is the refinement. A hypothesis of a
theorem other than the assumptions of its module is named below with its reason; none
can be dropped, for without it TLC finds the property violated on the instance of the run. The
argument is always the same: an inductive invariant that implies the property holds
initially and is kept by every action, with lemmas for what several actions have in
common. Most of the strengthened invariants were model-checked before they were proved, in
scratch runs on the instances above; they are no properties of the runs themselves.

### `LaunchQueue_proofs`

From `LaunchAssumption` (finitely many items, positive caps), for any number of
batches, items and workspaces; with crashes and faults, unless said otherwise:

* `TypeCorrect`: `Spec => []TypeOK`. Typing alone is not inductive: the scheduler
  writes the row of `current`, so `TypeInv` adds that `current` is an item while
  the scheduler works.
* `CapacityHolds`: `Spec => []CapacityRespected`. `OnlyClaimsActivate` shows that no
  step but a claim makes an item active, `FewerActive` that the bounds survive such
  steps, `ClaimWithinCapacity` that a claim, which counts and writes in one
  transaction, keeps both.
* `RowsOwned`: `Spec => []ThreadsOwnRows`, from `OwnInv`. It
  adds that an item not yet enqueued has neither a row nor a process (so that a
  late `Enqueue` cannot overwrite a row a thread owns), that a queued item has no
  process, and that the rows a reconciliation has still to resolve are active.
* `EndsAreFinal` and `ActiveRowsAreKept`: `Spec => TerminalIsFinal` and
  `Spec => ActiveRowsStay`, step by step from the same invariant.
* `BatchStatusIsDerived`: `Spec => []BatchStatusDerived`; each transaction that moves an item
  refreshes the batch of that item, and no step moves an item of another batch.
* `CapacityIsGivenBack`: `Spec => []NoLeakedCapacity` without faults, with crashes. `LeakInv`
  follows an active row through a restart: it is still to be reconciled, or it is running
  with a pid, because that pid was written in the transaction that made it running. With
  faults it is false: a monitor whose last write fails leaves its row running.
* `ProcessesAreCapped`: `Spec => []ProcessCap` without faults and crashes, each of which parts a
  subprocess from its row. `WatchInv` gives every live subprocess a monitor or the pass of the
  scheduler that started it.
* `LaunchesAreDistinct`: `SerialSpec => []NoDuplicateLaunch`, with crashes and faults. `SerialSpec`
  lets no two submissions read rows at once; without it the property is false
  (see `launch_false_completed`). `DistinctInv` says that the copy of the active workspaces
  covers every unfinished item for as long as a submission works from it.
* `CompletionsAreTrue`: `SerialSpec => []NoFalseCompleted` without faults and crashes. `SetupInv`: a
  workspace about to be set up has no container, so no subprocess ends as a conflict,
  whose exit code is 0.

### `PhaseRun_proofs`

From `RunAssumption`, for any number of turns, floors, jobs, and answers of the
validators; with faults of the container, Ctrl-C and early ends, unless said otherwise. The
lemmas of the first part say what each step can do to the records, the evidence and
the phase; `StepShape` sorts all steps into a few shapes, so that each invariant is shown
once per shape.

* `TypeCorrect` and `ReportIsAfterEvidence`, from `ControlInv`: which phases are open in which
  state of the seal, what the close was entered for (`after`, `closing`), that the turns last
  where another is begun.
* `NoSuccessWhileJobsOwe` and `TestsAreAttempted`, action properties. `BooksInv` is what makes the
  first one hold: a claim validated as a success is handled while still nothing is
  owed, for no job is started in between. The second needs `Faults = FALSE`: a survey that cannot be read counts as one
  without candidates, for which no run is mandatory.
* `SealedRunStaysFrozen`: `Spec => SealedRunIsFrozen`.
* `CloseReasonIsTold` and `RunEndsHonestly`, from `RecordInv`: until the seal the audit is the
  records, and the reason a close was entered with is told by the last of them.
* `FlowIsFollowed`, from `FlowInv`: neighbouring records are linked, and the last one leads to
  the phase that is open; and from `RepairInv`: each repair has used up the budget of its
  source, so that no phase makes two.
* `RepairsAreBounded`: a run makes at most two repairs, for only two phases have a budget. The
  budget of the run, which is two as well, never binds on its own.
* `BooksAreStated` (`Faults = FALSE`), from `NamedInv`: what is open is among the conflicts from the
  naming to the seal and after it. A failing container keeps the names from being
  recorded.
* `ReportIsReachedOrPolling`, from `LeftInv`: in every phase of an undisturbed run the turns left
  cover the floors still to come, and in a test phase one less when the forced attempt is
  owed. Hypotheses: no faults, interrupts or early ends, which end a run wherever it is;
  floors of two for test and report; `MaxIterations >= Reserved("provision")`, that is, the floors of
  the later phases fit. Both are what `effective_phase_floor` provides: it scales the
  configured 4, 10, 12 and 8 down to `max(2, max_iterations // 10)`, so that
  the floors are two at least, and their sum fits in any run of eight turns or more. The
  last hypothesis is sufficient, not sharp: with four floors of two, TLC still finds no violation in six
  turns and one in five.

### `JobLedger_proofs`

From the assumptions on scopes, on what may be vouched for and on `NoCommand`, for any
number of commands, report files, contents, failures and restarts. `Reliable` is the
hypothesis that listings of reports and of receipts do not fail (see what was met while
modelling, above).

* `TypeCorrect`: `Spec => []TypeOK`.
* `ClaimedOnce` (`Reliable`): `Spec => []WrittenOnce`. A receipt counts as written what
  another has claimed only if its window was open when the other was filed, so the
  invariant `ClaimInv` follows windows: receipts are numbered up to the ordinal
  (`ReceiptsNumbered`), and none claims a writing still to come; what differs on disk from
  what a held or owed command found at its dispatch was left by a writing since, which is
  claimed by nobody, or only by receipts after that dispatch (`HeldWindowFree`,
  `OpenWindowFree`); and a settler knows every receipt that it has to leave room for
  (`SettlerKnows`). `NewReceipt` then gives the property for each receipt that is added. `DeltaIs`,
  `DeltaHas` and `DeltaWithout` say what the two sets of a delta hold; nothing is assumed
  about which reports a tool vouches for.
* `SettlementsAreReceipted`: `Spec => []SettledByOwnReceipt`, whatever fails. `NamedInv` follows the
  name of a receipt from the settler's hands to the obligation and the announcement.
* `ExclusionsAreJustified`: `Spec => []ExclusionJustified`, whatever fails, from `JustInv`: the claims that a
  settler knows are of receipts that are there, and the obligation of a command that was
  excluded from something keeps its ordinal (`HandsTold`).
* `NothingIsHidden`: `Spec => []NothingHidden`, provided listings of reports do not fail
  (`"snapshot" \notin Failing`); receipts that cannot be read do no harm here, since who does not know of a claim
  excludes nothing. `SnapshotsPrecede` says that what a
  command left is in its window, `SettledCovered` that a settled job has ended and that all it
  left is claimed, or excluded by its own receipt.
* `LedgerKeepsPool` (`Reliable`): the ledger implements `JobPool`: initial states map
  to initial states, and each step to a step of the pool or a stutter. `PlaceTold` relates
  where the engine stands to the stage of the command it holds; that a new receipt counts
  only what nobody has accounted for is the argument of `ClaimedOnce`.

### `LoopMemory_proofs`

From the assumptions on the constants, for any actions, scopes, cursors and length of the
history:

* `TypeCorrect`, `ArmedIsLast` (`Spec => []ArmedByLast`) and `BlockersAreTold` (the blockers of tool
  calls that the memory holds are active in the evidence state), from `LoopInv`.
* `LadderIsKept`: `Spec => []LadderKept`, the equivalence of a few cells with a whole history.
  `HistoryInv` says what each cell holds of it: `last` the last event (`LastTold`), `token` the token of
  the last poll of an action (`TokenTold`), and a chain the vector of the last occurrence of
  its key and, up to three, the number of its recurrences (`ChainTold`). Beyond three a count of 4 or 5
  stands for any number (`Rung`): a close counts one further than a break, and the break after it
  goes back. `RecurrencesFresh` and `RecurrencesNext` compute the recurrences of a new event from
  those of the last one of its key, `FreshNew` when it starts again.
* `BlockersStandTold`: `Spec => []BlockersStand`; a break stands until `LiftsNew`, that is, until the memory
  drops its blocker.
* `BlockersAreBooked`: `Spec => []BlockersBooked`, from `ToolBlockersTold` and `RepairsLifted`.

### `SessionIndex_proofs`

With no assumption, for any number of tasks and of faults:

* `TypeCorrect`: `Spec => []TypeOK`.
* `EndsAreTrue`: `Spec => []EndsTold`. A status travels from the index to a copy, back to the
  file, to the mirror and to the page, in any order; `CopiesTold` extends the claim to the
  copies, and `EndKnown` says that an end is decided before it is first written, once.
* `IndexIsTold`: `Spec => []IndexTold`. `IndexInv` follows an update from its read to its
  write: it is the only one (`OneUpdate`), and its copy is the index as it should be
  with the update made (`CopyRight`). What fails or overlaps does so for good
  (`CalmBefore`), so nothing is claimed afterwards.

### Left to TLC

Liveness under fairness is out of the prover's reach: `QueueDrains`, `QueueResumes`,
`RunEnds`, `JobsAnnounced`, `TasksEnd` and `EndsShown` are model-checked only. The properties of the four
runs that end in a violation are false of the code, so there is nothing to prove;
`NoFalseCompleted`, one of them, is a theorem of serial submissions.

## Not modelled

PROJECT.json gives the reason for each component. In short: parsers, probes,
prompts, report layout, front end and configuration are pure or formatting, and
they are most of the repository's lines; the models take their results as free
choices. The following keep state that matters and are next.

## Plan

1. `RetryAuthority`: which failed build may be repeated; a ledger keyed by action, tree
   and environment, the transient budget, the fact epoch and accepted repairs.
2. `Assessments`: the records gates write about receipts, and which of them stand.
3. `Verdict`: the fold of observations and the status algebra as operators, checked
   against a reference definition over bounded inputs.
4. An abstract `Flow` of a run (open, sealed, reported, ended) that `PhaseRun`
   implements, and an abstract `Pool` of slots that `LaunchQueue` implements.
5. Proofs: that `PhaseRun` implements `Flow` and `LaunchQueue` the pool of slots.
