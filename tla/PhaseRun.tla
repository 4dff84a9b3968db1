------------------------------- MODULE PhaseRun -------------------------------
(***************************************************************************)
(* One `sag project` run: the engine's loop of model turns, the phase      *)
(* machine and its routing policy, the gate that grades a claim, the       *)
(* ledger of detached jobs, the seal of the run's evidence and the ways a  *)
(* run is closed, aborted and cancelled.                                   *)
(*                                                                         *)
(* The engine is one thread.  It is interleaved with the detached jobs in  *)
(* the container, which end when they end, and with the keyboard, which    *)
(* interrupts it between any two of its steps.  What the model says, what  *)
(* the container shows and what a tool returns are chosen freely.          *)
(***************************************************************************)
EXTENDS Naturals, Sequences, FiniteSets

CONSTANTS
    MaxIterations, \* the model turns a run may take
    Floor,         \* the turns kept for a phase that has not started
    Job,           \* the detached commands of the run; each is started once
    NoJob,         \* no job
    Verdicts,      \* the outcomes that validators report and claims name
    Surveys,       \* whether a survey finds test candidates: its possible answers
    Faults,        \* whether the container may fail to answer
    Interrupts,    \* whether the user may press Ctrl-C
    Aborts         \* whether the wall clock or the model may end the run early

PhaseNames == <<"provision", "analyze", "build", "test", "report">>
Phases == {PhaseNames[n] : n \in 1..5}
Position(p) == CHOOSE n \in 1..5 : PhaseNames[n] = p

Outcomes == {"unknown", "success", "partial", "failed"}

ASSUME RunAssumption ==
    /\ MaxIterations \in Nat
    /\ Floor \in [Phases -> Nat \ {0}]
    /\ IsFiniteSet(Job)
    /\ NoJob \notin Job
    /\ Verdicts \subseteq Outcomes
    /\ Surveys \subseteq BOOLEAN
    /\ Faults \in BOOLEAN /\ Interrupts \in BOOLEAN /\ Aborts \in BOOLEAN

VARIABLES
    phase,       \* current_phase; "closed": the flow is closed
    records,     \* the terminal records of the phase machine
    ready,       \* the latest verified entry fact of a phase's successor
    budget,      \* the repairs left: in all, and from test and from build
    audit,       \* the phase records of the evidence state
    sealed,      \* the close reason of the evidence state; "open": not sealed
    conflicts,   \* the jobs named on the evidence state as unsettled
    written,     \* the snapshot of the verdict is in the container
    job,         \* a detached job and its obligation
    survey,      \* the survey in the container names test candidates
    attempt,     \* what the open test attempt has to show for itself
    polled,      \* the job a test dispatch of this attempt handed back
    iteration,   \* the turns taken
    pc,          \* where the engine stands
    noted,       \* this turn has already left a note
    signal,      \* the terminal signal of this turn
    closing,     \* the reason of the evidence-close in progress
    after,       \* where a finished evidence-close leads
    handlers,    \* the exception handlers that still enclose the engine
    report,      \* whether the report was delivered
    termination  \* how the run ended

machine == <<phase, records>>
evidence == <<ready, audit, sealed, conflicts>>
test == <<survey, attempt, polled>>
turn == <<noted, signal>>
close == <<closing, after, handlers>>
vars == <<machine, evidence, budget, written, job, test, iteration, pc, turn,
          close, report, termination>>

Rank == [failed |-> 0, partial |-> 1, success |-> 2]
WorkingCloses == {"test_terminated", "dependents_skipped"}
CloseReasons == WorkingCloses \cup {"aborted", "cancelled"}
Repairable == {"test", "build"}
NoSignal == [kind |-> "none"]

Init ==
    /\ phase = "provision"
    /\ records = << >>
    /\ ready = [p \in {"provision", "analyze", "build"} |-> "unset"]
    /\ budget = [run |-> 2, test |-> 1, build |-> 1]
    /\ audit = << >>
    /\ sealed = "open"
    /\ conflicts = {}
    /\ written = FALSE
    /\ job = [j \in Job |-> "none"]
    /\ survey \in Surveys
    /\ attempt = {}
    /\ polled = NoJob
    /\ iteration = 0
    /\ pc = "floor"
    /\ noted = FALSE
    /\ signal = NoSignal
    /\ closing = "none"
    /\ after = "none"
    /\ handlers = 2
    /\ report = "skipped"
    /\ termination = "none"

-----------------------------------------------------------------------------
(* Detached jobs and their ledger. *)

Open == {j \in Job : job[j] \in {"running", "exited"}}
Exited == {j \in Job : job[j] = "exited"}

\* settle_open_obligations: every job that has exited gets its receipt; a write
\* that fails leaves its obligation open.
Settlements == IF Faults THEN SUBSET Exited ELSE {Exited}
Settled(done) == [j \in Job |-> IF j \in done THEN "settled" ELSE job[j]]

\* Faulty: the gate of the report phase settles too.
SettlesAlways == Settlements

\* _settle_before_grading: a sealed run settles nothing.
GateSettlements == IF sealed = "open" THEN Settlements ELSE {{}}

\* What the gate says of the ledger after it settled the jobs in done: a ledger
\* that cannot be read counts as open.
BooksOpen(done) == {Open \ done # {}} \cup (IF Faults THEN {TRUE} ELSE {})

JobExits(j) ==
    /\ job[j] = "running"
    /\ job' = [job EXCEPT ![j] = "exited"]
    /\ UNCHANGED <<machine, evidence, budget, written, test, iteration, pc, turn,
                   close, report, termination>>

-----------------------------------------------------------------------------
(* The gate. *)

\* _inspect_phase_evidence: the validator's state and the entry fact it states.
Answers ==
    CASE phase = "provision" ->
           {<<"success", "yes">>, <<"failed", "no">>, <<"unknown", "unset">>}
      [] phase = "analyze" ->
           {<<"success", "yes">>, <<"partial", "yes">>, <<"failed", "no">>,
            <<"unknown", "no">>, <<"unknown", "unset">>}
      [] phase = "build" ->
           (Outcomes \X {"yes", "no"}) \cup {<<"unknown", "unset">>}
      [] OTHER -> Outcomes \X {"unset"}

Observations == {seen \in Answers : seen[1] \in Verdicts}

Below(a, b) == a # "unknown" /\ b # "unknown" /\ Rank[a] < Rank[b]

\* Faulty: an open ledger does not lower the validator's state.
NeverCapped(state, open) == state

\* settled_validator_state: success requires settled books, until the seal.
Capped(state, open) ==
    IF state = "success" /\ open /\ sealed = "open" THEN "partial" ELSE state

\* validate_phase_claim: nothing is refined above the claim while a job is out or
\* a surveyed domain (domains) is unclosed; then the cap.
Graded(claimed, state, open, domains) ==
    Capped(IF (open \/ domains) /\ Below(claimed, state) THEN claimed ELSE state, open)

Accepts(claimed, validated) ==
    \/ claimed \in {"unknown", validated}
    \/ validated = "unknown" /\ claimed # "success"
    \/ Below(claimed, validated)

\* Whether a domain of the survey has not closed: the build gate states the domains,
\* and the test gate those of its own statistics.
Domains == IF phase \in {"build", "test"} THEN BOOLEAN ELSE {FALSE}

-----------------------------------------------------------------------------
(* The mandatory test attempt. *)

\* What a reading of the survey shows.
Readings == {survey} \cup (IF Faults THEN {FALSE} ELSE {})

\* required_test_attempt: without candidates one refresh of the survey is owed,
\* with candidates a terminal receipt of the runner or the refusal of a forced run.
AttemptRequired(found) ==
    /\ phase = "test"
    /\ ready["build"] = "yes"
    /\ IF found THEN attempt \cap {"receipt", "refusal"} = {}
       ELSE "refreshed" \notin attempt

\* A test command of this attempt: it ends at once, or is detached as a job.
RunTests ==
    \/ /\ attempt' = attempt \cup {"receipt"}
       /\ UNCHANGED <<job, polled>>
    \/ \E j \in Job :
         /\ job[j] = "none"
         /\ job' = [job EXCEPT ![j] = "running"]
         /\ polled' = IF polled = NoJob THEN j ELSE polled
         /\ UNCHANGED attempt

\* A poll of the job answers with a terminal result once the job has exited.
PollTests ==
    /\ polled # NoJob
    /\ attempt' = IF job[polled] = "running" THEN attempt
                  ELSE attempt \cup {"receipt"}
    /\ UNCHANGED <<job, polled>>

\* _force_required_test_attempt: the harness executes what is owed itself.
ForceAttempt(found) ==
    IF ~found
    THEN /\ survey' \in Surveys
         /\ attempt' = attempt \cup {"refreshed"}
         /\ UNCHANGED <<job, polled>>
    ELSE /\ UNCHANGED survey
         /\ IF polled # NoJob THEN PollTests \/ (Faults /\ UNCHANGED <<job, attempt, polled>>)
            ELSE \/ RunTests
                 \/ /\ attempt' = attempt \cup {"refusal"}
                    /\ UNCHANGED <<job, polled>>

\* Faulty: the refusal of a forced run leaves the gate's answer as it is.
TestNotCapped(validated, found) == validated

\* _cap_unresolved_test_gate: what is left of a validated outcome when the
\* candidates stayed unknown or a forced run never reached the runner.
TestCapped(validated, found) ==
    IF /\ phase = "test"
       /\ \/ found /\ "refusal" \in attempt
          \/ ~found /\ "refreshed" \in attempt
    THEN IF found /\ validated = "failed" THEN "failed" ELSE "unknown"
    ELSE validated

-----------------------------------------------------------------------------
(* Routing. *)

\* Faulty: the facts alone decide, whatever came of the build.
AdvanceOnFacts(p, outcome, facts) == facts[p] = "yes"

\* PhaseTransitionPolicy.decide, for the phases that lead to another one.
MayAdvance(p, outcome, facts) ==
    /\ facts[p] = "yes"
    /\ p = "build" => outcome \in {"success", "partial"}

Successor(p) == PhaseNames[Position(p) + 1]

\* Faulty: the test phase leads to its successor like the others.
TestAdvances(p, outcome, facts) ==
    IF p = "report" THEN [kind |-> "flow_close", target |-> "closed"]
    ELSE IF p = "test" \/ MayAdvance(p, outcome, facts)
         THEN [kind |-> "advance", target |-> Successor(p)]
         ELSE [kind |-> "evidence_close", target |-> "report"]

Route(p, outcome, facts) ==
    IF p = "report" THEN [kind |-> "flow_close", target |-> "closed"]
    ELSE IF p # "test" /\ MayAdvance(p, outcome, facts)
         THEN [kind |-> "advance", target |-> Successor(p)]
         ELSE [kind |-> "evidence_close", target |-> "report"]

Terminal(p, how, outcome, kind) ==
    [phase |-> p, termination |-> how, outcome |-> outcome, route |-> kind]

\* Faulty: the last dependent is forgotten.
SkipsTooFew(p, kind) ==
    IF kind # "evidence_close" THEN << >>
    ELSE [n \in 1..(3 - Position(p)) |->
            Terminal(PhaseNames[Position(p) + n], "skipped", "skipped", "evidence_close")]

\* The phases an early evidence-close leaves out, in their order.
Skips(p, kind) ==
    IF kind # "evidence_close" THEN << >>
    ELSE [n \in 1..(4 - Position(p)) |->
            Terminal(PhaseNames[Position(p) + n], "skipped", "skipped", "evidence_close")]

\* _record_phase_audit: a sealed evidence state takes no more records.
Audited(new) == IF sealed = "open" THEN audit \o new ELSE audit

\* close_attempt and _apply_phase_decision: the attempt is recorded, the route is
\* taken, and an evidence-close starts where the route asks for one.  next is
\* where the loop goes on; the report phase ends the flow.
Take(how, outcome, facts, route, next) ==
    LET new == <<Terminal(phase, how, outcome, route.kind)>> \o Skips(phase, route.kind)
    IN /\ records' = records \o new
       /\ audit' = Audited(new)
       /\ phase' = route.target
       /\ ready' = IF sealed = "open" THEN facts ELSE ready
       /\ attempt' = {}
       /\ polled' = NoJob
       /\ CASE route.kind = "evidence_close" ->
                 /\ closing' = IF phase = "test" THEN "test_terminated"
                               ELSE "dependents_skipped"
                 /\ after' = next
                 /\ pc' = "wait"
            [] route.kind = "flow_close" ->
                 /\ closing' = sealed
                 /\ after' = "completed"
                 /\ pc' = "persist"
            [] OTHER ->
                 /\ pc' = next
                 /\ UNCHANGED <<closing, after>>

\* _record_gate_facts, as the entry facts that the routing then reads.
Stated(fact) == IF fact = "unset" THEN ready ELSE [ready EXCEPT ![phase] = fact]

-----------------------------------------------------------------------------
(* Abort and cancellation: of the engine, from its loop or a handler. *)

\* abort and cancel: the open attempt is recorded once, an open evidence state is
\* closed with this reason, and a working close keeps the reason it has.
Stop(how, left) ==
    LET repeated == records # << >> /\ records[Len(records)].termination = "aborted"
        new == IF phase = "closed" \/ repeated THEN << >>
               ELSE <<Terminal(phase, "aborted", "unknown", "abort")>>
    IN /\ records' = records \o new
       /\ audit' = Audited(new)
       /\ closing' = IF sealed \in WorkingCloses THEN sealed ELSE how
       /\ after' = how
       /\ pc' = IF sealed = "open" THEN "settle" ELSE "persist"
       /\ handlers' = left
       /\ noted' = FALSE
       /\ signal' = NoSignal
       /\ UNCHANGED <<phase, ready, sealed, conflicts, budget, job, test, iteration,
                      report, termination>>

\* An exception reaches the handler of the loop, then that of setup_project, then
\* the caller.
Raise(how) ==
    IF handlers > 0 THEN Stop(how, handlers - 1)
    ELSE /\ pc' = "ended"
         /\ termination' = "raised"
         /\ UNCHANGED <<machine, evidence, budget, job, test, iteration, turn, close,
                        report>>

Interrupt ==
    /\ Interrupts
    /\ pc # "ended"
    /\ Raise("cancelled")
    /\ UNCHANGED written

\* An exception in a step of the loop; the sweeps and the ledger swallow theirs.
LoopFails ==
    /\ Faults
    /\ pc \in {"floor", "turn", "calls", "signals"}
    /\ Raise("aborted")
    /\ UNCHANGED written

-----------------------------------------------------------------------------
(* The top of the loop. *)

Remaining == MaxIterations - iteration

\* What the floor of the n-th phase keeps from the phase p.
KeptFor(p, n) == IF n > Position(p) THEN Floor[PhaseNames[n]] ELSE 0

\* Faulty: the report phase has no turns of its own.
ReservedForWork(p) == KeptFor(p, 2) + KeptFor(p, 3) + KeptFor(p, 4)

Reserved(p) == KeptFor(p, 2) + KeptFor(p, 3) + KeptFor(p, 4) + KeptFor(p, 5)

OutOfTurns ==
    /\ pc = "floor"
    /\ iteration = MaxIterations
    /\ Stop("aborted", handlers)
    /\ UNCHANGED written

\* The wall-clock cap, or no progress seen in the turn before.
OutOfTime ==
    /\ Aborts
    /\ pc = "floor"
    /\ iteration < MaxIterations
    /\ Stop("aborted", handlers)
    /\ UNCHANGED written

\* The last turns outside the floors go to the mandatory test attempt.
FloorForces ==
    /\ pc = "floor"
    /\ iteration < MaxIterations
    /\ \E found \in Readings :
         /\ AttemptRequired(found)
         /\ Remaining <= Reserved(phase) + 2
         /\ ForceAttempt(found)
    /\ pc' = "turn"
    /\ UNCHANGED <<machine, evidence, budget, written, iteration, turn, close,
                   report, termination>>

FloorPasses ==
    /\ pc = "floor"
    /\ iteration < MaxIterations
    /\ \E found \in Readings :
         AttemptRequired(found) => Remaining > Reserved(phase) + 2
    /\ Remaining > Reserved(phase)
    /\ pc' = "turn"
    /\ UNCHANGED <<machine, evidence, budget, written, job, test, iteration, turn,
                   close, report, termination>>

\* The attempt is closed with the outcome the evidence supports.
FloorCloses ==
    /\ pc = "floor"
    /\ iteration < MaxIterations
    /\ Remaining <= Reserved(phase)
    /\ \E found \in Readings, seen \in Observations, done \in GateSettlements :
         \E open \in BooksOpen(done) :
           LET outcome == TestCapped(Capped(seen[1], open), found)
               facts == Stated(seen[2])
           IN /\ ~AttemptRequired(found)
              /\ job' = Settled(done)
              /\ Take("completed", outcome, facts, Route(phase, outcome, facts), "turn")
    /\ UNCHANGED <<sealed, conflicts, budget, written, survey, iteration, turn,
                   handlers, report, termination>>

-----------------------------------------------------------------------------
(* A turn: the model is asked, and its calls are executed in order. *)

\* The request of the model fails; nothing after it counts the turns.
TurnFails ==
    /\ Aborts
    /\ pc = "turn"
    /\ Stop("aborted", handlers)
    /\ UNCHANGED written

TurnStarts ==
    /\ pc = "turn"
    /\ iteration' = iteration + 1
    /\ pc' \in {"calls", "floor"}  \* a turn without a call is over: nothing is swept
    /\ UNCHANGED <<machine, evidence, budget, written, job, test, turn, close, report,
                   termination>>

\* A command of a build tool or the shell that is detached; in the test phase the
\* runner of a candidate, or a poll of it.
Work ==
    /\ pc = "calls"
    /\ sealed = "open"
    /\ \/ phase = "test" /\ (RunTests \/ PollTests)
       \/ \E j \in Job : /\ job[j] = "none"
                         /\ job' = [job EXCEPT ![j] = "running"]
                         /\ UNCHANGED <<attempt, polled>>
    /\ UNCHANGED <<machine, evidence, budget, written, survey, iteration, pc, turn,
                   close, report, termination>>

\* project(action='analyze').
Analyze ==
    /\ pc = "calls"
    /\ sealed = "open"
    /\ survey' \in Surveys
    /\ attempt' = IF phase = "test" THEN attempt \cup {"refreshed"} ELSE attempt
    /\ UNCHANGED <<machine, evidence, budget, written, job, polled, iteration, pc,
                   turn, close, report, termination>>

\* phase(action='note'): it does not end the batch.
Note ==
    /\ pc = "calls"
    /\ noted' = TRUE
    /\ UNCHANGED <<machine, evidence, budget, written, job, test, iteration, pc,
                   signal, close, report, termination>>

\* report: refused until the evidence is sealed and its snapshot is in place.
Report ==
    /\ pc = "calls"
    /\ sealed # "open"
    /\ written
    /\ report' \in {"delivered", "failed"}
    /\ UNCHANGED <<machine, evidence, budget, written, job, test, iteration, pc,
                   turn, close, termination>>

\* phase(action='done' or 'blocked'), if the gate accepts the claim.
Claim(kind, claimed) ==
    /\ pc = "calls"
    /\ \E found \in Readings : ~AttemptRequired(found)
    /\ kind = "blocked" => claimed # "success"
    /\ \E seen \in Observations, done \in GateSettlements, domains \in Domains :
         \E open \in BooksOpen(done) :
           LET validated == Graded(claimed, seen[1], open, domains)
               green == seen[1] = "success" /\ open /\ sealed = "open"
           IN /\ Accepts(claimed, validated)
              /\ kind = "blocked" => validated # "success" /\ ~green
              /\ job' = Settled(done)
              /\ signal' = [kind |-> kind, claimed |-> claimed,
                            validated |-> validated, fact |-> seen[2]]
    /\ pc' = "sweep"
    /\ UNCHANGED <<machine, evidence, budget, written, test, iteration, noted, close,
                   report, termination>>

\* phase(action='repair') along an edge of the policy.
Propose ==
    /\ pc = "calls"
    /\ phase \in Repairable
    /\ \E found \in Readings : ~AttemptRequired(found)
    /\ signal' = [kind |-> "repair"]
    /\ pc' = "sweep"
    /\ UNCHANGED <<machine, evidence, budget, written, job, test, iteration, noted,
                   close, report, termination>>

\* _close_phase_for_loop: the loop breaker closes the phase as failed, without a
\* gate and without facts.  The turn's signals find nothing left to do.
LoopCloses ==
    /\ pc = "calls"
    /\ sealed = "open"
    /\ \E found \in Readings :
         IF AttemptRequired(found)
         THEN /\ ForceAttempt(found)
              /\ UNCHANGED <<machine, ready, audit, pc, closing, after>>
         ELSE /\ Take("completed", "failed", ready, Route(phase, "failed", ready), "sweep")
              /\ UNCHANGED <<survey, job>>
    /\ UNCHANGED <<sealed, conflicts, budget, written, iteration, turn, handlers,
                   report, termination>>

CallsEnd ==
    /\ pc = "calls"
    /\ pc' = "sweep"
    /\ UNCHANGED <<machine, evidence, budget, written, job, test, iteration, turn,
                   close, report, termination>>

\* _sweep_job_obligations, after every batch of an unsealed run.
Sweep ==
    /\ pc = "sweep"
    /\ \E done \in GateSettlements : job' = Settled(done)
    /\ pc' = "signals"
    /\ UNCHANGED <<machine, evidence, budget, written, test, iteration, turn, close,
                   report, termination>>

-----------------------------------------------------------------------------
(* _handle_phase_signals. *)

\* The first signal of the turn is the one that is handled.
Handled == IF noted THEN [kind |-> "note"] ELSE signal

\* The signals are those of one turn.
TurnOver == noted' = FALSE /\ signal' = NoSignal

NothingSignalled ==
    /\ pc = "signals"
    /\ Handled.kind \in {"none", "note"}
    /\ pc' = "floor"
    /\ TurnOver
    /\ UNCHANGED <<machine, evidence, budget, written, job, test, iteration, close,
                   report, termination>>

\* The engine asks for the mandatory attempt again, and caps the gate's answer.
ClaimRouted ==
    /\ pc = "signals"
    /\ Handled.kind \in {"done", "blocked"}
    /\ \E found \in Readings :
         LET outcome == TestCapped(signal.validated, found)
             facts == Stated(signal.fact)
             how == IF signal.kind = "blocked" THEN "blocked" ELSE "completed"
         IN CASE ~Accepts(signal.claimed, outcome) ->
                   /\ pc' = "floor"
                   /\ UNCHANGED <<machine, ready, audit, job, test, closing, after>>
              [] Accepts(signal.claimed, outcome) /\ AttemptRequired(found) ->
                   /\ ForceAttempt(found)
                   /\ pc' = "floor"
                   /\ UNCHANGED <<machine, ready, audit, closing, after>>
              [] OTHER ->
                   /\ Take(how, outcome, facts, Route(phase, outcome, facts), "floor")
                   /\ UNCHANGED <<survey, job>>
    /\ TurnOver
    /\ UNCHANGED <<sealed, conflicts, budget, written, iteration, handlers, report,
                   termination>>

\* Faulty: a repair is proposed past its budget.
MayAlwaysRepair(outcome) == outcome # "success"

MayRepair(outcome) == outcome # "success" /\ budget.run > 0 /\ budget[phase] > 0

Spent == [budget EXCEPT !.run = @ - 1, ![phase] = @ - 1]

\* The source is graded as a failed attempt and closed.  A proposal that is
\* refused, for stale evidence or as a recurrence too, is routed as any other.
RepairRouted ==
    /\ pc = "signals"
    /\ Handled.kind = "repair"
    /\ \E found \in Readings, seen \in Observations, done \in GateSettlements,
          domains \in Domains, repaired \in BOOLEAN :
         \E open \in BooksOpen(done) :
           LET outcome == TestCapped(Graded("failed", seen[1], open, domains), found)
               facts == Stated(seen[2])
               back == [kind |-> "repair", target |-> PhaseNames[Position(phase) - 1]]
           IN IF AttemptRequired(found)
              THEN /\ ForceAttempt(found)
                   /\ pc' = "floor"
                   /\ UNCHANGED <<machine, ready, audit, budget, closing, after>>
              ELSE /\ repaired => MayRepair(outcome)
                   /\ budget' = IF repaired THEN Spent ELSE budget
                   /\ job' = Settled(done)
                   /\ Take("completed", outcome, facts,
                           IF repaired THEN back ELSE Route(phase, outcome, facts),
                           "floor")
                   /\ UNCHANGED survey
    /\ TurnOver
    /\ UNCHANGED <<sealed, conflicts, written, iteration, handlers, report,
                   termination>>

-----------------------------------------------------------------------------
(* _finalize_evidence. *)

\* Faulty: the wait has no deadline.
NoDeadline == {FALSE}

\* The answers of the clock at the hold deadline of a wait for running jobs.
DeadlinePassed == BOOLEAN

\* _await_open_obligations, of a working close.
WaitEnds ==
    /\ pc = "wait"
    /\ \E passed \in DeadlinePassed : passed \/ \A j \in Job : job[j] # "running"
    /\ pc' = "settle"
    /\ UNCHANGED <<machine, evidence, budget, written, job, test, iteration, turn,
                   close, report, termination>>

CloseSettles ==
    /\ pc = "settle"
    /\ \E done \in Settlements : job' = Settled(done)
    /\ pc' = "name"
    /\ UNCHANGED <<machine, evidence, budget, written, test, iteration, turn, close,
                   report, termination>>

\* Faulty: a job that exited since it was settled counts as settled.
NamesRunning ==
    /\ pc = "name"
    /\ conflicts' = conflicts \cup {j \in Job : job[j] = "running"}
    /\ pc' = "seal"
    /\ UNCHANGED <<machine, ready, audit, sealed, budget, written, job, test,
                   iteration, turn, close, report, termination>>

\* _record_unsettled_job_conflicts, which gives up on a ledger it cannot read.
CloseNames ==
    /\ pc = "name"
    /\ conflicts' = conflicts \cup Open \/ (Faults /\ UNCHANGED conflicts)
    /\ pc' = "seal"
    /\ UNCHANGED <<machine, ready, audit, sealed, budget, written, job, test,
                   iteration, turn, close, report, termination>>

Seal ==
    /\ pc = "seal"
    /\ sealed' = closing
    /\ pc' = "persist"
    /\ UNCHANGED <<machine, ready, audit, conflicts, budget, written, job, test,
                   iteration, turn, close, report, termination>>

\* finalize, from the seal on: the snapshot is written, or found as it was written.
\* A run that goes on after it goes on; the others end.
Persist ==
    /\ pc = "persist"
    /\ closing = sealed
    /\ written' = TRUE
    /\ IF after \in {"completed", "aborted", "cancelled"}
       THEN pc' = "ended" /\ termination' = after
       ELSE pc' = after /\ UNCHANGED termination
    /\ closing' = "none"
    /\ after' = "none"
    /\ UNCHANGED <<machine, evidence, budget, job, test, iteration, turn, handlers,
                   report>>

\* Faulty: the failed write is logged, and the run ends as it was going to.
FailsQuietly ==
    /\ Faults
    /\ pc = "persist"
    /\ after \in {"completed", "aborted", "cancelled"}
    /\ pc' = "ended"
    /\ termination' = after
    /\ UNCHANGED <<machine, evidence, budget, written, job, test, iteration, turn,
                   close, report>>

\* The container fails before or after the write, or does not show the snapshot.
PersistFails ==
    /\ Faults
    /\ pc = "persist"
    /\ closing = sealed
    /\ written' \in {written, TRUE}
    /\ Raise("aborted")

\* A close with another reason than the seal's is an error.
PersistConflicts ==
    /\ pc = "persist"
    /\ closing # sealed
    /\ Raise("aborted")
    /\ UNCHANGED written

-----------------------------------------------------------------------------
FloorStep == OutOfTurns \/ OutOfTime \/ FloorForces \/ FloorPasses \/ FloorCloses

CallStep ==
    \/ TurnStarts \/ TurnFails \/ Work \/ Analyze \/ Note \/ Report
    \/ \E kind \in {"done", "blocked"}, claimed \in Verdicts : Claim(kind, claimed)
    \/ Propose \/ LoopCloses \/ CallsEnd

SignalStep == Sweep \/ NothingSignalled \/ ClaimRouted \/ RepairRouted

CloseStep ==
    \/ WaitEnds \/ CloseSettles \/ CloseNames \/ Seal
    \/ Persist \/ PersistFails \/ PersistConflicts

Engine == LoopFails \/ FloorStep \/ CallStep \/ SignalStep \/ CloseStep

Next == Engine \/ Interrupt \/ \E j \in Job : JobExits(j)

Spec == Init /\ [][Next]_vars

\* The engine goes on, a batch of calls ends; no job need ever exit.
Fairness ==
    /\ WF_vars(FloorStep)
    /\ WF_vars(TurnStarts)
    /\ WF_vars(CallsEnd)
    /\ WF_vars(SignalStep)
    /\ WF_vars(CloseStep)

FairSpec == Spec /\ Fairness

-----------------------------------------------------------------------------
(* Properties. *)

Records ==
    [phase : Phases, termination : {"completed", "blocked", "aborted", "skipped"},
     outcome : Outcomes \cup {"skipped"},
     route : {"advance", "repair", "evidence_close", "flow_close", "abort"}]

TypeOK ==
    /\ phase \in Phases \cup {"closed"}
    /\ records \in Seq(Records)
    /\ ready \in [{"provision", "analyze", "build"} -> {"unset", "yes", "no"}]
    /\ budget \in [run : 0..2, test : 0..1, build : 0..1]
    /\ audit \in Seq(Records)
    /\ sealed \in CloseReasons \cup {"open"}
    /\ conflicts \subseteq Job
    /\ written \in BOOLEAN
    /\ job \in [Job -> {"none", "running", "exited", "settled"}]
    /\ survey \in BOOLEAN
    /\ attempt \subseteq {"receipt", "refusal", "refreshed"}
    /\ polled \in Job \cup {NoJob}
    /\ iteration \in 0..MaxIterations
    /\ pc \in {"floor", "turn", "calls", "sweep", "signals", "wait", "settle", "name",
               "seal", "persist", "ended"}
    /\ noted \in BOOLEAN
    /\ signal.kind \in {"none", "done", "blocked", "repair"}
    /\ closing \in CloseReasons \cup {"none"}
    /\ after \in {"none", "floor", "turn", "sweep", "completed", "aborted", "cancelled"}
    /\ handlers \in 0..2
    /\ report \in {"skipped", "delivered", "failed"}
    /\ termination \in {"none", "completed", "aborted", "cancelled", "raised"}

Last(s) == s[Len(s)]
NewRecords == {records'[n] : n \in (Len(records) + 1)..Len(records')}

\* Nothing enters a sealed evidence state, and no job is started or settled after
\* the seal: not by the report phase, a late sweep, an abort or a cancellation.
SealedRunIsFrozen ==
    [][sealed # "open" =>
         /\ UNCHANGED <<evidence, budget>>
         /\ \A j \in Job : job'[j] # job[j] => job[j] = "running" /\ job'[j] = "exited"]_vars

\* The close reason is the one the sealed records tell: the test phase ended, its
\* dependents were left out, or the open attempt was broken off.
CloseReasonTold ==
    sealed # "open" =>
        CASE sealed = "test_terminated" ->
               /\ Last(audit).phase = "test"
               /\ Last(audit).termination \in {"completed", "blocked"}
          [] sealed = "dependents_skipped" -> Last(audit).termination = "skipped"
          [] OTHER -> Last(audit).termination = "aborted"

\* No turn of the report phase begins, and no report is delivered, before the
\* evidence is sealed and the snapshot of the verdict is in the container.
ReportAfterEvidence ==
    \/ phase = "report" /\ pc \in {"floor", "turn", "calls", "sweep", "signals"}
    \/ report # "skipped"
    => sealed \in WorkingCloses /\ written

\* The attempts that a repair has ended.
Repairs == {n \in DOMAIN records : records[n].route = "repair"}

\* Each attempt was opened by the one before it: on a ready prerequisite, by the one
\* repair its phase may make of the phase before, or by an evidence-close.
FlowFollowsPrerequisites ==
    /\ \A m, n \in Repairs : records[m].phase = records[n].phase => m = n
    /\ \A n \in 2..Len(records) :
           LET from == records[n - 1]
               to == records[n]
           IN CASE from.route = "advance" ->
                     /\ Position(to.phase) = Position(from.phase) + 1
                     /\ to.termination # "skipped"
                     /\ to.phase = "test" => from.outcome \in {"success", "partial"}
                [] from.route = "repair" ->
                     /\ Position(to.phase) = Position(from.phase) - 1
                     /\ from.outcome # "success"
                [] from.route = "evidence_close" ->
                     to.phase = "report" \/ to.termination = "skipped"
                [] OTHER -> FALSE

\* While a detached job owes its result no phase is recorded a success, whoever
\* closes it: a claim, a refused repair or the floor.
NoSuccessOnOpenBooks ==
    [][\A r \in NewRecords :
         r.outcome = "success" /\ sealed = "open" =>
             \A j \in Job : job'[j] \notin {"running", "exited"}]_vars

\* A run that returns has a sealed verdict in the container, and says completed
\* only of a flow the report phase closed.
EndsHonestly ==
    pc = "ended" /\ termination # "raised" =>
        /\ sealed # "open" /\ written
        /\ IF phase = "closed"
           THEN Last(records).phase = "report"
           ELSE termination # "completed" /\ Last(records).termination = "aborted"

\* Every job without a receipt at the seal is named on the sealed verdict.
BooksStated == sealed # "open" => Open \subseteq conflicts

\* The engine closes no test attempt that owes its mandatory run, and records no
\* tested success without a receipt of the runner.
TestAttempted ==
    [][\A r \in NewRecords :
         r.phase = "test" /\ r.termination \in {"completed", "blocked"} =>
             /\ ~AttemptRequired(survey)
             /\ r.outcome = "success" => "receipt" \in attempt]_vars

\* A run left to itself reaches its report, unless it spent turns on a repair or
\* ends in a test attempt that was handed a job to poll.
ReportReachedOrPolling ==
    pc = "ended" => phase \in {"report", "closed"} \/ budget.run < 2 \/ polled # NoJob

\* The run always reaches its report.
ReportReached == pc = "ended" => phase \in {"report", "closed"}

\* A claim that the gate accepted is routed by the turn that made it.
AcceptedClaimRouted ==
    [][/\ pc = "signals" /\ pc' # "signals"
       /\ signal.kind \in {"done", "blocked"}
       /\ ~AttemptRequired(survey)
       /\ TestCapped(signal.validated, survey) = signal.validated
       => records' # records]_vars

\* Every run ends, whether or not its jobs do.
RunEnds == <>(pc = "ended")
=============================================================================
