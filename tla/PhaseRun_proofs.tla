---------------------------- MODULE PhaseRun_proofs ----------------------------
(***************************************************************************)
(* Theorems about one run for every number of turns, every floor, every    *)
(* set of detached jobs and outcomes, with or without faults, interrupts   *)
(* and early ends.                                                         *)
(***************************************************************************)
EXTENDS PhaseRun, FiniteSetTheorems, SequenceTheorems, TLAPS

-----------------------------------------------------------------------------
(* The order of the phases. *)

\* The phases that lead to the report; they are the ones that establish evidence.
Before == {"provision", "analyze", "build", "test"}

\* The positions of the phases, as the definitions of the model compute them.
LEMMA PhaseOrder ==
    /\ Phases = Before \cup {"report"}
    /\ Position("provision") = 1
    /\ Position("analyze") = 2
    /\ Position("build") = 3
    /\ Position("test") = 4
    /\ Position("report") = 5
<1>1. /\ PhaseNames[1] = "provision" /\ PhaseNames[2] = "analyze" /\ PhaseNames[3] = "build"
      /\ PhaseNames[4] = "test" /\ PhaseNames[5] = "report"
  BY DEF PhaseNames
<1>2. 1..5 = {1, 2, 3, 4, 5}
  OBVIOUS
<1>3. Phases = Before \cup {"report"}
  BY <1>1, <1>2 DEF Phases, Before
<1>4. \A n \in 1..5 : Position(PhaseNames[n]) = n
  <2> TAKE n \in 1..5
  <2>1. \A m \in 1..5 : PhaseNames[m] = PhaseNames[n] => m = n
    BY <1>1, <1>2
  <2> QED
    BY <2>1 DEF Position
<1> QED
  BY <1>1, <1>2, <1>3, <1>4

\* A phase that leads to another one leads to the next.
LEMMA Successors ==
    /\ Successor("provision") = "analyze"
    /\ Successor("analyze") = "build"
    /\ Successor("build") = "test"
BY PhaseOrder DEF Successor, PhaseNames

-----------------------------------------------------------------------------
(* The records a step adds. *)

Facts == [{"provision", "analyze", "build"} -> {"unset", "yes", "no"}]
Routes == [kind : {"advance", "repair", "evidence_close", "flow_close"},
           target : Phases \cup {"closed"}]

\* The dependents left out by an evidence-close.
LEMMA SkipsType ==
    ASSUME NEW p \in Phases, NEW kind \in {"advance", "repair", "evidence_close", "flow_close"},
           kind = "evidence_close" => p \in Before
    PROVE  /\ Skips(p, kind) \in Seq(Records)
           /\ kind # "evidence_close" \/ p = "test" => Skips(p, kind) = << >>
           /\ kind = "evidence_close" /\ p # "test" => Skips(p, kind) # << >>
           /\ \A n \in 1..Len(Skips(p, kind)) :
                /\ Skips(p, kind)[n].termination = "skipped"
                /\ Skips(p, kind)[n].outcome = "skipped"
                /\ Skips(p, kind)[n].route = "evidence_close"
<1>1. CASE kind # "evidence_close"
  BY <1>1, EmptySeq DEF Skips
<1>2. CASE kind = "evidence_close"
  <2> DEFINE k == 4 - Position(p)
             left == [n \in 1..k |->
                        Terminal(PhaseNames[Position(p) + n], "skipped", "skipped",
                                 "evidence_close")]
  <2>1. Skips(p, kind) = left
    BY <1>2 DEF Skips
  <2>2. Position(p) \in 1..4 /\ (Position(p) = 4 <=> p = "test") /\ k \in 0..3
    BY <1>2, PhaseOrder DEF Before
  <2>3. \A n \in 1..k : PhaseNames[Position(p) + n] \in Phases
    BY <2>2 DEF Phases
  <2>4. \A n \in 1..k : left[n] \in Records
    BY <2>3 DEF Terminal, Records
  <2>5. left \in Seq(Records) /\ Len(left) = k
    BY <2>2, <2>4
  <2>6. p = "test" => left = << >>
    BY <2>2, <2>5
  <2>7. p # "test" => left # << >>
    BY <2>2, <2>5
  <2>8. \A n \in 1..Len(left) : /\ left[n].termination = "skipped"
                                /\ left[n].outcome = "skipped"
                                /\ left[n].route = "evidence_close"
    BY <2>5 DEF Terminal
  <2> QED
    BY <1>2, <2>1, <2>5, <2>6, <2>7, <2>8
<1> QED
  BY <1>1, <1>2

\* The records of an attempt that is closed.
Added(p, how, outcome, kind) == <<Terminal(p, how, outcome, kind)>> \o Skips(p, kind)

\* They are records, at least one.
LEMMA AddedType ==
    ASSUME NEW p \in Phases, NEW how \in {"completed", "blocked"}, NEW outcome \in Outcomes,
           NEW kind \in {"advance", "repair", "evidence_close", "flow_close"},
           kind = "evidence_close" => p \in Before
    PROVE  /\ Added(p, how, outcome, kind) \in Seq(Records)
           /\ Len(Added(p, how, outcome, kind)) = 1 + Len(Skips(p, kind))
           /\ Len(Skips(p, kind)) \in Nat
<1>1. Terminal(p, how, outcome, kind) \in Records
  BY DEF Terminal, Records
<1>2. Skips(p, kind) \in Seq(Records)
  BY SkipsType
<1> QED
  BY <1>1, <1>2 DEF Added

\* The first is that of the attempt itself; the others are of the phases left out.
LEMMA AddedShape ==
    ASSUME NEW p \in Phases, NEW how \in {"completed", "blocked"}, NEW outcome \in Outcomes,
           NEW kind \in {"advance", "repair", "evidence_close", "flow_close"},
           kind = "evidence_close" => p \in Before,
           NEW n \in 1..Len(Added(p, how, outcome, kind))
    PROVE  IF n = 1
           THEN Added(p, how, outcome, kind)[n] = Terminal(p, how, outcome, kind)
           ELSE /\ kind = "evidence_close" /\ p # "test"
                /\ Added(p, how, outcome, kind)[n].termination = "skipped"
                /\ Added(p, how, outcome, kind)[n].outcome = "skipped"
                /\ Added(p, how, outcome, kind)[n].route = "evidence_close"
<1> DEFINE head == <<Terminal(p, how, outcome, kind)>>
           tail == Skips(p, kind)
<1>1. Terminal(p, how, outcome, kind) \in Records
  BY DEF Terminal, Records
<1>2. head \in Seq(Records) /\ Len(head) = 1 /\ head[1] = Terminal(p, how, outcome, kind)
  BY <1>1
<1>3. /\ tail \in Seq(Records)
      /\ kind # "evidence_close" \/ p = "test" => tail = << >>
      /\ \A m \in 1..Len(tail) : /\ tail[m].termination = "skipped"
                                 /\ tail[m].outcome = "skipped"
                                 /\ tail[m].route = "evidence_close"
  BY SkipsType
<1>4. Len(tail) \in Nat /\ (tail = << >> => Len(tail) = 0)
  BY <1>3, EmptySeq, LenProperties
<1>5. Len(Added(p, how, outcome, kind)) = 1 + Len(tail)
  BY AddedType
<1> HIDE DEF head, tail
<1>6. \A m \in 1..(1 + Len(tail)) :
        Added(p, how, outcome, kind)[m] = IF m <= 1 THEN head[m] ELSE tail[m - 1]
  BY <1>2, <1>3, ConcatProperties DEF Added, head, tail
<1>7. CASE n = 1
  BY <1>2, <1>4, <1>6, <1>7
<1>8. CASE n # 1
  <2>1. n - 1 \in 1..Len(tail) /\ Added(p, how, outcome, kind)[n] = tail[n - 1]
    BY <1>4, <1>5, <1>6, <1>8
  <2>2. tail # << >>
    BY <1>4, <2>1
  <2> QED
    BY <1>3, <1>8, <2>1, <2>2
<1> QED
  BY <1>7, <1>8

\* A test attempt, and one that leads on, adds one record; the others leave phases out.
LEMMA AddedLength ==
    ASSUME NEW p \in Phases, NEW how \in {"completed", "blocked"}, NEW outcome \in Outcomes,
           NEW kind \in {"advance", "repair", "evidence_close", "flow_close"},
           kind = "evidence_close" => p \in Before
    PROVE  Len(Added(p, how, outcome, kind)) = 1 <=> kind # "evidence_close" \/ p = "test"
<1>1. /\ Skips(p, kind) \in Seq(Records)
      /\ Skips(p, kind) = << >> <=> kind # "evidence_close" \/ p = "test"
  BY SkipsType
<1>2. Len(Skips(p, kind)) = 0 <=> Skips(p, kind) = << >>
  BY <1>1, EmptySeq, LenProperties
<1>3. /\ Len(Added(p, how, outcome, kind)) = 1 + Len(Skips(p, kind))
      /\ Len(Skips(p, kind)) \in Nat
  BY AddedType
<1> QED
  BY <1>1, <1>2, <1>3

-----------------------------------------------------------------------------
(* Typing and control. *)

Signals ==
    [kind : {"none", "repair"}]
      \cup [kind : {"done", "blocked"}, claimed : Outcomes, validated : Outcomes,
            fact : {"unset", "yes", "no"}]

InLoop == {"floor", "turn", "calls", "sweep", "signals"}
Unsealed == {"wait", "settle", "name", "seal"}
Closes == Unsealed \cup {"persist"}

\* Types alone do not say that a turn is left where one starts, that a signal is of
\* the turn at hand, or that the phase an action leads on from has a successor.
\* The loop goes on in a phase of evidence while it is open and in the report once
\* it is sealed and written; a close in progress knows where it leads.
ControlInv ==
    /\ TypeOK
    /\ signal \in Signals
    /\ pc = "turn" \/ after = "turn" => iteration < MaxIterations
    /\ pc \in InLoop =>
         IF sealed = "open" THEN phase \in Before
         ELSE phase = "report" /\ sealed \in WorkingCloses /\ written
    /\ pc \in InLoop => after = "none"
    /\ pc \in Unsealed => sealed = "open"
    /\ pc = "persist" => sealed # "open"
    /\ pc \in Closes =>
         /\ closing \in CloseReasons
         /\ after # "none"
         /\ after \in InLoop => closing \in WorkingCloses /\ phase = "report"
         /\ after = "completed" => phase = "closed"
    /\ phase = "closed" => sealed \in WorkingCloses /\ pc \in {"persist", "ended"}
    /\ signal.kind # "none" => pc \in {"sweep", "signals", "ended"}
    /\ signal.kind = "repair" => phase \in Repairable
    /\ phase = "test" => ready["build"] = "yes"
    /\ report # "skipped" => sealed \in WorkingCloses /\ written

-----------------------------------------------------------------------------
\* The evidence a gate reads, and what it makes of it.
LEMMA GateTypes ==
    ASSUME ControlInv
    PROVE  /\ \A seen \in Observations : seen[1] \in Outcomes /\ seen[2] \in {"unset", "yes", "no"}
           /\ \A found \in Readings : found \in BOOLEAN
           /\ \A done \in Settlements : done \subseteq Exited
           /\ \A done \in GateSettlements : done \subseteq Exited
           /\ \A done \in SUBSET Job :
                Settled(done) \in [Job -> {"none", "running", "exited", "settled"}]
<1>1. \A seen \in Answers : seen[1] \in Outcomes /\ seen[2] \in {"unset", "yes", "no"}
  BY DEF Answers, Outcomes
<1>2. \A found \in Readings : found \in BOOLEAN
  BY DEF Readings, ControlInv, TypeOK
<1>3. \A done \in Settlements : done \subseteq Exited
  BY DEF Settlements
<1>4. \A done \in GateSettlements : done \subseteq Exited
  BY <1>3 DEF GateSettlements
<1> QED
  BY <1>1, <1>2, <1>3, <1>4 DEF Observations, Settled, ControlInv, TypeOK

\* No grade leaves the outcomes, and none is a success that was not observed as one.
LEMMA GradeTypes ==
    ASSUME NEW claimed \in Outcomes, NEW state \in Outcomes, NEW found \in BOOLEAN,
           NEW open \in BOOLEAN, NEW domains \in BOOLEAN
    PROVE  /\ Capped(state, open) \in Outcomes
           /\ Graded(claimed, state, open, domains) \in Outcomes
           /\ TestCapped(state, found) \in Outcomes
           /\ TestCapped(state, found) = "success" => state = "success"
           /\ Capped(state, open) = "success" /\ sealed = "open" => ~open
           /\ Graded(claimed, state, open, domains) = "success" /\ sealed = "open" => ~open
BY DEF Capped, Graded, TestCapped, Outcomes

\* The entry facts keep their type, and those of the build are stated in the build only.
LEMMA StatedType ==
    ASSUME ControlInv, NEW fact \in {"unset", "yes", "no"}
    PROVE  /\ Stated(fact) \in Facts
           /\ phase # "build" => Stated(fact)["build"] = ready["build"]
BY DEF Stated, Facts, ControlInv, TypeOK

\* Where a closed attempt may lead: on to a phase whose entry fact is verified, back
\* along a repair, to the report or out of the flow.
Leading(p, outcome, facts, route) ==
    /\ route \in Routes
    /\ route.kind = "advance" =>
         /\ p \in {"provision", "analyze", "build"}
         /\ route.target = Successor(p)
         /\ facts[p] = "yes"
         /\ p = "build" => outcome \in {"success", "partial"}
    /\ route.kind = "repair" =>
         /\ p \in Repairable
         /\ route.target = PhaseNames[Position(p) - 1]
         /\ outcome # "success"
    /\ route.kind = "evidence_close" => p \in Before /\ route.target = "report"
    /\ route.kind = "flow_close" => p = "report" /\ route.target = "closed"

\* The routes of the policy.
LEMMA RouteLeads ==
    ASSUME NEW p \in Phases, NEW outcome \in Outcomes, NEW facts \in Facts
    PROVE  Leading(p, outcome, facts, Route(p, outcome, facts))
<1>1. p \in {"provision", "analyze", "build", "test", "report"}
  BY PhaseOrder DEF Before
<1>2. CASE p = "report"
  BY <1>2 DEF Leading, Route, Routes
<1>3. CASE p # "report" /\ p # "test" /\ MayAdvance(p, outcome, facts)
  <2>1. Successor(p) \in Phases
    BY <1>1, <1>3, Successors, PhaseOrder DEF Before
  <2>2. Route(p, outcome, facts) = [kind |-> "advance", target |-> Successor(p)]
    BY <1>3 DEF Route
  <2> QED
    BY <1>1, <1>3, <2>1, <2>2 DEF Leading, Routes, MayAdvance
<1>4. CASE p # "report" /\ ~(p # "test" /\ MayAdvance(p, outcome, facts))
  <2>1. Route(p, outcome, facts) = [kind |-> "evidence_close", target |-> "report"]
    BY <1>4 DEF Route
  <2> QED
    BY <1>1, <1>4, <2>1, PhaseOrder DEF Leading, Routes, Before
<1> QED
  BY <1>2, <1>3, <1>4

\* The way back of a repair.
LEMMA RepairLeads ==
    ASSUME NEW p \in Repairable, NEW outcome \in Outcomes, outcome # "success", NEW facts \in Facts
    PROVE  Leading(p, outcome, facts,
                   [kind |-> "repair", target |-> PhaseNames[Position(p) - 1]])
BY PhaseOrder DEF Leading, Routes, Repairable, PhaseNames, Before

\* A closed attempt, whoever closes it, leaves the engine in the loop, waiting for an
\* evidence-close, or about to persist the end of the flow.
LEMMA TakeControl ==
    ASSUME ControlInv, pc \in InLoop, NEW how \in {"completed", "blocked"},
           NEW outcome \in Outcomes, NEW facts \in Facts, NEW route,
           Leading(phase, outcome, facts, route),
           phase # "build" => facts["build"] = ready["build"],
           NEW next \in {"floor", "turn", "sweep"},
           Take(how, outcome, facts, route, next), UNCHANGED <<sealed, handlers>>
    PROVE  /\ phase' \in Phases \cup {"closed"}
           /\ records' \in Seq(Records) /\ audit' \in Seq(Records)
           /\ ready' \in Facts
           /\ attempt' = {} /\ polled' = NoJob
           /\ closing' \in CloseReasons \cup {"none"}
           /\ \/ /\ route.kind \in {"advance", "repair"}
                 /\ pc' = next /\ phase' \in Before /\ sealed = "open"
                 /\ after' = "none" /\ closing' = closing
              \/ /\ route.kind = "evidence_close"
                 /\ pc' = "wait" /\ phase' = "report" /\ sealed = "open" /\ after' = next
                 /\ closing' \in WorkingCloses
              \/ /\ route.kind = "flow_close"
                 /\ pc' = "persist" /\ phase' = "closed" /\ sealed \in WorkingCloses
                 /\ after' = "completed" /\ closing' = sealed
           /\ phase' = "test" => ready'["build"] = "yes"
<1>1. phase \in Phases /\ (phase \in Before <=> sealed = "open")
  BY PhaseOrder DEF ControlInv, Before, WorkingCloses
<1>2. route \in Routes /\ route.kind \in {"advance", "repair", "evidence_close", "flow_close"}
  BY DEF Leading, Routes
<1> DEFINE new == Added(phase, how, outcome, route.kind)
<1>3. new \in Seq(Records)
  <2>1. route.kind = "evidence_close" => phase \in Before
    BY DEF Leading
  <2> QED
    BY <1>1, <1>2, <2>1, AddedType
<1>4. records' = records \o new /\ audit' = Audited(new)
  BY DEF Take, Added
<1>5. records' \in Seq(Records) /\ audit' \in Seq(Records)
  BY <1>3, <1>4, ConcatProperties DEF Audited, ControlInv, TypeOK
<1>6. ready' \in Facts /\ (sealed = "open" => ready' = facts)
  BY DEF Take, Facts, ControlInv, TypeOK
<1>7. phase' = route.target /\ attempt' = {} /\ polled' = NoJob
  BY DEF Take
<1>8. CASE route.kind \in {"advance", "repair"}
  <2>1. phase' \in Before /\ sealed = "open"
    BY <1>1, <1>7, <1>8, Successors, PhaseOrder DEF Leading, Before, Repairable, PhaseNames
  <2>2. pc' = next /\ after' = "none" /\ closing' = closing
    BY <1>8 DEF Take, ControlInv
  <2>3. phase' = "test" => facts["build"] = "yes"
    BY <1>7, <1>8, Successors, PhaseOrder DEF Leading, Repairable, PhaseNames
  <2> QED
    BY <1>5, <1>6, <1>7, <1>8, <2>1, <2>2, <2>3, PhaseOrder DEF ControlInv, TypeOK
<1>9. CASE route.kind = "evidence_close"
  <2>1. pc' = "wait" /\ after' = next /\ closing' \in WorkingCloses
    BY <1>9 DEF Take, WorkingCloses
  <2> QED
    BY <1>1, <1>5, <1>6, <1>7, <1>9, <2>1, PhaseOrder DEF Leading, CloseReasons
<1>10. CASE route.kind = "flow_close"
  <2>1. pc' = "persist" /\ after' = "completed" /\ closing' = sealed
    BY <1>10 DEF Take
  <2>2. phase = "report" /\ phase' = "closed"
    BY <1>7, <1>10 DEF Leading
  <2>3. sealed \in WorkingCloses
    BY <2>2 DEF ControlInv, Before
  <2> QED
    BY <1>5, <1>6, <1>7, <1>10, <2>1, <2>2, <2>3 DEF CloseReasons
<1> QED
  BY <1>2, <1>8, <1>9, <1>10

\* The record of an attempt that is broken off, if there is one to break off.
Broken ==
    IF phase = "closed" \/ (records # << >> /\ records[Len(records)].termination = "aborted")
    THEN << >>
    ELSE <<Terminal(phase, "aborted", "unknown", "abort")>>

\* An abort or a cancellation leads to the end, over the seal if there is none yet.
LEMMA StopControl ==
    ASSUME ControlInv, pc # "ended", NEW how \in {"aborted", "cancelled"},
           NEW left \in 0..2, Stop(how, left), written' \in {written, TRUE}
    PROVE  ControlInv'
<1>1. Broken \in Seq(Records)
  <2>1. CASE phase = "closed"
    BY <2>1, EmptySeq DEF Broken
  <2>2. CASE phase # "closed"
    <3>1. Terminal(phase, "aborted", "unknown", "abort") \in Records
      BY <2>2 DEF Terminal, Records, Outcomes, ControlInv, TypeOK
    <3>2. << >> \in Seq(Records)
      BY EmptySeq
    <3> QED
      BY <3>1, <3>2 DEF Broken
  <2> QED
    BY <2>1, <2>2
<1>2. records' = records \o Broken /\ audit' = Audited(Broken)
  BY DEF Stop, Broken
<1>3. records' \in Seq(Records) /\ audit' \in Seq(Records)
  BY <1>1, <1>2, ConcatProperties DEF Audited, ControlInv, TypeOK
<1>4. /\ closing' \in CloseReasons
      /\ after' = how
      /\ pc' = IF sealed = "open" THEN "settle" ELSE "persist"
      /\ handlers' = left /\ noted' = FALSE /\ signal' = NoSignal
      /\ UNCHANGED <<phase, ready, sealed, conflicts, budget, job, test, iteration,
                     report, termination>>
  BY DEF Stop, CloseReasons
<1>5. signal' \in Signals /\ signal'.kind = "none"
  BY <1>4 DEF NoSignal, Signals
<1>6. written' \in BOOLEAN /\ (written => written')
  BY DEF ControlInv, TypeOK
<1>7. TypeOK'
  BY <1>3, <1>4, <1>5, <1>6 DEF ControlInv, TypeOK, test, CloseReasons
<1> QED
  BY <1>4, <1>5, <1>6, <1>7 DEF ControlInv, InLoop, Closes, Unsealed, CloseReasons

\* So does an exception, unless no handler is left to catch it.
LEMMA RaiseControl ==
    ASSUME ControlInv, pc # "ended", NEW how \in {"aborted", "cancelled"}, Raise(how),
           written' \in {written, TRUE}
    PROVE  ControlInv'
<1>1. CASE handlers > 0
  <2>1. Stop(how, handlers - 1) /\ handlers - 1 \in 0..2
    BY <1>1 DEF Raise, ControlInv, TypeOK
  <2> QED
    BY <2>1, StopControl
<1>2. CASE ~(handlers > 0)
  <2>1. /\ pc' = "ended" /\ termination' = "raised"
        /\ UNCHANGED <<machine, evidence, budget, job, test, iteration, turn, close, report>>
    BY <1>2 DEF Raise
  <2>2. written' \in BOOLEAN /\ (written => written')
    BY DEF ControlInv, TypeOK
  <2>3. TypeOK'
    BY <2>1, <2>2 DEF ControlInv, TypeOK, machine, evidence, test, turn, close
  <2> QED
    BY <2>1, <2>2, <2>3
       DEF ControlInv, InLoop, Closes, Unsealed, machine, evidence, test, turn, close
<1> QED
  BY <1>1, <1>2

\* A run of the test runner, or a poll of it, leaves them well typed.
LEMMA RunnerType ==
    ASSUME ControlInv, RunTests \/ PollTests
    PROVE  /\ attempt' \subseteq {"receipt", "refusal", "refreshed"}
           /\ polled' \in Job \cup {NoJob}
           /\ job' \in [Job -> {"none", "running", "exited", "settled"}]
BY DEF RunTests, PollTests, ControlInv, TypeOK

\* A forced test attempt leaves the attempt and the jobs well typed.
LEMMA ForceType ==
    ASSUME ControlInv, NEW found \in BOOLEAN, ForceAttempt(found)
    PROVE  /\ survey' \in BOOLEAN
           /\ attempt' \subseteq {"receipt", "refusal", "refreshed"}
           /\ polled' \in Job \cup {NoJob}
           /\ job' \in [Job -> {"none", "running", "exited", "settled"}]
<1>1. /\ survey \in BOOLEAN /\ attempt \subseteq {"receipt", "refusal", "refreshed"}
      /\ polled \in Job \cup {NoJob}
      /\ job \in [Job -> {"none", "running", "exited", "settled"}]
  BY DEF ControlInv, TypeOK
<1>2. CASE found = FALSE
  <2>1. /\ survey' \in Surveys
        /\ attempt' = attempt \cup {"refreshed"}
        /\ UNCHANGED <<job, polled>>
    BY <1>2 DEF ForceAttempt
  <2> QED
    BY <1>1, <2>1, RunAssumption
<1>3. CASE found = TRUE
  <2>1. survey' = survey
    BY <1>3 DEF ForceAttempt
  <2>2. \/ RunTests \/ PollTests
        \/ UNCHANGED <<job, polled>> /\ attempt' \in {attempt, attempt \cup {"refusal"}}
    BY <1>3 DEF ForceAttempt
  <2> QED
    BY <1>1, RunnerType, <2>1, <2>2
<1> QED
  BY <1>2, <1>3

\* A mandatory attempt is owed in the test phase of an open run.
LEMMA ForceInTest ==
    ASSUME ControlInv, pc \in InLoop, NEW found, AttemptRequired(found)
    PROVE  phase = "test" /\ sealed = "open"
BY DEF AttemptRequired, ControlInv, Before

\* A repair is charged to the run and to the phase it leaves, which has none left then.
LEMMA SpentType ==
    ASSUME phase \in Repairable, budget \in [run : 0..2, test : 0..1, build : 0..1],
           budget.run > 0, budget[phase] > 0
    PROVE  /\ Spent \in [run : 0..2, test : 0..1, build : 0..1]
           /\ \A p \in Repairable : Spent[p] = IF p = phase THEN 0 ELSE budget[p]
           /\ Spent.run = budget.run - 1
<1>1. Spent = [budget EXCEPT !["run"] = @ - 1, ![phase] = @ - 1]
  BY Zenon DEF Spent
<1>2. CASE phase = "test"
  <2>1. Spent = [budget EXCEPT !["run"] = @ - 1, !["test"] = @ - 1]
    BY <1>1, <1>2
  <2>2. budget["run"] \in 1..2 /\ budget["test"] = 1 /\ budget["build"] \in 0..1
    BY <1>2
  <2>3. Spent \in [run : 0..2, test : 0..1, build : 0..1]
    BY <2>1, <2>2
  <2>4. Spent["run"] = budget["run"] - 1 /\ Spent["test"] = 0 /\ Spent["build"] = budget["build"]
    BY <2>1, <2>2
  <2> QED
    BY <1>2, <2>3, <2>4 DEF Repairable
<1>3. CASE phase = "build"
  <2>1. Spent = [budget EXCEPT !["run"] = @ - 1, !["build"] = @ - 1]
    BY <1>1, <1>3
  <2>2. budget["run"] \in 1..2 /\ budget["build"] = 1 /\ budget["test"] \in 0..1
    BY <1>3
  <2>3. Spent \in [run : 0..2, test : 0..1, build : 0..1]
    BY <2>1, <2>2
  <2>4. Spent["run"] = budget["run"] - 1 /\ Spent["build"] = 0 /\ Spent["test"] = budget["test"]
    BY <2>1, <2>2
  <2> QED
    BY <1>3, <2>3, <2>4 DEF Repairable
<1> QED
  BY <1>2, <1>3 DEF Repairable

-----------------------------------------------------------------------------
(* The steps that close an attempt. *)

\* What is open after a gate settled, and what a gate that found the books closed says.
LEMMA BooksSettled ==
    ASSUME ControlInv, NEW done \in SUBSET Exited
    PROVE  /\ job' = Settled(done) => Open' \subseteq Open
           /\ job' = Settled(done) /\ FALSE \in BooksOpen(done) => Open' = {}
<1>1. SUFFICES ASSUME job' = Settled(done) PROVE Open' = Open \ done
  BY DEF BooksOpen
<1> QED
  BY <1>1 DEF Open, Settled

\* The attempt that is open is closed, by whoever closes it: no mandatory attempt is
\* owed, the outcome is not above what the survey and the books allow, the facts are
\* stated by this phase only, and a repair is paid for.
CloseAttempt(how, outcome, facts, route, next) ==
    /\ how \in {"completed", "blocked"} /\ outcome \in Outcomes /\ facts \in Facts
    /\ next \in {"floor", "turn", "sweep"} /\ (next = "turn" => iteration < MaxIterations)
    /\ Leading(phase, outcome, facts, route)
    /\ Take(how, outcome, facts, route, next)
    /\ phase # "build" => facts["build"] = ready["build"]
    /\ \E found \in Readings :
         /\ ~AttemptRequired(found)
         /\ outcome = "success" => TestCapped("success", found) = "success"
    /\ outcome = "success" /\ sealed = "open" => Open' = {}
    /\ \E done \in SUBSET Exited : job' = Settled(done) /\ (sealed # "open" => done = {})
    /\ IF route.kind = "repair" THEN budget.run > 0 /\ budget[phase] > 0 /\ budget' = Spent
       ELSE budget' = budget
    /\ UNCHANGED <<sealed, conflicts, written, survey, iteration, handlers, report,
                   termination>>

AttemptCloses ==
    /\ pc \in InLoop
    /\ \E how, outcome, facts, route, next : CloseAttempt(how, outcome, facts, route, next)

\* A success that is not taken back names the validator's success.
LEMMA TestCapKeeps ==
    ASSUME NEW state \in Outcomes, NEW found \in BOOLEAN,
           TestCapped(state, found) = "success"
    PROVE  TestCapped("success", found) = "success"
BY DEF TestCapped, Outcomes

\* The floor closes the attempt.
LEMMA FloorClosed ==
    ASSUME ControlInv, FloorCloses
    PROVE  AttemptCloses /\ noted' = noted /\ signal' = signal /\ signal.kind = "none"
<1>1. PICK found \in Readings, seen \in Observations, done \in GateSettlements :
        \E open \in BooksOpen(done) :
          LET outcome == TestCapped(Capped(seen[1], open), found)
              facts == Stated(seen[2])
          IN /\ ~AttemptRequired(found)
             /\ job' = Settled(done)
             /\ Take("completed", outcome, facts, Route(phase, outcome, facts), "turn")
  BY DEF FloorCloses
<1>2. PICK open \in BooksOpen(done) :
        LET outcome == TestCapped(Capped(seen[1], open), found)
            facts == Stated(seen[2])
        IN /\ ~AttemptRequired(found)
           /\ job' = Settled(done)
           /\ Take("completed", outcome, facts, Route(phase, outcome, facts), "turn")
  BY <1>1
<1> DEFINE outcome == TestCapped(Capped(seen[1], open), found)
           facts == Stated(seen[2])
           route == Route(phase, outcome, facts)
<1>3. /\ seen[1] \in Outcomes /\ seen[2] \in {"unset", "yes", "no"} /\ found \in BOOLEAN
      /\ done \in SUBSET Exited /\ open \in BOOLEAN
  BY GateTypes DEF BooksOpen
<1>4. Capped(seen[1], open) \in Outcomes /\ outcome \in Outcomes
  BY <1>3, GradeTypes
<1>5. outcome = "success" => TestCapped("success", found) = "success"
  BY <1>3, <1>4, TestCapKeeps
<1>6. outcome = "success" /\ sealed = "open" => Open' = {}
  <2>1. outcome = "success" /\ sealed = "open" => open = FALSE
    BY <1>3, <1>4, GradeTypes
  <2> QED
    BY <1>2, <1>3, <2>1, BooksSettled
<1>7. facts \in Facts /\ (phase # "build" => facts["build"] = ready["build"])
  BY <1>3, StatedType
<1>8. pc \in InLoop /\ phase \in Phases /\ iteration < MaxIterations /\ signal.kind = "none"
  BY PhaseOrder DEF FloorCloses, InLoop, ControlInv
<1>9. Leading(phase, outcome, facts, route)
  BY <1>4, <1>7, <1>8, RouteLeads
<1>10. route.kind # "repair"
  BY DEF Route
<1>11. /\ UNCHANGED <<budget, noted, signal>>
       /\ UNCHANGED <<sealed, conflicts, written, survey, iteration, handlers, report,
                      termination>>
  BY DEF FloorCloses, turn
<1>12. /\ ~AttemptRequired(found) /\ job' = Settled(done)
       /\ sealed # "open" => done = {}
       /\ Take("completed", outcome, facts, route, "turn")
  BY <1>2 DEF GateSettlements
<1> HIDE DEF outcome, facts, route
<1>13. CloseAttempt("completed", outcome, facts, route, "turn")
  BY <1>4, <1>5, <1>6, <1>7, <1>8, <1>9, <1>10, <1>11, <1>12, <1>3 DEF CloseAttempt
<1> QED
  BY <1>8, <1>11, <1>13 DEF AttemptCloses

\* What is owed to the test phase is executed, and the engine stays in its loop.
AttemptForced ==
    /\ pc \in InLoop
    /\ \E found \in Readings : AttemptRequired(found) /\ ForceAttempt(found)
    /\ UNCHANGED <<machine, evidence, budget, written, iteration, close, report, termination>>
    /\ pc' \in InLoop /\ (pc' = "turn" => iteration < MaxIterations)

\* The floor forces it.
LEMMA FloorForced ==
    ASSUME ControlInv, FloorForces
    PROVE  AttemptForced /\ noted' = noted /\ signal' = signal /\ signal.kind = "none"
BY DEF FloorForces, AttemptForced, InLoop, turn, ControlInv

\* The loop breaker does either; the batch had signalled nothing.
LEMMA LoopClosed ==
    ASSUME ControlInv, LoopCloses
    PROVE  /\ AttemptForced \/ AttemptCloses
           /\ noted' = noted /\ signal' = signal /\ signal.kind = "none"
<1>1. /\ pc = "calls" /\ pc \in InLoop /\ phase \in Phases /\ signal.kind = "none"
      /\ sealed = "open"
      /\ UNCHANGED <<sealed, conflicts, budget, written, iteration, noted, signal, handlers,
                     report, termination>>
  BY PhaseOrder DEF LoopCloses, ControlInv, InLoop, turn
<1>2. PICK found \in Readings :
        IF AttemptRequired(found)
        THEN /\ ForceAttempt(found)
             /\ UNCHANGED <<machine, ready, audit, pc, closing, after>>
        ELSE /\ Take("completed", "failed", ready, Route(phase, "failed", ready), "sweep")
             /\ UNCHANGED <<survey, job>>
  BY DEF LoopCloses
<1>3. CASE AttemptRequired(found)
  <2>1. /\ ForceAttempt(found) /\ pc' = "calls"
        /\ UNCHANGED <<machine, evidence, budget, written, iteration, close, report, termination>>
    BY <1>1, <1>2, <1>3 DEF evidence, close
  <2> QED
    BY <1>1, <1>3, <2>1 DEF AttemptForced, InLoop
<1>4. CASE ~AttemptRequired(found)
  <2> DEFINE route == Route(phase, "failed", ready)
  <2>1. Take("completed", "failed", ready, route, "sweep") /\ UNCHANGED <<survey, job>>
    BY <1>2, <1>4
  <2>2. "failed" \in Outcomes /\ ready \in Facts
    BY DEF Outcomes, ControlInv, TypeOK, Facts
  <2>3. Leading(phase, "failed", ready, route)
    BY <1>1, <2>2, RouteLeads
  <2>4. route.kind # "repair"
    BY DEF Route
  <2>5. {} \in SUBSET Exited /\ job' = Settled({})
    BY <2>1 DEF Settled, ControlInv, TypeOK
  <2> HIDE DEF route
  <2>6. CloseAttempt("completed", "failed", ready, route, "sweep")
    BY <1>1, <1>4, <2>1, <2>2, <2>3, <2>4, <2>5 DEF CloseAttempt
  <2> QED
    BY <1>1, <2>6 DEF AttemptCloses
<1> QED
  BY <1>1, <1>3, <1>4

\* A success a claim is graded with was graded on settled books, and no job was started
\* since.
BooksInv ==
    signal.kind \in {"done", "blocked"} /\ sealed = "open" /\ signal.validated = "success"
      => Open = {}

\* A claim that was accepted is routed, is refused once more, or owes the attempt.
LEMMA ClaimClosed ==
    ASSUME ControlInv, BooksInv, ClaimRouted
    PROVE  /\ \/ AttemptForced
              \/ AttemptCloses
              \/ /\ pc = "signals" /\ pc' = "floor"
                 /\ UNCHANGED <<machine, evidence, budget, written, job, test, iteration, close,
                                report, termination>>
           /\ noted' = FALSE /\ signal' = NoSignal
<1>1. /\ pc = "signals" /\ pc \in InLoop /\ phase \in Phases
      /\ signal.kind \in {"done", "blocked"}
      /\ noted' = FALSE /\ signal' = NoSignal
      /\ UNCHANGED <<sealed, conflicts, budget, written, iteration, handlers, report,
                     termination>>
  BY PhaseOrder DEF ClaimRouted, TurnOver, Handled, ControlInv, InLoop
<1>2. signal.validated \in Outcomes /\ signal.fact \in {"unset", "yes", "no"}
  BY <1>1 DEF Signals, ControlInv
<1>3. PICK found \in Readings :
       LET outcome == TestCapped(signal.validated, found)
           facts == Stated(signal.fact)
           how == IF signal.kind = "blocked" THEN "blocked" ELSE "completed"
       IN CASE ~Accepts(signal.claimed, outcome) ->
                 /\ pc' = "floor"
                 /\ UNCHANGED <<machine, ready, audit, job, test, closing, after>>
            [] Accepts(signal.claimed, outcome) /\ AttemptRequired(found) ->
                 /\ ForceAttempt(found)
                 /\ pc' = "floor"
                 /\ UNCHANGED <<machine, ready, audit, closing, after>>
            [] OTHER ->
                 /\ Take(how, outcome, facts, Route(phase, outcome, facts), "floor")
                 /\ UNCHANGED <<survey, job>>
  BY DEF ClaimRouted
<1> DEFINE outcome == TestCapped(signal.validated, found)
           facts == Stated(signal.fact)
           how == IF signal.kind = "blocked" THEN "blocked" ELSE "completed"
           route == Route(phase, outcome, facts)
<1>4. found \in BOOLEAN
  BY GateTypes
<1>5. CASE ~Accepts(signal.claimed, outcome)
  BY <1>1, <1>3, <1>5 DEF evidence, close
<1>6. CASE Accepts(signal.claimed, outcome) /\ AttemptRequired(found)
  <2>1. /\ ForceAttempt(found) /\ pc' = "floor"
        /\ UNCHANGED <<machine, evidence, budget, written, iteration, close, report,
                       termination>>
    BY <1>1, <1>3, <1>6 DEF evidence, close
  <2> QED
    BY <1>1, <1>6, <2>1 DEF AttemptForced, InLoop
<1>7. CASE Accepts(signal.claimed, outcome) /\ ~AttemptRequired(found)
  <2>1. Take(how, outcome, facts, route, "floor") /\ UNCHANGED <<survey, job>>
    BY <1>3, <1>7
  <2>2. outcome \in Outcomes /\ how \in {"completed", "blocked"}
    BY <1>2, <1>4, GradeTypes
  <2>3. facts \in Facts /\ (phase # "build" => facts["build"] = ready["build"])
    BY <1>2, StatedType
  <2>4. Leading(phase, outcome, facts, route)
    BY <1>1, <2>2, <2>3, RouteLeads
  <2>5. outcome = "success" => TestCapped("success", found) = "success"
    BY <1>2, <1>4, TestCapKeeps
  <2>6. outcome = "success" /\ sealed = "open" => Open' = {}
    <3>1. outcome = "success" => signal.validated = "success"
      BY <1>2, <1>4, GradeTypes
    <3> QED
      BY <1>1, <2>1, <3>1 DEF BooksInv, Open
  <2>7. route.kind # "repair"
    BY DEF Route
  <2>8. {} \in SUBSET Exited /\ job' = Settled({})
    BY <2>1 DEF Settled, ControlInv, TypeOK
  <2> HIDE DEF outcome, facts, how, route
  <2>9. CloseAttempt(how, outcome, facts, route, "floor")
    BY <1>1, <1>7, <2>1, <2>2, <2>3, <2>4, <2>5, <2>6, <2>7, <2>8 DEF CloseAttempt
  <2> QED
    BY <1>1, <2>9 DEF AttemptCloses
<1> QED
  BY <1>1, <1>5, <1>6, <1>7

\* A repair that was proposed is granted, is routed as a failed attempt, or owes the
\* attempt.
LEMMA RepairClosed ==
    ASSUME ControlInv, RepairRouted
    PROVE  /\ AttemptForced \/ AttemptCloses
           /\ noted' = FALSE /\ signal' = NoSignal
<1>1. /\ pc = "signals" /\ pc \in InLoop /\ phase \in Phases /\ phase \in Repairable
      /\ noted' = FALSE /\ signal' = NoSignal
      /\ UNCHANGED <<sealed, conflicts, written, iteration, handlers, report, termination>>
  BY PhaseOrder DEF RepairRouted, TurnOver, Handled, ControlInv, InLoop
<1>0. PICK found \in Readings, seen \in Observations, done \in GateSettlements,
           domains \in Domains, repaired \in BOOLEAN :
         \E open \in BooksOpen(done) :
           LET outcome == TestCapped(Graded("failed", seen[1], open, domains), found)
               facts == Stated(seen[2])
               back == [kind |-> "repair", target |-> PhaseNames[Position(phase) - 1]]
           IN IF AttemptRequired(found)
              THEN /\ ForceAttempt(found)
                   /\ pc' = "floor"
                   /\ UNCHANGED <<machine, ready, audit, budget, closing, after>>
              ELSE /\ repaired => MayRepair(outcome)
                   /\ budget' = IF repaired THEN Spent ELSE budget
                   /\ job' = Settled(done)
                   /\ Take("completed", outcome, facts,
                           IF repaired THEN back ELSE Route(phase, outcome, facts),
                           "floor")
                   /\ UNCHANGED survey
  BY DEF RepairRouted
<1>2. PICK open \in BooksOpen(done) :
         LET outcome == TestCapped(Graded("failed", seen[1], open, domains), found)
             facts == Stated(seen[2])
             back == [kind |-> "repair", target |-> PhaseNames[Position(phase) - 1]]
         IN IF AttemptRequired(found)
            THEN /\ ForceAttempt(found)
                 /\ pc' = "floor"
                 /\ UNCHANGED <<machine, ready, audit, budget, closing, after>>
            ELSE /\ repaired => MayRepair(outcome)
                 /\ budget' = IF repaired THEN Spent ELSE budget
                 /\ job' = Settled(done)
                 /\ Take("completed", outcome, facts,
                         IF repaired THEN back ELSE Route(phase, outcome, facts),
                         "floor")
                 /\ UNCHANGED survey
  BY <1>0
<1> DEFINE grade == Graded("failed", seen[1], open, domains)
           outcome == TestCapped(grade, found)
           facts == Stated(seen[2])
           back == [kind |-> "repair", target |-> PhaseNames[Position(phase) - 1]]
           route == IF repaired THEN back ELSE Route(phase, outcome, facts)
<1>3. /\ seen[1] \in Outcomes /\ seen[2] \in {"unset", "yes", "no"} /\ found \in BOOLEAN
      /\ done \in SUBSET Exited /\ open \in BOOLEAN /\ domains \in BOOLEAN
      /\ "failed" \in Outcomes
  BY GateTypes DEF BooksOpen, Domains, Outcomes
<1>4. CASE AttemptRequired(found)
  <2>1. /\ ForceAttempt(found) /\ pc' = "floor"
        /\ UNCHANGED <<machine, evidence, budget, written, iteration, close, report,
                       termination>>
    BY <1>1, <1>2, <1>4 DEF evidence, close
  <2> QED
    BY <1>1, <1>4, <2>1 DEF AttemptForced, InLoop
<1>5. CASE ~AttemptRequired(found)
  <2>1. /\ repaired => MayRepair(outcome)
        /\ budget' = IF repaired THEN Spent ELSE budget
        /\ job' = Settled(done)
        /\ Take("completed", outcome, facts, route, "floor")
        /\ UNCHANGED survey
    BY <1>2, <1>5
  <2>2. grade \in Outcomes /\ (grade = "success" /\ sealed = "open" => open = FALSE)
    BY <1>3, GradeTypes
  <2>3. outcome \in Outcomes /\ (outcome = "success" => grade = "success")
    BY <1>3, <2>2, GradeTypes
  <2>4. facts \in Facts /\ (phase # "build" => facts["build"] = ready["build"])
    BY <1>3, StatedType
  <2>5. outcome = "success" => TestCapped("success", found) = "success"
    BY <1>3, <2>2, TestCapKeeps
  <2>6. outcome = "success" /\ sealed = "open" => Open' = {}
    BY <1>3, <2>1, <2>2, <2>3, BooksSettled
  <2> HIDE DEF outcome, facts, grade
  <2>7. /\ Leading(phase, outcome, facts, route)
        /\ route.kind = "repair" <=> repaired
    <3>1. CASE repaired
      <4>1. outcome # "success"
        BY <2>1, <3>1 DEF MayRepair
      <4> QED
        BY <1>1, <2>3, <2>4, <3>1, <4>1, RepairLeads
    <3>2. CASE ~repaired
      BY <1>1, <2>3, <2>4, <3>2, RouteLeads DEF Route
    <3> QED
      BY <3>1, <3>2
  <2>8. IF route.kind = "repair" THEN budget.run > 0 /\ budget[phase] > 0 /\ budget' = Spent
        ELSE budget' = budget
    BY <2>1, <2>7 DEF MayRepair
  <2>9. sealed # "open" => done = {}
    BY DEF GateSettlements
  <2> HIDE DEF route
  <2>10. CloseAttempt("completed", outcome, facts, route, "floor")
    BY <1>1, <1>3, <1>5, <2>1, <2>3, <2>4, <2>5, <2>6, <2>7, <2>8, <2>9 DEF CloseAttempt
  <2> QED
    BY <1>1, <2>10 DEF AttemptCloses
<1> QED
  BY <1>1, <1>4, <1>5
-----------------------------------------------------------------------------
(* Every step keeps the control. *)

\* A forced attempt in the loop.
LEMMA ForceControl ==
    ASSUME ControlInv, AttemptForced, noted' \in BOOLEAN,
           \/ signal' = NoSignal
           \/ signal' = signal /\ signal.kind = "none"
    PROVE  ControlInv'
<1>1. PICK found \in Readings : AttemptRequired(found) /\ ForceAttempt(found)
  BY DEF AttemptForced
<1>2. found \in BOOLEAN
  BY GateTypes
<1>3. /\ survey' \in BOOLEAN
      /\ attempt' \subseteq {"receipt", "refusal", "refreshed"}
      /\ polled' \in Job \cup {NoJob}
      /\ job' \in [Job -> {"none", "running", "exited", "settled"}]
  BY <1>1, <1>2, ForceType
<1>4. signal' \in Signals /\ signal'.kind = "none"
  BY DEF ControlInv, NoSignal, Signals
<1>5. /\ pc \in InLoop
      /\ UNCHANGED <<machine, evidence, budget, written, iteration, close, report, termination>>
      /\ pc' \in {"floor", "turn", "calls", "sweep", "signals"}
      /\ pc' = "turn" => iteration < MaxIterations
  BY DEF AttemptForced, InLoop
<1>6. TypeOK'
  BY <1>3, <1>4, <1>5 DEF ControlInv, TypeOK, machine, evidence, close
<1> QED
  BY <1>4, <1>5, <1>6 DEF ControlInv, machine, evidence, close, InLoop, Closes, Unsealed

\* A closed attempt in the loop.
LEMMA AttemptControl ==
    ASSUME ControlInv, AttemptCloses, noted' \in BOOLEAN,
           \/ signal' = NoSignal
           \/ signal' = signal /\ signal.kind = "none"
    PROVE  ControlInv'
<1>0. PICK how, outcome, facts, route, next : CloseAttempt(how, outcome, facts, route, next)
  BY DEF AttemptCloses
<1>a. /\ pc \in InLoop
      /\ how \in {"completed", "blocked"} /\ outcome \in Outcomes /\ facts \in Facts
      /\ next \in {"floor", "turn", "sweep"} /\ (next = "turn" => iteration < MaxIterations)
      /\ Leading(phase, outcome, facts, route)
      /\ Take(how, outcome, facts, route, next)
      /\ phase # "build" => facts["build"] = ready["build"]
      /\ UNCHANGED <<sealed, handlers>>
  BY <1>0 DEF CloseAttempt, AttemptCloses
<1>b. UNCHANGED <<sealed, conflicts, written, survey, iteration, handlers, report, termination>>
  BY <1>0 DEF CloseAttempt
<1>1. /\ phase' \in Phases \cup {"closed"}
      /\ records' \in Seq(Records) /\ audit' \in Seq(Records)
      /\ ready' \in Facts
      /\ attempt' = {} /\ polled' = NoJob
      /\ closing' \in CloseReasons \cup {"none"}
      /\ \/ /\ pc' = next /\ phase' \in Before /\ sealed = "open"
            /\ after' = "none"
         \/ /\ pc' = "wait" /\ phase' = "report" /\ sealed = "open" /\ after' = next
            /\ closing' \in WorkingCloses
         \/ /\ pc' = "persist" /\ phase' = "closed" /\ sealed \in WorkingCloses
            /\ after' = "completed" /\ closing' = sealed
      /\ phase' = "test" => ready'["build"] = "yes"
  BY <1>a, TakeControl
<1>d. job' \in [Job -> {"none", "running", "exited", "settled"}]
  BY <1>0, GateTypes DEF CloseAttempt, Exited
<1>e. budget' \in [run : 0..2, test : 0..1, build : 0..1]
  <2>1. budget \in [run : 0..2, test : 0..1, build : 0..1]
    BY DEF ControlInv, TypeOK
  <2>2. CASE route.kind = "repair"
    <3>1. phase \in Repairable /\ budget.run > 0 /\ budget[phase] > 0 /\ budget' = Spent
      BY <1>0, <2>2 DEF CloseAttempt, Leading
    <3> QED
      BY <2>1, <3>1, SpentType
  <2>3. CASE route.kind # "repair"
    BY <1>0, <2>1, <2>3 DEF CloseAttempt
  <2> QED
    BY <2>2, <2>3
<1>f. signal' \in Signals /\ signal'.kind = "none"
  BY DEF ControlInv, NoSignal, Signals
<1>2. TypeOK'
  BY <1>a, <1>b, <1>1, <1>d, <1>e, <1>f DEF ControlInv, TypeOK, Facts
<1>3. pc' \in InLoop => IF sealed' = "open" THEN phase' \in Before
                        ELSE phase' = "report" /\ sealed' \in WorkingCloses /\ written'
  BY <1>a, <1>b, <1>1 DEF InLoop, ControlInv
<1>4. pc' \in Closes =>
         /\ closing' \in CloseReasons
         /\ after' # "none"
         /\ after' \in InLoop => closing' \in WorkingCloses /\ phase' = "report"
         /\ after' = "completed" => phase' = "closed"
  BY <1>a, <1>b, <1>1 DEF InLoop, Closes, Unsealed, CloseReasons
<1>5. /\ pc' = "turn" \/ after' = "turn" => iteration' < MaxIterations
      /\ pc' \in InLoop => after' = "none"
      /\ pc' \in Unsealed => sealed' = "open"
      /\ pc' = "persist" => sealed' # "open"
      /\ phase' = "closed" => sealed' \in WorkingCloses /\ pc' \in {"persist", "ended"}
  BY <1>a, <1>b, <1>1 DEF InLoop, Unsealed, WorkingCloses, Before
<1>6. report' # "skipped" => sealed' \in WorkingCloses /\ written'
  BY <1>b DEF ControlInv
<1> QED
  BY <1>1, <1>2, <1>3, <1>4, <1>5, <1>6, <1>f DEF ControlInv

\* Every step of the engine, the jobs and the keyboard keeps the control.
LEMMA ControlStep ==
    ASSUME ControlInv, BooksInv, [Next]_vars
    PROVE  ControlInv'
<1> USE RunAssumption
<1>t. /\ TypeOK /\ signal \in Signals
      /\ iteration \in 0..MaxIterations /\ MaxIterations \in Nat
      /\ noted \in BOOLEAN /\ written \in BOOLEAN
  BY DEF ControlInv, TypeOK
<1>c. NoSignal \in Signals /\ NoSignal.kind = "none"
  BY DEF NoSignal, Signals
<1>1. ASSUME NEW j \in Job, JobExits(j) PROVE ControlInv'
  BY <1>1 DEF JobExits, ControlInv, TypeOK, machine, evidence, test, turn, close
<1>2. CASE Interrupt
  BY <1>2, RaiseControl DEF Interrupt
<1>3. CASE LoopFails
  BY <1>3, RaiseControl DEF LoopFails
<1>4. CASE OutOfTurns
  <2>1. handlers \in 0..2 /\ pc # "ended" /\ Stop("aborted", handlers) /\ written' = written
    BY <1>4 DEF OutOfTurns, ControlInv, TypeOK
  <2> QED
    BY <2>1, StopControl
<1>5. CASE OutOfTime
  <2>1. handlers \in 0..2 /\ pc # "ended" /\ Stop("aborted", handlers) /\ written' = written
    BY <1>5 DEF OutOfTime, ControlInv, TypeOK
  <2> QED
    BY <2>1, StopControl
<1>6. CASE FloorForces
  BY <1>t, <1>6, FloorForced, ForceControl
<1>7. CASE FloorPasses
  BY <1>7 DEF FloorPasses, ControlInv, TypeOK, machine, evidence, test, turn, close,
              InLoop, Closes, Unsealed
<1>8. CASE FloorCloses
  BY <1>t, <1>8, FloorClosed, AttemptControl
<1>9. CASE TurnFails
  <2>1. handlers \in 0..2 /\ pc # "ended" /\ Stop("aborted", handlers) /\ written' = written
    BY <1>9 DEF TurnFails, ControlInv, TypeOK
  <2> QED
    BY <2>1, StopControl
<1>10. CASE TurnStarts
  BY <1>10 DEF TurnStarts, ControlInv, TypeOK, machine, evidence, test, turn, close,
               InLoop, Closes, Unsealed
<1>11. CASE Work
  <2>1. /\ attempt' \subseteq {"receipt", "refusal", "refreshed"}
        /\ polled' \in Job \cup {NoJob}
        /\ job' \in [Job -> {"none", "running", "exited", "settled"}]
    <3>1. CASE RunTests \/ PollTests
      BY <3>1, RunnerType
    <3>2. CASE \E j \in Job : /\ job[j] = "none"
                              /\ job' = [job EXCEPT ![j] = "running"]
                              /\ UNCHANGED <<attempt, polled>>
      BY <1>t, <3>2 DEF TypeOK
    <3> QED
      BY <1>11, <3>1, <3>2 DEF Work
  <2> QED
    BY <1>11, <2>1 DEF Work, ControlInv, TypeOK, machine, evidence, turn, close
<1>12. CASE Analyze
  BY <1>12 DEF Analyze, ControlInv, TypeOK, machine, evidence, turn, close
<1>13. CASE Note
  BY <1>13 DEF Note, ControlInv, TypeOK, machine, evidence, test, close
<1>14. CASE Report
  BY <1>14 DEF Report, ControlInv, TypeOK, machine, evidence, test, turn, close,
               InLoop, Closes, Unsealed
<1>15. ASSUME NEW kind \in {"done", "blocked"}, NEW claimed \in Verdicts, Claim(kind, claimed)
       PROVE  ControlInv'
  <2>0. PICK seen \in Observations, done \in GateSettlements, domains \in Domains :
          \E open \in BooksOpen(done) :
            /\ job' = Settled(done)
            /\ signal' = [kind |-> kind, claimed |-> claimed,
                          validated |-> Graded(claimed, seen[1], open, domains),
                          fact |-> seen[2]]
    BY <1>15 DEF Claim
  <2>1. PICK open \in BooksOpen(done) :
          /\ job' = Settled(done)
          /\ signal' = [kind |-> kind, claimed |-> claimed,
                        validated |-> Graded(claimed, seen[1], open, domains),
                        fact |-> seen[2]]
    BY <2>0
  <2>2. /\ seen[1] \in Outcomes /\ seen[2] \in {"unset", "yes", "no"}
        /\ done \in SUBSET Job /\ open \in BOOLEAN /\ domains \in BOOLEAN
        /\ claimed \in Outcomes
    BY GateTypes DEF Exited, BooksOpen, Domains
  <2>3. Graded(claimed, seen[1], open, domains) \in Outcomes
    BY <2>2, GradeTypes
  <2>4. signal' \in Signals /\ signal'.kind = kind
    BY <2>1, <2>2, <2>3 DEF Signals
  <2>5. job' \in [Job -> {"none", "running", "exited", "settled"}]
    BY <2>1, <2>2, GateTypes
  <2>6. /\ pc = "calls" /\ pc' = "sweep"
        /\ UNCHANGED <<machine, evidence, budget, written, test, iteration, noted, close,
                       report, termination>>
    BY <1>15 DEF Claim
  <2> QED
    BY <2>4, <2>5, <2>6 DEF ControlInv, TypeOK, machine, evidence, test, close,
                            InLoop, Closes, Unsealed
<1>16. CASE Propose
  <2>1. signal' \in Signals /\ signal'.kind = "repair"
    BY <1>16 DEF Propose, Signals
  <2> QED
    BY <1>16, <2>1 DEF Propose, ControlInv, TypeOK, machine, evidence, test, close,
                       InLoop, Closes, Unsealed
<1>17. CASE LoopCloses
  BY <1>t, <1>17, LoopClosed, ForceControl, AttemptControl
<1>18. CASE CallsEnd
  BY <1>18 DEF CallsEnd, ControlInv, TypeOK, machine, evidence, test, turn, close,
               InLoop, Closes, Unsealed
<1>19. CASE Sweep
  <2>1. PICK done \in GateSettlements : job' = Settled(done)
    BY <1>19 DEF Sweep
  <2>2. job' \in [Job -> {"none", "running", "exited", "settled"}]
    BY <2>1, GateTypes DEF Exited
  <2> QED
    BY <1>19, <2>2 DEF Sweep, ControlInv, TypeOK, machine, evidence, test, turn, close,
                       InLoop, Closes, Unsealed
<1>20. CASE NothingSignalled
  <2>1. /\ pc = "signals" /\ pc' = "floor" /\ noted' = FALSE
        /\ signal' \in Signals /\ signal'.kind = "none"
        /\ UNCHANGED <<machine, evidence, budget, written, job, test, iteration, close,
                       report, termination>>
    BY <1>c, <1>20 DEF NothingSignalled, TurnOver
  <2>2. noted' \in BOOLEAN /\ pc' \in {"floor"}
    BY <2>1
  <2>3. TypeOK'
    BY <2>1, <2>2 DEF ControlInv, TypeOK, machine, evidence, test, close
  <2> QED
    BY <2>1, <2>3 DEF ControlInv, machine, evidence, test, close, InLoop, Closes, Unsealed
<1>21. CASE ClaimRouted
  <2>1. CASE AttemptForced \/ AttemptCloses
    BY <1>21, <2>1, ClaimClosed, ForceControl, AttemptControl
  <2>2. CASE /\ pc = "signals" /\ pc' = "floor"
             /\ UNCHANGED <<machine, evidence, budget, written, job, test, iteration, close,
                            report, termination>>
    <3>1. noted' = FALSE /\ signal' = NoSignal
      BY <1>21, ClaimClosed
    <3>2. signal' \in Signals /\ signal'.kind = "none" /\ noted' \in BOOLEAN
      BY <1>c, <3>1
    <3>3. TypeOK'
      BY <2>2, <3>2 DEF ControlInv, TypeOK, machine, evidence, test, close
    <3> QED
      BY <2>2, <3>2, <3>3 DEF ControlInv, machine, evidence, test, close, InLoop, Closes,
                              Unsealed
  <2> QED
    BY <1>21, <2>1, <2>2, ClaimClosed
<1>22. CASE RepairRouted
  BY <1>22, RepairClosed, ForceControl, AttemptControl
<1>23. CASE WaitEnds
  BY <1>23 DEF WaitEnds, ControlInv, TypeOK, machine, evidence, test, turn, close,
               InLoop, Closes, Unsealed
<1>24. CASE CloseSettles
  <2>1. PICK done \in Settlements : job' = Settled(done)
    BY <1>24 DEF CloseSettles
  <2>2. job' \in [Job -> {"none", "running", "exited", "settled"}]
    BY <2>1, GateTypes DEF Exited
  <2> QED
    BY <1>24, <2>2 DEF CloseSettles, ControlInv, TypeOK, machine, evidence, test, turn, close,
                       InLoop, Closes, Unsealed
<1>25. CASE CloseNames
  <2>1. conflicts' \subseteq Job
    BY <1>t, <1>25 DEF CloseNames, Open, TypeOK
  <2> QED
    BY <1>25, <2>1 DEF CloseNames, ControlInv, TypeOK, machine, test, turn, close,
                       InLoop, Closes, Unsealed
<1>26. CASE Seal
  BY <1>26 DEF Seal, ControlInv, TypeOK, machine, test, turn, close,
               InLoop, Closes, Unsealed, CloseReasons, WorkingCloses
<1>27. CASE Persist
  <2>1. /\ pc = "persist" /\ closing = sealed /\ written' = TRUE
        /\ IF after \in {"completed", "aborted", "cancelled"}
           THEN pc' = "ended" /\ termination' = after
           ELSE pc' = after /\ UNCHANGED termination
        /\ closing' = "none" /\ after' = "none"
        /\ UNCHANGED <<machine, evidence, budget, job, test, iteration, turn, handlers, report>>
    BY <1>27 DEF Persist
  <2>2. /\ after \in {"floor", "turn", "sweep", "completed", "aborted", "cancelled"}
        /\ after \in InLoop => closing \in WorkingCloses /\ phase = "report"
        /\ signal.kind = "none"
    BY <2>1 DEF ControlInv, TypeOK, Closes
  <2> QED
    BY <2>1, <2>2 DEF ControlInv, TypeOK, machine, evidence, test, turn,
                      InLoop, Closes, Unsealed, WorkingCloses
<1>28. CASE PersistFails
  <2>1. pc # "ended" /\ Raise("aborted") /\ written' \in {written, TRUE}
    BY <1>28 DEF PersistFails
  <2> QED
    BY <2>1, RaiseControl
<1>29. CASE PersistConflicts
  <2>1. pc # "ended" /\ Raise("aborted") /\ written' \in {written, TRUE}
    BY <1>29 DEF PersistConflicts
  <2> QED
    BY <2>1, RaiseControl
<1>30. CASE UNCHANGED vars
  BY <1>30 DEF vars, ControlInv, TypeOK, machine, evidence, test, turn, close
<1> QED
  BY <1>1, <1>2, <1>3, <1>4, <1>5, <1>6, <1>7, <1>8, <1>9, <1>10, <1>11, <1>12, <1>13,
     <1>14, <1>15, <1>16, <1>17, <1>18, <1>19, <1>20, <1>21, <1>22, <1>23, <1>24, <1>25,
     <1>26, <1>27, <1>28, <1>29, <1>30
     DEF Next, Engine, FloorStep, CallStep, SignalStep, CloseStep

LEMMA ControlInit == Init => ControlInv
<1> SUFFICES ASSUME Init PROVE ControlInv
  OBVIOUS
<1>1. signal \in Signals /\ signal.kind = "none"
  BY DEF Init, NoSignal, Signals
<1>2. phase \in Before /\ phase \in Phases /\ phase = "provision"
  BY PhaseOrder DEF Init, Before
<1>3. << >> \in Seq(Records)
  BY EmptySeq
<1>4. /\ survey \in BOOLEAN /\ iteration \in 0..MaxIterations
      /\ job \in [Job -> {"none", "running", "exited", "settled"}]
      /\ ready \in [{"provision", "analyze", "build"} -> {"unset", "yes", "no"}]
      /\ budget \in [run : 0..2, test : 0..1, build : 0..1]
  BY RunAssumption DEF Init
<1>5. TypeOK
  BY <1>1, <1>2, <1>3, <1>4 DEF Init, TypeOK
<1> QED
  BY <1>1, <1>2, <1>4, <1>5 DEF Init, ControlInv, InLoop, Closes, Unsealed

\* Every step keeps that an accepted success was graded on settled books: until it is
\* routed no job is started, and settling only shortens the list of open ones.
LEMMA BooksStep ==
    ASSUME ControlInv, BooksInv, [Next]_vars
    PROVE  BooksInv'
<1> USE DEF BooksInv
<1>t. /\ job \in [Job -> {"none", "running", "exited", "settled"}]
      /\ NoSignal.kind = "none"
      /\ \A done \in SUBSET Exited : job' = Settled(done) => Open' \subseteq Open
  BY BooksSettled DEF ControlInv, TypeOK, NoSignal
<1>1. ASSUME NEW j \in Job, JobExits(j) PROVE BooksInv'
  BY <1>t, <1>1 DEF JobExits, Open, evidence, turn
<1>r. ASSUME NEW how, Raise(how) PROVE BooksInv'
  <2>1. \/ signal' = NoSignal
        \/ UNCHANGED <<evidence, job, turn>>
    BY <1>r DEF Raise, Stop
  <2> QED
    BY <1>t, <2>1 DEF Open, evidence, turn
<1>2. CASE Interrupt \/ LoopFails \/ PersistFails \/ PersistConflicts
  BY <1>2, <1>r DEF Interrupt, LoopFails, PersistFails, PersistConflicts
<1>3. CASE OutOfTurns \/ OutOfTime \/ TurnFails
  <2>1. signal' = NoSignal
    BY <1>3 DEF OutOfTurns, OutOfTime, TurnFails, Stop
  <2> QED
    BY <1>t, <2>1
<1>4. CASE FloorForces \/ FloorCloses \/ LoopCloses
  <2>1. signal' = signal /\ signal.kind = "none"
    BY <1>4, FloorForced, FloorClosed, LoopClosed
  <2> QED
    BY <2>1
<1>5. CASE FloorPasses \/ TurnStarts \/ Work \/ Analyze \/ Note \/ Report
  <2>1. signal' = signal /\ signal.kind = "none"
    BY <1>5 DEF FloorPasses, TurnStarts, Work, Analyze, Note, Report, turn, ControlInv
  <2> QED
    BY <2>1
<1>6. ASSUME NEW kind \in {"done", "blocked"}, NEW claimed \in Verdicts, Claim(kind, claimed)
      PROVE  BooksInv'
  <2>0. PICK seen \in Observations, done \in GateSettlements, domains \in Domains :
          \E open \in BooksOpen(done) :
            /\ job' = Settled(done)
            /\ signal' = [kind |-> kind, claimed |-> claimed,
                          validated |-> Graded(claimed, seen[1], open, domains),
                          fact |-> seen[2]]
    BY <1>6 DEF Claim
  <2>1. PICK open \in BooksOpen(done) :
          /\ job' = Settled(done)
          /\ signal' = [kind |-> kind, claimed |-> claimed,
                        validated |-> Graded(claimed, seen[1], open, domains),
                        fact |-> seen[2]]
    BY <2>0
  <2>2. /\ seen[1] \in Outcomes /\ done \in SUBSET Exited /\ open \in BOOLEAN
        /\ domains \in BOOLEAN /\ claimed \in Outcomes
    BY GateTypes, RunAssumption DEF BooksOpen, Domains
  <2>3. sealed' = sealed /\ signal'.validated = Graded(claimed, seen[1], open, domains)
    BY <1>6, <2>1 DEF Claim, evidence
  <2>4. ASSUME sealed = "open", Graded(claimed, seen[1], open, domains) = "success"
        PROVE  Open' = {}
    <3>1. open = FALSE
      BY <2>2, <2>4, GradeTypes
    <3> QED
      BY <2>1, <2>2, <3>1, BooksSettled
  <2> QED
    BY <2>3, <2>4
<1>7. CASE Propose
  BY <1>7 DEF Propose
<1>8. CASE Sweep
  <2>1. PICK done \in GateSettlements : job' = Settled(done)
    BY <1>8 DEF Sweep
  <2>2. Open' \subseteq Open
    BY <1>t, <2>1, GateTypes
  <2> QED
    BY <1>8, <2>2 DEF Sweep, evidence, turn
<1>9. CASE NothingSignalled \/ ClaimRouted \/ RepairRouted
  <2>1. signal' = NoSignal
    BY <1>9 DEF NothingSignalled, ClaimRouted, RepairRouted, TurnOver
  <2> QED
    BY <1>t, <2>1
<1>10. CASE CallsEnd \/ WaitEnds \/ CloseSettles \/ CloseNames \/ Seal \/ Persist
  <2>1. signal' = signal /\ signal.kind = "none"
    BY <1>10 DEF CallsEnd, WaitEnds, CloseSettles, CloseNames, Seal, Persist, turn, ControlInv
  <2> QED
    BY <2>1
<1>11. CASE UNCHANGED vars
  BY <1>11 DEF vars, evidence, turn, Open
<1> QED
  BY <1>1, <1>2, <1>3, <1>4, <1>5, <1>6, <1>7, <1>8, <1>9, <1>10, <1>11
     DEF Next, Engine, FloorStep, CallStep, SignalStep, CloseStep

-----------------------------------------------------------------------------
(* The steps, by what they do to the records. *)

\* An abort or a cancellation breaks the open attempt off.
BrokenOff ==
    \E how \in {"aborted", "cancelled"}, left \in 0..2 :
        pc # "ended" /\ Stop(how, left) /\ written' \in {written, TRUE}

\* An exception that nobody catches.
Fallen ==
    /\ pc' = "ended" /\ termination' = "raised" /\ written' \in {written, TRUE}
    /\ UNCHANGED <<machine, evidence, budget, job, close>>

\* The engine goes on in its loop or in a close; the seal keeps what it holds.
Still ==
    /\ UNCHANGED <<machine, ready, audit, sealed, budget, written, closing, after, termination>>
    /\ \/ pc' = pc
       \/ pc \in InLoop /\ pc' \in InLoop
       \/ pc \in Unsealed /\ pc' \in Unsealed
    /\ sealed # "open" =>
         /\ conflicts' = conflicts
         /\ \A j \in Job : job'[j] # job[j] => job[j] = "running" /\ job'[j] = "exited"

\* Every step is of one of these shapes, a seal or the writing of the snapshot.
LEMMA StepShape ==
    ASSUME ControlInv, BooksInv, [Next]_vars
    PROVE  AttemptCloses \/ BrokenOff \/ Fallen \/ Still \/ Seal \/ Persist
<1>t. /\ job \in [Job -> {"none", "running", "exited", "settled"}]
      /\ job = Settled({}) /\ handlers \in 0..2
  BY DEF ControlInv, TypeOK, Settled
<1>f. AttemptForced => Still
  <2>1. AttemptForced => sealed = "open"
    BY ForceInTest DEF AttemptForced
  <2> QED
    BY <2>1 DEF AttemptForced, Still, machine, evidence, close
<1>g. \A done \in GateSettlements : sealed # "open" => done = {}
  BY DEF GateSettlements
<1>1. ASSUME NEW j \in Job, JobExits(j) PROVE Still
  BY <1>t, <1>1 DEF JobExits, Still, machine, evidence, close
<1>r. ASSUME NEW how \in {"aborted", "cancelled"}, Raise(how), written' \in {written, TRUE},
             pc # "ended"
      PROVE  BrokenOff \/ Fallen
  <2>1. CASE handlers > 0
    <3>1. Stop(how, handlers - 1) /\ handlers - 1 \in 0..2
      BY <1>t, <1>r, <2>1 DEF Raise
    <3> QED
      BY <1>r, <3>1 DEF BrokenOff
  <2>2. CASE ~(handlers > 0)
    BY <1>r, <2>2 DEF Raise, Fallen
  <2> QED
    BY <2>1, <2>2
<1>2. CASE Interrupt \/ LoopFails \/ PersistFails \/ PersistConflicts
  BY <1>2, <1>r DEF Interrupt, LoopFails, PersistFails, PersistConflicts
<1>3. CASE OutOfTurns \/ OutOfTime \/ TurnFails
  BY <1>t, <1>3 DEF OutOfTurns, OutOfTime, TurnFails, BrokenOff
<1>4. CASE FloorForces \/ FloorCloses \/ LoopCloses
  BY <1>4, <1>f, FloorForced, FloorClosed, LoopClosed
<1>5. CASE FloorPasses \/ TurnStarts \/ Analyze \/ Note \/ Report \/ Propose \/ CallsEnd
  BY <1>5 DEF FloorPasses, TurnStarts, Analyze, Note, Report, Propose, CallsEnd,
              Still, machine, evidence, test, turn, close, InLoop
<1>6. CASE Work
  BY <1>6 DEF Work, Still, machine, evidence, close
<1>7. ASSUME NEW kind \in {"done", "blocked"}, NEW claimed \in Verdicts, Claim(kind, claimed)
      PROVE  Still
  <2>1. PICK done \in GateSettlements : job' = Settled(done)
    BY <1>7 DEF Claim
  <2>2. sealed # "open" => job' = job
    BY <1>t, <1>g, <2>1
  <2> QED
    BY <1>7, <2>2 DEF Claim, Still, machine, evidence, close, InLoop
<1>8. CASE Sweep
  <2>1. PICK done \in GateSettlements : job' = Settled(done)
    BY <1>8 DEF Sweep
  <2>2. sealed # "open" => job' = job
    BY <1>t, <1>g, <2>1
  <2> QED
    BY <1>8, <2>2 DEF Sweep, Still, machine, evidence, close, InLoop
<1>9. CASE NothingSignalled
  BY <1>9 DEF NothingSignalled, Still, machine, evidence, close, InLoop
<1>10. CASE ClaimRouted
  <2>1. CASE /\ pc = "signals" /\ pc' = "floor"
             /\ UNCHANGED <<machine, evidence, budget, written, job, test, iteration, close,
                            report, termination>>
    BY <2>1 DEF Still, machine, evidence, close, InLoop
  <2> QED
    BY <1>10, <1>f, <2>1, ClaimClosed
<1>11. CASE RepairRouted
  BY <1>11, <1>f, RepairClosed
<1>12. CASE WaitEnds \/ CloseSettles \/ CloseNames
  <2>1. sealed = "open" /\ pc \in Unsealed /\ pc' \in Unsealed
    BY <1>12 DEF WaitEnds, CloseSettles, CloseNames, ControlInv, Unsealed
  <2> QED
    BY <1>12, <2>1 DEF WaitEnds, CloseSettles, CloseNames, Still, machine, evidence, close
<1>13. CASE UNCHANGED vars
  BY <1>13 DEF vars, Still, machine, evidence, close
<1> QED
  BY <1>1, <1>2, <1>3, <1>4, <1>5, <1>6, <1>7, <1>8, <1>9, <1>10, <1>11, <1>12, <1>13
     DEF Next, Engine, FloorStep, CallStep, SignalStep, CloseStep

-----------------------------------------------------------------------------
(* Theorems of typing and control. *)

\* The typing, the control and the settled books together are inductive.
LEMMA RunInvariant == Spec => [](ControlInv /\ BooksInv)
<1>1. Init => ControlInv /\ BooksInv
  BY ControlInit DEF Init, BooksInv, NoSignal
<1>2. ControlInv /\ BooksInv /\ [Next]_vars => (ControlInv /\ BooksInv)'
  BY ControlStep, BooksStep
<1> QED
  BY <1>1, <1>2, PTL DEF Spec

\* Every variable keeps its type.
THEOREM TypeCorrect == Spec => []TypeOK
<1>1. ControlInv => TypeOK
  BY DEF ControlInv
<1> QED
  BY <1>1, RunInvariant, PTL

\* No turn of the report phase begins, and no report is delivered, before the evidence
\* is sealed and the snapshot of the verdict is in the container.
THEOREM ReportIsAfterEvidence == Spec => []ReportAfterEvidence
<1>1. ControlInv => ReportAfterEvidence
  BY DEF ControlInv, ReportAfterEvidence, InLoop, Before
<1> QED
  BY <1>1, RunInvariant, PTL

-----------------------------------------------------------------------------
(* What a step adds to the records. *)

\* The records of an attempt that is closed follow those there are.
LEMMA AttemptRecords ==
    ASSUME ControlInv, pc \in InLoop, NEW how, NEW outcome, NEW facts, NEW route, NEW next,
           CloseAttempt(how, outcome, facts, route, next)
    PROVE  /\ phase \in Phases
           /\ route.kind \in {"advance", "repair", "evidence_close", "flow_close"}
           /\ route.kind = "evidence_close" => phase \in Before
           /\ Added(phase, how, outcome, route.kind) \in Seq(Records)
           /\ records \in Seq(Records)
           /\ records' = records \o Added(phase, how, outcome, route.kind)
           /\ audit' = Audited(Added(phase, how, outcome, route.kind))
           /\ phase' = route.target
<1>1. /\ phase \in Phases /\ how \in {"completed", "blocked"} /\ outcome \in Outcomes
      /\ route.kind \in {"advance", "repair", "evidence_close", "flow_close"}
      /\ route.kind = "evidence_close" => phase \in Before
  BY PhaseOrder DEF CloseAttempt, Leading, Routes, ControlInv
<1>2. Added(phase, how, outcome, route.kind) \in Seq(Records)
  BY <1>1, AddedType
<1>3. /\ records' = records \o Added(phase, how, outcome, route.kind)
      /\ audit' = Audited(Added(phase, how, outcome, route.kind))
      /\ phase' = route.target
  BY DEF CloseAttempt, Take, Added
<1> QED
  BY <1>1, <1>2, <1>3 DEF ControlInv, TypeOK

\* Two sequences one after the other, the second by its own positions.
LEMMA Appended ==
    ASSUME NEW s \in Seq(Records), NEW t \in Seq(Records)
    PROVE  /\ s \o t \in Seq(Records) /\ Len(s \o t) = Len(s) + Len(t)
           /\ Len(s) \in Nat /\ Len(t) \in Nat
           /\ \A n \in 1..Len(s) : (s \o t)[n] = s[n]
           /\ \A n \in 1..Len(t) : (s \o t)[Len(s) + n] = t[n]
<1>1. /\ s \o t \in Seq(Records) /\ Len(s \o t) = Len(s) + Len(t)
      /\ Len(s) \in Nat /\ Len(t) \in Nat
      /\ \A n \in 1..(Len(s) + Len(t)) :
           (s \o t)[n] = IF n <= Len(s) THEN s[n] ELSE t[n - Len(s)]
  BY ConcatProperties, LenProperties
<1>2. ASSUME NEW n \in 1..Len(s) PROVE (s \o t)[n] = s[n]
  BY <1>1
<1>3. ASSUME NEW n \in 1..Len(t) PROVE (s \o t)[Len(s) + n] = t[n]
  <2>1. /\ Len(s) + n \in 1..(Len(s) + Len(t)) /\ ~(Len(s) + n <= Len(s))
        /\ (Len(s) + n) - Len(s) = n
    BY <1>1
  <2> QED
    BY <1>1, <2>1
<1> QED
  BY <1>1, <1>2, <1>3

\* Each record an attempt adds is its own or that of a phase left out.
LEMMA ClosedAdds ==
    ASSUME ControlInv, pc \in InLoop, NEW how, NEW outcome, NEW facts, NEW route, NEW next,
           CloseAttempt(how, outcome, facts, route, next), NEW r \in NewRecords
    PROVE  \/ r = Terminal(phase, how, outcome, route.kind)
           \/ r.termination = "skipped" /\ r.outcome = "skipped"
<1> DEFINE new == Added(phase, how, outcome, route.kind)
<1>1. /\ how \in {"completed", "blocked"} /\ outcome \in Outcomes
  BY DEF CloseAttempt
<1>2. /\ phase \in Phases
      /\ route.kind \in {"advance", "repair", "evidence_close", "flow_close"}
      /\ route.kind = "evidence_close" => phase \in Before
      /\ new \in Seq(Records) /\ records \in Seq(Records)
      /\ records' = records \o new
  BY AttemptRecords
<1>3. \A n \in 1..Len(new) :
        \/ new[n] = Terminal(phase, how, outcome, route.kind)
        \/ new[n].termination = "skipped" /\ new[n].outcome = "skipped"
  BY <1>1, <1>2, AddedShape
<1> HIDE DEF new
<1>4. /\ Len(records') = Len(records) + Len(new)
      /\ Len(records) \in Nat /\ Len(new) \in Nat
      /\ \A n \in 1..Len(new) : records'[Len(records) + n] = new[n]
  BY <1>2, Appended
<1>5. PICK m \in (Len(records) + 1)..Len(records') : r = records'[m]
  BY DEF NewRecords
<1>6. m - Len(records) \in 1..Len(new) /\ Len(records) + (m - Len(records)) = m
  BY <1>4, <1>5
<1>7. r = new[m - Len(records)]
  BY <1>4, <1>5, <1>6
<1> QED
  BY <1>3, <1>6, <1>7

\* An abort or a cancellation adds the record of the open attempt, or none.
LEMMA BrokenAdds ==
    ASSUME ControlInv, BrokenOff
    PROVE  /\ Broken \in Seq(Records) /\ records \in Seq(Records)
           /\ records' = records \o Broken /\ audit' = Audited(Broken)
           /\ UNCHANGED <<phase, ready, sealed, conflicts, budget, job>>
           /\ \A r \in NewRecords : r.termination = "aborted" /\ r.outcome = "unknown"
<1>1. PICK how \in {"aborted", "cancelled"}, left \in 0..2 : Stop(how, left)
  BY DEF BrokenOff
<1>2. /\ records' = records \o Broken /\ audit' = Audited(Broken)
      /\ UNCHANGED <<phase, ready, sealed, conflicts, budget, job>>
  BY <1>1 DEF Stop, Broken
<1>3. /\ Broken \in Seq(Records) /\ Len(Broken) \in {0, 1}
      /\ \A n \in 1..Len(Broken) : Broken[n].termination = "aborted" /\ Broken[n].outcome = "unknown"
  <2>1. CASE Broken = << >>
    BY <2>1, EmptySeq
  <2>2. CASE Broken # << >>
    <3>1. phase # "closed" /\ Broken = <<Terminal(phase, "aborted", "unknown", "abort")>>
      BY <2>2 DEF Broken
    <3>2. Terminal(phase, "aborted", "unknown", "abort") \in Records
      BY <3>1 DEF Terminal, Records, Outcomes, ControlInv, TypeOK
    <3> QED
      BY <3>1, <3>2 DEF Terminal
  <2> QED
    BY <2>1, <2>2
<1>4. records \in Seq(Records)
  BY DEF ControlInv, TypeOK
<1>5. /\ Len(records') = Len(records) + Len(Broken)
      /\ Len(records) \in Nat /\ Len(Broken) \in Nat
      /\ \A n \in 1..Len(Broken) : records'[Len(records) + n] = Broken[n]
  BY <1>2, <1>3, <1>4, Appended
<1>6. ASSUME NEW r \in NewRecords PROVE r.termination = "aborted" /\ r.outcome = "unknown"
  <2>1. PICK m \in (Len(records) + 1)..Len(records') : r = records'[m]
    BY DEF NewRecords
  <2>2. m - Len(records) \in 1..Len(Broken) /\ Len(records) + (m - Len(records)) = m
    BY <1>5, <2>1
  <2>3. r = Broken[m - Len(records)]
    BY <1>5, <2>1, <2>2
  <2> QED
    BY <1>3, <2>2, <2>3
<1> QED
  BY <1>2, <1>3, <1>4, <1>6

\* A step that leaves the records as they are adds none.
LEMMA NothingAdded ==
    ASSUME ControlInv, records' = records
    PROVE  NewRecords = {}
<1>1. Len(records) \in Nat
  BY LenProperties DEF ControlInv, TypeOK
<1> QED
  BY <1>1 DEF NewRecords

-----------------------------------------------------------------------------
(* Theorems of the steps. *)

\* While a detached job owes its result no phase is recorded a success, whoever closes
\* it, with or without faults of the container.
THEOREM NoSuccessWhileJobsOwe == Spec => NoSuccessOnOpenBooks
<1> DEFINE Kept == \A r \in NewRecords :
                     r.outcome = "success" /\ sealed = "open" =>
                       \A j \in Job : job'[j] \notin {"running", "exited"}
<1>1. ASSUME ControlInv, BooksInv, [Next]_vars PROVE Kept
  <2>1. CASE AttemptCloses
    <3>1. PICK how, outcome, facts, route, next :
            CloseAttempt(how, outcome, facts, route, next)
      BY <2>1 DEF AttemptCloses
    <3>2. pc \in InLoop /\ (outcome = "success" /\ sealed = "open" => Open' = {})
      BY <2>1, <3>1 DEF CloseAttempt, AttemptCloses
    <3>3. \A r \in NewRecords : r.outcome = "success" => outcome = "success"
      BY <1>1, <3>1, <3>2, ClosedAdds DEF Terminal
    <3> QED
      BY <3>2, <3>3 DEF Open
  <2>2. CASE BrokenOff
    BY <1>1, <2>2, BrokenAdds
  <2>3. CASE Fallen \/ Still \/ Seal \/ Persist
    BY <1>1, <2>3, NothingAdded DEF Fallen, Still, Seal, Persist, machine
  <2> QED
    BY <1>1, <2>1, <2>2, <2>3, StepShape
<1>2. ControlInv /\ BooksInv /\ [Next]_vars => [Kept]_vars
  BY <1>1
<1> QED
  BY <1>2, RunInvariant, PTL DEF Spec, NoSuccessOnOpenBooks

\* In a run whose container answers, the engine closes no test attempt that owes its
\* mandatory run, and records no tested success without a receipt of the runner.
THEOREM TestsAreAttempted ==
    ASSUME Faults = FALSE
    PROVE  Spec => TestAttempted
<1> DEFINE Kept == \A r \in NewRecords :
                     r.phase = "test" /\ r.termination \in {"completed", "blocked"} =>
                       /\ ~AttemptRequired(survey)
                       /\ r.outcome = "success" => "receipt" \in attempt
<1>1. ASSUME ControlInv, BooksInv, [Next]_vars PROVE Kept
  <2>1. CASE AttemptCloses
    <3>1. PICK how, outcome, facts, route, next :
            CloseAttempt(how, outcome, facts, route, next)
      BY <2>1 DEF AttemptCloses
    <3>2. /\ pc \in InLoop /\ ~AttemptRequired(survey)
          /\ outcome = "success" => TestCapped("success", survey) = "success"
      BY <2>1, <3>1 DEF CloseAttempt, AttemptCloses, Readings
    <3>3. ASSUME phase = "test", outcome = "success" PROVE "receipt" \in attempt
      <4>1. ready["build"] = "yes"
        BY <1>1, <3>3 DEF ControlInv
      <4> QED
        BY <3>2, <3>3, <4>1 DEF AttemptRequired, TestCapped
    <3>4. \A r \in NewRecords : r.termination \in {"completed", "blocked"} =>
            r = Terminal(phase, how, outcome, route.kind)
      BY <1>1, <3>1, <3>2, ClosedAdds
    <3> QED
      BY <3>2, <3>3, <3>4 DEF Terminal
  <2>2. CASE BrokenOff
    BY <1>1, <2>2, BrokenAdds
  <2>3. CASE Fallen \/ Still \/ Seal \/ Persist
    BY <1>1, <2>3, NothingAdded DEF Fallen, Still, Seal, Persist, machine
  <2> QED
    BY <1>1, <2>1, <2>2, <2>3, StepShape
<1>2. ControlInv /\ BooksInv /\ [Next]_vars => [Kept]_vars
  BY <1>1
<1> QED
  BY <1>2, RunInvariant, PTL DEF Spec, TestAttempted

\* What a step may do to a sealed run.
LEMMA FrozenStep ==
    ASSUME ControlInv, BooksInv, [Next]_vars, sealed # "open"
    PROVE  /\ UNCHANGED <<ready, audit, sealed, conflicts, budget>>
           /\ \A j \in Job : job'[j] # job[j] => job[j] = "running" /\ job'[j] = "exited"
<1>1. CASE AttemptCloses
  <2>1. PICK how, outcome, facts, route, next :
          CloseAttempt(how, outcome, facts, route, next)
    BY <1>1 DEF AttemptCloses
  <2>2. ready' = ready /\ audit' = audit
    BY <2>1 DEF CloseAttempt, Take, Audited
  <2>3. pc \in InLoop /\ route.kind # "repair"
    BY <1>1, <2>1 DEF AttemptCloses, CloseAttempt, Leading, Repairable, ControlInv
  <2>4. UNCHANGED <<sealed, conflicts, budget>> /\ job' = Settled({})
    BY <2>1, <2>3 DEF CloseAttempt
  <2> QED
    BY <2>2, <2>4 DEF Settled
<1>2. CASE BrokenOff
  BY <1>2, BrokenAdds DEF Audited
<1>3. CASE Fallen \/ Still
  BY <1>3 DEF Fallen, Still, evidence
<1>4. CASE Persist
  BY <1>4 DEF Persist, evidence
<1>5. CASE Seal
  BY <1>5 DEF Seal, ControlInv, Unsealed
<1> QED
  BY <1>1, <1>2, <1>3, <1>4, <1>5, StepShape

\* Nothing enters a sealed evidence state, and no job is started or settled after the
\* seal: not by the report phase, a late sweep, an abort or a cancellation.
THEOREM SealedRunStaysFrozen == Spec => SealedRunIsFrozen
<1> DEFINE Kept == sealed # "open" =>
                     /\ UNCHANGED <<evidence, budget>>
                     /\ \A j \in Job : job'[j] # job[j] => job[j] = "running" /\ job'[j] = "exited"
<1>1. ControlInv /\ BooksInv /\ [Next]_vars => [Kept]_vars
  BY FrozenStep DEF evidence
<1> QED
  BY <1>1, RunInvariant, PTL DEF Spec, SealedRunIsFrozen

-----------------------------------------------------------------------------
(* What the records tell. *)

\* The records r tell of this close reason.
Tells(reason, r) ==
    /\ r # << >>
    /\ CASE reason = "test_terminated" ->
              Last(r).phase = "test" /\ Last(r).termination \in {"completed", "blocked"}
         [] reason = "dependents_skipped" -> Last(r).termination = "skipped"
         [] OTHER -> Last(r).termination = "aborted"

\* Until the seal the evidence state holds the phase machine's records, and a close in
\* progress has the reason they tell; the seal keeps the reason and the records.  The
\* loop, and what leads back to it, goes on from an attempt that was not broken off.
RecordInv ==
    /\ sealed = "open" => audit = records
    /\ pc \in Unsealed => Tells(closing, records)
    /\ sealed # "open" => Tells(sealed, audit)
    /\ phase = "closed" => Last(records).phase = "report"
    /\ pc \in InLoop \/ (pc \in Closes /\ after \in InLoop) =>
         records = << >> \/ Last(records).termination # "aborted"
    /\ pc \in Closes /\ after \in {"aborted", "cancelled"} /\ phase # "closed" =>
         records # << >> /\ Last(records).termination = "aborted"
    /\ EndsHonestly

\* The last of two sequences is the last of the second.
LEMMA LastAppended ==
    ASSUME NEW s \in Seq(Records), NEW t \in Seq(Records), t # << >>
    PROVE  s \o t # << >> /\ Last(s \o t) = Last(t)
<1>1. /\ Len(s \o t) = Len(s) + Len(t) /\ Len(s) \in Nat /\ Len(t) \in Nat
      /\ \A n \in 1..Len(t) : (s \o t)[Len(s) + n] = t[n]
  BY Appended
<1>2. Len(t) > 0
  BY <1>1, EmptySeq, LenProperties
<1>3. s \o t # << >>
  BY <1>1, <1>2, EmptySeq
<1>4. (s \o t)[Len(s) + Len(t)] = t[Len(t)]
  BY <1>1, <1>2
<1> QED
  BY <1>1, <1>3, <1>4 DEF Last

\* The last record of a closed attempt: its own, or that of the last phase left out.
LEMMA LastAdded ==
    ASSUME NEW p \in Phases, NEW how \in {"completed", "blocked"}, NEW outcome \in Outcomes,
           NEW kind \in {"advance", "repair", "evidence_close", "flow_close"},
           kind = "evidence_close" => p \in Before
    PROVE  /\ Added(p, how, outcome, kind) # << >>
           /\ kind # "evidence_close" \/ p = "test" =>
                Last(Added(p, how, outcome, kind)) = Terminal(p, how, outcome, kind)
           /\ kind = "evidence_close" /\ p # "test" =>
                /\ Last(Added(p, how, outcome, kind)).termination = "skipped"
                /\ Last(Added(p, how, outcome, kind)).route = "evidence_close"
<1> DEFINE new == Added(p, how, outcome, kind)
<1>1. /\ new \in Seq(Records) /\ Len(new) = 1 + Len(Skips(p, kind))
      /\ Len(Skips(p, kind)) \in Nat
  BY AddedType
<1>2. Len(new) = 1 <=> kind # "evidence_close" \/ p = "test"
  BY AddedLength
<1>3. new # << >> /\ Len(new) \in 1..Len(new)
  BY <1>1, EmptySeq
<1>4. \A n \in 1..Len(new) :
        IF n = 1 THEN new[n] = Terminal(p, how, outcome, kind)
        ELSE /\ new[n].termination = "skipped"
             /\ new[n].route = "evidence_close"
  BY AddedShape
<1> HIDE DEF new
<1>5. IF Len(new) = 1 THEN new[Len(new)] = Terminal(p, how, outcome, kind)
      ELSE /\ new[Len(new)].termination = "skipped"
           /\ new[Len(new)].route = "evidence_close"
  BY <1>3, <1>4
<1> QED
  BY <1>2, <1>3, <1>5 DEF Last, new

\* A closed attempt leaves the records telling of what it leads to.
LEMMA RecordClosed ==
    ASSUME ControlInv, RecordInv, AttemptCloses
    PROVE  RecordInv'
<1>1. PICK how, outcome, facts, route, next : CloseAttempt(how, outcome, facts, route, next)
  BY DEF AttemptCloses
<1>2. /\ pc \in InLoop
      /\ how \in {"completed", "blocked"} /\ outcome \in Outcomes /\ facts \in Facts
      /\ next \in {"floor", "turn", "sweep"}
      /\ Leading(phase, outcome, facts, route)
      /\ Take(how, outcome, facts, route, next)
      /\ phase # "build" => facts["build"] = ready["build"]
      /\ UNCHANGED <<sealed, handlers>>
  BY <1>1 DEF CloseAttempt, AttemptCloses
<1> DEFINE new == Added(phase, how, outcome, route.kind)
<1>3. /\ phase \in Phases
      /\ route.kind \in {"advance", "repair", "evidence_close", "flow_close"}
      /\ route.kind = "evidence_close" => phase \in Before
      /\ new \in Seq(Records) /\ records \in Seq(Records)
      /\ records' = records \o new
      /\ audit' = Audited(new)
  BY <1>1, <1>2, AttemptRecords
<1>4. /\ \/ /\ pc' = next /\ phase' \in Before /\ after' = "none"
         \/ /\ route.kind = "evidence_close" /\ phase' = "report"
            /\ pc' = "wait" /\ sealed = "open" /\ after' = next
         \/ /\ route.kind = "flow_close" /\ sealed \in WorkingCloses
            /\ pc' = "persist" /\ phase' = "closed" /\ after' = "completed"
  BY <1>2, TakeControl
<1>5. pc' = "wait" => closing' = IF phase = "test" THEN "test_terminated"
                                 ELSE "dependents_skipped"
  BY <1>2, <1>3, <1>4 DEF Take
<1>6. records' # << >> /\ Last(records') = Last(new)
  BY <1>2, <1>3, LastAdded, LastAppended
<1>7. /\ route.kind # "evidence_close" \/ phase = "test" =>
           Last(new) = Terminal(phase, how, outcome, route.kind)
      /\ route.kind = "evidence_close" /\ phase # "test" => Last(new).termination = "skipped"
  BY <1>2, <1>3, LastAdded
<1> HIDE DEF new
<1>8. Last(records').termination # "aborted"
  BY <1>2, <1>3, <1>6, <1>7 DEF Terminal
<1>9. sealed' = "open" => audit' = records'
  BY <1>2, <1>3 DEF Audited, RecordInv
<1>10. sealed' # "open" => Tells(sealed', audit')
  BY <1>2, <1>3 DEF Audited, RecordInv
<1>11. pc' \in Unsealed => Tells(closing', records')
  <2> SUFFICES ASSUME pc' \in Unsealed PROVE Tells(closing', records')
    OBVIOUS
  <2>1. pc' = "wait" /\ route.kind = "evidence_close"
    BY <1>2, <1>4 DEF Unsealed
  <2>2. CASE phase = "test"
    BY <1>2, <1>5, <1>6, <1>7, <2>1, <2>2 DEF Tells, Terminal
  <2>3. CASE phase # "test"
    BY <1>5, <1>6, <1>7, <2>1, <2>3 DEF Tells
  <2> QED
    BY <2>2, <2>3
<1>12. phase' = "closed" => Last(records').phase = "report"
  <2> SUFFICES ASSUME phase' = "closed" PROVE Last(records').phase = "report"
    OBVIOUS
  <2>1. route.kind = "flow_close" /\ phase = "report"
    BY <1>2, <1>4 DEF Before, Leading
  <2> QED
    BY <1>6, <1>7, <2>1 DEF Terminal
<1>13. ~(pc' \in Closes /\ after' \in {"aborted", "cancelled"}) /\ pc' # "ended"
  BY <1>2, <1>4 DEF Closes, Unsealed
<1> QED
  BY <1>8, <1>9, <1>10, <1>11, <1>12, <1>13 DEF RecordInv, EndsHonestly

\* An attempt that is broken off tells of it.
LEMMA RecordBroken ==
    ASSUME ControlInv, RecordInv, BrokenOff
    PROVE  RecordInv'
<1>1. PICK how \in {"aborted", "cancelled"}, left \in 0..2 : Stop(how, left)
  BY DEF BrokenOff
<1>2. /\ Broken \in Seq(Records) /\ records \in Seq(Records)
      /\ records' = records \o Broken /\ audit' = Audited(Broken)
      /\ phase' = phase /\ sealed' = sealed
  BY BrokenAdds
<1>3. /\ closing' = IF sealed \in WorkingCloses THEN sealed ELSE how
      /\ after' = how
      /\ pc' = IF sealed = "open" THEN "settle" ELSE "persist"
  BY <1>1 DEF Stop
<1>4. phase # "closed" => records' # << >> /\ Last(records').termination = "aborted"
  <2> SUFFICES ASSUME phase # "closed"
               PROVE  records' # << >> /\ Last(records').termination = "aborted"
    OBVIOUS
  <2>1. CASE records # << >> /\ records[Len(records)].termination = "aborted"
    <3>1. Broken = << >>
      BY <2>1 DEF Broken
    <3> QED
      BY <1>2, <2>1, <3>1, ConcatEmptySeq DEF Last
  <2>2. CASE ~(records # << >> /\ records[Len(records)].termination = "aborted")
    <3>1. Broken = <<Terminal(phase, "aborted", "unknown", "abort")>>
      BY <2>2 DEF Broken
    <3>2. Broken # << >> /\ Last(Broken).termination = "aborted"
      BY <3>1 DEF Last, Terminal
    <3> QED
      BY <1>2, <3>2, LastAppended
  <2> QED
    BY <2>1, <2>2
<1>5. phase = "closed" => records' = records
  BY <1>2, ConcatEmptySeq DEF Broken
<1>6. sealed' = "open" => audit' = records'
  BY <1>2 DEF Audited, RecordInv
<1>7. sealed' # "open" => Tells(sealed', audit')
  BY <1>2 DEF Audited, RecordInv
<1>8. pc' \in Unsealed => Tells(closing', records')
  <2> SUFFICES ASSUME pc' \in Unsealed PROVE Tells(closing', records')
    OBVIOUS
  <2>1. sealed = "open" /\ closing' = how
    BY <1>3 DEF Unsealed, WorkingCloses
  <2>2. phase # "closed"
    BY <2>1 DEF ControlInv, WorkingCloses
  <2> QED
    BY <1>4, <2>1, <2>2 DEF Tells
<1>9. phase' = "closed" => Last(records').phase = "report"
  BY <1>2, <1>5 DEF RecordInv
<1>10. /\ pc' \notin InLoop /\ after' \notin InLoop /\ pc' # "ended"
  BY <1>3 DEF InLoop
<1> QED
  BY <1>2, <1>4, <1>6, <1>7, <1>8, <1>9, <1>10 DEF RecordInv, EndsHonestly

\* Every step keeps what the records tell.
LEMMA RecordStep ==
    ASSUME ControlInv, BooksInv, RecordInv, [Next]_vars
    PROVE  RecordInv'
<1>1. CASE AttemptCloses
  BY <1>1, RecordClosed
<1>2. CASE BrokenOff
  BY <1>2, RecordBroken
<1>3. CASE Fallen
  BY <1>3 DEF Fallen, RecordInv, EndsHonestly, Tells, Last, machine, evidence, close,
              InLoop, Closes, Unsealed
<1>4. CASE Still
  BY <1>4 DEF Still, RecordInv, EndsHonestly, Tells, Last, machine, InLoop, Closes, Unsealed
<1>5. CASE Seal
  BY <1>5 DEF Seal, ControlInv, RecordInv, EndsHonestly, Tells, Last, machine, close,
              InLoop, Closes, Unsealed, CloseReasons, WorkingCloses
<1>6. CASE Persist
  <2>1. /\ pc = "persist" /\ closing = sealed /\ written' = TRUE
        /\ IF after \in {"completed", "aborted", "cancelled"}
           THEN pc' = "ended" /\ termination' = after
           ELSE pc' = after /\ UNCHANGED termination
        /\ closing' = "none" /\ after' = "none"
        /\ UNCHANGED <<phase, records, sealed, audit>>
    BY <1>6 DEF Persist, machine, evidence
  <2>2. /\ after \in {"floor", "turn", "sweep", "completed", "aborted", "cancelled"}
        /\ after = "completed" => phase = "closed"
        /\ sealed # "open" /\ pc \in Closes
    BY <2>1 DEF ControlInv, TypeOK, Closes
  <2>3. /\ Tells(sealed, audit)
        /\ phase = "closed" => Last(records).phase = "report"
        /\ after \in InLoop => records = << >> \/ Last(records).termination # "aborted"
        /\ after \in {"aborted", "cancelled"} /\ phase # "closed" =>
             Last(records).termination = "aborted"
    BY <2>2 DEF RecordInv
  <2>4. EndsHonestly'
    BY <2>1, <2>2, <2>3 DEF EndsHonestly, Last
  <2> QED
    BY <2>1, <2>2, <2>3, <2>4 DEF RecordInv, Tells, Last, InLoop, Closes, Unsealed
<1> QED
  BY <1>1, <1>2, <1>3, <1>4, <1>5, <1>6, StepShape

LEMMA RecordInvariant == Spec => []RecordInv
<1>1. Init => RecordInv
  BY DEF Init, RecordInv, EndsHonestly, InLoop, Closes, Unsealed
<1>2. ControlInv /\ BooksInv /\ RecordInv /\ [Next]_vars => RecordInv'
  BY RecordStep
<1> QED
  BY <1>1, <1>2, RunInvariant, PTL DEF Spec

\* The close reason is the one the sealed records tell.
THEOREM CloseReasonIsTold == Spec => []CloseReasonTold
<1>1. RecordInv => CloseReasonTold
  BY DEF RecordInv, CloseReasonTold, Tells
<1> QED
  BY <1>1, RecordInvariant, PTL

\* A run that returns has a sealed verdict in the container, and says completed only of
\* a flow the report phase closed.
THEOREM RunEndsHonestly == Spec => []EndsHonestly
<1>1. RecordInv => EndsHonestly
  BY DEF RecordInv
<1> QED
  BY <1>1, RecordInvariant, PTL

-----------------------------------------------------------------------------
(* How one attempt leads to the next. *)

\* Where an attempt leads, and the phase that is open after it.
Leads(from, p) ==
    CASE from.route = "advance" ->
           /\ Position(p) = Position(from.phase) + 1
           /\ p = "test" => from.outcome \in {"success", "partial"}
      [] from.route = "repair" ->
           /\ Position(p) = Position(from.phase) - 1
           /\ from.outcome # "success"
      [] from.route = "evidence_close" -> p = "report"
      [] OTHER -> FALSE

\* An attempt, and the record after it.
Follows(from, to) ==
    CASE from.route = "advance" ->
           /\ Position(to.phase) = Position(from.phase) + 1
           /\ to.termination # "skipped"
           /\ to.phase = "test" => from.outcome \in {"success", "partial"}
      [] from.route = "repair" ->
           /\ Position(to.phase) = Position(from.phase) - 1
           /\ from.outcome # "success"
      [] from.route = "evidence_close" ->
           to.phase = "report" \/ to.termination = "skipped"
      [] OTHER -> FALSE

\* Each record follows the one before it, and the open phase is the one the last of
\* them leads to, unless it was broken off or closed the flow.
FlowInv ==
    /\ \A n \in 2..Len(records) : Follows(records[n - 1], records[n])
    /\ records # << >> /\ phase # "closed" /\ Last(records).termination # "aborted" =>
         Leads(Last(records), phase)

\* Records that are chained stay so when others are added that are, and that follow
\* the last of them.
LEMMA ChainAppended ==
    ASSUME NEW s \in Seq(Records), NEW t \in Seq(Records), t # << >>,
           \A n \in 2..Len(s) : Follows(s[n - 1], s[n]),
           \A n \in 2..Len(t) : Follows(t[n - 1], t[n]),
           s # << >> => Follows(Last(s), t[1])
    PROVE  \A n \in 2..Len(s \o t) : Follows((s \o t)[n - 1], (s \o t)[n])
<1>1. /\ Len(s \o t) = Len(s) + Len(t) /\ Len(s) \in Nat /\ Len(t) \in Nat
      /\ \A n \in 1..Len(s) : (s \o t)[n] = s[n]
      /\ \A n \in 1..Len(t) : (s \o t)[Len(s) + n] = t[n]
  BY Appended
<1>2. SUFFICES ASSUME NEW n \in 2..Len(s \o t)
               PROVE  Follows((s \o t)[n - 1], (s \o t)[n])
  OBVIOUS
<1>3. CASE n <= Len(s)
  <2>1. n \in 2..Len(s) /\ n \in 1..Len(s) /\ n - 1 \in 1..Len(s)
    BY <1>1, <1>3
  <2> QED
    BY <1>1, <2>1
<1>4. CASE n = Len(s) + 1
  <2>1. Len(s) \in 1..Len(s) /\ n - 1 = Len(s) /\ 1 \in 1..Len(t)
    BY <1>1, <1>4
  <2>2. s # << >>
    BY <2>1, EmptySeq
  <2>3. (s \o t)[n - 1] = Last(s) /\ (s \o t)[n] = t[1]
    BY <1>1, <1>4, <2>1 DEF Last
  <2> QED
    BY <2>2, <2>3
<1>5. CASE n > Len(s) + 1
  <2> DEFINE m == n - Len(s)
  <2>1. /\ m \in 2..Len(t) /\ m \in 1..Len(t) /\ m - 1 \in 1..Len(t)
        /\ Len(s) + m = n /\ Len(s) + (m - 1) = n - 1
    BY <1>1, <1>5
  <2>2. (s \o t)[n] = t[m] /\ (s \o t)[n - 1] = t[m - 1]
    BY <1>1, <2>1
  <2> QED
    BY <2>1, <2>2
<1> QED
  BY <1>1, <1>3, <1>4, <1>5

\* The records of a closed attempt are chained: its own, and the phases left out.
LEMMA ChainAdded ==
    ASSUME NEW p \in Phases, NEW how \in {"completed", "blocked"}, NEW outcome \in Outcomes,
           NEW kind \in {"advance", "repair", "evidence_close", "flow_close"},
           kind = "evidence_close" => p \in Before
    PROVE  /\ Added(p, how, outcome, kind)[1] = Terminal(p, how, outcome, kind)
           /\ \A n \in 2..Len(Added(p, how, outcome, kind)) :
                Follows(Added(p, how, outcome, kind)[n - 1], Added(p, how, outcome, kind)[n])
<1> DEFINE new == Added(p, how, outcome, kind)
<1>1. new \in Seq(Records) /\ Len(new) \in Nat /\ Len(new) >= 1
  <2>1. /\ new \in Seq(Records) /\ Len(new) = 1 + Len(Skips(p, kind))
        /\ Len(Skips(p, kind)) \in Nat
    BY AddedType
  <2> QED
    BY <2>1
<1>2. \A n \in 1..Len(new) :
        IF n = 1 THEN new[n] = Terminal(p, how, outcome, kind)
        ELSE /\ kind = "evidence_close"
             /\ new[n].termination = "skipped"
             /\ new[n].route = "evidence_close"
  BY AddedShape
<1> HIDE DEF new
<1>3. new[1] = Terminal(p, how, outcome, kind)
  BY <1>1, <1>2
<1>4. ASSUME NEW n \in 2..Len(new) PROVE Follows(new[n - 1], new[n])
  <2>1. n \in 1..Len(new) /\ n # 1 /\ n - 1 \in 1..Len(new)
    BY <1>1
  <2>2. new[n].termination = "skipped" /\ kind = "evidence_close"
    BY <1>2, <2>1
  <2>3. new[n - 1].route = "evidence_close"
    <3>1. CASE n - 1 = 1
      BY <1>3, <2>2, <3>1 DEF Terminal
    <3>2. CASE n - 1 # 1
      BY <1>2, <2>1, <3>2
    <3> QED
      BY <3>1, <3>2
  <2> QED
    BY <2>2, <2>3 DEF Follows
<1> QED
  BY <1>3, <1>4 DEF new

\* An attempt in a phase that the last record leads to follows it.
LEMMA LedFollows ==
    ASSUME NEW from, NEW p \in Phases, Leads(from, p), NEW to, to.phase = p,
           to.termination # "skipped"
    PROVE  Follows(from, to)
BY DEF Leads, Follows

\* A closed attempt leads to the phase that is open after it.
LEMMA ClosedLeads ==
    ASSUME NEW p \in Phases, NEW how, NEW outcome \in Outcomes, NEW facts \in Facts, NEW route,
           Leading(p, outcome, facts, route), route.kind # "flow_close"
    PROVE  Leads(Terminal(p, how, outcome, route.kind), route.target)
<1>1. route.kind \in {"advance", "repair", "evidence_close"}
  BY DEF Leading, Routes
<1>2. CASE route.kind = "advance"
  BY <1>2, Successors, PhaseOrder DEF Leading, Leads, Terminal
<1>3. CASE route.kind = "repair"
  <2>1. PhaseNames[3] = "build" /\ PhaseNames[2] = "analyze"
    BY DEF PhaseNames
  <2> QED
    BY <1>3, <2>1, PhaseOrder DEF Leading, Leads, Terminal, Repairable
<1>4. CASE route.kind = "evidence_close"
  BY <1>4 DEF Leading, Leads, Terminal
<1> QED
  BY <1>1, <1>2, <1>3, <1>4

\* A closed attempt follows the last record, and leads on.
LEMMA FlowClosed ==
    ASSUME ControlInv, RecordInv, FlowInv, AttemptCloses
    PROVE  FlowInv'
<1>1. PICK how, outcome, facts, route, next : CloseAttempt(how, outcome, facts, route, next)
  BY DEF AttemptCloses
<1>2. /\ pc \in InLoop
      /\ how \in {"completed", "blocked"} /\ outcome \in Outcomes /\ facts \in Facts
      /\ Leading(phase, outcome, facts, route)
  BY <1>1 DEF CloseAttempt, AttemptCloses
<1> DEFINE new == Added(phase, how, outcome, route.kind)
<1>3. /\ phase \in Phases
      /\ route.kind \in {"advance", "repair", "evidence_close", "flow_close"}
      /\ route.kind = "evidence_close" => phase \in Before
      /\ new \in Seq(Records) /\ records \in Seq(Records)
      /\ records' = records \o new
      /\ phase' = route.target
  BY <1>1, <1>2, AttemptRecords
<1>4. new # << >> /\ Last(records') = Last(new)
  BY <1>2, <1>3, LastAdded, LastAppended
<1>5. /\ new[1] = Terminal(phase, how, outcome, route.kind)
      /\ \A n \in 2..Len(new) : Follows(new[n - 1], new[n])
  BY <1>2, <1>3, ChainAdded
<1>6. /\ route.kind # "evidence_close" \/ phase = "test" =>
           Last(new) = Terminal(phase, how, outcome, route.kind)
      /\ route.kind = "evidence_close" /\ phase # "test" => Last(new).route = "evidence_close"
  BY <1>2, <1>3, LastAdded
<1> HIDE DEF new
<1>7. records # << >> => Follows(Last(records), new[1])
  <2> SUFFICES ASSUME records # << >> PROVE Follows(Last(records), new[1])
    OBVIOUS
  <2>1. Last(records).termination # "aborted" /\ phase # "closed"
    BY <1>2, <1>3, PhaseOrder DEF RecordInv, Before
  <2>2. Leads(Last(records), phase)
    BY <2>1 DEF FlowInv
  <2>3. new[1].phase = phase /\ new[1].termination # "skipped"
    BY <1>2, <1>5 DEF Terminal
  <2> QED
    BY <1>3, <2>2, <2>3, LedFollows
<1>8. \A n \in 2..Len(records') : Follows(records'[n - 1], records'[n])
  BY <1>3, <1>4, <1>5, <1>7, ChainAppended DEF FlowInv
<1>9. phase' # "closed" => Leads(Last(records'), phase')
  <2> SUFFICES ASSUME phase' # "closed" PROVE Leads(Last(records'), phase')
    OBVIOUS
  <2>1. route.kind # "flow_close"
    BY <1>2, <1>3 DEF Leading
  <2>2. CASE route.kind # "evidence_close" \/ phase = "test"
    BY <1>2, <1>3, <1>4, <1>6, <2>1, <2>2, ClosedLeads
  <2>3. CASE route.kind = "evidence_close" /\ phase # "test"
    BY <1>2, <1>3, <1>4, <1>6, <2>3 DEF Leads, Leading
  <2> QED
    BY <2>2, <2>3
<1> QED
  BY <1>8, <1>9 DEF FlowInv

\* So does an attempt that is broken off, which leads nowhere.
LEMMA FlowBroken ==
    ASSUME ControlInv, FlowInv, BrokenOff
    PROVE  FlowInv'
<1>1. /\ Broken \in Seq(Records) /\ records \in Seq(Records)
      /\ records' = records \o Broken /\ phase' = phase
  BY BrokenAdds
<1>2. CASE Broken = << >>
  <2>1. records' = records
    BY <1>1, <1>2, ConcatEmptySeq
  <2> QED
    BY <1>1, <2>1 DEF FlowInv, Last
<1>3. CASE Broken # << >>
  <2>1. /\ phase # "closed"
        /\ ~(records # << >> /\ Last(records).termination = "aborted")
        /\ Broken = <<Terminal(phase, "aborted", "unknown", "abort")>>
    BY <1>3 DEF Broken, Last
  <2>2. phase \in Phases
    BY <2>1 DEF ControlInv, TypeOK
  <2>3. /\ Len(Broken) = 1 /\ Broken[1].phase = phase /\ Broken[1].termination = "aborted"
        /\ Last(Broken).termination = "aborted"
    BY <2>1 DEF Terminal, Last
  <2>4. records # << >> => Follows(Last(records), Broken[1])
    <3>1. records # << >> => Leads(Last(records), phase)
      BY <2>1 DEF FlowInv
    <3> QED
      BY <2>2, <2>3, <3>1, LedFollows
  <2>5. \A n \in 2..Len(records') : Follows(records'[n - 1], records'[n])
    <3>1. \A n \in 2..Len(Broken) : Follows(Broken[n - 1], Broken[n])
      BY <2>3
    <3> QED
      BY <1>1, <1>3, <2>4, <3>1, ChainAppended DEF FlowInv
  <2>6. Last(records').termination = "aborted"
    BY <1>1, <1>3, <2>3, LastAppended
  <2> QED
    BY <2>5, <2>6 DEF FlowInv
<1> QED
  BY <1>2, <1>3

\* Every step keeps the records chained.
LEMMA FlowStep ==
    ASSUME ControlInv, BooksInv, RecordInv, FlowInv, [Next]_vars
    PROVE  FlowInv'
<1>1. CASE AttemptCloses
  BY <1>1, FlowClosed
<1>2. CASE BrokenOff
  BY <1>2, FlowBroken
<1>3. CASE Fallen \/ Still \/ Seal \/ Persist
  BY <1>3 DEF Fallen, Still, Seal, Persist, machine, FlowInv, Last
<1> QED
  BY <1>1, <1>2, <1>3, StepShape

-----------------------------------------------------------------------------
(* The repairs of a run. *)

\* A phase whose repair is recorded has none left, and no phase has two.
RepairInv ==
    /\ \A n \in DOMAIN records :
         records[n].route = "repair" =>
           records[n].phase \in Repairable /\ budget[records[n].phase] = 0
    /\ \A m, n \in DOMAIN records :
         /\ records[m].route = "repair" /\ records[n].route = "repair"
         /\ records[m].phase = records[n].phase
         => m = n

\* Records that are added without a repair among them keep it.
LEMMA NoRepairAdded ==
    ASSUME RepairInv, records \in Seq(Records), NEW t \in Seq(Records),
           \A n \in 1..Len(t) : t[n].route # "repair",
           records' = records \o t, budget' = budget
    PROVE  RepairInv'
<1>1. /\ Len(records') = Len(records) + Len(t) /\ Len(records) \in Nat /\ Len(t) \in Nat
      /\ \A n \in 1..Len(records) : records'[n] = records[n]
      /\ \A n \in 1..Len(t) : records'[Len(records) + n] = t[n]
      /\ records' \in Seq(Records)
  BY Appended
<1>2. DOMAIN records' = 1..Len(records') /\ DOMAIN records = 1..Len(records)
  BY <1>1, LenProperties
<1>3. ASSUME NEW n \in DOMAIN records', records'[n].route = "repair"
      PROVE  n \in DOMAIN records /\ records'[n] = records[n]
  <2>1. CASE n <= Len(records)
    BY <1>1, <1>2, <2>1
  <2>2. CASE ~(n <= Len(records))
    <3>1. n - Len(records) \in 1..Len(t) /\ Len(records) + (n - Len(records)) = n
      BY <1>1, <1>2, <2>2
    <3>2. records'[n] = t[n - Len(records)]
      BY <1>1, <3>1
    <3> QED
      BY <1>3, <3>1, <3>2
  <2> QED
    BY <2>1, <2>2
<1> QED
  BY <1>3 DEF RepairInv

\* A closed attempt that is no repair adds none.
LEMMA RepairClosedOther ==
    ASSUME ControlInv, RepairInv, pc \in InLoop, NEW how, NEW outcome, NEW facts, NEW route,
           NEW next, CloseAttempt(how, outcome, facts, route, next), route.kind # "repair"
    PROVE  RepairInv'
<1> DEFINE new == Added(phase, how, outcome, route.kind)
<1>1. /\ how \in {"completed", "blocked"} /\ outcome \in Outcomes /\ budget' = budget
  BY DEF CloseAttempt
<1>2. /\ phase \in Phases
      /\ route.kind \in {"advance", "repair", "evidence_close", "flow_close"}
      /\ route.kind = "evidence_close" => phase \in Before
      /\ new \in Seq(Records) /\ records \in Seq(Records)
      /\ records' = records \o new
  BY AttemptRecords
<1>3. \A n \in 1..Len(new) :
        IF n = 1 THEN new[n] = Terminal(phase, how, outcome, route.kind)
        ELSE new[n].route = "evidence_close"
  BY <1>1, <1>2, AddedShape
<1> HIDE DEF new
<1>4. \A n \in 1..Len(new) : new[n].route # "repair"
  BY <1>3 DEF Terminal
<1> QED
  BY <1>1, <1>2, <1>4, NoRepairAdded

\* A repair spends what its phase has left, so that the phase had repaired nothing yet.
LEMMA RepairClosedBack ==
    ASSUME ControlInv, RepairInv, pc \in InLoop, NEW how, NEW outcome, NEW facts, NEW route,
           NEW next, CloseAttempt(how, outcome, facts, route, next), route.kind = "repair"
    PROVE  RepairInv'
<1> DEFINE new == Added(phase, how, outcome, route.kind)
<1>1. /\ how \in {"completed", "blocked"} /\ outcome \in Outcomes
      /\ phase \in Repairable /\ budget.run > 0 /\ budget[phase] > 0 /\ budget' = Spent
  BY DEF CloseAttempt, Leading
<1>2. /\ phase \in Phases
      /\ new \in Seq(Records) /\ records \in Seq(Records)
      /\ records' = records \o new
  BY AttemptRecords
<1>3. new = <<Terminal(phase, how, outcome, "repair")>>
  <2>1. Skips(phase, "repair") = << >>
    BY <1>2, SkipsType
  <2>2. Terminal(phase, how, outcome, "repair") \in Records
    BY <1>1, <1>2 DEF Terminal, Records
  <2>3. <<Terminal(phase, how, outcome, "repair")>> \in Seq(Records)
    BY <2>2
  <2> QED
    BY <2>1, <2>3, ConcatEmptySeq DEF Added
<1>4. /\ Len(records') = Len(records) + 1 /\ Len(records) \in Nat
      /\ \A n \in 1..Len(records) : records'[n] = records[n]
      /\ records'[Len(records) + 1] = Terminal(phase, how, outcome, "repair")
      /\ records' \in Seq(Records)
  <2>1. Len(new) = 1 /\ new[1] = Terminal(phase, how, outcome, "repair") /\ 1 \in 1..Len(new)
    BY <1>3
  <2> HIDE DEF new
  <2>2. /\ Len(records') = Len(records) + Len(new) /\ Len(records) \in Nat
        /\ \A n \in 1..Len(records) : records'[n] = records[n]
        /\ \A n \in 1..Len(new) : records'[Len(records) + n] = new[n]
        /\ records' \in Seq(Records)
    BY <1>2, Appended
  <2> QED
    BY <2>1, <2>2
<1>5. DOMAIN records' = 1..(Len(records) + 1) /\ DOMAIN records = 1..Len(records)
  BY <1>2, <1>4, LenProperties
<1>6. \A p \in Repairable : budget'[p] = IF p = phase THEN 0 ELSE budget[p]
  <2>1. budget \in [run : 0..2, test : 0..1, build : 0..1]
    BY DEF ControlInv, TypeOK
  <2> QED
    BY <1>1, <2>1, SpentType
<1>7. \A n \in DOMAIN records : records[n].route = "repair" => records[n].phase # phase
  BY <1>1 DEF RepairInv
<1>8. \A n \in DOMAIN records' :
        \/ n \in DOMAIN records /\ records'[n] = records[n]
        \/ n = Len(records) + 1 /\ records'[n].phase = phase
  BY <1>4, <1>5 DEF Terminal
<1>9. \A n \in DOMAIN records' :
        records'[n].route = "repair" =>
          records'[n].phase \in Repairable /\ budget'[records'[n].phase] = 0
  BY <1>1, <1>6, <1>8 DEF RepairInv
<1>10. \A m, n \in DOMAIN records' :
         /\ records'[m].route = "repair" /\ records'[n].route = "repair"
         /\ records'[m].phase = records'[n].phase
         => m = n
  BY <1>7, <1>8 DEF RepairInv
<1> QED
  BY <1>9, <1>10 DEF RepairInv

\* An attempt that is broken off is no repair.
LEMMA RepairBroken ==
    ASSUME ControlInv, RepairInv, BrokenOff
    PROVE  RepairInv'
<1>1. /\ Broken \in Seq(Records) /\ records \in Seq(Records)
      /\ records' = records \o Broken /\ budget' = budget
  BY BrokenAdds
<1>2. \A n \in 1..Len(Broken) : Broken[n].route # "repair"
  <2>1. CASE Broken = << >>
    BY <2>1
  <2>2. CASE Broken # << >>
    <3>1. Broken = <<Terminal(phase, "aborted", "unknown", "abort")>>
      BY <2>2 DEF Broken
    <3> QED
      BY <3>1 DEF Terminal
  <2> QED
    BY <2>1, <2>2
<1> QED
  BY <1>1, <1>2, NoRepairAdded

\* Every step keeps the repairs within what they cost.
LEMMA RepairStep ==
    ASSUME ControlInv, BooksInv, RepairInv, [Next]_vars
    PROVE  RepairInv'
<1>1. CASE AttemptCloses
  BY <1>1, RepairClosedOther, RepairClosedBack DEF AttemptCloses
<1>2. CASE BrokenOff
  BY <1>2, RepairBroken
<1>3. CASE Fallen \/ Still \/ Seal \/ Persist
  BY <1>3 DEF Fallen, Still, Seal, Persist, machine, RepairInv
<1> QED
  BY <1>1, <1>2, <1>3, StepShape

\* Each attempt was opened by the one before it: on a ready prerequisite, by the one
\* repair its phase may make of the phase before, or by an evidence-close.
THEOREM FlowIsFollowed == Spec => []FlowFollowsPrerequisites
<1>1. Init => FlowInv /\ RepairInv
  BY EmptySeq DEF Init, FlowInv, RepairInv
<1>2. /\ ControlInv /\ BooksInv /\ RecordInv /\ FlowInv /\ [Next]_vars => FlowInv'
      /\ ControlInv /\ BooksInv /\ RepairInv /\ [Next]_vars => RepairInv'
  BY FlowStep, RepairStep
<1>3. FlowInv /\ RepairInv => FlowFollowsPrerequisites
  BY DEF FlowInv, RepairInv, FlowFollowsPrerequisites, Follows, Repairs
<1> QED
  BY <1>1, <1>2, <1>3, RunInvariant, RecordInvariant, PTL DEF Spec

\* However often repairs are proposed, a run makes at most two.
THEOREM RepairsAreBounded == Spec => [](Cardinality(Repairs) <= 2)
<1>1. Init => RepairInv
  BY EmptySeq DEF Init, RepairInv
<1>2. ControlInv /\ BooksInv /\ RepairInv /\ [Next]_vars => RepairInv'
  BY RepairStep
<1>3. RepairInv => Cardinality(Repairs) <= 2
  <2> DEFINE source == [n \in Repairs |-> records[n].phase]
  <2> SUFFICES ASSUME RepairInv PROVE Cardinality(Repairs) <= 2
    OBVIOUS
  <2>1. \A m, n \in Repairs : records[m].phase = records[n].phase => m = n
    BY DEF RepairInv, Repairs
  <2>2. source \in [Repairs -> Repairable]
    BY DEF RepairInv, Repairs
  <2>3. source \in Injection(Repairs, Repairable)
    BY <2>1, <2>2 DEF Injection, IsInjective
  <2>4. IsFiniteSet(Repairable) /\ Cardinality(Repairable) = 2
    <3>1. IsFiniteSet({"test"}) /\ Cardinality({"test"}) = 1
      BY FS_Singleton
    <3>2. Repairable = {"test"} \cup {"build"} /\ "build" \notin {"test"}
      BY DEF Repairable
    <3> QED
      BY <3>1, <3>2, FS_AddElement
  <2>5. IsFiniteSet(Repairs) /\ Cardinality(Repairs) <= Cardinality(Repairable)
    BY <2>3, <2>4, FS_Injection
  <2> QED
    BY <2>4, <2>5
<1> QED
  BY <1>1, <1>2, <1>3, RunInvariant, PTL DEF Spec

-----------------------------------------------------------------------------
(* What the seal says of the jobs. *)

\* From the naming on, every job that still owes its result is named.
NamedInv == pc = "seal" \/ sealed # "open" => Open \subseteq conflicts

\* Only the naming leads to the seal, and only the seal seals.
LEMMA WaysToSeal ==
    ASSUME ControlInv, [Next]_vars, sealed = "open", pc' = "seal" \/ sealed' # "open"
    PROVE  CloseNames \/ (pc = "seal" /\ Open' = Open /\ conflicts' = conflicts)
<1>t. job \in [Job -> {"none", "running", "exited", "settled"}]
  BY DEF ControlInv, TypeOK
<1>1. ASSUME NEW j \in Job, JobExits(j) PROVE pc = "seal" /\ Open' = Open /\ conflicts' = conflicts
  BY <1>t, <1>1 DEF JobExits, Open, evidence
<1>2. \A how : ~Raise(how)
  BY DEF Raise, Stop, evidence
<1>3. ~(Interrupt \/ LoopFails \/ PersistFails \/ PersistConflicts)
  BY <1>2 DEF Interrupt, LoopFails, PersistFails, PersistConflicts
<1>4. ~(OutOfTurns \/ OutOfTime \/ TurnFails)
  BY DEF OutOfTurns, OutOfTime, TurnFails, Stop
<1>5. ~AttemptCloses
  <2> SUFFICES ASSUME AttemptCloses PROVE FALSE
    OBVIOUS
  <2>1. PICK how, outcome, facts, route, next : CloseAttempt(how, outcome, facts, route, next)
    BY DEF AttemptCloses
  <2>2. sealed' = sealed /\ pc' \in {"floor", "turn", "sweep", "wait", "persist"}
    BY <2>1 DEF CloseAttempt, Take
  <2> QED
    BY <2>2
<1>6. ~AttemptForced
  BY DEF AttemptForced, evidence, InLoop
<1>7. ~(FloorForces \/ FloorCloses \/ LoopCloses)
  BY <1>5, <1>6, FloorForced, FloorClosed, LoopClosed
<1>8. ~(FloorPasses \/ TurnStarts \/ Work \/ Analyze \/ Note \/ Report \/ Propose \/ CallsEnd)
  BY DEF FloorPasses, TurnStarts, Work, Analyze, Note, Report, Propose, CallsEnd, evidence
<1>9. \A kind \in {"done", "blocked"}, claimed \in Verdicts : ~Claim(kind, claimed)
  BY DEF Claim, evidence
<1>10. ~(Sweep \/ NothingSignalled)
  BY DEF Sweep, NothingSignalled, evidence
<1>11. ~ClaimRouted
  BY DEF ClaimRouted, Take
<1>12. ~RepairRouted
  BY <1>5, <1>6, RepairClosed
<1>13. ~(WaitEnds \/ CloseSettles \/ Persist)
  BY DEF WaitEnds, CloseSettles, Persist, evidence, ControlInv
<1>14. CASE Seal
  BY <1>14 DEF Seal, Open
<1>15. CASE UNCHANGED vars
  BY <1>15 DEF vars, evidence, Open
<1> QED
  BY <1>1, <1>3, <1>4, <1>7, <1>8, <1>9, <1>10, <1>11, <1>12, <1>13, <1>14, <1>15
     DEF Next, Engine, FloorStep, CallStep, SignalStep, CloseStep

\* In a run whose container answers, every job without a receipt at the seal is named
\* on the sealed verdict.
THEOREM BooksAreStated ==
    ASSUME Faults = FALSE
    PROVE  Spec => []BooksStated
<1>1. Init => NamedInv
  BY DEF Init, NamedInv
<1>2. ASSUME ControlInv, BooksInv, NamedInv, [Next]_vars PROVE NamedInv'
  <2>1. CASE sealed # "open"
    <3>1. conflicts' = conflicts /\ Open' \subseteq Open
      BY <1>2, <2>1, FrozenStep DEF Open
    <3> QED
      BY <1>2, <2>1, <3>1 DEF NamedInv
  <2>2. CASE sealed = "open" /\ CloseNames
    BY <1>2, <2>2 DEF CloseNames, NamedInv, Open
  <2>3. CASE sealed = "open" /\ pc = "seal" /\ Open' = Open /\ conflicts' = conflicts
    BY <1>2, <2>3 DEF NamedInv
  <2> QED
    BY <1>2, <2>1, <2>2, <2>3, WaysToSeal DEF NamedInv
<1>3. NamedInv => BooksStated
  BY DEF NamedInv, BooksStated
<1>4. ControlInv /\ BooksInv /\ NamedInv /\ [Next]_vars => NamedInv'
  BY <1>2
<1> QED
  BY <1>1, <1>3, <1>4, RunInvariant, PTL DEF Spec

-----------------------------------------------------------------------------
(* The turns that are kept for the later phases. *)

\* The turns that are left once the one that is asked for is spent.
Left == Remaining - (IF pc = "turn" THEN 1 ELSE 0)

\* What a test attempt may still owe: a refresh of the survey, and a run.
Owed ==
    (IF attempt \cap {"receipt", "refusal"} = {} THEN 1 ELSE 0)
      + (IF "refreshed" \in attempt THEN 0 ELSE 1)

\* A run in a phase of evidence that made no repair and polls no job.
Unspent == phase \in Before /\ budget.run = 2 /\ polled = NoJob

\* Such a run is in its loop, with the turns that the later phases keep and, in the
\* test phase, one less than the attempt may owe on top of them.
LeftInv ==
    /\ polled # NoJob => phase = "test"
    /\ Unspent => pc \in InLoop
    /\ Unspent /\ phase # "test" => Left >= Reserved(phase)
    /\ Unspent /\ phase = "test" => Left + 1 >= Reserved(phase) + Owed

\* What is kept from a phase is the floor of the next one and what is kept from that.
LEMMA ReservedSum ==
    /\ \A p \in Phases : Reserved(p) \in Nat
    /\ Reserved("provision") = Floor["analyze"] + Reserved("analyze")
    /\ Reserved("analyze") = Floor["build"] + Reserved("build")
    /\ Reserved("build") = Floor["test"] + Reserved("test")
    /\ Reserved("test") = Floor["report"]
    /\ \A p \in Phases : Floor[p] \in Nat /\ Floor[p] >= 1
<1>1. \A p \in Phases : Floor[p] \in Nat /\ Floor[p] >= 1
  BY RunAssumption
<1>2. /\ PhaseNames[2] = "analyze" /\ PhaseNames[3] = "build"
      /\ PhaseNames[4] = "test" /\ PhaseNames[5] = "report"
  BY DEF PhaseNames
<1>3. Phases = {"provision", "analyze", "build", "test", "report"}
  BY PhaseOrder DEF Before
<1>4. /\ Reserved("provision") = Floor["analyze"] + Floor["build"] + Floor["test"] + Floor["report"]
      /\ Reserved("analyze") = Floor["build"] + Floor["test"] + Floor["report"]
      /\ Reserved("build") = Floor["test"] + Floor["report"]
      /\ Reserved("test") = Floor["report"]
      /\ Reserved("report") = 0
  BY <1>1, <1>2, <1>3, PhaseOrder DEF Reserved, KeptFor
<1> QED
  BY <1>1, <1>3, <1>4

\* An attempt that owes something is not short of what it may owe; what it owes is less
\* once it was forced, unless a job was handed out.
LEMMA OwedForced ==
    ASSUME ControlInv, phase = "test"
    PROVE  /\ Owed \in 0..2 /\ (attempt' = {} => Owed' = 2)
           /\ attempt \subseteq attempt' => Owed' \in 0..2 /\ Owed' <= Owed
           /\ Owed = 2 => AttemptRequired(survey)
           /\ AttemptRequired(survey) /\ ForceAttempt(survey) /\ polled = NoJob =>
                polled' # NoJob \/ Owed' = Owed - 1
<1>1. ready["build"] = "yes" /\ survey \in BOOLEAN
  BY DEF ControlInv, TypeOK
<1>2. Owed \in 0..2 /\ (attempt' = {} => Owed' = 2)
  BY DEF Owed
<1>3. attempt \subseteq attempt' => Owed' \in 0..2 /\ Owed' <= Owed
  BY DEF Owed
<1>4. Owed = 2 => AttemptRequired(survey)
  BY <1>1 DEF Owed, AttemptRequired
<1>5. ASSUME AttemptRequired(survey), ForceAttempt(survey), polled = NoJob
      PROVE  polled' # NoJob \/ Owed' = Owed - 1
  <2>1. CASE survey = FALSE
    <3>1. attempt' = attempt \cup {"refreshed"} /\ "refreshed" \notin attempt
      BY <1>5, <2>1 DEF AttemptRequired, ForceAttempt
    <3> QED
      BY <3>1 DEF Owed
  <2>2. CASE survey = TRUE
    <3>1. attempt \cap {"receipt", "refusal"} = {}
      BY <1>5, <2>2 DEF AttemptRequired
    <3>2. \/ attempt' = attempt \cup {"receipt"}
          \/ attempt' = attempt \cup {"refusal"}
          \/ polled' \in Job
      BY <1>5, <2>2 DEF ForceAttempt, RunTests
    <3>3. CASE attempt' = attempt \cup {"receipt"} \/ attempt' = attempt \cup {"refusal"}
      <4>1. /\ attempt' \cap {"receipt", "refusal"} # {}
            /\ "refreshed" \in attempt' <=> "refreshed" \in attempt
        BY <3>3
      <4> QED
        BY <3>1, <4>1 DEF Owed
    <3>4. CASE polled' \in Job
      BY <3>4, RunAssumption
    <3> QED
      BY <3>2, <3>3, <3>4
  <2> QED
    BY <1>1, <2>1, <2>2
<1> QED
  BY <1>2, <1>3, <1>4, <1>5

\* The numbers of turns are naturals.
LEMMA LeftType ==
    ASSUME ControlInv
    PROVE  /\ iteration \in Nat /\ MaxIterations \in Nat /\ iteration <= MaxIterations
           /\ Remaining \in Nat /\ (pc # "turn" => Left = Remaining)
           /\ Left = Remaining - 1 \/ Left = Remaining
BY RunAssumption DEF ControlInv, TypeOK, Remaining, Left

\* A closed attempt leaves the next phase its turns.
LEMMA LeftClosed ==
    ASSUME ControlInv, LeftInv, AttemptCloses, Floor["test"] >= 2
    PROVE  LeftInv'
<1>1. PICK how, outcome, facts, route, next : CloseAttempt(how, outcome, facts, route, next)
  BY DEF AttemptCloses
<1>2. /\ pc \in InLoop
      /\ Leading(phase, outcome, facts, route)
      /\ phase' = route.target /\ polled' = NoJob /\ attempt' = {}
      /\ iteration' = iteration
      /\ next \in {"floor", "turn", "sweep"}
  BY <1>1 DEF CloseAttempt, AttemptCloses, Take
<1>3. route.kind \in {"advance", "repair", "evidence_close", "flow_close"}
  BY <1>2 DEF Leading, Routes
<1>4. CASE route.kind = "evidence_close" \/ route.kind = "flow_close"
  BY <1>2, <1>4 DEF Leading, LeftInv, Unspent, Before
<1>5. CASE route.kind = "repair"
  <2>1. phase \in Repairable /\ budget.run > 0 /\ budget[phase] > 0 /\ budget' = Spent
    BY <1>1, <1>5 DEF CloseAttempt, Leading
  <2>2. budget \in [run : 0..2, test : 0..1, build : 0..1]
    BY DEF ControlInv, TypeOK
  <2>3. Spent.run = budget.run - 1 /\ budget.run \in 0..2
    BY <2>1, <2>2, SpentType
  <2>4. budget'.run # 2
    BY <2>1, <2>3
  <2> QED
    BY <1>2, <2>4 DEF LeftInv, Unspent
<1>6. CASE route.kind = "advance"
  <2>1. /\ phase \in {"provision", "analyze", "build"} /\ phase' = Successor(phase)
        /\ pc' = next /\ budget' = budget
    BY <1>1, <1>2, <1>6 DEF Leading, CloseAttempt, Take
  <2>2. polled = NoJob /\ phase \in Before
    BY <2>1 DEF LeftInv, Before
  <2> SUFFICES ASSUME Unspent'
               PROVE  /\ pc' \in InLoop
                      /\ phase' # "test" => Left' >= Reserved(phase')
                      /\ phase' = "test" => Left' + 1 >= Reserved(phase') + Owed'
    BY <1>2 DEF LeftInv
  <2>3. Unspent /\ Left >= Reserved(phase)
    BY <2>1, <2>2 DEF Unspent, LeftInv
  <2>4. Remaining >= Left /\ Left' >= Remaining - 1 /\ Remaining \in Nat
        /\ (Left = Remaining \/ Left = Remaining - 1)
        /\ (Left' = Remaining \/ Left' = Remaining - 1)
    BY <1>2, LeftType DEF Left, Remaining
  <2>5. Owed' = 2
    BY <1>2 DEF Owed
  <2>6. CASE phase = "provision" \/ phase = "analyze"
    <3>1. /\ phase' # "test" /\ phase' \in Phases /\ Reserved(phase') \in Nat
          /\ Reserved(phase) = Floor[phase'] + Reserved(phase')
          /\ Floor[phase'] \in Nat /\ Floor[phase'] >= 1
      BY <2>1, <2>6, Successors, ReservedSum, PhaseOrder DEF Before
    <3>2. Left' >= Reserved(phase')
      BY <2>3, <2>4, <3>1
    <3> QED
      BY <1>2, <2>1, <3>1, <3>2 DEF InLoop
  <2>7. CASE phase = "build"
    <3>1. /\ phase' = "test" /\ Reserved("test") \in Nat
          /\ Reserved(phase) = Floor["test"] + Reserved("test") /\ Floor["test"] \in Nat
      BY <2>1, <2>7, Successors, ReservedSum, PhaseOrder DEF Before
    <3>2. Left' + 1 >= Reserved("test") + 2
      BY <2>3, <2>4, <3>1
    <3> QED
      BY <1>2, <2>1, <2>5, <3>1, <3>2 DEF InLoop
  <2> QED
    BY <2>1, <2>6, <2>7
<1> QED
  BY <1>3, <1>4, <1>5, <1>6

\* A forced attempt costs a turn at most, and pays what is owed.
LEMMA LeftForced ==
    ASSUME ControlInv, LeftInv, AttemptForced, Faults = FALSE
    PROVE  LeftInv'
<1>1. AttemptRequired(survey) /\ ForceAttempt(survey)
  BY DEF AttemptForced, Readings
<1>2. pc \in InLoop /\ phase = "test"
  BY <1>1, ForceInTest DEF AttemptForced
<1>3. /\ phase' = phase /\ budget' = budget /\ iteration' = iteration /\ pc' \in InLoop
  BY DEF AttemptForced, machine
<1>4. ASSUME Unspent' PROVE Left' + 1 >= Reserved("test") + Owed'
  <2>1. attempt \subseteq attempt'
    BY <1>1 DEF ForceAttempt, RunTests, PollTests
  <2>2. polled = NoJob
    <3>1. polled' = NoJob
      BY <1>4 DEF Unspent
    <3>2. polled \in Job \cup {NoJob} /\ survey \in BOOLEAN
      BY DEF ControlInv, TypeOK
    <3>3. polled # NoJob => polled' = polled
      BY <1>1, <3>2 DEF ForceAttempt, PollTests
    <3> QED
      BY <3>1, <3>3
  <2>3. Unspent
    BY <1>3, <1>4, <2>2 DEF Unspent
  <2>4. Left + 1 >= Reserved("test") + Owed
    BY <1>2, <2>3 DEF LeftInv
  <2>5. Owed \in 0..2 /\ Owed' = Owed - 1
    BY <1>1, <1>2, <1>4, <2>2, OwedForced DEF Unspent
  <2>6. /\ Remaining \in Nat
        /\ Left = Remaining \/ Left = Remaining - 1
        /\ Left' = Remaining \/ Left' = Remaining - 1
    BY <1>3, LeftType DEF Left, Remaining
  <2>7. Reserved("test") \in Nat
    BY ReservedSum, PhaseOrder DEF Before
  <2> QED
    BY <2>4, <2>5, <2>6, <2>7
<1> QED
  BY <1>2, <1>3, <1>4 DEF LeftInv

\* The other steps of a loop that goes on: they start no attempt and spend no turn but
\* the one that was asked for.
LEMMA LeftStays ==
    ASSUME ControlInv, LeftInv, UNCHANGED <<phase, budget>>,
           pc \in InLoop => pc' \in InLoop,
           \/ polled' = polled /\ attempt' = attempt
           \/ phase = "test" /\ attempt \subseteq attempt' /\ (polled # NoJob => polled' = polled),
           Unspent => Left' = Left
    PROVE  LeftInv'
<1>1. polled' # NoJob => phase' = "test"
  BY DEF LeftInv
<1>2. Unspent' => Unspent
  BY DEF Unspent
<1>3. ASSUME Unspent', phase # "test" PROVE Left' >= Reserved(phase')
  BY <1>2, <1>3 DEF LeftInv
<1>4. ASSUME Unspent', phase = "test" PROVE Left' + 1 >= Reserved(phase') + Owed'
  <2>1. attempt \subseteq attempt'
    OBVIOUS
  <2>2. Owed \in 0..2 /\ Owed' \in 0..2 /\ Owed' <= Owed
    BY <1>4, <2>1, OwedForced
  <2>3. Left' = Left /\ Left + 1 >= Reserved("test") + Owed
    BY <1>2, <1>4 DEF LeftInv
  <2>4. Reserved("test") \in Nat /\ (Left = Remaining \/ Left = Remaining - 1) /\ Remaining \in Nat
    BY ReservedSum, PhaseOrder, LeftType DEF Before
  <2> QED
    BY <1>4, <2>2, <2>3, <2>4
<1> QED
  BY <1>1, <1>2, <1>3, <1>4 DEF LeftInv

\* The floor lets a turn pass that the later phases do not need.
LEMMA LeftPasses ==
    ASSUME ControlInv, LeftInv, FloorPasses, Faults = FALSE
    PROVE  LeftInv'
<1>1. /\ pc = "floor" /\ pc' = "turn"
      /\ UNCHANGED <<phase, budget, attempt, polled, iteration>>
      /\ Remaining > Reserved(phase)
      /\ AttemptRequired(survey) => Remaining > Reserved(phase) + 2
  BY DEF FloorPasses, Readings, machine, test
<1>2. Left' = Remaining - 1 /\ Remaining \in Nat
  BY <1>1, LeftType DEF Left, Remaining
<1>3. phase \in Phases => Reserved(phase) \in Nat
  BY ReservedSum
<1>4. Unspent' => phase \in Phases
  BY <1>1, PhaseOrder DEF Unspent
<1>5. ASSUME Unspent', phase # "test" PROVE Left' >= Reserved(phase')
  BY <1>1, <1>2, <1>3, <1>4, <1>5
<1>6. ASSUME Unspent', phase = "test" PROVE Left' + 1 >= Reserved(phase') + Owed'
  <2>1. Owed \in 0..2 /\ Owed' = Owed /\ (Owed = 2 => AttemptRequired(survey))
    BY <1>1, <1>6, OwedForced DEF Owed
  <2> QED
    BY <1>1, <1>2, <1>3, <1>4, <1>6, <2>1
<1> QED
  BY <1>1, <1>5, <1>6 DEF LeftInv, InLoop

\* Every step of a run left to itself keeps the turns of the later phases.
LEMMA LeftStep ==
    ASSUME ControlInv, BooksInv, LeftInv, [Next]_vars,
           Faults = FALSE, Interrupts = FALSE, Aborts = FALSE,
           Floor["test"] >= 2, Floor["report"] >= 2
    PROVE  LeftInv'
<1>t. /\ iteration \in Nat /\ MaxIterations \in Nat
      /\ Remaining \in Nat
  BY LeftType
<1>1. ASSUME NEW j \in Job, JobExits(j) PROVE LeftInv'
  BY <1>1, LeftStays DEF JobExits, machine, test, Left, Remaining
<1>2. ~(Interrupt \/ LoopFails \/ PersistFails \/ OutOfTime \/ TurnFails)
  BY DEF Interrupt, LoopFails, PersistFails, OutOfTime, TurnFails
<1>3. CASE OutOfTurns
  <2>1. Remaining = 0 /\ Left = 0 /\ pc = "floor" /\ UNCHANGED <<phase, budget, polled>>
    BY <1>3, <1>t DEF OutOfTurns, Stop, Remaining, Left, test
  <2>2. ~Unspent
    <3>1. ASSUME Unspent, phase # "test" PROVE FALSE
      <4>1. Reserved(phase) \in Nat /\ Reserved(phase) >= 1
        <5>1. phase \in {"provision", "analyze", "build"}
          BY <3>1 DEF Unspent, Before
        <5> QED
          BY <5>1, ReservedSum, PhaseOrder DEF Before
      <4> QED
        BY <2>1, <3>1, <4>1 DEF LeftInv
    <3>2. ASSUME Unspent, phase = "test" PROVE FALSE
      <4>1. Reserved("test") \in Nat /\ Reserved("test") >= 2
        BY ReservedSum, PhaseOrder DEF Before
      <4>2. Owed \in 0..2 /\ Left + 1 >= Reserved("test") + Owed
        BY <3>2, OwedForced DEF LeftInv
      <4> QED
        BY <2>1, <4>1, <4>2
    <3> QED
      BY <3>1, <3>2
  <2> QED
    BY <2>1, <2>2 DEF LeftInv, Unspent
<1>4. CASE FloorForces \/ FloorCloses \/ LoopCloses
  BY <1>4, FloorForced, FloorClosed, LoopClosed, LeftForced, LeftClosed
<1>5. CASE FloorPasses
  BY <1>5, LeftPasses
<1>6. CASE TurnStarts
  <2>1. /\ pc = "turn" /\ pc' \in {"calls", "floor"} /\ iteration' = iteration + 1
        /\ UNCHANGED <<phase, budget, polled, attempt>>
    BY <1>6 DEF TurnStarts, machine, test
  <2>2. Left' = Left
    BY <1>t, <2>1 DEF Left, Remaining
  <2> QED
    BY <2>1, <2>2, LeftStays DEF InLoop
<1>7. CASE Work
  <2>1. /\ UNCHANGED <<phase, budget, pc, iteration>>
        /\ \/ UNCHANGED <<attempt, polled>>
           \/ phase = "test" /\ (RunTests \/ PollTests)
    BY <1>7 DEF Work, machine
  <2>2. RunTests \/ PollTests => attempt \subseteq attempt' /\ (polled # NoJob => polled' = polled)
    BY DEF RunTests, PollTests
  <2> QED
    BY <2>1, <2>2, LeftStays DEF Left, Remaining
<1>8. CASE Analyze
  <2>1. /\ UNCHANGED <<phase, budget, pc, iteration, polled>>
        /\ attempt' = attempt \/ (phase = "test" /\ attempt \subseteq attempt')
    BY <1>8 DEF Analyze, machine
  <2> QED
    BY <2>1, LeftStays DEF Left, Remaining
<1>9. CASE Note \/ Report \/ Propose \/ CallsEnd \/ Sweep \/ NothingSignalled
  <2>1. /\ UNCHANGED <<phase, budget, iteration, polled, attempt>>
        /\ pc # "turn" /\ pc' # "turn" /\ pc' \in InLoop
    BY <1>9 DEF Note, Report, Propose, CallsEnd, Sweep, NothingSignalled, machine, test, InLoop
  <2> QED
    BY <2>1, LeftStays DEF Left, Remaining
<1>10. ASSUME NEW kind \in {"done", "blocked"}, NEW claimed \in Verdicts, Claim(kind, claimed)
       PROVE  LeftInv'
  <2>1. /\ UNCHANGED <<phase, budget, iteration, polled, attempt>>
        /\ pc # "turn" /\ pc' # "turn" /\ pc' \in InLoop
    BY <1>10 DEF Claim, machine, test, InLoop
  <2> QED
    BY <2>1, LeftStays DEF Left, Remaining
<1>11. CASE ClaimRouted
  <2>1. CASE /\ pc = "signals" /\ pc' = "floor"
             /\ UNCHANGED <<machine, evidence, budget, written, job, test, iteration, close,
                            report, termination>>
    <3>1. /\ UNCHANGED <<phase, budget, iteration, polled, attempt>>
          /\ pc # "turn" /\ pc' # "turn" /\ pc' \in InLoop
      BY <2>1 DEF machine, test, InLoop
    <3> QED
      BY <3>1, LeftStays DEF Left, Remaining
  <2> QED
    BY <1>11, <2>1, ClaimClosed, LeftForced, LeftClosed
<1>12. CASE RepairRouted
  BY <1>12, RepairClosed, LeftForced, LeftClosed
<1>13. CASE WaitEnds \/ CloseSettles \/ CloseNames \/ Seal
  <2>1. /\ UNCHANGED <<phase, budget, iteration, polled, attempt>> /\ pc \notin InLoop
    BY <1>13 DEF WaitEnds, CloseSettles, CloseNames, Seal, machine, test, InLoop
  <2>2. ~Unspent
    BY <2>1 DEF LeftInv
  <2> QED
    BY <2>1, <2>2, LeftStays
<1>14. CASE Persist \/ PersistConflicts
  <2>1. /\ UNCHANGED <<phase, budget, polled, attempt>> /\ pc \notin InLoop
    BY <1>14 DEF Persist, PersistConflicts, Raise, Stop, machine, test, InLoop
  <2>2. ~Unspent
    BY <2>1 DEF LeftInv
  <2> QED
    BY <2>1, <2>2 DEF LeftInv, Unspent
<1>15. CASE UNCHANGED vars
  BY <1>15, LeftStays DEF vars, machine, test, Left, Remaining
<1> QED
  BY <1>1, <1>2, <1>3, <1>4, <1>5, <1>6, <1>7, <1>8, <1>9, <1>10, <1>11, <1>12, <1>13,
     <1>14, <1>15
     DEF Next, Engine, FloorStep, CallStep, SignalStep, CloseStep

\* A run left to itself reaches its report, unless it spent turns on a repair or ends in
\* a test attempt that was handed a job to poll.  The configured floors are of two turns
\* at least, and effective_phase_floor scales them down to two turns or a tenth of the
\* run's: in a run of eight turns or more the four of them never exceed its turns.
THEOREM ReportIsReachedOrPolling ==
    ASSUME Faults = FALSE, Interrupts = FALSE, Aborts = FALSE,
           Floor["test"] >= 2, Floor["report"] >= 2, MaxIterations >= Reserved("provision")
    PROVE  Spec => []ReportReachedOrPolling
<1>1. Init => LeftInv
  <2> SUFFICES ASSUME Init PROVE LeftInv
    OBVIOUS
  <2>1. phase = "provision" /\ pc = "floor" /\ iteration = 0 /\ polled = NoJob
    BY DEF Init
  <2>2. Left = MaxIterations
    BY <2>1, RunAssumption DEF Left, Remaining
  <2> QED
    BY <2>1, <2>2 DEF LeftInv, InLoop
<1>2. ControlInv /\ BooksInv /\ LeftInv /\ [Next]_vars => LeftInv'
  BY LeftStep
<1>3. ControlInv /\ LeftInv => ReportReachedOrPolling
  <2> SUFFICES ASSUME ControlInv, LeftInv, pc = "ended", phase \notin {"report", "closed"},
                      ~(budget.run < 2), polled = NoJob
               PROVE  FALSE
    BY DEF ReportReachedOrPolling
  <2>1. phase \in Before
    BY PhaseOrder DEF ControlInv, TypeOK
  <2>2. budget \in [run : 0..2, test : 0..1, build : 0..1]
    BY DEF ControlInv, TypeOK
  <2>3. budget.run = 2
    BY <2>2
  <2> QED
    BY <2>1, <2>3 DEF LeftInv, Unspent, InLoop
<1> QED
  BY <1>1, <1>2, <1>3, RunInvariant, PTL DEF Spec

=============================================================================
