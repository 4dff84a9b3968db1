------------------------------ MODULE JobLedger ------------------------------
(***************************************************************************)
(* Runner commands, detached jobs and the receipts that claim their test   *)
(* reports: dispatch and hold (docker_orch/orch.py), the obligation of a   *)
(* command that outlives its call (agent/job_obligations.py), the receipt  *)
(* of each command (agent/invocation_receipts.py), and the two places that *)
(* settle: the phase gate and the sweep after each batch                   *)
(* (agent/react_engine.py).                                                *)
(*                                                                         *)
(* The engine is one thread; `pc` is where it stands.  Commands write      *)
(* reports and end whenever they like.                                     *)
(***************************************************************************)
EXTENDS Integers, FiniteSets

CONSTANTS
    Command,        \* runner commands, each dispatched at most once
    Path,           \* report files
    Scope,          \* the report files under each command's working directory
    Vouchable,      \* the report files that each command's tool may take from its cache
                    \* instead of writing them: Gradle's; none for Maven
    MaxWrites,      \* bound: times each report file may be written
    MaxFailures,    \* bound: container calls that fail, and restarts
    Failing,        \* what may fail: a kind of container call, "vanished" for a command
                    \* that is killed, "restart" for the process
    NoCommand

ASSUME ScopeAssumption == Scope \in [Command -> SUBSET Path]
ASSUME VouchableAssumption == Vouchable \in [Command -> SUBSET Path]
ASSUME NoCommandAssumption == NoCommand \notin Command

VARIABLES
    disk,       \* the content of each report file; 0 when there is none
    written,    \* times each report file has been written
    writer,     \* the command that wrote each report file, if it is there
    proc,       \* of each command's process: none, running, exited, vanished
    receipts,   \* the receipt files
    ledger,     \* the obligation files
    pc,         \* where the engine stands
    current,    \* the command it is busy with
    before,     \* the snapshot taken when that command was dispatched
    crashed,    \* whether the poll found no exit file and no process
    settler,    \* who settles: the sweep or the gate
    records,    \* the ledger as the settler read it
    pending,    \* the obligations the settler has still to look at
    claims,     \* the receipts as the settler read them, and its own since
    settled,    \* what it settled, as pairs of a command and a receipt id
    sequence,   \* _SEQUENCE of this process
    announced,  \* settlements announced by this process
    failures,
    alone       \* no second process has entered the container

environment == <<disk, written, writer, proc>>
hold == <<current, before, crashed>>
settlement == <<settler, records, pending, claims, settled>>
process == <<sequence, announced>>
bounds == <<failures, alone>>
vars == <<environment, receipts, ledger, pc, hold, settlement, process, bounds>>

-----------------------------------------------------------------------------
(* Snapshots, deltas and obligations. *)

Nothing == [p \in Path |-> 0]

\* A container call of this kind fails.
Fails(kind) ==
    /\ kind \in Failing
    /\ failures < MaxFailures
    /\ failures' = failures + 1

\* snapshot_reports: a failed snapshot is an empty one.
Snapshot(seen) ==
    \/ seen = disk /\ UNCHANGED failures
    \/ seen = Nothing /\ Fails("snapshot")

\* A claim: a report file, its content, and which writing of the file left it there (two
\* writings may leave the same bytes; what is on disk is of the last one).
Claim(p, to) == <<p, to[p], written[p]>>

\* Faulty: a rewritten report is not part of the delta.
DeltaNew(c, from, to, vouched) ==
    [written |-> {Claim(p, to) : p \in {q \in Scope[c] : to[q] # 0 /\ from[q] = 0}},
     cached |-> {Claim(p, to) : p \in {q \in Scope[c] \cap vouched : to[q] # 0 /\ to[q] = from[q]}}]

\* report_delta: reports that are new or changed; and, apart from them, those that are as
\* they were and the tool vouched for.  Deletions are not recorded.
Delta(c, from, to, vouched) ==
    [written |-> {Claim(p, to) : p \in {q \in Scope[c] : to[q] # 0 /\ to[q] # from[q]}},
     cached |-> {Claim(p, to) : p \in {q \in Scope[c] \cap vouched : to[q] # 0 /\ to[q] = from[q]}}]

\* _delta_paths: the paths of both.
Claims(delta) == delta.written \cup delta.cached
Paths(delta) == {v[1] : v \in Claims(delta)}

\* The reports without those that others have claimed.
Without(reports, taken) == [p \in Path |-> IF p \in taken THEN 0 ELSE reports[p]]

NoObligation == [state |-> "none", before |-> Nothing, sequence |-> 0, receipt |-> 0]

\* is_open.
Open(obligations) == {c \in Command : obligations[c].state = "open"}

\* Faulty: a receipt from before the dispatch takes a path out of the window.
InterveningAny(read, dispatched) == UNION {r.paths : r \in read}

\* Faulty: off by one at the ordinal of the dispatch.
InterveningLater(read, dispatched) ==
    UNION {r.paths : r \in {s \in read : s.sequence > dispatched + 1}}

\* _intervening_claims: the paths claimed by receipts written after the dispatch.
Intervening(read, dispatched) ==
    UNION {r.paths : r \in {s \in read : s.sequence > dispatched}}

Receipt(c, n, delta, excluded, exit) ==
    [id |-> n, command |-> c, written |-> delta.written, cached |-> delta.cached,
     excluded |-> excluded, exit |-> exit]

\* write_receipt replaces what was there under the same id.
Filed(r) == {s \in receipts : s.id # r.id} \cup {r}

\* _receipt_claims: each receipt's paths under its ordinal.
Claimed(files) ==
    {[sequence |-> r.id, paths |-> Paths(r)] : r \in {s \in files : Claims(s) # {}}}

\* Faulty: the ordinal of an attempt, of which each command has one.
SequenceOfAttempt == 1

\* next_sequence.
NextSequence == sequence + 1

\* Faulty: a sweep does not see what it claimed itself.
NotFolded(r) == claims

\* Faulty: the receipt itself in place of its paths and ordinal.
FoldedRaw(r) == claims \cup {r}

\* The claims after a settlement has written its receipt.
Folded(r) == claims \cup Claimed({r})

-----------------------------------------------------------------------------
(* The commands. *)

\* A running command writes a report, new or an earlier one from the cache of its tool,
\* or cleans it away.
Writes(c) ==
    /\ proc[c] = "running"
    /\ \E p \in Scope[c] :
         \/ /\ written[p] < MaxWrites[p]
            /\ written' = [written EXCEPT ![p] = @ + 1]
            /\ \E content \in 1..written'[p] :
                 /\ content = written'[p] \/ p \in Vouchable[c]
                 /\ disk' = [disk EXCEPT ![p] = content]
            /\ writer' = [writer EXCEPT ![p] = c]
         \/ /\ disk[p] # 0
            /\ disk' = [disk EXCEPT ![p] = 0]
            /\ writer' = [writer EXCEPT ![p] = NoCommand]
            /\ UNCHANGED written
    /\ UNCHANGED <<proc, receipts, ledger, pc, hold, settlement, process, bounds>>

\* The wrapper publishes the exit file and ends, or is killed before it does.
Ends(c) ==
    /\ proc[c] = "running"
    /\ \E how \in {"exited"} \cup ({"vanished"} \cap Failing) :
         proc' = [proc EXCEPT ![c] = how]
    /\ UNCHANGED <<disk, written, writer, receipts, ledger, pc, hold, settlement,
                   process, bounds>>

-----------------------------------------------------------------------------
(* Dispatch, hold and the receipt of a call that saw its command end. *)

\* The snapshot before, and execute_command_detached.
Dispatch(c) ==
    /\ pc = "idle"
    /\ proc[c] = "none"
    /\ Snapshot(before')
    /\ proc' = [proc EXCEPT ![c] = "running"]
    /\ current' = c
    /\ crashed' = FALSE
    /\ pc' = "poll"
    /\ UNCHANGED <<disk, written, writer, receipts, ledger, settlement, process,
                   alone>>

\* The launcher's answer is lost, or it did not start: the call ends with exit 1.
DispatchFails(c) ==
    /\ pc = "idle"
    /\ proc[c] = "none"
    /\ Fails("dispatch")
    /\ before' = disk
    /\ \E p \in {"running", "vanished"} : proc' = [proc EXCEPT ![c] = p]
    /\ current' = c
    /\ crashed' = TRUE
    /\ pc' = "record"
    /\ UNCHANGED <<disk, written, writer, receipts, ledger, settlement, process,
                   alone>>

\* poll_detached_command looks for the exit file first ...
PollExitFile ==
    /\ pc = "poll"
    /\ pc' = IF proc[current] = "exited" THEN "record" ELSE "kill0"
    /\ UNCHANGED <<environment, receipts, ledger, hold, settlement, process, bounds>>

\* ... and then for the process.  With neither, the command has crashed.
PollProcess ==
    /\ pc = "kill0"
    /\ IF proc[current] = "running"
       THEN pc' = "poll" /\ UNCHANGED crashed
       ELSE pc' = "record" /\ crashed' = TRUE
    /\ UNCHANGED <<environment, receipts, ledger, current, before, settlement,
                   process, bounds>>

\* The hold ends: the last poll found the process running, or had no answer.
\* record_dispatch_obligation takes an ordinal and writes the obligation.
HandOff ==
    /\ LET running == pc = "kill0" /\ proc[current] = "running"
           owed == [state |-> "open", before |-> before, sequence |-> NextSequence,
                    receipt |-> 0]
       IN /\ pc \in {"poll", "kill0"}
          /\ sequence' = NextSequence
          /\ \/ /\ running /\ UNCHANGED failures
                /\ ledger' = [ledger EXCEPT ![current] = owed]
             \/ /\ Fails("probe")
                /\ ledger' = [ledger EXCEPT ![current] = owed]
             \/ running /\ Fails("obligation") /\ UNCHANGED ledger
    /\ pc' = "batch"
    /\ current' = NoCommand
    /\ before' = Nothing
    /\ UNCHANGED <<environment, receipts, crashed, settlement, announced, alone>>

\* _record_invocation_receipt: the snapshot after, what the output says was served from
\* the cache, and the receipt.
Record ==
    /\ pc = "record"
    /\ \E after \in {disk, Nothing}, vouched \in SUBSET Vouchable[current] :
         /\ sequence' = NextSequence
         /\ LET exit == IF crashed THEN "crash" ELSE "code"
                delta == Delta(current, before, after, vouched)
                r == Receipt(current, NextSequence, delta, {}, exit)
            IN \/ after = disk /\ receipts' = Filed(r) /\ UNCHANGED failures
               \/ after # disk /\ receipts' = Filed(r) /\ Fails("snapshot")
               \/ after = disk /\ UNCHANGED receipts /\ Fails("receipt")
    /\ pc' = "batch"
    /\ current' = NoCommand
    /\ before' = Nothing
    /\ crashed' = FALSE
    /\ UNCHANGED <<environment, ledger, settlement, announced, alone>>

-----------------------------------------------------------------------------
(* Settlement. *)

\* read_obligations and _receipt_claims, by the sweep or by the gate.
BeginSettlement(who) ==
    /\ settler' = who
    /\ records' = ledger
    /\ pending' = Open(ledger)
    /\ \/ claims' = Claimed(receipts) /\ UNCHANGED failures
       \/ claims' = {} /\ Fails("claims")
    /\ settled' = {}
    /\ pc' = "settle"
    /\ UNCHANGED <<environment, receipts, ledger, hold, process, alone>>

\* Every batch of calls is followed by a sweep.
Batch ==
    /\ pc = "idle"
    /\ pc' = "batch"
    /\ UNCHANGED <<environment, receipts, ledger, hold, settlement, process, bounds>>

Sweep == pc = "batch" /\ BeginSettlement("sweep")

Gate == pc = "idle" /\ Open(ledger) # {} /\ BeginSettlement("gate")

\* None: the ledger could not be read, and nothing is settled.
LedgerUnreadable ==
    /\ pc = "batch"
    /\ Fails("ledger")
    /\ pc' = "idle"
    /\ UNCHANGED <<environment, receipts, ledger, hold, settlement, process, alone>>

\* An obligation whose exit code cannot be read stays open.
SkipUnended(c) ==
    /\ pc = "settle"
    /\ c \in pending
    /\ \/ proc[c] # "exited" /\ UNCHANGED failures
       \/ proc[c] = "exited" /\ Fails("exit")
    /\ pending' = pending \ {c}
    /\ UNCHANGED <<environment, receipts, ledger, pc, hold, settler, records, claims,
                   settled, process, alone>>

\* _settle_one, up to the receipt: the window of the job, with what its log says was served
\* from the cache, without the paths that receipts written since have claimed.
Settle(c) ==
    /\ pc = "settle"
    /\ c \in pending
    /\ proc[c] = "exited"
    /\ sequence' = NextSequence
    /\ \E after \in {disk, Nothing}, vouched \in SUBSET Vouchable[c] :
         LET window == Delta(c, records[c].before, after, vouched)
             lost == Paths(window) \cap Intervening(claims, records[c].sequence)
             mine == Delta(c, records[c].before, Without(after, lost), vouched)
             r == Receipt(c, NextSequence, mine, lost, "code")
         IN \/ /\ after = disk /\ UNCHANGED failures
               /\ receipts' = Filed(r)
               /\ claims' = Folded(r)
               /\ current' = c
               /\ pc' = "book"
               /\ UNCHANGED pending
            \/ /\ after # disk /\ Fails("snapshot")
               /\ receipts' = Filed(r)
               /\ claims' = Folded(r)
               /\ current' = c
               /\ pc' = "book"
               /\ UNCHANGED pending
            \/ /\ after = disk /\ Fails("receipt")
               /\ pending' = pending \ {c}
               /\ UNCHANGED <<receipts, claims, current, pc>>
    /\ UNCHANGED <<environment, ledger, before, crashed, settler, records, settled,
                   announced, alone>>

\* write_obligation with the receipt; its failure goes unnoticed.
Book ==
    /\ pc = "book"
    /\ \/ /\ ledger' = [ledger EXCEPT ![current] =
                            [@ EXCEPT !.state = "settled", !.receipt = sequence]]
          /\ UNCHANGED failures
       \/ UNCHANGED ledger /\ Fails("obligation")
    /\ settled' = settled \cup {<<current, sequence>>}
    /\ pending' = pending \ {current}
    /\ current' = NoCommand
    /\ pc' = "settle"
    /\ UNCHANGED <<environment, receipts, before, crashed, settler, records, claims,
                   process, alone>>

\* Faulty: a sweep announces its own settlements only.
OwnAnnouncements == {a \in settled : \A b \in announced : b[1] # a[1]}

\* What the sweep announces: what it settled itself, and what the ledger it read
\* already called settled; each job once.  A gate is part of a batch.
Announcements ==
    {a \in settled \cup {<<c, records[c].receipt>> :
                            c \in {d \in Command : records[d].state = "settled"}} :
        \A b \in announced : b[1] # a[1]}

\* settlement_from_ledger reads the receipts of the latter again; one that it cannot read
\* is left to a later sweep.
EndSettlement ==
    /\ pc = "settle"
    /\ pending = {}
    /\ \/ /\ settler = "sweep" /\ UNCHANGED failures
          /\ announced' = announced \cup Announcements
       \/ /\ settler = "sweep" /\ Fails("reread")
          /\ \E unread \in SUBSET (Announcements \ settled) :
               announced' = announced \cup (Announcements \ unread)
       \/ settler # "sweep" /\ UNCHANGED <<announced, failures>>
    /\ settler' = "none"
    /\ records' = [c \in Command |-> NoObligation]
    /\ claims' = {}
    /\ settled' = {}
    /\ pc' = IF settler = "sweep" THEN "idle" ELSE "batch"
    /\ UNCHANGED <<environment, receipts, ledger, hold, pending, sequence, alone>>

\* The process ends or dies, and another one enters the same container.
Restart ==
    /\ Fails("restart")
    /\ alone' = FALSE
    /\ pc' = "idle"
    /\ current' = NoCommand
    /\ before' = Nothing
    /\ crashed' = FALSE
    /\ settler' = "none"
    /\ records' = [c \in Command |-> NoObligation]
    /\ pending' = {}
    /\ claims' = {}
    /\ settled' = {}
    /\ sequence' = 0
    /\ announced' = {}
    /\ UNCHANGED <<environment, receipts, ledger>>

-----------------------------------------------------------------------------
Init ==
    /\ disk = Nothing
    /\ written = Nothing
    /\ writer = [p \in Path |-> NoCommand]
    /\ proc = [c \in Command |-> "none"]
    /\ receipts = {}
    /\ ledger = [c \in Command |-> NoObligation]
    /\ pc = "idle"
    /\ current = NoCommand
    /\ before = Nothing
    /\ crashed = FALSE
    /\ settler = "none"
    /\ records = [c \in Command |-> NoObligation]
    /\ pending = {}
    /\ claims = {}
    /\ settled = {}
    /\ sequence = 0
    /\ announced = {}
    /\ failures = 0
    /\ alone = TRUE

Hold == PollExitFile \/ PollProcess \/ HandOff \/ Record

Settlement ==
    \/ \E c \in Command : SkipUnended(c) \/ Settle(c)
    \/ Book \/ EndSettlement

Engine ==
    \/ \E c \in Command : Dispatch(c) \/ DispatchFails(c)
    \/ Hold \/ Batch \/ Sweep \/ Gate \/ LedgerUnreadable \/ Settlement

Next ==
    \/ Engine
    \/ \E c \in Command : Writes(c) \/ Ends(c)
    \/ Restart

Spec == Init /\ [][Next]_vars

\* The run goes on: wherever the engine stands it takes its next step, each batch
\* is followed by another one, and a hold has a deadline.
Fairness ==
    /\ SF_vars(HandOff \/ Record)
    /\ WF_vars(Batch \/ Sweep \/ Hold \/ Settlement)

FairSpec == Spec /\ Fairness

-----------------------------------------------------------------------------
(* Properties.  Those about claims are kept by the first process in a container.*)

Obligations ==
    [state : {"none", "open", "settled"}, before : [Path -> Nat], sequence : Nat,
     receipt : Nat]

Receipts ==
    [id : Nat, command : Command, written : SUBSET (Path \X Nat \X Nat),
     cached : SUBSET (Path \X Nat \X Nat), excluded : SUBSET Path, exit : {"code", "crash"}]

TypeOK ==
    /\ disk \in [Path -> Nat]
    /\ written \in [Path -> Nat]
    /\ writer \in [Path -> Command \cup {NoCommand}]
    /\ proc \in [Command -> {"none", "running", "exited", "vanished"}]
    /\ receipts \subseteq Receipts
    /\ ledger \in [Command -> Obligations]
    /\ pc \in {"idle", "poll", "kill0", "record", "batch", "settle", "book"}
    /\ current \in Command \cup {NoCommand}
    /\ before \in [Path -> Nat]
    /\ crashed \in BOOLEAN
    /\ settler \in {"none", "sweep", "gate"}
    /\ records \in [Command -> Obligations]
    /\ pending \subseteq Command
    /\ claims \subseteq [sequence : Nat, paths : SUBSET Path]
    /\ settled \subseteq Command \X Nat
    /\ sequence \in Nat
    /\ announced \subseteq Command \X Nat
    /\ failures \in Nat
    /\ alone \in BOOLEAN

\* What a receipt counts as written by its command, no earlier receipt has claimed, as
\* written or as vouched for, whatever jobs end in the same window and however often a
\* settlement is repeated.  (A report may be vouched for again and again.)
WrittenOnce ==
    alone => \A r, s \in receipts : r.id < s.id => Claims(r) \cap s.written = {}

\* A settled obligation names a receipt that is there and is the job's own, and so
\* does every announcement.
SettledByOwnReceipt ==
    alone =>
        \A a \in announced \cup {<<c, ledger[c].receipt>> :
                                c \in {d \in Command : ledger[d].state = "settled"}} :
            \E r \in receipts : r.id = a[2] /\ r.command = a[1]

\* What a settled job wrote last, and what was not there in the same bytes when it was
\* dispatched, is claimed by a receipt, or counted as excluded.
NothingHidden ==
    alone =>
        \A c \in Command : \A p \in Scope[c] :
            ledger[c].state = "settled" /\ writer[p] = c /\ disk[p] \notin {0, ledger[c].before[p]} =>
                \E r \in receipts :
                    \/ Claim(p, disk) \in Claims(r)
                    \/ r.command = c /\ p \in r.excluded

\* A path a settlement leaves out was claimed by another receipt, and one that was
\* written after the dispatch: what an earlier receipt vouched for takes nothing.
ExclusionJustified ==
    alone =>
        \A r \in receipts : \A p \in r.excluded :
            \E s \in receipts :
                s # r /\ p \in Paths(s) /\ s.id > ledger[r.command].sequence

\* Whatever fails, again and again every job that ended has been settled and
\* announced, also by a process that found it in the ledger.
JobsAnnounced ==
    []<>(\A c \in Command :
            ledger[c].state # "none" /\ proc[c] = "exited" => \E a \in announced : a[1] = c)

-----------------------------------------------------------------------------
\* What the ledger promises.
PoolStage(c) ==
    IF proc[c] = "none" THEN "new"
    ELSE IF ledger[c].state = "open" THEN "owed"
    ELSE IF c = current /\ ledger[c].state = "none" THEN "started"
    ELSE "closed"

Pool == INSTANCE JobPool WITH
            Version <- Path \X Nat \X Nat,
            stage <- [c \in Command |-> PoolStage(c)],
            counted <- UNION {{r.command} \X r.written : r \in receipts},
            vouched <- UNION {{r.command} \X r.cached : r \in receipts}

PoolSpec == Pool!Spec
=============================================================================
