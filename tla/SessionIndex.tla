---------------------------- MODULE SessionIndex ----------------------------
(***************************************************************************)
(* Tasks of one workspace as the Web UI keeps them: the HTTP thread that   *)
(* records a task and the thread that runs it (web/task_runner.py), the    *)
(* index file in the container that both read, change and write back       *)
(* (ContainerSessionStore, web/session_registry.py), the mirror of that    *)
(* file on the host (web/session_mirror.py) and the memory of sessions     *)
(* that were not found (ContainerSessionRegistry).                         *)
(*                                                                         *)
(* An index that is absent, empty or half written reads as one that lists  *)
(* no session.                                                             *)
(***************************************************************************)
EXTENDS Naturals

CONSTANTS
    Session,     \* the tasks submitted, each with an id of its own
    MaxFaults,   \* bound: faults that happen
    Faulty       \* the kinds of faults that may happen

VARIABLES
    index,       \* the status of each session in the index file
    container,   \* running or stopped
    thread,      \* where the thread that serves each session stands
    copy,        \* the index it is about to write
    success,     \* what became of its agent: unknown, yes or no
    mirror,      \* the status of each session in the mirror
    fetched,     \* when the mirror was fetched: never, old or fresh
    missing,     \* sessions remembered as not found
    shown,       \* the last answer the page had about each session
    overlapped,  \* two updates of the index have overlapped
    faults

tasks == <<thread, copy, success, overlapped>>
views == <<mirror, fetched, missing, shown>>
vars == <<index, container, tasks, views, faults>>

Empty == [s \in Session |-> "absent"]

Updating == {"add", "adding", "close", "closing"}

-----------------------------------------------------------------------------
(* Faults. *)

Fault(kind) ==
    /\ kind \in Faulty
    /\ faults < MaxFaults
    /\ faults' = faults + 1

-----------------------------------------------------------------------------
(* Reading and writing the index. *)

\* Faulty: the index is rebuilt from the session alone.
StartedAlone(s, read) == [Empty EXCEPT ![s] = "running"]

\* mark_started puts the session at the end, in place of an older row.
Started(s, read) == [read EXCEPT ![s] = "running"]

\* Faulty: a verdict in place of a status, and an end that is always a success.
EndStatusVerdict(s) == IF success[s] = "yes" THEN "success" ELSE "failed"
EndStatusCompleted(s) == "completed"

EndStatus(s) == IF success[s] = "yes" THEN "completed" ELSE "failed"

\* mark_finished changes the session's row, or adds one.
Finished(s, read) == [read EXCEPT ![s] = EndStatus(s)]

\* A command in the container starts a container that is stopped.  A read that
\* fails is one of an empty index.
ReadIndex(s, update, blindUpdate) ==
    /\ \/ /\ container' = "running"
          /\ copy' = [copy EXCEPT ![s] = update]
          /\ UNCHANGED faults
       \/ /\ Fault("read")
          /\ copy' = [copy EXCEPT ![s] = blindUpdate]
          /\ UNCHANGED container
    /\ overlapped' = (overlapped \/ \E t \in Session \ {s} : thread[t] \in Updating)
    /\ UNCHANGED <<index, success, views>>

MarkStarted(s) ==
    /\ thread[s] = "new"
    /\ thread' = [thread EXCEPT ![s] = "add"]
    /\ ReadIndex(s, Started(s, index), Started(s, Empty))

MarkFinished(s) ==
    /\ thread[s] = "over"
    /\ thread' = [thread EXCEPT ![s] = "close"]
    /\ ReadIndex(s, Finished(s, index), Finished(s, Empty))

\* The shell opens the file for writing: it is empty until printf has written.
OpenIndex(s) ==
    /\ thread[s] \in {"add", "close"}
    /\ thread' = [thread EXCEPT ![s] = IF @ = "add" THEN "adding" ELSE "closing"]
    /\ index' = Empty
    /\ container' = "running"
    /\ UNCHANGED <<copy, success, overlapped, views, faults>>

WriteIndex(s) ==
    /\ thread[s] \in {"adding", "closing"}
    /\ thread' = [thread EXCEPT ![s] = IF @ = "adding" THEN "queued" ELSE "done"]
    /\ index' = copy[s]
    /\ copy' = [copy EXCEPT ![s] = Empty]
    /\ UNCHANGED <<container, success, overlapped, views, faults>>

\* The write raises, whether or not it wrote.  A submission is refused and no
\* thread is started; the failure of mark_finished is only logged.
WriteFails(s) ==
    /\ thread[s] \in Updating
    /\ Fault("write")
    /\ thread' = [thread EXCEPT ![s] = IF @ \in {"add", "adding"} THEN "refused" ELSE "done"]
    /\ \/ UNCHANGED index
       \/ thread[s] \in {"adding", "closing"} /\ index' = copy[s]
    /\ copy' = [copy EXCEPT ![s] = Empty]
    /\ UNCHANGED <<container, success, overlapped, views>>

-----------------------------------------------------------------------------
(* The thread of a task. *)

\* The container is there and running, or the task has failed.
CheckContainer(s) ==
    /\ thread[s] = "queued"
    /\ \/ /\ container' = "running"
          /\ thread' = [thread EXCEPT ![s] = "waiting"]
          /\ UNCHANGED <<success, faults>>
       \/ /\ Fault("start")
          /\ thread' = [thread EXCEPT ![s] = "over"]
          /\ success' = [success EXCEPT ![s] = "no"]
          /\ UNCHANGED container
    /\ UNCHANGED <<index, copy, overlapped, views>>

\* Faulty: an agent that fails leaves with the lock.
LockFreeIfDone ==
    \A t \in Session :
        ~(thread[t] \in {"agent", "over", "close", "closing", "done"} /\ success[t] # "yes")

\* One agent at a time.
LockFree == \A t \in Session : thread[t] # "agent"

RunAgent(s) ==
    /\ thread[s] = "waiting"
    /\ LockFree
    /\ thread' = [thread EXCEPT ![s] = "agent"]
    /\ UNCHANGED <<index, container, copy, success, overlapped, views, faults>>

AgentEnds(s) ==
    /\ thread[s] = "agent"
    /\ thread' = [thread EXCEPT ![s] = "over"]
    /\ \E r \in {"yes", "no"} : success' = [success EXCEPT ![s] = r]
    /\ UNCHANGED <<index, container, copy, overlapped, views, faults>>

-----------------------------------------------------------------------------
(* What the page shows. *)

\* Faulty: what was fetched once is never fetched again.
MirrorServesAlways == fetched # "never"

\* ensure_mirror answers from the mirror: of a container that is stopped, or one
\* that was mirrored a moment ago.
MirrorServes == fetched # "never" /\ (container = "stopped" \/ fetched = "fresh")

\* A container that the daemon does not give leaves the mirror as it is; a transfer
\* that breaks off leaves it so, or half written, and counts as a fetch.
EnsureMirror ==
    \/ MirrorServes /\ UNCHANGED <<mirror, fetched, faults>>
    \/ /\ ~MirrorServes
       /\ mirror' = index
       /\ fetched' = "fresh"
       /\ UNCHANGED faults
    \/ /\ ~MirrorServes
       /\ Fault("docker")
       /\ \/ UNCHANGED <<mirror, fetched>>
          \/ mirror' \in {mirror, Empty} /\ fetched' = "fresh"

\* The dashboard lists the workspaces.
Dashboard ==
    /\ EnsureMirror
    /\ UNCHANGED <<index, container, tasks, missing, shown>>

\* get_session_detail, of a session not remembered as missing.
SessionDetail(s) ==
    /\ thread[s] \notin {"new", "add", "adding", "refused"}
    /\ s \notin missing
    /\ EnsureMirror
    /\ IF mirror'[s] = "absent"
       THEN missing' = missing \cup {s} /\ shown' = [shown EXCEPT ![s] = "not found"]
       ELSE shown' = [shown EXCEPT ![s] = mirror'[s]] /\ UNCHANGED missing
    /\ UNCHANGED <<index, container, tasks>>

\* Time passes.
MirrorAges ==
    /\ fetched = "fresh"
    /\ fetched' = "old"
    /\ UNCHANGED <<index, container, tasks, mirror, missing, shown, faults>>

MissingExpires(s) ==
    /\ s \in missing
    /\ missing' = missing \ {s}
    /\ UNCHANGED <<index, container, tasks, mirror, fetched, shown, faults>>

-----------------------------------------------------------------------------
(* The container is stopped; the server dies, its threads with it, and is      *)
(* started again.  A write the container has begun may still be carried out.   *)

ContainerStops ==
    /\ container = "running"
    /\ Fault("stop")
    /\ container' = "stopped"
    /\ UNCHANGED <<index, tasks, views>>

ServerRestarts ==
    /\ Fault("crash")
    /\ thread' = [s \in Session |->
                     IF thread[s] \in {"new", "refused", "done"} THEN thread[s] ELSE "dead"]
    /\ index' \in {index} \cup {copy[s] : s \in {t \in Session : thread[t] \in {"adding", "closing"}}}
    /\ copy' = [s \in Session |-> Empty]
    /\ fetched' = "never"
    /\ missing' = {}
    /\ UNCHANGED <<container, success, overlapped, mirror, shown>>

-----------------------------------------------------------------------------
Init ==
    /\ index = Empty
    /\ container = "running"
    /\ thread = [s \in Session |-> "new"]
    /\ copy = [s \in Session |-> Empty]
    /\ success = [s \in Session |-> "unknown"]
    /\ mirror = Empty
    /\ fetched = "never"
    /\ missing = {}
    /\ shown = [s \in Session |-> "nothing"]
    /\ overlapped = FALSE
    /\ faults = 0

Task(s) ==
    \/ OpenIndex(s) \/ WriteIndex(s) \/ CheckContainer(s) \/ RunAgent(s)
    \/ AgentEnds(s) \/ MarkFinished(s)

Next ==
    \/ \E s \in Session :
         \/ MarkStarted(s) \/ WriteFails(s) \/ Task(s)
         \/ SessionDetail(s) \/ MissingExpires(s)
    \/ Dashboard \/ MirrorAges \/ ContainerStops \/ ServerRestarts

Spec == Init /\ [][Next]_vars

\* The threads run, an agent ends (its turns are bounded), time passes, and the
\* page of a session stays open.
Fairness ==
    /\ \A s \in Session :
         WF_vars(Task(s)) /\ WF_vars(SessionDetail(s) \/ MissingExpires(s))
    /\ WF_vars(MirrorAges)

FairSpec == Spec /\ Fairness

-----------------------------------------------------------------------------
(* Properties. *)

Status == {"absent", "running", "completed", "failed"}

Index == [Session -> Status]

\* Every variable has its type.
TypeOK ==
    /\ index \in Index
    /\ container \in {"running", "stopped"}
    /\ thread \in [Session -> Updating \cup
                      {"new", "queued", "waiting", "agent", "over", "done", "refused", "dead"}]
    /\ copy \in [Session -> Index]
    /\ success \in [Session -> {"unknown", "yes", "no"}]
    /\ mirror \in Index
    /\ fetched \in {"never", "old", "fresh"}
    /\ missing \subseteq Session
    /\ shown \in [Session -> (Status \ {"absent"}) \cup {"nothing", "not found"}]
    /\ overlapped \in BOOLEAN
    /\ faults \in Nat

\* No update of the index has overlapped with another one, and nothing has failed.
Calm == ~overlapped /\ faults = 0

Closed == \A s \in Session : thread[s] \notin {"adding", "closing"}

End(s) == IF success[s] = "yes" THEN "completed" ELSE "failed"

\* Between updates that do not overlap, the index lists every session that was
\* accepted, as running until its task is over and then with its end.
IndexTold ==
    Calm /\ Closed =>
        \A s \in Session :
            index[s] = CASE thread[s] \in {"new", "add"} -> "absent"
                         [] thread[s] = "done" -> End(s)
                         [] OTHER -> "running"

\* Whatever fails, overlaps or dies, a session that is listed or shown as completed
\* is one whose agent succeeded, and one listed or shown as failed did not.
EndsTold ==
    \A s \in Session : \A status \in {index[s], mirror[s], shown[s]} :
        /\ status = "completed" => success[s] = "yes"
        /\ status = "failed" => success[s] = "no"

\* Every task ends, unless its server does: again and again none is under way, as
\* failed agents, stopped containers and failed reads and writes leave the lock to
\* the next one.
TasksEnd == []<>(\A s \in Session : thread[s] \in {"new", "refused", "done", "dead"})

\* The page of a session that is over comes to show its end, although the mirror and
\* the memory of missing sessions answer from the past.
EndsShown == []<>(\A s \in Session : thread[s] = "done" /\ Calm => shown[s] = End(s))
=============================================================================
