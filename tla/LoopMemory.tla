------------------------------ MODULE LoopMemory ------------------------------
(* The recurrence memory of a run (agent/loop_memory.py) and the books the   *)
(* engine keeps from its decisions (agent/react_engine.py).                  *)
(*                                                                           *)
(* Every executed tool call, and every repair request that reaches the       *)
(* guard, is observed.  A call is known by its action and its outcome; the   *)
(* same key with the same epochs of its scopes climbs a ladder: continue,    *)
(* guide, guide, force_break, and close_phase when it comes again at once.   *)
(* A force_break leaves a blocker, which progress lifts.                     *)
(*                                                                           *)
(* Left out: the normalisation that makes a key of a call (a key is a model  *)
(* value here), the advice on diversity (it stands for a continue and        *)
(* changes nothing else), and what the engine does to close a phase.         *)
EXTENDS Naturals, Sequences, FiniteSets

CONSTANTS
    Action,        \* what a call tries: tool and normalised target
    Repairs,       \* the actions that are repair requests
    Polls,         \* the actions whose results carry a job and a cursor
    Scope,         \* the kinds of state that have an epoch
    Scopes,        \* action -> the scopes that matter to it
    Records,       \* action -> the scopes its verified facts may go to
    Cursor,        \* positions in the output of a polled job
    MaxEvents,     \* bound: observed events
    MaxEpoch,      \* bound: progress ends when a scope has this epoch
    NoKey, NoToken \* no armed key, no token yet

ASSUME ActionAssumption == Repairs \subseteq Action /\ Polls \subseteq Action \ Repairs
ASSUME ScopesAssumption ==
    Scopes \in [Action -> SUBSET Scope] /\ Records \in [Action -> SUBSET Scope]
ASSUME BoundAssumption == MaxEvents \in Nat /\ MaxEpoch \in Nat

Outcome == {"success", "failed", "unknown"}
Key == [action : Action, outcome : Outcome]
ASSUME NoKeyAssumption == NoKey \notin Key

Vector == [Scope -> Nat]
Chain == [vector : Vector, count : 0..5, armed : BOOLEAN]
Token == [cursor : Cursor, pending : BOOLEAN]
ASSUME NoTokenAssumption == NoToken \notin Token

Blocker == [key : Key, vector : Vector]

VARIABLES
    epoch,     \* RunEvidenceState: how often each scope progressed
    told,      \* RunEvidenceState: the loop blockers that are active
    chain,     \* LoopMemory._chains; a count of 0 is no chain
    armedKey,  \* LoopMemory._armed_key
    active,    \* LoopMemory._active_blockers
    token,     \* LoopMemory._poll_tokens
    last,      \* the last decision and the key it was about
    log        \* the events observed so far, for the properties

memory == <<chain, armedKey, active, token>>
vars == <<epoch, told, chain, armedKey, active, token, last, log>>

-----------------------------------------------------------------------------
(* An event is a key, whether the invocation is pending, and the token of    *)
(* the job it is about.                                                      *)
Event == [key : Key, token : Token \cup {NoToken}, pending : BOOLEAN]

VectorOf(a, now) == [s \in Scope |-> IF s \in Scopes[a] THEN now[s] ELSE 0]

Candidate(e) ==
    \/ e.key.action \in Repairs
    \/ e.pending
    \/ e.key.outcome = "failed"

PollMoved(e) ==
    LET prior == token[e.key.action]
    IN  /\ e.token # NoToken
        /\ e.token # prior
        /\ e.token.pending \/ (prior # NoToken /\ prior.pending)

\* The scopes of a blocker were all reported and one of them progressed.
Progressed(b, now, known) ==
    /\ Scopes[b.key.action] \subseteq known
    /\ \E s \in Scopes[b.key.action] : now[s] > b.vector[s]

\* Mutated: a job that moves on does not lift its blocker.
LiftedByState(e, now, known) == {b \in active : Progressed(b, now, known)}

Lifted(e, now, known) ==
    {b \in active : \/ Progressed(b, now, known)
                    \/ PollMoved(e) /\ b.key.action = e.key.action}

\* Mutated: an event of another kind in between starts the count again.
StartsAfterOther(e, v) ==
    \/ PollMoved(e)
    \/ ~Candidate(e)
    \/ last.key # e.key
    \/ chain[e.key].vector # v

Starts(e, v) ==
    \/ PollMoved(e)
    \/ ~Candidate(e)
    \/ chain[e.key].count = 0
    \/ chain[e.key].vector # v

\* The event follows the force_break of its own chain at once.
Repeats(e, v) == armedKey = e.key /\ ~Starts(e, v)

\* Mutated: the count is not held at four.
ClimbOn(n) == n + 1

Climb(n) == IF n < 4 THEN n + 1 ELSE 4

Decision(e, v) ==
    IF Starts(e, v) THEN "continue"
    ELSE IF Repeats(e, v) THEN "close_phase"
    ELSE IF Climb(chain[e.key].count) = 4 THEN "force_break"
    ELSE "guide"

Climbed(e, v) ==
    IF Starts(e, v) THEN [vector |-> v, count |-> 1, armed |-> FALSE]
    ELSE IF Repeats(e, v)
         THEN [vector |-> v, count |-> chain[e.key].count + 1, armed |-> FALSE]
    ELSE [vector |-> v, count |-> Climb(chain[e.key].count),
          armed |-> Climb(chain[e.key].count) = 4]

\* Mutated: the mark of the armed chain stays.
DisarmedNever(e, v) == chain

\* Any event but an identical repeat disarms the chain that is armed.
Disarmed(e, v) ==
    [k \in Key |-> IF k = armedKey /\ ~Repeats(e, v)
                   THEN [chain[k] EXCEPT !.armed = FALSE] ELSE chain[k]]

NewBlocker(e, v) ==
    IF Decision(e, v) = "force_break" THEN {[key |-> e.key, vector |-> v]} ELSE {}

\* One call of observe: now is the state it is given, known the scopes of it.
Observe(e, now, known) ==
    LET v == VectorOf(e.key.action, now)
    IN  /\ Len(log) < MaxEvents
        /\ chain' = [Disarmed(e, v) EXCEPT ![e.key] = Climbed(e, v)]
        /\ armedKey' = IF Decision(e, v) = "force_break" THEN e.key ELSE NoKey
        /\ active' = (active \ Lifted(e, now, known)) \cup NewBlocker(e, v)
        /\ token' = [token EXCEPT ![e.key.action] =
                        IF e.token = NoToken THEN @ ELSE e.token]
        /\ last' = [key |-> e.key, decision |-> Decision(e, v)]
        /\ log' = Append(log, [event |-> e, now |-> now, known |-> known,
                               decision |-> Decision(e, v)])

-----------------------------------------------------------------------------
Init ==
    /\ epoch = [s \in Scope |-> 0]
    /\ told = {}
    /\ chain = [k \in Key |-> [vector |-> [s \in Scope |-> 0], count |-> 0, armed |-> FALSE]]
    /\ armedKey = NoKey
    /\ active = {}
    /\ token = [a \in Action |-> NoToken]
    /\ last = [key |-> NoKey, decision |-> "continue"]
    /\ log = <<>>

\* A verified fact that is new raises the epoch of its scope; nothing new does not.
Advanced(S) ==
    {epoch} \cup {[epoch EXCEPT ![s] = @ + 1] :
                     s \in {t \in S : \A u \in Scope : epoch[u] < MaxEpoch}}

\* Mutated: progress is not booked.
BookKept(e, now, known) == told' = told \cup NewBlocker(e, VectorOf(e.key.action, now))

\* What the engine does with the decision on a tool call.
Book(e, now, known) ==
    told' = (told \ Lifted(e, now, known))
              \cup NewBlocker(e, VectorOf(e.key.action, now))

\* A tool call: its facts are recorded, then it is observed and booked.
Call(a, o) ==
    /\ a \notin Repairs \cup Polls
    /\ \E now \in Advanced(Records[a]) :
         LET e == [key |-> [action |-> a, outcome |-> o], token |-> NoToken, pending |-> FALSE]
         IN  epoch' = now /\ Observe(e, now, Scope) /\ Book(e, now, Scope)

\* The result of a poll: the job still runs, or it has ended, one way or the other.
Poll(a, o, c) ==
    /\ a \in Polls
    /\ \E now \in Advanced(Records[a]) :
         LET pending == o = "unknown"
             e == [key |-> [action |-> a, outcome |-> o],
                   token |-> [cursor |-> c, pending |-> pending], pending |-> pending]
         IN  epoch' = now /\ Observe(e, now, Scope) /\ Book(e, now, Scope)

\* An accepted gate records its facts, which the memory does not see.
Gate ==
    /\ epoch' \in Advanced(Scope) \ {epoch}
    /\ UNCHANGED <<told, memory, last, log>>

\* A repair request: its gate records facts, then the guard observes the
\* request with the scopes of its target.  The guard answers only whether the
\* request may go on: the blockers it lifted are not booked.
Repair(a) ==
    /\ a \in Repairs
    /\ \E now \in Advanced(Scope) :
         LET e == [key |-> [action |-> a, outcome |-> "unknown"], token |-> NoToken,
                   pending |-> FALSE]
         IN  epoch' = now /\ Observe(e, now, Scopes[a])
    /\ UNCHANGED told

Next ==
    \/ \E a \in Action, o \in {"success", "failed"} : Call(a, o)
    \/ \E a \in Action, o \in Outcome, c \in Cursor : Poll(a, o, c)
    \/ Gate
    \/ \E a \in Action : Repair(a)

Spec == Init /\ [][Next]_vars

-----------------------------------------------------------------------------
(* Properties.                                                               *)

Decisions == {"continue", "guide", "force_break", "close_phase"}

\* Every variable has its type.
TypeOK ==
    /\ epoch \in Vector
    /\ told \subseteq Blocker
    /\ chain \in [Key -> Chain]
    /\ armedKey \in Key \cup {NoKey}
    /\ active \subseteq Blocker
    /\ token \in [Action -> Token \cup {NoToken}]
    /\ last \in [key : Key \cup {NoKey}, decision : Decisions]

\* The key the memory holds as armed is that of the event observed last, that
\* event was a force_break, and its chain is the only one with the mark: the
\* close a chain is due can never be served to a later, unrelated repeat.
ArmedByLast ==
    /\ armedKey = IF last.decision = "force_break" THEN last.key ELSE NoKey
    /\ \A k \in Key : chain[k].armed <=> k = armedKey
    /\ \A k \in Key : chain[k].armed => chain[k].count = 4

(* The memory told again from the history: what the design says of recurrence *)
(* (the counter runs while nothing relevant happened since the last           *)
(* occurrence, whatever came in between).                                     *)
Occurrence(i) == log[i].event.key
VectorAt(i) == VectorOf(Occurrence(i).action, log[i].now)

\* A poll brought something: another cursor or the end of a pending job.
Brought(i) ==
    LET t == log[i].event.token
        polled == {j \in 1..(i - 1) : /\ Occurrence(j).action = Occurrence(i).action
                                      /\ log[j].event.token # NoToken}
    IN  /\ t # NoToken
        /\ polled = {} => t.pending
        /\ \A j \in polled :
             LET p == log[j].event.token
             IN  (\A k \in polled : k <= j) => t # p /\ (t.pending \/ p.pending)

\* Event i is the first of its kind, or something relevant came since the last.
Fresh(i) ==
    LET same == {j \in 1..(i - 1) : Occurrence(j) = Occurrence(i)}
    IN  \/ ~Candidate(log[i].event)
        \/ Brought(i)
        \/ same = {}
        \/ \E j \in same : (\A k \in same : k <= j) /\ VectorAt(j) # VectorAt(i)

\* The occurrences of one key since it was fresh, i itself included.
Recurrences(i) ==
    {j \in 1..i : /\ Occurrence(j) = Occurrence(i)
                  /\ \A k \in (j + 1)..i : Occurrence(k) = Occurrence(i) => ~Fresh(k)}

Due(i) ==
    LET n == Cardinality(Recurrences(i))
        atOnce == i > 1 /\ Occurrence(i - 1) = Occurrence(i)
                        /\ log[i - 1].decision = "force_break"
    IN  IF n = 1 THEN "continue"
        ELSE IF n < 4 THEN "guide"
        ELSE IF atOnce THEN "close_phase"
        ELSE "force_break"

\* Every decision is the one the whole history calls for: the second and third
\* unchanged occurrences guide, later ones break, and only the one that follows
\* a break at once closes the phase, however events of other kinds, successes,
\* polls and progress of other scopes were mixed in.
LadderKept == log # <<>> => log[Len(log)].decision = Due(Len(log))

Broken(i) == [key |-> Occurrence(i), vector |-> VectorAt(i)]

\* Event j shows that what blocker b was about has moved.
Lifts(j, b) ==
    \/ Progressed(b, log[j].now, log[j].known)
    \/ Brought(j) /\ Occurrence(j).action = b.key.action

\* The memory's blockers are those of the breaks since which no event showed
\* progress of their scopes, nor their job moved on.
BlockersStand ==
    active = {Broken(i) : i \in {j \in 1..Len(log) :
                /\ log[j].decision = "force_break"
                /\ \A k \in (j + 1)..Len(log) : ~Lifts(k, Broken(j))}}

\* The evidence state and the memory agree on the blockers of tool calls, but
\* for those a repair request lifted: these stay active in the evidence state.
BlockersBooked ==
    /\ \A b \in active : b.key.action \notin Repairs => b \in told
    /\ \A b \in told \ active :
         \E j \in 1..Len(log) : Occurrence(j).action \in Repairs /\ Lifts(j, b)

=============================================================================
