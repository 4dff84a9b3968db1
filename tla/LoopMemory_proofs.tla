--------------------------- MODULE LoopMemory_proofs ---------------------------
(***************************************************************************)
(* Theorems about the recurrence memory, for any actions, scopes, cursors  *)
(* and lengths of a run.                                                    *)
(***************************************************************************)
EXTENDS LoopMemory, FiniteSetTheorems, TLAPS

\* The blockers of tool calls the memory holds are active in the evidence state.
ToolBlockersTold == \A b \in active : b.key.action \notin Repairs => b \in told

LoopInv == TypeOK /\ ArmedByLast /\ ToolBlockersTold

\* The restriction of the epochs to the scopes of an action.
LEMMA VectorType ==
    ASSUME NEW a \in Action, NEW now \in Vector
    PROVE  VectorOf(a, now) \in Vector
BY DEF VectorOf, Vector

\* Progress leaves epochs.
LEMMA AdvancedType ==
    ASSUME NEW S \in SUBSET Scope, epoch \in Vector
    PROVE  Advanced(S) \subseteq Vector
BY DEF Advanced, Vector

\* Every rung of the ladder is a chain; only that of a break is armed.
LEMMA ClimbedType ==
    ASSUME LoopInv, NEW e \in Event, NEW v \in Vector
    PROVE  /\ Climbed(e, v) \in Chain
           /\ Climbed(e, v).armed <=> Decision(e, v) = "force_break"
           /\ Climbed(e, v).armed => Climbed(e, v).count = 4
           /\ Decision(e, v) \in Decisions
<1>1. e.key \in Key /\ chain[e.key] \in Chain
  BY DEF LoopInv, TypeOK, Event
<1>2. CASE Starts(e, v)
  BY <1>2 DEF Climbed, Decision, Chain, Decisions
<1>3. CASE ~Starts(e, v) /\ Repeats(e, v)
  <2>1. armedKey = e.key
    BY <1>3 DEF Repeats
  <2>2. chain[e.key].count = 4
    BY <1>1, <2>1 DEF LoopInv, ArmedByLast
  <2> QED
    BY <1>3, <2>2 DEF Climbed, Decision, Chain, Decisions
<1>4. CASE ~Starts(e, v) /\ ~Repeats(e, v)
  <2>1. Climb(chain[e.key].count) \in 0..5
    BY <1>1 DEF Climb, Chain
  <2> QED
    BY <1>4, <2>1 DEF Climbed, Decision, Chain, Decisions
<1> QED
  BY <1>2, <1>3, <1>4

\* Observing an event keeps the memory typed and its armed key the last one's.
LEMMA ObserveStep ==
    ASSUME LoopInv, NEW e \in Event, NEW now \in Vector, NEW known \in SUBSET Scope,
           Observe(e, now, known)
    PROVE  /\ chain' \in [Key -> Chain]
           /\ armedKey' \in Key \cup {NoKey}
           /\ active' \subseteq Blocker
           /\ token' \in [Action -> Token \cup {NoToken}]
           /\ last' \in [key : Key \cup {NoKey}, decision : Decisions]
           /\ ArmedByLast'
<1> DEFINE v == VectorOf(e.key.action, now)
<1>1. e.key \in Key /\ e.key.action \in Action /\ e.token \in Token \cup {NoToken}
  BY DEF Event, Key
<1>2. v \in Vector
  BY <1>1, VectorType
<1> HIDE DEF v
<1>3. /\ Climbed(e, v) \in Chain
      /\ Climbed(e, v).armed <=> Decision(e, v) = "force_break"
      /\ Climbed(e, v).armed => Climbed(e, v).count = 4
      /\ Decision(e, v) \in Decisions
  BY <1>2, ClimbedType
<1>4. /\ chain' = [Disarmed(e, v) EXCEPT ![e.key] = Climbed(e, v)]
      /\ armedKey' = IF Decision(e, v) = "force_break" THEN e.key ELSE NoKey
      /\ active' = (active \ Lifted(e, now, known)) \cup NewBlocker(e, v)
      /\ token' = [token EXCEPT ![e.key.action] = IF e.token = NoToken THEN @ ELSE e.token]
      /\ last' = [key |-> e.key, decision |-> Decision(e, v)]
  BY DEF Observe, v
<1>5. Disarmed(e, v) \in [Key -> Chain]
  BY DEF Disarmed, LoopInv, TypeOK, Chain
<1>6. \A k \in Key \ {e.key} : ~Disarmed(e, v)[k].armed
  <2> SUFFICES ASSUME NEW k \in Key \ {e.key} PROVE ~Disarmed(e, v)[k].armed
    OBVIOUS
  <2>1. CASE k = armedKey
    <3>1. ~Repeats(e, v)
      BY <2>1 DEF Repeats
    <3>2. Disarmed(e, v)[k] = [chain[k] EXCEPT !.armed = FALSE]
      BY <2>1, <3>1 DEF Disarmed
    <3> QED
      BY <3>2 DEF LoopInv, TypeOK, Chain
  <2>2. CASE k # armedKey
    BY <2>2 DEF Disarmed, LoopInv, ArmedByLast
  <2> QED
    BY <2>1, <2>2
<1>7. chain' \in [Key -> Chain]
  BY <1>1, <1>3, <1>4, <1>5
<1>8. \A k \in Key : chain'[k] = IF k = e.key THEN Climbed(e, v) ELSE Disarmed(e, v)[k]
  BY <1>1, <1>4, <1>5
<1>9. active' \subseteq Blocker
  <2>1. active \subseteq Blocker
    BY DEF LoopInv, TypeOK
  <2>2. NewBlocker(e, v) \subseteq Blocker
    BY <1>1, <1>2 DEF NewBlocker, Blocker
  <2> QED
    BY <1>4, <2>1, <2>2
<1>10. token' \in [Action -> Token \cup {NoToken}]
  BY <1>1, <1>4 DEF LoopInv, TypeOK
<1>11. ArmedByLast'
  <2>1. armedKey' = IF last'.decision = "force_break" THEN last'.key ELSE NoKey
    BY <1>4
  <2>2. ASSUME NEW k \in Key
        PROVE  /\ chain'[k].armed <=> k = armedKey'
               /\ chain'[k].armed => chain'[k].count = 4
    BY <1>1, <1>3, <1>4, <1>6, <1>8, NoKeyAssumption
  <2> QED
    BY <2>1, <2>2 DEF ArmedByLast
<1> QED
  BY <1>1, <1>3, <1>4, <1>7, <1>9, <1>10, <1>11

LEMMA LoopInit == Init => LoopInv
BY NoKeyAssumption
   DEF Init, LoopInv, TypeOK, ArmedByLast, ToolBlockersTold, Vector, Chain, Decisions

\* A call or a poll: what is lifted and what is new goes to both books.
LEMMA BookedStep ==
    ASSUME LoopInv, NEW e \in Event, NEW S \in SUBSET Scope, NEW now \in Advanced(S),
           epoch' = now, Observe(e, now, Scope), Book(e, now, Scope)
    PROVE  LoopInv'
<1>1. now \in Vector
  BY AdvancedType DEF LoopInv, TypeOK
<1>2. NewBlocker(e, VectorOf(e.key.action, now)) \subseteq Blocker
  BY <1>1, VectorType DEF NewBlocker, Blocker, Event, Key
<1>3. told' \subseteq Blocker
  BY <1>2 DEF Book, LoopInv, TypeOK
<1>4. ToolBlockersTold'
  BY DEF ToolBlockersTold, LoopInv, Book, Observe
<1> QED
  BY <1>1, <1>3, <1>4, ObserveStep DEF LoopInv, TypeOK

LEMMA LoopStep ==
    ASSUME LoopInv, [Next]_vars
    PROVE  LoopInv'
<1>1. ASSUME NEW a \in Action, NEW o \in {"success", "failed"}, Call(a, o) PROVE LoopInv'
  <2> DEFINE e == [key |-> [action |-> a, outcome |-> o], token |-> NoToken,
                   pending |-> FALSE]
  <2>1. e \in Event
    BY DEF Event, Key, Outcome
  <2>2. PICK now \in Advanced(Records[a]) :
          epoch' = now /\ Observe(e, now, Scope) /\ Book(e, now, Scope)
    BY <1>1 DEF Call
  <2>3. Records[a] \in SUBSET Scope
    BY ScopesAssumption
  <2> QED
    BY <2>1, <2>2, <2>3, BookedStep
<1>2. ASSUME NEW a \in Action, NEW o \in Outcome, NEW c \in Cursor,
             Poll(a, o, c)
      PROVE  LoopInv'
  <2> DEFINE e == [key |-> [action |-> a, outcome |-> o],
                   token |-> [cursor |-> c, pending |-> (o = "unknown")],
                   pending |-> (o = "unknown")]
  <2>1. e \in Event
    BY DEF Event, Key, Outcome, Token
  <2>2. PICK now \in Advanced(Records[a]) :
          epoch' = now /\ Observe(e, now, Scope) /\ Book(e, now, Scope)
    BY <1>2 DEF Poll
  <2>3. Records[a] \in SUBSET Scope
    BY ScopesAssumption
  <2> QED
    BY <2>1, <2>2, <2>3, BookedStep
<1>3. ASSUME Gate PROVE LoopInv'
  <2>1. epoch' \in Vector
    BY <1>3, AdvancedType DEF Gate, LoopInv, TypeOK
  <2> QED
    BY <1>3, <2>1 DEF Gate, memory, LoopInv, TypeOK, ArmedByLast, ToolBlockersTold
<1>4. ASSUME NEW a \in Action, Repair(a) PROVE LoopInv'
  <2> DEFINE e == [key |-> [action |-> a, outcome |-> "unknown"], token |-> NoToken,
                   pending |-> FALSE]
  <2>1. e \in Event /\ a \in Repairs /\ told' = told
    BY <1>4 DEF Event, Key, Outcome, Repair
  <2>2. PICK now \in Advanced(Scope) : epoch' = now /\ Observe(e, now, Scopes[a])
    BY <1>4 DEF Repair
  <2>3. now \in Vector /\ Scopes[a] \in SUBSET Scope
    BY <2>2, AdvancedType, ScopesAssumption DEF LoopInv, TypeOK
  <2>4. ToolBlockersTold'
    BY <2>1, <2>2 DEF ToolBlockersTold, LoopInv, Observe, NewBlocker
  <2> QED
    BY <2>1, <2>2, <2>3, <2>4, ObserveStep DEF LoopInv, TypeOK
<1>5. CASE UNCHANGED vars
  BY <1>5 DEF vars, LoopInv, TypeOK, ArmedByLast, ToolBlockersTold
<1> QED
  BY <1>1, <1>2, <1>3, <1>4, <1>5 DEF Next

\* The memory stays well typed: in particular no count passes five, the one of a close.
THEOREM TypeCorrect == Spec => []TypeOK
<1>1. LoopInv => TypeOK
  BY DEF LoopInv
<1> QED
  BY <1>1, LoopInit, LoopStep, PTL DEF Spec

\* What is armed is the key of the event observed last, which was a force_break.
THEOREM ArmedIsLast == Spec => []ArmedByLast
<1>1. LoopInv => ArmedByLast
  BY DEF LoopInv
<1> QED
  BY <1>1, LoopInit, LoopStep, PTL DEF Spec

\* Every blocker of a tool call that the memory still holds is active in the
\* evidence state: progress the memory has not seen resolves nothing.
THEOREM BlockersAreTold == Spec => []ToolBlockersTold
<1>1. LoopInv => ToolBlockersTold
  BY DEF LoopInv
<1> QED
  BY <1>1, LoopInit, LoopStep, PTL DEF Spec

-----------------------------------------------------------------------------
(* The history.                                                              *)
(*                                                                           *)
(* The properties tell the memory again from the log of the events, so the   *)
(* invariant says what each variable holds of that log: the last event, the  *)
(* last token of each polled action, and for each key the last occurrence    *)
(* with the number of its recurrences, which is all the ladder keeps.        *)

Entry == [event : Event, now : Vector, known : SUBSET Scope, decision : Decisions]

\* i is the greatest of the events in S.
IsLast(i, S) == i \in S /\ \A j \in S : j <= i

PolledBy(a) == {j \in 1..Len(log) : Occurrence(j).action = a /\ log[j].event.token # NoToken}
OccurrencesOf(k) == {j \in 1..Len(log) : Occurrence(j) = k}

LastTold ==
    IF log = <<>> THEN last.decision = "continue"
    ELSE last = [key |-> Occurrence(Len(log)), decision |-> log[Len(log)].decision]

TokenTold ==
    \A a \in Action :
        \/ PolledBy(a) = {} /\ token[a] = NoToken
        \/ \E i \in PolledBy(a) : IsLast(i, PolledBy(a)) /\ token[a] = log[i].event.token

\* The count c of a chain whose last occurrence is the n-th: a close counts one further
\* than a break, and the ladder goes back to the break after it.
Rung(c, n) == n >= 1 /\ IF n < 4 THEN c = n ELSE c \in {4, 5}

ChainTold ==
    \A k \in Key :
        \/ OccurrencesOf(k) = {} /\ chain[k].count = 0
        \/ \E i \in OccurrencesOf(k) :
             /\ IsLast(i, OccurrencesOf(k))
             /\ chain[k].vector = VectorAt(i)
             /\ Rung(chain[k].count, Cardinality(Recurrences(i)))

\* The log grows by x.
Grows(x) == log \in Seq(Entry) /\ x \in Entry /\ log' = Append(log, x)

\* What an event was does not change with later ones ...
LEMMA GrowsKeeps ==
    ASSUME NEW x, Grows(x)
    PROVE  /\ log' \in Seq(Entry) /\ log' # <<>>
           /\ Len(log) \in Nat /\ Len(log') = Len(log) + 1 /\ log'[Len(log) + 1] = x
           /\ \A i \in 1..Len(log) : log'[i] = log[i] /\ log[i] \in Entry
BY DEF Grows

LEMMA OccurrenceKept ==
    ASSUME NEW x, Grows(x), NEW i \in 1..Len(log)
    PROVE  /\ Occurrence(i)' = Occurrence(i) /\ VectorAt(i)' = VectorAt(i)
           /\ Occurrence(i) \in Key
BY GrowsKeeps DEF Occurrence, VectorAt, Entry, Event

LEMMA BroughtKept ==
    ASSUME NEW x, Grows(x), NEW i \in 1..Len(log)
    PROVE  Brought(i)' <=> Brought(i)
<1>1. \A j \in 1..i : j \in 1..Len(log)
  BY GrowsKeeps
<1>2. \A j \in 1..i : Occurrence(j)' = Occurrence(j) /\ log'[j] = log[j]
  BY <1>1, GrowsKeeps, OccurrenceKept
<1>3. /\ Occurrence(i)' = Occurrence(i) /\ log'[i] = log[i]
      /\ \A j \in 1..(i - 1) : Occurrence(j)' = Occurrence(j) /\ log'[j] = log[j]
  BY <1>2, GrowsKeeps
<1> DEFINE P == {j \in 1..(i - 1) : /\ Occurrence(j).action = Occurrence(i).action
                                    /\ log[j].event.token # NoToken}
           Q == {j \in 1..(i - 1) : /\ Occurrence(j)'.action = Occurrence(i)'.action
                                    /\ log'[j].event.token # NoToken}
<1>4. P = Q
  BY <1>3
<1>5. \A j \in Q : log'[j] = log[j]
  BY <1>3
<1>6. Brought(i) <=>
        /\ log[i].event.token # NoToken
        /\ P = {} => log[i].event.token.pending
        /\ \A j \in P : (\A k \in P : k <= j) =>
             /\ log[i].event.token # log[j].event.token
             /\ log[i].event.token.pending \/ log[j].event.token.pending
  BY DEF Brought
<1>7. Brought(i)' <=>
        /\ log'[i].event.token # NoToken
        /\ Q = {} => log'[i].event.token.pending
        /\ \A j \in Q : (\A k \in Q : k <= j) =>
             /\ log'[i].event.token # log'[j].event.token
             /\ log'[i].event.token.pending \/ log'[j].event.token.pending
  BY DEF Brought
<1> HIDE DEF P, Q
<1> QED
  BY <1>3, <1>4, <1>5, <1>6, <1>7

LEMMA FreshKept ==
    ASSUME NEW x, Grows(x), NEW i \in 1..Len(log)
    PROVE  Fresh(i)' <=> Fresh(i)
<1>1. \A j \in 1..i : j \in 1..Len(log)
  BY GrowsKeeps
<1>2. \A j \in 1..i : /\ Occurrence(j)' = Occurrence(j) /\ VectorAt(j)' = VectorAt(j)
                      /\ log'[j] = log[j]
  BY <1>1, GrowsKeeps, OccurrenceKept
<1>3. /\ Occurrence(i)' = Occurrence(i) /\ VectorAt(i)' = VectorAt(i) /\ log'[i] = log[i]
      /\ \A j \in 1..(i - 1) : Occurrence(j)' = Occurrence(j) /\ VectorAt(j)' = VectorAt(j)
  BY <1>2, GrowsKeeps
<1>4. {j \in 1..(i - 1) : Occurrence(j)' = Occurrence(i)'}
        = {j \in 1..(i - 1) : Occurrence(j) = Occurrence(i)}
  BY <1>3
<1>5. Brought(i)' <=> Brought(i)
  BY BroughtKept
<1>6. Candidate(log[i].event)' <=> Candidate(log[i].event)
  BY <1>3 DEF Candidate
<1> DEFINE S == {j \in 1..(i - 1) : Occurrence(j) = Occurrence(i)}
<1>7. \A j \in S : VectorAt(j)' = VectorAt(j)
  BY <1>3
<1>8. Fresh(i) <=> \/ ~Candidate(log[i].event) \/ Brought(i) \/ S = {}
                   \/ \E j \in S : (\A k \in S : k <= j) /\ VectorAt(j) # VectorAt(i)
  BY DEF Fresh
<1>9. Fresh(i)' <=> \/ ~Candidate(log[i].event)' \/ Brought(i)' \/ S = {}
                    \/ \E j \in S : (\A k \in S : k <= j) /\ VectorAt(j)' # VectorAt(i)'
  BY <1>4 DEF Fresh
<1> HIDE DEF S
<1> QED
  BY <1>3, <1>5, <1>6, <1>7, <1>8, <1>9

LEMMA RecurrencesKept ==
    ASSUME NEW x, Grows(x), NEW i \in 1..Len(log)
    PROVE  Recurrences(i)' = Recurrences(i)
<1>1. \A j \in 1..i : j \in 1..Len(log)
  BY GrowsKeeps
<1>2. \A j \in 1..i : Occurrence(j)' = Occurrence(j) /\ (Fresh(j)' <=> Fresh(j))
  BY <1>1, FreshKept, OccurrenceKept
<1>3. i \in 1..i /\ \A j \in 1..i : \A k \in (j + 1)..i : k \in 1..i
  BY GrowsKeeps
<1>4. \A j \in 1..i : (\A k \in (j + 1)..i : Occurrence(k)' = Occurrence(i)' => ~Fresh(k)')
                        <=> (\A k \in (j + 1)..i : Occurrence(k) = Occurrence(i) => ~Fresh(k))
  BY <1>2, <1>3
<1> QED
  BY <1>2, <1>3, <1>4 DEF Recurrences

LEMMA LiftsKept ==
    ASSUME NEW x, Grows(x), NEW i \in 1..Len(log), NEW b
    PROVE  Lifts(i, b)' <=> Lifts(i, b)
BY GrowsKeeps, BroughtKept, OccurrenceKept DEF Lifts, Progressed

LEMMA BrokenKept ==
    ASSUME NEW x, Grows(x), NEW i \in 1..Len(log)
    PROVE  Broken(i)' = Broken(i)
BY OccurrenceKept DEF Broken

\* ... and the new event is the greatest of its kind.
LEMMA NewOccurrence ==
    ASSUME NEW x, Grows(x), NEW n \in Nat, n = Len(log) + 1
    PROVE  /\ Occurrence(n)' = x.event.key /\ log'[n] = x /\ Len(log') = n
           /\ n >= 1 /\ n - 1 = Len(log) /\ Len(log) \in Nat
           /\ VectorAt(n)' = VectorOf(x.event.key.action, x.now)
           /\ x.event.key \in Key /\ x.event \in Event /\ x.now \in Vector
           /\ x.event.key.action \in Action
           /\ \A j \in 1..n : j \in 1..Len(log) \/ j = n
<1>1. x \in Entry
  BY DEF Grows
<1>2. log'[n] = x /\ Len(log') = n /\ Len(log) \in Nat
  BY GrowsKeeps
<1>3. Occurrence(n)' = log'[n].event.key
  BY DEF Occurrence
<1>4. VectorAt(n)' = VectorOf(Occurrence(n)'.action, log'[n].now)
  BY DEF VectorAt, VectorOf
<1>5. x.event \in Event /\ x.now \in Vector
  BY <1>1 DEF Entry
<1>6. x.event.key \in Key /\ x.event.key.action \in Action
  BY <1>5 DEF Event, Key
<1> QED
  BY <1>2, <1>3, <1>4, <1>5, <1>6

LEMMA PolledGrows ==
    ASSUME NEW x, Grows(x), NEW n \in Nat, n = Len(log) + 1, NEW a
    PROVE  PolledBy(a)' = PolledBy(a) \cup
               (IF x.event.key.action = a /\ x.event.token # NoToken THEN {n} ELSE {})
<1>1. /\ Len(log') = n /\ log'[n] = x /\ Occurrence(n)' = x.event.key
      /\ \A j \in 1..n : j \in 1..Len(log) \/ j = n
      /\ n \in 1..n /\ \A j \in 1..Len(log) : j \in 1..n
  BY GrowsKeeps, NewOccurrence
<1>2. \A j \in 1..Len(log) : log'[j] = log[j] /\ Occurrence(j)' = Occurrence(j)
  BY GrowsKeeps, OccurrenceKept
<1>3. PolledBy(a)' = {j \in 1..n : Occurrence(j)'.action = a /\ log'[j].event.token # NoToken}
  BY <1>1 DEF PolledBy
<1>4. \A j : j \in PolledBy(a)' <=>
          j \in PolledBy(a) \/ (j = n /\ x.event.key.action = a /\ x.event.token # NoToken)
  BY <1>1, <1>2, <1>3 DEF PolledBy
<1> QED
  BY <1>4

LEMMA OccurrencesGrow ==
    ASSUME NEW x, Grows(x), NEW n \in Nat, n = Len(log) + 1, NEW k
    PROVE  OccurrencesOf(k)' = OccurrencesOf(k) \cup
               (IF x.event.key = k THEN {n} ELSE {})
<1>1. /\ Len(log') = n /\ Occurrence(n)' = x.event.key
      /\ \A j \in 1..n : j \in 1..Len(log) \/ j = n
      /\ n \in 1..n /\ \A j \in 1..Len(log) : j \in 1..n
  BY GrowsKeeps, NewOccurrence
<1>2. \A j \in 1..Len(log) : Occurrence(j)' = Occurrence(j)
  BY OccurrenceKept
<1>3. OccurrencesOf(k)' = {j \in 1..n : Occurrence(j)' = k}
  BY <1>1 DEF OccurrencesOf
<1>4. \A j : j \in OccurrencesOf(k)' <=> j \in OccurrencesOf(k) \/ (j = n /\ x.event.key = k)
  BY <1>1, <1>2, <1>3 DEF OccurrencesOf
<1> QED
  BY <1>4

\* The tokens the memory keeps tell whether a poll brought something.
LEMMA BroughtNew ==
    ASSUME NEW x, Grows(x), NEW n \in Nat, n = Len(log) + 1, TokenTold
    PROVE  Brought(n)' <=> PollMoved(x.event)
<1> DEFINE a == x.event.key.action
           Q == {j \in 1..(n - 1) : /\ Occurrence(j)'.action = Occurrence(n)'.action
                                    /\ log'[j].event.token # NoToken}
<1>1. /\ Occurrence(n)' = x.event.key /\ a \in Action /\ log'[n] = x /\ n - 1 = Len(log)
      /\ x.event.token \in Token \cup {NoToken}
  BY GrowsKeeps, NewOccurrence DEF Event
<1>2. Q = PolledBy(a)
  BY <1>1, GrowsKeeps, OccurrenceKept DEF PolledBy
<1>3. \A j \in PolledBy(a) : /\ log'[j] = log[j] /\ j \in Int
                             /\ log[j].event.token # NoToken
  BY GrowsKeeps DEF PolledBy
<1>4. Brought(n)' <=>
        /\ x.event.token # NoToken
        /\ Q = {} => x.event.token.pending
        /\ \A j \in Q : (\A k \in Q : k <= j) =>
             /\ x.event.token # log'[j].event.token
             /\ x.event.token.pending \/ log'[j].event.token.pending
  BY <1>1 DEF Brought
<1>5. PollMoved(x.event) <=> /\ x.event.token # NoToken
                             /\ x.event.token # token[a]
                             /\ x.event.token.pending \/ (token[a] # NoToken /\ token[a].pending)
  BY DEF PollMoved
<1>6. CASE PolledBy(a) = {} /\ token[a] = NoToken
  BY <1>2, <1>4, <1>5, <1>6
<1>7. ASSUME NEW i \in PolledBy(a), IsLast(i, PolledBy(a)), token[a] = log[i].event.token
      PROVE  Brought(n)' <=> PollMoved(x.event)
  <2>1. \A j \in PolledBy(a) : (\A k \in PolledBy(a) : k <= j) <=> j = i
    BY <1>3, <1>7 DEF IsLast
  <2> HIDE DEF Q
  <2> QED
    BY <1>2, <1>3, <1>4, <1>5, <1>7, <2>1
<1> QED
  BY <1>1, <1>6, <1>7 DEF TokenTold

\* The chain of a key tells whether its next occurrence starts it again.
LEMMA FreshNew ==
    ASSUME NEW x, Grows(x), NEW n \in Nat, n = Len(log) + 1, TokenTold, ChainTold
    PROVE  Fresh(n)' <=> Starts(x.event, VectorOf(x.event.key.action, x.now))
<1> DEFINE k == x.event.key
           v == VectorOf(k.action, x.now)
           S == {j \in 1..(n - 1) : Occurrence(j)' = Occurrence(n)'}
<1>1. /\ Occurrence(n)' = k /\ VectorAt(n)' = v /\ k \in Key /\ log'[n] = x /\ n - 1 = Len(log)
  BY GrowsKeeps, NewOccurrence
<1>2. S = OccurrencesOf(k)
  BY <1>1, OccurrenceKept DEF OccurrencesOf
<1>3. \A j \in OccurrencesOf(k) : VectorAt(j)' = VectorAt(j) /\ j \in Int
  BY GrowsKeeps, OccurrenceKept DEF OccurrencesOf
<1>4. Brought(n)' <=> PollMoved(x.event)
  BY BroughtNew
<1>5. Candidate(log[n].event)' <=> Candidate(x.event)
  BY <1>1 DEF Candidate
<1>6. Fresh(n)' <=> \/ ~Candidate(log[n].event)' \/ Brought(n)' \/ S = {}
                    \/ \E j \in S : (\A m \in S : m <= j) /\ VectorAt(j)' # VectorAt(n)'
  BY DEF Fresh
<1>7. Starts(x.event, v) <=> \/ PollMoved(x.event) \/ ~Candidate(x.event)
                             \/ chain[k].count = 0 \/ chain[k].vector # v
  BY DEF Starts
<1> HIDE DEF v, S
<1>8. ASSUME OccurrencesOf(k) = {}, chain[k].count = 0
      PROVE  Fresh(n)' <=> Starts(x.event, v)
  BY <1>2, <1>6, <1>7, <1>8
<1>9. ASSUME NEW i \in OccurrencesOf(k), IsLast(i, OccurrencesOf(k)),
             chain[k].vector = VectorAt(i), chain[k].count # 0
      PROVE  Fresh(n)' <=> Starts(x.event, v)
  <2>1. \A j \in OccurrencesOf(k) : (\A m \in OccurrencesOf(k) : m <= j) <=> j = i
    BY <1>3, <1>9 DEF IsLast
  <2>2. VectorAt(i)' = VectorAt(i)
    BY <1>3, <1>9
  <2>3. (\E j \in S : (\A m \in S : m <= j) /\ VectorAt(j)' # VectorAt(n)') <=> VectorAt(i) # v
    BY <1>1, <1>2, <1>9, <2>1, <2>2
  <2>4. S # {}
    BY <1>2, <1>9
  <2> QED
    BY <1>4, <1>5, <1>6, <1>7, <1>9, <2>3, <2>4
<1>10. ASSUME NEW i \in OccurrencesOf(k), Rung(chain[k].count, Cardinality(Recurrences(i)))
       PROVE  chain[k].count # 0
  BY <1>10 DEF Rung
<1>11. \/ OccurrencesOf(k) = {} /\ chain[k].count = 0
       \/ \E i \in OccurrencesOf(k) :
             /\ IsLast(i, OccurrencesOf(k))
             /\ chain[k].vector = VectorAt(i)
             /\ Rung(chain[k].count, Cardinality(Recurrences(i)))
  BY <1>1 DEF ChainTold
<1>12. Fresh(n)' <=> Starts(x.event, v)
  BY <1>8, <1>9, <1>10, <1>11
<1> QED
  BY <1>12 DEF v

\* A fresh occurrence is the first of its recurrences ...
LEMMA RecurrencesFresh ==
    ASSUME NEW x, Grows(x), NEW n \in Nat, n = Len(log) + 1, Fresh(n)'
    PROVE  Recurrences(n)' = {n}
<1>1. n \in Nat /\ n \in 1..n /\ \A j \in 1..n : j = n \/ n \in (j + 1)..n
  BY GrowsKeeps, NewOccurrence
<1>2. \A j : j \notin (n + 1)..n
  BY <1>1
<1>3. Recurrences(n)' = {j \in 1..n : /\ Occurrence(j)' = Occurrence(n)'
                          /\ \A k \in (j + 1)..n : Occurrence(k)' = Occurrence(n)' => ~Fresh(k)'}
  BY DEF Recurrences
<1>4. Fresh(n)'
  OBVIOUS
<1>5. Recurrences(n)' = {n}
  BY <1>1, <1>2, <1>3, <1>4
<1> QED
  BY <1>5

\* ... and another one adds itself to those of the last.
LEMMA RecurrencesNext ==
    ASSUME NEW x, Grows(x), NEW n \in Nat, n = Len(log) + 1, ~Fresh(n)',
           NEW i, IsLast(i, OccurrencesOf(x.event.key))
    PROVE  /\ Recurrences(n)' = Recurrences(i) \cup {n}
           /\ n \notin Recurrences(i)
<1> DEFINE k == x.event.key
           Alone(j) == \A m \in (j + 1)..n : Occurrence(m)' = Occurrence(n)' => ~Fresh(m)'
<1>1. /\ n \in Nat /\ n = Len(log) + 1 /\ Len(log) \in Nat /\ Occurrence(n)' = k
      /\ \A j \in 1..n : j \in 1..Len(log) \/ j = n
  BY GrowsKeeps, NewOccurrence
<1>2. \A j \in 1..Len(log) : (Occurrence(j)' = Occurrence(j)) /\ (Fresh(j)' <=> Fresh(j))
  BY OccurrenceKept, FreshKept
<1>3. i \in 1..Len(log) /\ Occurrence(i) = k
  BY DEF IsLast, OccurrencesOf
<1>4. \A j \in 1..Len(log) : Occurrence(j) = k => j <= i
  BY DEF IsLast, OccurrencesOf
<1>5. ~Fresh(n)'
  OBVIOUS
<1>6. Recurrences(n)' = {j \in 1..n : Occurrence(j)' = k /\ Alone(j)}
  BY <1>1 DEF Recurrences
<1>7. Recurrences(i) = {j \in 1..i : /\ Occurrence(j) = k
                          /\ \A m \in (j + 1)..i : Occurrence(m) = k => ~Fresh(m)}
  BY <1>3 DEF Recurrences
<1> HIDE DEF k
<1>8. Alone(n)
  BY <1>1
<1>9. ASSUME NEW j \in 1..Len(log), Occurrence(j) = k
      PROVE  /\ j \in 1..i
             /\ Alone(j) <=> \A m \in (j + 1)..i : Occurrence(m) = k => ~Fresh(m)
  <2>1. j \in 1..i
    BY <1>1, <1>3, <1>4, <1>9
  <2>2. ASSUME Alone(j), NEW m \in (j + 1)..i, Occurrence(m) = k PROVE ~Fresh(m)
    <3>1. m \in (j + 1)..n /\ m \in 1..Len(log)
      BY <1>1, <1>3
    <3> QED
      BY <1>1, <1>2, <2>2, <3>1
  <2>3. ASSUME \A m \in (j + 1)..i : Occurrence(m) = k => ~Fresh(m),
               NEW m \in (j + 1)..n, Occurrence(m)' = Occurrence(n)'
        PROVE  ~Fresh(m)'
    <3>1. CASE m = n
      BY <1>5, <3>1
    <3>2. CASE m # n
      <4>1. m \in 1..Len(log)
        BY <1>1, <3>2
      <4>2. Occurrence(m) = k
        BY <1>1, <1>2, <2>3, <4>1
      <4>3. m \in (j + 1)..i
        BY <1>1, <1>3, <1>4, <4>1, <4>2
      <4> QED
        BY <1>2, <2>3, <4>1, <4>2, <4>3
    <3> QED
      BY <3>1, <3>2
  <2> QED
    BY <2>1, <2>2, <2>3
<1> HIDE DEF Alone
<1>10. \A j : j \in Recurrences(n)' <=> j \in Recurrences(i) \/ j = n
  <2>1. n \in 1..n /\ Occurrence(n)' = k /\ \A j \in 1..Len(log) : j \in 1..n
    BY <1>1
  <2>2. n \in Recurrences(n)'
    BY <1>6, <1>8, <2>1
  <2>3. ASSUME NEW j \in 1..Len(log) PROVE j \in Recurrences(n)' <=> j \in Recurrences(i)
    BY <1>2, <1>6, <1>7, <1>9, <2>1
  <2>4. \A j : j \in Recurrences(i) => j \in 1..Len(log)
    BY <1>1, <1>3, <1>7
  <2>5. \A j : j \in Recurrences(n)' => j \in 1..Len(log) \/ j = n
    BY <1>1, <1>6
  <2> QED
    BY <2>2, <2>3, <2>4, <2>5
<1>11. n \notin Recurrences(i)
  BY <1>1, <1>3, <1>7
<1>12. Recurrences(n)' = Recurrences(i) \cup {n} /\ n \notin Recurrences(i)
  BY <1>10, <1>11
<1> QED
  BY <1>12

LEMMA RecurrencesFinite ==
    ASSUME log \in Seq(Entry), NEW i \in 1..Len(log)
    PROVE  IsFiniteSet(Recurrences(i)) /\ Cardinality(Recurrences(i)) \in Nat
<1>1. IsFiniteSet(1..i)
  BY FS_Interval
<1>2. Recurrences(i) \subseteq 1..i
  BY DEF Recurrences
<1> QED
  BY <1>1, <1>2, FS_Subset, FS_CardinalityType

-----------------------------------------------------------------------------
(* The invariant of the history.                                             *)

HistoryInv == LoopInv /\ log \in Seq(Entry) /\ LastTold /\ TokenTold /\ ChainTold

\* The step observed the event of x, with the state and the scopes of x.
Observed(x) ==
    /\ Grows(x)
    /\ Observe(x.event, x.now, x.known)
    /\ x.decision = Decision(x.event, VectorOf(x.event.key.action, x.now))

LEMMA ObservedEntry ==
    ASSUME HistoryInv, NEW e \in Event, NEW now \in Vector, NEW known \in SUBSET Scope,
           Observe(e, now, known)
    PROVE  \E x \in Entry : Observed(x) /\ x.event = e /\ x.now = now /\ x.known = known
<1>1. PICK d : d = Decision(e, VectorOf(e.key.action, now))
  OBVIOUS
<1>2. VectorOf(e.key.action, now) \in Vector
  BY VectorType DEF Event, Key
<1>3. d \in Decisions
  BY <1>1, <1>2, ClimbedType DEF HistoryInv
<1>4. PICK x : x = [event |-> e, now |-> now, known |-> known, decision |-> d]
  OBVIOUS
<1>5. x \in Entry /\ x.event = e /\ x.now = now /\ x.known = known /\ x.decision = d
  BY <1>3, <1>4 DEF Entry
<1>6. log' = Append(log, x)
  BY <1>1, <1>4 DEF Observe
<1>7. Grows(x)
  BY <1>5, <1>6 DEF Grows, HistoryInv
<1>8. Observed(x)
  BY <1>1, <1>5, <1>7 DEF Observed
<1> QED
  BY <1>5, <1>8

\* What the step does, by variable.
LEMMA ObservedEffect ==
    ASSUME HistoryInv, NEW x, Observed(x), NEW k, k = x.event.key,
           NEW v, v = VectorOf(k.action, x.now)
    PROVE  /\ Grows(x) /\ k \in Key /\ v \in Vector /\ x.event \in Event
           /\ last' = [key |-> k, decision |-> x.decision]
           /\ x.decision = Decision(x.event, v)
           /\ chain'[k] = Climbed(x.event, v)
           /\ \A m \in Key \ {k} : /\ chain'[m].vector = chain[m].vector
                                   /\ chain'[m].count = chain[m].count
           /\ \A a \in Action : token'[a] =
                IF a = k.action /\ x.event.token # NoToken THEN x.event.token ELSE token[a]
           /\ active' = (active \ Lifted(x.event, x.now, x.known)) \cup NewBlocker(x.event, v)
<1> DEFINE e == x.event
<1>1. Grows(x) /\ Observe(e, x.now, x.known) /\ x \in Entry
  BY DEF Observed, Grows
<1>2. e \in Event /\ x.now \in Vector
  BY <1>1 DEF Entry
<1>3. k \in Key /\ k.action \in Action
  BY <1>2 DEF Event, Key
<1>4. v \in Vector
  BY <1>2, <1>3, VectorType
<1>5. /\ chain' = [Disarmed(e, v) EXCEPT ![k] = Climbed(e, v)]
      /\ token' = [token EXCEPT ![k.action] = IF e.token = NoToken THEN @ ELSE e.token]
      /\ last' = [key |-> k, decision |-> Decision(e, v)]
      /\ active' = (active \ Lifted(e, x.now, x.known)) \cup NewBlocker(e, v)
  BY <1>1 DEF Observe
<1>6. x.decision = Decision(e, v)
  BY DEF Observed
<1>7. chain \in [Key -> Chain] /\ token \in [Action -> Token \cup {NoToken}]
  BY DEF HistoryInv, LoopInv, TypeOK
<1> HIDE DEF e
<1>8. \A m \in Key : /\ Disarmed(e, v)[m].vector = chain[m].vector
                     /\ Disarmed(e, v)[m].count = chain[m].count
  BY <1>7 DEF Disarmed, Chain
<1>9. DOMAIN Disarmed(e, v) = Key
  BY DEF Disarmed
<1>10. chain'[k] = Climbed(e, v) /\ \A m \in Key \ {k} : chain'[m] = Disarmed(e, v)[m]
  BY <1>3, <1>5, <1>9 DEF Disarmed
<1>11. \A a \in Action : token'[a] =
         IF a = k.action /\ e.token # NoToken THEN e.token ELSE token[a]
  BY <1>3, <1>5, <1>7
<1> QED
  BY <1>1, <1>2, <1>3, <1>4, <1>5, <1>6, <1>8, <1>10, <1>11 DEF e

LEMMA LastToldStep ==
    ASSUME HistoryInv, NEW x, Observed(x)
    PROVE  LastTold'
<1>1. Grows(x) /\ last' = [key |-> x.event.key, decision |-> x.decision]
  BY ObservedEffect
<1>2. PICK n \in Nat : n = Len(log) + 1
  BY <1>1, GrowsKeeps
<1>3. Occurrence(n)' = x.event.key /\ log'[n] = x /\ Len(log') = n /\ log' # <<>>
  BY <1>1, <1>2, GrowsKeeps, NewOccurrence
<1>4. Occurrence(Len(log))' = log'[Len(log')].event.key
  BY DEF Occurrence
<1> QED
  BY <1>1, <1>3, <1>4 DEF LastTold, Occurrence

LEMMA TokenToldStep ==
    ASSUME HistoryInv, NEW x, Observed(x)
    PROVE  TokenTold'
<1> DEFINE k == x.event.key
<1>1. /\ Grows(x) /\ k \in Key
      /\ \A a \in Action : token'[a] =
            IF a = k.action /\ x.event.token # NoToken THEN x.event.token ELSE token[a]
  BY ObservedEffect
<1>2. PICK n \in Nat : n = Len(log) + 1
  BY <1>1, GrowsKeeps
<1>3. log'[n] = x /\ \A j \in 1..Len(log) : log'[j] = log[j] /\ j <= n
  BY <1>1, <1>2, GrowsKeeps
<1>4. ASSUME NEW a \in Action
      PROVE  \/ PolledBy(a)' = {} /\ token'[a] = NoToken
             \/ \E i \in PolledBy(a)' : IsLast(i, PolledBy(a)') /\ token'[a] = log'[i].event.token
  <2>1. PolledBy(a)' = PolledBy(a) \cup
               (IF k.action = a /\ x.event.token # NoToken THEN {n} ELSE {})
    BY <1>1, <1>2, PolledGrows
  <2>2. PolledBy(a) \subseteq 1..Len(log)
    BY DEF PolledBy
  <2>3. CASE k.action = a /\ x.event.token # NoToken
    <3>1. IsLast(n, PolledBy(a)')
      BY <1>2, <1>3, <2>1, <2>2, <2>3 DEF IsLast
    <3> QED
      BY <1>1, <1>3, <2>1, <2>3, <3>1
  <2>4. CASE ~(k.action = a /\ x.event.token # NoToken)
    <3>1. PolledBy(a)' = PolledBy(a) /\ token'[a] = token[a]
      BY <1>1, <2>1, <2>4
    <3>2. \/ PolledBy(a) = {} /\ token[a] = NoToken
          \/ \E i \in PolledBy(a) : IsLast(i, PolledBy(a)) /\ token[a] = log[i].event.token
      BY DEF HistoryInv, TokenTold
    <3> QED
      BY <1>3, <2>2, <3>1, <3>2
  <2> QED
    BY <2>3, <2>4
<1> QED
  BY <1>4 DEF TokenTold, IsLast

\* What a key has for its last occurrence.
LEMMA LastOccurrence ==
    ASSUME HistoryInv, NEW k \in Key, chain[k].count # 0
    PROVE  \E i \in 1..Len(log) :
             /\ IsLast(i, OccurrencesOf(k))
             /\ Rung(chain[k].count, Cardinality(Recurrences(i)))
BY DEF HistoryInv, ChainTold, OccurrencesOf

\* How often the new event recurred, and what the chain had counted before it.
LEMMA RecurrencesNew ==
    ASSUME HistoryInv, NEW x, Observed(x), NEW n \in Nat, n = Len(log) + 1,
           NEW k, k = x.event.key, NEW v, v = VectorOf(k.action, x.now)
    PROVE  /\ Starts(x.event, v) => Cardinality(Recurrences(n)') = 1
           /\ ~Starts(x.event, v) =>
                \E c \in Nat : /\ Cardinality(Recurrences(n)') = c + 1
                               /\ Rung(chain[k].count, c)
<1>1. Grows(x) /\ k \in Key
  BY ObservedEffect
<1>2. Fresh(n)' <=> Starts(x.event, v)
  BY <1>1, FreshNew DEF HistoryInv
<1>3. CASE Starts(x.event, v)
  <2>1. Recurrences(n)' = {n}
    BY <1>1, <1>2, <1>3, RecurrencesFresh
  <2> QED
    BY <1>3, <2>1, FS_Singleton
<1>4. CASE ~Starts(x.event, v)
  <2>1. chain[k].count # 0
    BY <1>4 DEF Starts
  <2>2. PICK i \in 1..Len(log) : /\ IsLast(i, OccurrencesOf(k))
                                 /\ Rung(chain[k].count, Cardinality(Recurrences(i)))
    BY <1>1, <2>1, LastOccurrence
  <2>3. Recurrences(n)' = Recurrences(i) \cup {n} /\ n \notin Recurrences(i)
    BY <1>1, <1>2, <1>4, <2>2, RecurrencesNext
  <2>4. IsFiniteSet(Recurrences(i)) /\ Cardinality(Recurrences(i)) \in Nat
    BY RecurrencesFinite DEF HistoryInv
  <2>5. Cardinality(Recurrences(i) \cup {n}) = Cardinality(Recurrences(i)) + 1
    BY <2>3, <2>4, FS_AddElement
  <2> QED
    BY <1>4, <2>2, <2>3, <2>4, <2>5
<1> QED
  BY <1>3, <1>4

\* The key that is armed when its event comes again has the count of a break.
LEMMA RepeatCounts ==
    ASSUME HistoryInv, NEW e \in Event, NEW v
    PROVE  /\ e.key \in Key /\ chain[e.key].count \in 0..5
           /\ Repeats(e, v) => chain[e.key].count = 4
<1>1. e.key \in Key
  BY DEF Event
<1>2. chain[e.key] \in Chain
  BY <1>1 DEF HistoryInv, LoopInv, TypeOK
<1> QED
  BY <1>1, <1>2 DEF Repeats, HistoryInv, LoopInv, ArmedByLast, Chain

LEMMA ChainToldStep ==
    ASSUME HistoryInv, NEW x, Observed(x)
    PROVE  ChainTold'
<1>1. PICK k : k = x.event.key
  OBVIOUS
<1>2. PICK v : v = VectorOf(k.action, x.now)
  OBVIOUS
<1>3. /\ Grows(x) /\ k \in Key /\ v \in Vector /\ x.event \in Event
      /\ chain'[k] = Climbed(x.event, v)
      /\ \A m \in Key \ {k} : /\ chain'[m].vector = chain[m].vector
                              /\ chain'[m].count = chain[m].count
  BY <1>1, <1>2, ObservedEffect
<1>4. PICK n \in Nat : n = Len(log) + 1
  BY <1>3, GrowsKeeps
<1>5. VectorAt(n)' = v /\ \A j \in 1..Len(log) : j <= n
  BY <1>1, <1>2, <1>3, <1>4, NewOccurrence
<1>6. ASSUME NEW m \in Key
      PROVE  \/ OccurrencesOf(m)' = {} /\ chain'[m].count = 0
             \/ \E i \in OccurrencesOf(m)' :
                  /\ IsLast(i, OccurrencesOf(m)')
                  /\ chain'[m].vector = VectorAt(i)'
                  /\ Rung(chain'[m].count, Cardinality(Recurrences(i)'))
  <2>1. OccurrencesOf(m)' = OccurrencesOf(m) \cup (IF k = m THEN {n} ELSE {})
    BY <1>1, <1>3, <1>4, OccurrencesGrow
  <2>2. OccurrencesOf(m) \subseteq 1..Len(log)
    BY DEF OccurrencesOf
  <2>3. CASE k # m
    <3>1. /\ OccurrencesOf(m)' = OccurrencesOf(m)
          /\ chain'[m].vector = chain[m].vector /\ chain'[m].count = chain[m].count
      BY <1>3, <2>1, <2>3
    <3>2. \A i \in OccurrencesOf(m) : /\ VectorAt(i)' = VectorAt(i)
                                      /\ Recurrences(i)' = Recurrences(i)
      BY <1>3, <2>2, OccurrenceKept, RecurrencesKept
    <3>3. \/ OccurrencesOf(m) = {} /\ chain[m].count = 0
          \/ \E i \in OccurrencesOf(m) :
                  /\ IsLast(i, OccurrencesOf(m))
                  /\ chain[m].vector = VectorAt(i)
                  /\ Rung(chain[m].count, Cardinality(Recurrences(i)))
      BY DEF HistoryInv, ChainTold
    <3> QED
      BY <3>1, <3>2, <3>3
  <2>4. CASE k = m
    <3>1. IsLast(n, OccurrencesOf(m)')
      BY <1>4, <1>5, <2>1, <2>2, <2>4 DEF IsLast
    <3>2. Climbed(x.event, v).vector = v
      BY DEF Climbed
    <3>3. Rung(Climbed(x.event, v).count, Cardinality(Recurrences(n)'))
      <4>1. CASE Starts(x.event, v)
        <5>1. Cardinality(Recurrences(n)') = 1
          BY <1>1, <1>2, <1>4, <4>1, RecurrencesNew
        <5> QED
          BY <4>1, <5>1 DEF Climbed, Rung
      <4>2. CASE ~Starts(x.event, v)
        <5>1. PICK c \in Nat : Cardinality(Recurrences(n)') = c + 1 /\ Rung(chain[k].count, c)
          BY <1>1, <1>2, <1>4, <4>2, RecurrencesNew
        <5>2. chain[k].count \in 0..5 /\ (Repeats(x.event, v) => chain[k].count = 4)
          BY <1>1, <1>3, RepeatCounts
        <5>3. Climbed(x.event, v).count =
                IF Repeats(x.event, v) THEN chain[k].count + 1 ELSE Climb(chain[k].count)
          BY <1>1, <4>2 DEF Climbed
        <5> QED
          BY <5>1, <5>2, <5>3 DEF Climb, Rung
      <4> QED
        BY <4>1, <4>2
    <3>4. n \in OccurrencesOf(m)'
      BY <2>1, <2>4
    <3> QED
      BY <1>3, <1>5, <2>4, <3>1, <3>2, <3>3, <3>4
  <2> QED
    BY <2>3, <2>4
<1> QED
  BY <1>6 DEF ChainTold, IsLast, Rung

\* A repeat comes at once when the event before it was a break of its key.
LEMMA AtOnce ==
    ASSUME HistoryInv, NEW x, Observed(x), NEW n \in Nat, n = Len(log) + 1
    PROVE  armedKey = x.event.key <=>
             /\ n > 1 /\ Occurrence(n - 1)' = Occurrence(n)'
             /\ log'[n - 1].decision = "force_break"
<1>1. /\ Grows(x) /\ x.event.key \in Key
      /\ armedKey = IF last.decision = "force_break" THEN last.key ELSE NoKey
  BY ObservedEffect DEF HistoryInv, LoopInv, ArmedByLast
<1>2. Occurrence(n)' = x.event.key /\ n - 1 = Len(log) /\ Len(log) \in Nat
  BY <1>1, NewOccurrence
<1>3. CASE log = <<>>
  <2>1. Len(log) = 0 /\ last.decision = "continue"
    BY <1>3 DEF HistoryInv, LastTold
  <2> QED
    BY <1>1, <1>2, <2>1, NoKeyAssumption
<1>4. CASE log # <<>>
  <2>1. Len(log) \in 1..Len(log) /\ n > 1
    BY <1>1, <1>2, <1>4 DEF Grows
  <2>2. last = [key |-> Occurrence(Len(log)), decision |-> log[Len(log)].decision]
    BY <1>4 DEF HistoryInv, LastTold
  <2>3. PICK m : m = Len(log)
    OBVIOUS
  <2>4. Occurrence(m)' = Occurrence(m) /\ log'[m] = log[m]
    BY <1>1, <2>1, <2>3, OccurrenceKept, GrowsKeeps
  <2>5. n - 1 = m
    BY <1>2, <2>3
  <2> QED
    BY <1>1, <1>2, <2>1, <2>2, <2>3, <2>4, <2>5, NoKeyAssumption
<1> QED
  BY <1>3, <1>4

LEMMA LadderStep ==
    ASSUME HistoryInv, NEW x, Observed(x)
    PROVE  LadderKept'
<1>1. PICK k : k = x.event.key
  OBVIOUS
<1>2. PICK v : v = VectorOf(k.action, x.now)
  OBVIOUS
<1>3. Grows(x) /\ k \in Key /\ x.event \in Event /\ x.decision = Decision(x.event, v)
  BY <1>1, <1>2, ObservedEffect
<1>4. PICK n \in Nat : n = Len(log) + 1
  BY <1>3, GrowsKeeps
<1>5. log'[n] = x /\ Len(log') = n
  BY <1>3, <1>4, NewOccurrence
<1> DEFINE m == Cardinality(Recurrences(n)')
<1>6. armedKey = k <=> /\ n > 1 /\ Occurrence(n - 1)' = Occurrence(n)'
                       /\ log'[n - 1].decision = "force_break"
  BY <1>1, <1>4, AtOnce
<1>7. Due(n)' = IF m = 1 THEN "continue"
                ELSE IF m < 4 THEN "guide"
                ELSE IF armedKey = k THEN "close_phase" ELSE "force_break"
  BY <1>6 DEF Due
<1>8. /\ Starts(x.event, v) => m = 1
      /\ ~Starts(x.event, v) => \E c \in Nat : m = c + 1 /\ Rung(chain[k].count, c)
  BY <1>1, <1>2, <1>4, RecurrencesNew
<1>9. chain[k].count \in 0..5 /\ (Repeats(x.event, v) => chain[k].count = 4)
  BY <1>1, <1>3, RepeatCounts
<1>10. Repeats(x.event, v) <=> armedKey = k /\ ~Starts(x.event, v)
  BY <1>1 DEF Repeats
<1> HIDE DEF m
<1>11. CASE Starts(x.event, v)
  BY <1>3, <1>5, <1>7, <1>8, <1>11 DEF LadderKept, Decision
<1>12. CASE ~Starts(x.event, v)
  <2>1. PICK c \in Nat : m = c + 1 /\ Rung(chain[k].count, c)
    BY <1>8, <1>12
  <2>2. Decision(x.event, v) = IF armedKey = k THEN "close_phase"
                               ELSE IF Climb(chain[k].count) = 4 THEN "force_break" ELSE "guide"
    BY <1>1, <1>10, <1>12 DEF Decision
  <2>3. Decision(x.event, v) = Due(n)'
    BY <1>7, <1>9, <1>10, <1>12, <2>1, <2>2 DEF Climb, Rung
  <2> QED
    BY <1>3, <1>5, <2>3 DEF LadderKept
<1> QED
  BY <1>11, <1>12

-----------------------------------------------------------------------------
(* The blockers.                                                             *)

\* The break of event i still stands.
Stands(i) ==
    /\ log[i].decision = "force_break"
    /\ \A k \in (i + 1)..Len(log) : ~Lifts(k, Broken(i))

\* The new event lifts the blockers the memory drops.
LEMMA LiftsNew ==
    ASSUME HistoryInv, NEW x, Observed(x), NEW n \in Nat, n = Len(log) + 1, NEW b
    PROVE  b \in Lifted(x.event, x.now, x.known) <=> b \in active /\ Lifts(n, b)'
<1>1. Grows(x) /\ Occurrence(n)' = x.event.key /\ log'[n] = x
  BY ObservedEffect, NewOccurrence
<1>2. Brought(n)' <=> PollMoved(x.event)
  BY <1>1, BroughtNew DEF HistoryInv
<1>3. Lifts(n, b)' <=> \/ Progressed(b, log'[n].now, log'[n].known)
                       \/ Brought(n)' /\ Occurrence(n)'.action = b.key.action
  BY DEF Lifts, Progressed
<1> QED
  BY <1>1, <1>2, <1>3 DEF Lifted

LEMMA StandsKept ==
    ASSUME HistoryInv, NEW x, Observed(x), NEW n \in Nat, n = Len(log) + 1,
           NEW i \in 1..Len(log), NEW b, b = Broken(i)
    PROVE  Stands(i)' <=> Stands(i) /\ ~Lifts(n, b)'
<1>1. Grows(x) /\ Len(log') = n /\ Len(log) \in Nat
  BY ObservedEffect, NewOccurrence
<1>2. log'[i] = log[i] /\ Broken(i)' = b
  BY <1>1, GrowsKeeps, BrokenKept
<1>3. \A k \in 1..n : Lifts(k, Broken(i))' <=> Lifts(k, b)'
  BY <1>2 DEF Lifts, Progressed
<1>4. \A k \in 1..Len(log) : Lifts(k, b)' <=> Lifts(k, b)
  BY <1>1, LiftsKept
<1>5. \A k \in (i + 1)..n : k \in 1..n /\ (k = n \/ k \in (i + 1)..Len(log))
  BY <1>1
<1>6. n \in (i + 1)..n /\ \A k \in (i + 1)..Len(log) : k \in (i + 1)..n /\ k \in 1..Len(log)
  BY <1>1
<1>7. Stands(i)' <=> /\ log'[i].decision = "force_break"
                     /\ \A k \in (i + 1)..n : ~Lifts(k, Broken(i))'
  BY <1>1 DEF Stands
<1>8. Stands(i) <=> /\ log[i].decision = "force_break"
                    /\ \A k \in (i + 1)..Len(log) : ~Lifts(k, b)
  BY DEF Stands
<1> QED
  BY <1>2, <1>3, <1>4, <1>5, <1>6, <1>7, <1>8

LEMMA BlockersStandStep ==
    ASSUME HistoryInv, BlockersStand, NEW x, Observed(x)
    PROVE  BlockersStand'
<1>1. PICK k : k = x.event.key
  OBVIOUS
<1>2. PICK v : v = VectorOf(k.action, x.now)
  OBVIOUS
<1>3. /\ Grows(x) /\ x.decision = Decision(x.event, v)
      /\ active' = (active \ Lifted(x.event, x.now, x.known)) \cup NewBlocker(x.event, v)
  BY <1>1, <1>2, ObservedEffect
<1>4. PICK n \in Nat : n = Len(log) + 1
  BY <1>3, GrowsKeeps
<1>5. /\ log'[n] = x /\ Len(log') = n /\ Len(log) \in Nat
      /\ Occurrence(n)' = k /\ VectorAt(n)' = v
      /\ \A j \in 1..n : j \in 1..Len(log) \/ j = n
  BY <1>1, <1>2, <1>3, <1>4, NewOccurrence
<1>6. \A b : b \in active <=> \E i \in 1..Len(log) : Stands(i) /\ b = Broken(i)
  BY DEF BlockersStand, Stands
<1>7. ASSUME NEW i \in 1..Len(log), NEW b
      PROVE  Stands(i)' /\ b = Broken(i)' <=> Stands(i) /\ b = Broken(i) /\ ~Lifts(n, b)'
  <2>1. Broken(i)' = Broken(i)
    BY <1>3, BrokenKept
  <2>2. b = Broken(i) => (Stands(i)' <=> Stands(i) /\ ~Lifts(n, b)')
    BY <1>4, StandsKept
  <2> QED
    BY <2>1, <2>2
<1>8. Broken(n)' = [key |-> k, vector |-> v]
  BY <1>5 DEF Broken
<1>9. Stands(n)' <=> x.decision = "force_break"
  <2>1. \A m : m \notin (n + 1)..n
    BY <1>4
  <2>2. Stands(n)' <=> /\ log'[n].decision = "force_break"
                       /\ \A m \in (n + 1)..n : ~Lifts(m, Broken(n))'
    BY <1>5 DEF Stands
  <2> QED
    BY <1>5, <2>1, <2>2
<1>10. NewBlocker(x.event, v) = IF x.decision = "force_break"
                                THEN {[key |-> k, vector |-> v]} ELSE {}
  BY <1>1, <1>3 DEF NewBlocker
<1>11. ASSUME NEW b
       PROVE  b \in active' <=> \E i \in 1..n : Stands(i)' /\ b = Broken(i)'
  <2>1. b \in Lifted(x.event, x.now, x.known) <=> b \in active /\ Lifts(n, b)'
    BY <1>4, LiftsNew
  <2>2. b \in active' <=> \/ b \in active /\ ~Lifts(n, b)'
                          \/ x.decision = "force_break" /\ b = [key |-> k, vector |-> v]
    BY <1>3, <1>10, <2>1
  <2>3. b \in active /\ ~Lifts(n, b)' <=>
          \E i \in 1..Len(log) : Stands(i)' /\ b = Broken(i)'
    BY <1>6, <1>7
  <2>4. x.decision = "force_break" /\ b = [key |-> k, vector |-> v] <=>
          Stands(n)' /\ b = Broken(n)'
    BY <1>8, <1>9
  <2>5. n \in 1..n /\ \A i \in 1..Len(log) : i \in 1..n
    BY <1>4, <1>5
  <2> QED
    BY <1>5, <2>2, <2>3, <2>4, <2>5
<1>12. BlockersStand' <=> active' = {Broken(i)' : i \in {j \in 1..n : Stands(j)'}}
  BY <1>5 DEF BlockersStand, Stands
<1> QED
  BY <1>11, <1>12

\* The blockers that are active only in the evidence state were lifted by a repair.
RepairsLifted ==
    \A b \in told \ active :
      \E j \in 1..Len(log) : Occurrence(j).action \in Repairs /\ Lifts(j, b)

LEMMA RepairsLiftedStep ==
    ASSUME HistoryInv, RepairsLifted, NEW x, Observed(x),
           \/ told' = (told \ Lifted(x.event, x.now, x.known))
                        \cup NewBlocker(x.event, VectorOf(x.event.key.action, x.now))
           \/ told' = told /\ x.event.key.action \in Repairs
    PROVE  RepairsLifted'
<1>1. PICK v : v = VectorOf(x.event.key.action, x.now)
  OBVIOUS
<1>2. /\ Grows(x)
      /\ active' = (active \ Lifted(x.event, x.now, x.known)) \cup NewBlocker(x.event, v)
  BY <1>1, ObservedEffect
<1>3. PICK n \in Nat : n = Len(log) + 1
  BY <1>2, GrowsKeeps
<1>4. /\ Len(log') = n /\ n \in 1..n /\ Occurrence(n)' = x.event.key
      /\ \A j \in 1..Len(log) : j \in 1..n
  BY <1>2, <1>3, NewOccurrence
<1>5. ASSUME NEW b \in told' \ active'
      PROVE  \E j \in 1..n : Occurrence(j)'.action \in Repairs /\ Lifts(j, b)'
  <2>1. CASE b \in told \ active
    <3>1. PICK j \in 1..Len(log) : Occurrence(j).action \in Repairs /\ Lifts(j, b)
      BY <2>1 DEF RepairsLifted
    <3> QED
      BY <1>2, <1>4, <3>1, OccurrenceKept, LiftsKept
  <2>2. CASE b \notin told \ active
    <3>1. b \in Lifted(x.event, x.now, x.known) /\ x.event.key.action \in Repairs
      BY <1>1, <1>2, <1>5, <2>2
    <3>2. Lifts(n, b)'
      BY <1>3, <3>1, LiftsNew
    <3> QED
      BY <1>4, <3>1, <3>2
  <2> QED
    BY <2>1, <2>2
<1>6. RepairsLifted' <=> \A b \in told' \ active' :
                           \E j \in 1..n : Occurrence(j)'.action \in Repairs /\ Lifts(j, b)'
  BY <1>4 DEF RepairsLifted
<1> QED
  BY <1>5, <1>6

\* A step that observes nothing leaves what the history says.
LEMMA LogKept ==
    ASSUME log' = log, NEW i
    PROVE  /\ Occurrence(i)' = Occurrence(i) /\ VectorAt(i)' = VectorAt(i)
           /\ Broken(i)' = Broken(i) /\ Brought(i)' = Brought(i)
           /\ Fresh(i)' = Fresh(i) /\ Recurrences(i)' = Recurrences(i) /\ Due(i)' = Due(i)
BY DEF Occurrence, VectorAt, Broken, Brought, Candidate, Fresh, Recurrences, Due

LEMMA HistorySame ==
    ASSUME HistoryInv, LadderKept, BlockersStand, RepairsLifted, LoopInv',
           UNCHANGED <<told, memory, last, log>>
    PROVE  HistoryInv' /\ LadderKept' /\ BlockersStand' /\ RepairsLifted'
<1> USE DEF memory
<1>1. log' = log
  OBVIOUS
<1>2. LastTold'
  BY LogKept DEF HistoryInv, LastTold
<1>3. TokenTold'
  BY LogKept DEF HistoryInv, TokenTold, PolledBy, IsLast
<1>4. ChainTold'
  BY LogKept DEF HistoryInv, ChainTold, OccurrencesOf, IsLast, Rung
<1>5. LadderKept'
  BY LogKept DEF LadderKept
<1>6. BlockersStand'
  BY LogKept DEF BlockersStand, Lifts, Progressed
<1>7. RepairsLifted'
  BY LogKept DEF RepairsLifted, Lifts, Progressed
<1> QED
  BY <1>2, <1>3, <1>4, <1>5, <1>6, <1>7 DEF HistoryInv

-----------------------------------------------------------------------------
(* The theorems of the history.                                              *)

MemoryInv == HistoryInv /\ LadderKept /\ BlockersStand /\ RepairsLifted

LEMMA MemoryInit == Init => MemoryInv
<1> SUFFICES ASSUME Init PROVE MemoryInv
  OBVIOUS
<1>1. log = <<>> /\ Len(log) = 0 /\ log \in Seq(Entry)
  BY DEF Init
<1>2. LoopInv /\ last.decision = "continue" /\ active = {} /\ told = {}
  BY LoopInit DEF Init
<1>3. \A k : OccurrencesOf(k) = {} /\ PolledBy(k) = {}
  BY <1>1 DEF OccurrencesOf, PolledBy
<1>4. (\A a \in Action : token[a] = NoToken) /\ \A k \in Key : chain[k].count = 0
  BY DEF Init
<1>5. HistoryInv
  BY <1>1, <1>2, <1>3, <1>4 DEF HistoryInv, LastTold, TokenTold, ChainTold
<1>6. LadderKept
  BY <1>1 DEF LadderKept
<1>7. BlockersStand
  BY <1>1, <1>2 DEF BlockersStand
<1> QED
  BY <1>2, <1>5, <1>6, <1>7 DEF MemoryInv, RepairsLifted

LEMMA MemoryObserves ==
    ASSUME MemoryInv, LoopInv', NEW e \in Event, NEW now \in Vector, NEW known \in SUBSET Scope,
           Observe(e, now, known),
           \/ Book(e, now, known)
           \/ told' = told /\ e.key.action \in Repairs
    PROVE  MemoryInv'
<1>1. HistoryInv /\ BlockersStand /\ RepairsLifted
  BY DEF MemoryInv
<1>2. PICK x \in Entry : Observed(x) /\ x.event = e /\ x.now = now /\ x.known = known
  BY <1>1, ObservedEntry
<1>3. log' \in Seq(Entry)
  BY <1>2, GrowsKeeps DEF Observed
<1>4. HistoryInv'
  BY <1>1, <1>2, <1>3, LastToldStep, TokenToldStep, ChainToldStep DEF HistoryInv
<1>5. LadderKept' /\ BlockersStand'
  BY <1>1, <1>2, LadderStep, BlockersStandStep
<1>6. RepairsLifted'
  BY <1>1, <1>2, RepairsLiftedStep DEF Book
<1> QED
  BY <1>4, <1>5, <1>6 DEF MemoryInv

LEMMA MemoryStep ==
    ASSUME MemoryInv, [Next]_vars
    PROVE  MemoryInv'
<1>1. LoopInv /\ LoopInv'
  BY LoopStep DEF MemoryInv, HistoryInv
<1>2. \A S \in SUBSET Scope : Advanced(S) \subseteq Vector
  BY <1>1, AdvancedType DEF LoopInv, TypeOK
<1>3. ASSUME NEW a \in Action, NEW o \in {"success", "failed"}, Call(a, o)
      PROVE  MemoryInv'
  <2> DEFINE e == [key |-> [action |-> a, outcome |-> o], token |-> NoToken,
                   pending |-> FALSE]
  <2>1. e \in Event
    BY DEF Event, Key, Outcome
  <2>2. PICK now \in Advanced(Records[a]) : Observe(e, now, Scope) /\ Book(e, now, Scope)
    BY <1>3 DEF Call
  <2>3. now \in Vector
    BY <1>2, <2>2, ScopesAssumption
  <2> QED
    BY <1>1, <2>1, <2>2, <2>3, MemoryObserves
<1>4. ASSUME NEW a \in Action, NEW o \in Outcome, NEW c \in Cursor,
             Poll(a, o, c)
      PROVE  MemoryInv'
  <2> DEFINE e == [key |-> [action |-> a, outcome |-> o],
                   token |-> [cursor |-> c, pending |-> (o = "unknown")],
                   pending |-> (o = "unknown")]
  <2>1. e \in Event
    BY DEF Event, Key, Outcome, Token
  <2>2. PICK now \in Advanced(Records[a]) : Observe(e, now, Scope) /\ Book(e, now, Scope)
    BY <1>4 DEF Poll
  <2>3. now \in Vector
    BY <1>2, <2>2, ScopesAssumption
  <2> QED
    BY <1>1, <2>1, <2>2, <2>3, MemoryObserves
<1>5. ASSUME NEW a \in Action, Repair(a) PROVE MemoryInv'
  <2> DEFINE e == [key |-> [action |-> a, outcome |-> "unknown"], token |-> NoToken,
                   pending |-> FALSE]
  <2>1. e \in Event /\ told' = told /\ e.key.action \in Repairs
    BY <1>5 DEF Event, Key, Outcome, Repair
  <2>2. PICK now \in Advanced(Scope) : Observe(e, now, Scopes[a])
    BY <1>5 DEF Repair
  <2>3. now \in Vector /\ Scopes[a] \in SUBSET Scope
    BY <1>2, <2>2, ScopesAssumption
  <2> QED
    BY <1>1, <2>1, <2>2, <2>3, MemoryObserves
<1>6. CASE UNCHANGED <<told, memory, last, log>>
  BY <1>1, <1>6, HistorySame DEF MemoryInv
<1>7. CASE Gate
  BY <1>6, <1>7 DEF Gate
<1>8. CASE UNCHANGED vars
  BY <1>6, <1>8 DEF vars, memory
<1> QED
  BY <1>3, <1>4, <1>5, <1>7, <1>8 DEF Next

\* The few cells the memory keeps decide as the whole history does: every decision of
\* observe is the one due by the unchanged recurrences of its key, whatever came in between.
THEOREM LadderIsKept == Spec => []LadderKept
<1>1. MemoryInv => LadderKept
  BY DEF MemoryInv
<1> QED
  BY <1>1, MemoryInit, MemoryStep, PTL DEF Spec

\* No blocker is lost and none outlives its reason: the memory holds exactly those of the
\* breaks that no later event showed to have moved.
THEOREM BlockersStandTold == Spec => []BlockersStand
<1>1. MemoryInv => BlockersStand
  BY DEF MemoryInv
<1> QED
  BY <1>1, MemoryInit, MemoryStep, PTL DEF Spec

\* The two books differ only by what a repair request lifted: the memory drops such a
\* blocker and the evidence state keeps it.
THEOREM BlockersAreBooked == Spec => []BlockersBooked
<1>1. MemoryInv => BlockersBooked
  BY DEF MemoryInv, HistoryInv, LoopInv, ToolBlockersTold, RepairsLifted, BlockersBooked
<1> QED
  BY <1>1, MemoryInit, MemoryStep, PTL DEF Spec
=============================================================================
