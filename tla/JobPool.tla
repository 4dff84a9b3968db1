------------------------------- MODULE JobPool -------------------------------
(***************************************************************************)
(* What the ledger of detached jobs promises about test reports.  A        *)
(* command is started once; it either ends in the call that started it or  *)
(* owes its result; whoever accounts for it counts report versions nobody  *)
(* has accounted for, and may vouch for any; a closed command accounts for *)
(* nothing more.  The promise is one process's: another process in the     *)
(* same container makes none.                                              *)
(***************************************************************************)
CONSTANTS Command, Version

VARIABLES
    stage,    \* of each command: new, started, owed or closed
    counted,  \* what was counted as a command's own: pairs of a command and a version
    vouched,  \* what a command's tool was believed to have found as it should be
    alone     \* no second process has entered the container

vars == <<stage, counted, vouched, alone>>

Init ==
    /\ stage = [c \in Command |-> "new"]
    /\ counted = {}
    /\ vouched = {}
    /\ alone = TRUE

Start(c) ==
    /\ stage[c] = "new"
    /\ stage' = [stage EXCEPT ![c] = "started"]
    /\ UNCHANGED <<counted, vouched, alone>>

\* The command outlives the call that started it.
Owe(c) ==
    /\ stage[c] = "started"
    /\ stage' = [stage EXCEPT ![c] = "owed"]
    /\ UNCHANGED <<counted, vouched, alone>>

\* A receipt counts versions that nobody has accounted for, vouches for any, and may close
\* the books.
Account(c) ==
    /\ stage[c] \in {"started", "owed"}
    /\ stage' \in {stage, [stage EXCEPT ![c] = "closed"]}
    /\ counted \subseteq counted'
    /\ \A x \in counted' \ counted :
         /\ x[1] = c /\ x[2] \in Version
         /\ \A d \in Command : <<d, x[2]>> \notin counted \cup vouched
    /\ vouched \subseteq vouched'
    /\ \A x \in vouched' \ vouched : x[1] = c /\ x[2] \in Version
    /\ UNCHANGED alone

\* Its books are closed, with what was claimed or without.
Close(c) ==
    /\ stage[c] \in {"started", "owed"}
    /\ stage' = [stage EXCEPT ![c] = "closed"]
    /\ UNCHANGED <<counted, vouched, alone>>

\* With a second process, anything may happen from here on.
Joined == ~alone'

Next == Joined \/ \E c \in Command : Start(c) \/ Owe(c) \/ Account(c) \/ Close(c)

Spec == Init /\ [][Next]_vars

=============================================================================
