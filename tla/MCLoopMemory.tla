----------------------------- MODULE MCLoopMemory -----------------------------
(* A compilation, a job that is polled, and a request to go back to the build. *)
EXTENDS LoopMemory, TLC

CONSTANTS compile, poll, repair, artifacts, tests, start, moved

MCScopes == compile :> {artifacts} @@ poll :> {artifacts, tests} @@ repair :> {artifacts}
MCRecords == compile :> {artifacts} @@ poll :> {} @@ repair :> {}

(* The code only compares cursors for equality, so their names do not matter. *)
Symmetry == Permutations(Cursor)

(* A sixth event is asked for where it can break something or something was   *)
(* broken: elsewhere it guides or goes on, as the fifth does in every order.   *)
WorthASixth ==
    \/ Len(log) < MaxEvents - 1
    \/ \E k \in Key : chain[k].count >= 3
    \/ \E i \in DOMAIN log : log[i].decision = "force_break"
=============================================================================
