---------------------------- MODULE MCLaunchQueue ----------------------------
(* Two batches that both ask for workspace w1; the first asks for w2 too. *)
EXTENDS LaunchQueue, TLC

CONSTANTS b1, b2, w1, w2, i1, i2, i3

MCBatchOf == [i \in Item |-> IF i = i3 THEN b2 ELSE b1]
MCRowOf == [i \in Item |-> IF i = i2 THEN 1 ELSE 0]
\* Of the request of the second batch two earlier rows were rejected.
MCLateRowOf == [i \in Item |-> IF i = i3 THEN 2 ELSE MCRowOf[i]]
MCWorkspaceOf == [i \in Item |-> IF i = i2 THEN w2 ELSE w1]

\* The first batch runs its items one at a time, or both at once.
MCNarrow == [b \in Batch |-> 1]
MCWide == [b \in Batch |-> IF b = b1 THEN 2 ELSE 1]
=============================================================================
