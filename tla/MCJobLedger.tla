----------------------------- MODULE MCJobLedger -----------------------------
(* Two commands: the scope of the first holds that of the second, as the     *)
(* root of a build holds its modules.                                        *)
EXTENDS JobLedger

CONSTANTS c1, c2, p1, p2

MCScope == [c \in Command |-> IF c = c1 THEN Path ELSE {p1}]
MCVouchable == [c \in Command |-> {p1}]
MCWrites == [p \in Path |-> IF p = p1 THEN 2 ELSE 1]
=============================================================================
