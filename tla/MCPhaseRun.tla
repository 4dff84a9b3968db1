------------------------------ MODULE MCPhaseRun ------------------------------
(* A run of few turns: the configured floors, all of them, are scaled down to  *)
(* two turns; a configuration of its own may ask for one.                      *)
EXTENDS PhaseRun

CONSTANT j1

MCFloor == [p \in Phases |-> 2]
MCSmallFloor == [p \in Phases |-> 1]
=============================================================================
