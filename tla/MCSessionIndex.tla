--------------------------- MODULE MCSessionIndex ---------------------------
(* Two tasks. *)
EXTENDS SessionIndex

CONSTANTS s1, s2
=============================================================================
