----------------------------- MODULE MCWebSync -----------------------------
(* WebSync for TLC: two workspaces, one issue in each.                      *)
EXTENDS WebSync

CONSTANTS i1, i2

OneInEach == [i \in Issue |-> IF i = i1 THEN 1 ELSE 2]
=============================================================================
