---------------------------- MODULE MCTaskQueue ----------------------------
(* TaskQueue for TLC: agents, issues and sessions are interchangeable.     *)
EXTENDS TaskQueue, TLC

Symmetry == Permutations(Agent) \cup Permutations(Issue)
                \cup Permutations(Runtime) \cup Permutations(Session)
=============================================================================
