--------------------------- MODULE MCTaskService ---------------------------
(* TaskService for TLC.                                                    *)
EXTENDS TaskService, TLC

CONSTANTS a1, a2

OneEach == [a \in Agent |-> 1]
Spec2(m) == <<[agent |-> a1, mode |-> m], [agent |-> a2, mode |-> m]>>

NoFanOuts  == {}
FanBoth    == {Spec2("build"), <<[agent |-> a1, mode |-> "plan"],
                                 [agent |-> a1, mode |-> "build"]>>}

Sessions == Permutations(Session)
=============================================================================
