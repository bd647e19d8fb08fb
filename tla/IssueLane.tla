------------------------------ MODULE IssueLane ------------------------------
(***************************************************************************)
(* What the coalescing queue promises for the root tasks of an issue (the  *)
(* comments at agent.sql:87-91 and 164-168, migrations 022 and 042): one   *)
(* lane per issue.  At most one root task works on the issue, at most one  *)
(* more waits behind it, and while the worker has not started yet nobody   *)
(* may wait.  A task enters the lane once, and leaves it for good.         *)
(***************************************************************************)
EXTENDS Integers

CONSTANTS MaxTask, Issue

VARIABLES
    waiting,    \* the root task queued for the issue, 0 for none
    working,    \* the root task dispatched or running for it, 0 for none
    started,    \* whether the worker reported that it runs
    entered     \* every root task that ever entered a lane

laneVars == <<waiting, working, started, entered>>

Ticket == 1 .. MaxTask

LaneTypeOK ==
    /\ waiting \in [Issue -> Ticket \cup {0}]
    /\ working \in [Issue -> Ticket \cup {0}]
    /\ started \in [Issue -> BOOLEAN]
    /\ entered \subseteq Ticket

LaneInit ==
    /\ waiting = [i \in Issue |-> 0]
    /\ working = [i \in Issue |-> 0]
    /\ started = [i \in Issue |-> FALSE]
    /\ entered = {}

Enter(i, t) ==
    /\ waiting[i] = 0
    /\ working[i] = 0 \/ started[i]
    /\ t \notin entered
    /\ waiting' = [waiting EXCEPT ![i] = t]
    /\ entered' = entered \cup {t}
    /\ UNCHANGED <<working, started>>

Dispatch(i) ==
    /\ waiting[i] # 0 /\ working[i] = 0
    /\ working' = [working EXCEPT ![i] = waiting[i]]
    /\ waiting' = [waiting EXCEPT ![i] = 0]
    /\ UNCHANGED <<started, entered>>

Begin(i) ==
    /\ working[i] # 0 /\ ~started[i]
    /\ started' = [started EXCEPT ![i] = TRUE]
    /\ UNCHANGED <<waiting, working, entered>>

\* A report, a cancel or a sweep takes the waiting tasks of the issues in W and the
\* working tasks of the issues in K out of their lanes.
Leave(W, K) ==
    /\ waiting' = [i \in Issue |-> IF i \in W THEN 0 ELSE waiting[i]]
    /\ working' = [i \in Issue |-> IF i \in K THEN 0 ELSE working[i]]
    /\ started' = [i \in Issue |-> started[i] /\ i \notin K]
    /\ UNCHANGED entered

LaneNext ==
    \/ \E i \in Issue : Dispatch(i) \/ Begin(i) \/ \E t \in Ticket : Enter(i, t)
    \/ \E W, K \in SUBSET Issue : Leave(W, K)

LaneSpec == LaneInit /\ [][LaneNext]_laneVars
=============================================================================
