----------------------------- MODULE SchedulerMC -----------------------------
(***************************************************************************)
(* Instances of Scheduler.  The views are the ones the scheduler treats    *)
(* differently: dispatchable in either active state, active but blocked,   *)
(* routed elsewhere, terminal, and inactive.                               *)
(***************************************************************************)
EXTENDS Scheduler, TLC

CONSTANTS i1, i2, i3, h1, h2

Seen(s, routable, ready) == [state |-> s, routable |-> routable, ready |-> ready]

AllStates == {"todo", "doing", "done", "backlog"}
ActiveStates == {"todo", "doing"}
TerminalStates == {"done"}

AllViews == {Seen("todo", TRUE, TRUE), Seen("doing", TRUE, TRUE),
             Seen("todo", TRUE, FALSE), Seen("doing", FALSE, TRUE),
             Seen("done", TRUE, TRUE), Seen("backlog", TRUE, TRUE)}

(* With one active state, where no limit per state can apply.              *)
MainViews == {v \in AllViews : v.state # "doing"} \cup {Seen("todo", FALSE, TRUE)}

NoLimits == [s \in AllStates |-> 0]
OneDoing == [s \in AllStates |-> IF s = "doing" THEN 1 ELSE 0]

TwoItems == {i1, i2}
ThreeItems == {i1, i2, i3}
TwoHosts == <<h1, h2>>

Symmetry == Permutations(Item)
=============================================================================
