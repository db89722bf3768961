----------------------------- MODULE RuntimeMC ------------------------------
(* One item, since only runs of one item meet, and one slot.                *)
EXTENDS Runtime, TLC

CONSTANTS i1, r1, r2, r3

OneItem == {i1}
TwoRuns == {r1, r2}
ThreeRuns == {r1, r2, r3}
AllStates == {"todo", "done"}
ActiveStates == {"todo"}
TerminalStates == {"done"}
TwoViews == {[state |-> "todo", routable |-> TRUE, ready |-> TRUE],
             [state |-> "done", routable |-> TRUE, ready |-> TRUE]}
NoLimits == [s \in AllStates |-> 0]
NoHosts == <<>>

Symmetry == Permutations(Run)
=============================================================================
