--------------------------- MODULE OrchestratorMC ---------------------------
(* One slot and the views that decide between a retry and a release.        *)
EXTENDS Orchestrator

AllStates == {"todo", "done"}
ActiveStates == {"todo"}
TerminalStates == {"done"}
TwoViews == {[state |-> "todo", routable |-> TRUE, ready |-> TRUE],
             [state |-> "done", routable |-> TRUE, ready |-> TRUE]}
NoLimits == [s \in AllStates |-> 0]
NoHosts == <<>>
=============================================================================
