---------------------------- MODULE WorkspaceMC -----------------------------
(***************************************************************************)
(* Instances of Workspace for TLC: items with names of their own, without  *)
(* worker hosts or with two of them, one of which has a stale path.        *)
(***************************************************************************)
EXTENDS Workspace, TLC

CONSTANTS i1, i2, h1, h2

OwnName == [i \in Item |-> i]
Machines == {Local, h1, h2}
LocalOnly == {{Local}}
LocalOrRemote == {{Local}, {h1, h2}}
NothingStale == {}
TwoStale == {<<Local, i2>>, <<h1, i1>>}
Symmetry == Permutations(Run)
=============================================================================
