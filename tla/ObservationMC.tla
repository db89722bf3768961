--------------------------- MODULE ObservationMC ---------------------------
(* Two requests that may overlap; which of them is which makes no difference. *)
EXTENDS Observation, FiniteSets, TLC
CONSTANTS c1, c2
TwoClients == {c1, c2}
AnyOrder == Permutations(TwoClients)
=============================================================================
