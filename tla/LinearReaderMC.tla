--------------------------- MODULE LinearReaderMC ---------------------------
(* Refreshes in an order that is not Linear's, one with an id twice; a     *)
(* reader of the whole project and one narrowed to an item.                *)
EXTENDS LinearReader

TwoLists == {<<3, 1, 3, 2>>, <<2, 1>>}
AllOrOne == {All, 2}
=============================================================================
