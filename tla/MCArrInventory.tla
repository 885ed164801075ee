--------------------------- MODULE MCArrInventory ---------------------------
(* An instance of ArrInventory for TLC, whose items are interchangeable. *)
EXTENDS ArrInventory

LOCAL INSTANCE TLC

CONSTANTS m1, m2

TwoItems == {m1, m2}
Symmetry == Permutations(TwoItems)
=============================================================================
