--------------------------- MODULE MCAdminConsole ---------------------------
(* A small instance of AdminConsole. *)
EXTENDS AdminConsole, TLC

SlotSymmetry == Permutations(Slots)
=============================================================================
