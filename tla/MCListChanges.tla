--------------------------- MODULE MCListChanges ----------------------------
(* Model checking of ListChanges: up to MaxReceipts receipts in the list. *)
EXTENDS ListChanges
=============================================================================
