------------------------- MODULE MCExpenseHistory -------------------------
(* Small instances of ExpenseHistory for TLC. *)
EXTENDS ExpenseHistory, MCExpenseLifecycle
=============================================================================
