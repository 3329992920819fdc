-------------------------- MODULE MCExpenseErrors --------------------------
(* Small instances of ExpenseErrors for TLC. *)
EXTENDS ExpenseErrors, MCExpenseLifecycle
=============================================================================
