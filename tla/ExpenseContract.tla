-------------------------- MODULE ExpenseContract --------------------------
(***************************************************************************)
(* What the bot promises about one receipt, without saying how.  A draft   *)
(* is opened once, is posted to Splitwise only while it is open and only   *)
(* on the word of its payer, and is closed once: after that its Splitwise  *)
(* ledger never changes again.  Our own book (expenses_completed) only     *)
(* ever names expenses that really are in the ledger.                      *)
(*                                                                         *)
(* The contract deliberately says nothing of HOW MANY expenses an open     *)
(* draft may leave in the ledger: the code keeps that number at one only   *)
(* as long as none of what ExpenseHistory names as a cause happens.        *)
(***************************************************************************)

CONSTANTS Drafts,     \* receipts the bot has drafted an expense for
          Expenses,   \* expenses that may ever appear on Splitwise
          DraftOf,    \* [Expenses -> Drafts]
          ByPayer     \* SUBSET Expenses: those authorised by the payer of their draft

VARIABLES phase,      \* [Drafts -> {"none", "open", "closed"}]
          ledger,     \* the expenses that exist on Splitwise
          recorded    \* the expenses our own book names

vars == <<phase, ledger, recorded>>

Init == /\ phase = [d \in Drafts |-> "none"]
        /\ ledger = {}
        /\ recorded = {}

Open(d) ==
    /\ phase[d] = "none"
    /\ phase' = [phase EXCEPT ![d] = "open"]
    /\ UNCHANGED <<ledger, recorded>>

\* An expense appears; the draft may close in the same step.
Post(e) ==
    /\ e \in ByPayer
    /\ phase[DraftOf[e]] = "open"
    /\ ledger' = ledger \cup {e}
    /\ \E p \in {"open", "closed"} : phase' = [phase EXCEPT ![DraftOf[e]] = p]
    /\ UNCHANGED recorded

Record(e) ==
    /\ e \in ledger
    /\ recorded' = recorded \cup {e}
    /\ UNCHANGED <<phase, ledger>>

\* One sweep, or one crash, may close several drafts at once.
Close(S) ==
    /\ \A d \in S : phase[d] = "open"
    /\ phase' = [d \in Drafts |-> IF d \in S THEN "closed" ELSE phase[d]]
    /\ UNCHANGED <<ledger, recorded>>

Next == \/ \E d \in Drafts : Open(d)
        \/ \E e \in Expenses : Post(e) \/ Record(e)
        \/ \E S \in SUBSET Drafts : Close(S)

Spec == Init /\ [][Next]_vars
=============================================================================
