------------------------ MODULE MCExpenseLifecycle ------------------------
(* Small instances of ExpenseLifecycle for TLC. *)
EXTENDS ExpenseProperties

CONSTANTS d1,               \* the draft
          hana, raj, zoe,   \* the payer, the sender, a guest of the group
          m1, m2            \* the copies of its confirmation message

Press(i, kind, d, u, m) == [id |-> i, kind |-> kind, draft |-> d, tapper |-> u, copy |-> m]

OneDraft  == {d1}
People    == {hana, raj, zoe}
OneCopy   == {m1}
TwoCopies == {m1, m2}

MCPayer  == [d \in Drafts |-> hana]
MCSender == [d \in Drafts |-> raj]
AllFit   == [d \in Drafts |-> {"ok"}]
AnyFit   == [d \in Drafts |-> {"ok", "corrupt", "unmatched"}]

\* The payer confirms, the sender cancels.
Duel == {Press(1, "confirm", d1, hana, m1), Press(2, "cancel", d1, raj, m1)}
\* A guest taps Cancel too.
Trio == Duel \cup {Press(3, "cancel", d1, zoe, m1)}
\* The payer confirms on one copy of the message, the sender cancels on the other.
Across == {Press(1, "confirm", d1, hana, m1), Press(2, "cancel", d1, raj, m2)}

NoFaults  == {}
OnlyAbort == {"abort"}
\* Splitwise is slow or unreachable, but a ConnectionError means nothing was sent;
\* the database fails too.
Slow      == {"connect", "timeout", "reject", "supabase"}
\* Telegram repeats itself while handlers wait for Splitwise.
Repeats   == {"repeat", "timeout"}
=============================================================================
