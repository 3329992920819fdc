---------------------------- MODULE ExpenseErrors ----------------------------
(***************************************************************************)
(* ExpenseLifecycle with a memory of the errors the code logs and goes on  *)
(* from: what they cut off is what users and the trace may miss, and       *)
(* nothing else.  No action reads these variables.                         *)
(***************************************************************************)
EXTENDS ExpenseProperties

VARIABLES
    raised,     \* deliveries whose handler was ended by an error
    forgotten   \* drafts whose rows a failing tick of the sweep deleted unnamed

errors == <<raised, forgotten>>

Note ==
    /\ raised' = raised \cup {t \in Tasks : HandlerRaises(t)}
    /\ forgotten' = forgotten \cup {d \in pending \ pending' : SweepFails}

InitErrors == Init /\ raised = {} /\ forgotten = {}
NextErrors == Next /\ Note

FairErrorSpec == InitErrors /\ [][NextErrors]_<<vars, errors>> /\ Fairness

\* Every row still there after the last crash gets its conversation ended in
\* Langfuse, by its handler or by the sweep: only the rows whose ids were in the
\* memory of the process when it died, or in the answer of a DELETE that was lost,
\* stay without an end mark.
ConversationsEnd ==
    \A d \in Drafts : d \in pending /\ crashes = MaxCrashes
                         ~> outcome[d] # {} \/ d \in forgotten

\* When Telegram works, every tap ends with words to the chat about this very tap,
\* also when Splitwise refuses the request or the handler was killed and run again:
\* unless its handler hangs, or was ended by an error of the database.
EveryTapIsTold ==
    \A x \in Taps : x \in tapped ~> \/ said[x] # {} \/ Stuck(x)
                                    \/ \E t \in raised : t.tap = x
=============================================================================
