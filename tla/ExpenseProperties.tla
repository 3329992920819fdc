------------------------- MODULE ExpenseProperties -------------------------
(***************************************************************************)
(* What is checked of ExpenseLifecycle.  A property meant for some faults  *)
(* only says which; the runs and the theorems choose the constants         *)
(* accordingly.                                                            *)
(***************************************************************************)
EXTENDS ExpenseLifecycle, FiniteSets

PostsOf(d) == {r \in posted \cup inflight : D(r.task) = d}

\* Nothing is running for draft d and nothing of it is on its way to Splitwise.
Quiet(d) == /\ stage[d] # "saved"
            /\ \A t \in Tasks : D(t) = d => pc[t] \notin Running
            /\ \A r \in inflight : D(r.task) # d

\* d can still be posted: its row can be read, a confirm already read it, or a
\* request is under way.
Postable(d) ==
    \/ d \in pending
    \/ \E t \in Tasks : D(t) = d /\ pc[t] \in {"token", "create", "await"}
    \/ \E r \in inflight : D(r.task) = d

Phase(d) == IF stage[d] = "none" THEN "none"
            ELSE IF Postable(d) THEN "open" ELSE "closed"

C == INSTANCE ExpenseContract WITH
        Expenses <- Requests,
        DraftOf  <- [r \in Requests |-> D(r.task)],
        ByPayer  <- {r \in Requests : /\ r.task.tap.kind = "confirm"
                                      /\ r.task.tap.tapper = Payer[D(r.task)]},
        phase    <- [d \in Drafts |-> Phase(d)],
        ledger   <- posted,
        recorded <- completed

-----------------------------------------------------------------------------
\* Every variable keeps its shape.
TypeOK ==
    /\ stage \in [Drafts -> {"none", "saved", "shown"}]
    /\ pending \subseteq Drafts /\ overdue \subseteq Drafts /\ marking \subseteq Drafts
    /\ completed \subseteq Requests
    /\ inflight \subseteq Requests /\ posted \subseteq Requests
    /\ keyboards \in [Drafts -> SUBSET Copies]
    /\ said \in [Taps -> SUBSET Texts]
    /\ outcome \in [Drafts -> SUBSET Outcomes]
    /\ tapped \subseteq Taps /\ acked \subseteq Taps
    /\ pc \in [Tasks -> Running \cup {"unborn", "done", "dead"}]
    /\ attempt \in [Tasks -> 1..MaxAttempts]
    /\ text \in [Tasks -> Texts]
    /\ sweeping \in BOOLEAN /\ crashes \in 0..MaxCrashes

\* Whoever is told "Added to Splitwise" has an expense on Splitwise, even when
\* mark_completed failed, the row was swept meanwhile or the handler was rerun.
AddedIsReal ==
    \A x \in Taps : "added" \in said[x] => \E r \in posted : D(r.task) = x.draft

\* Nothing refers to a draft that was never captured.
Captured ==
    /\ \A x \in tapped : stage[x.draft] # "none"
    /\ \A d \in Drafts : keyboards[d] # {} \/ d \in pending => stage[d] # "none"

TaskAuthorised(t) ==
    /\ pc[t] # "unborn" => t.tap \in tapped
    /\ pc[t] \in {"token", "create", "await", "mark", "insert", "unlink"}
          => t.tap.kind = "confirm" /\ t.tap.tapper = Payer[D(t)]
    /\ pc[t] = "delete"
          => t.tap.kind = "cancel" /\ IsPendingOwner(D(t), t.tap.tapper)
    /\ pc[t] \in {"mark", "insert", "unlink"} => Req(t) \in posted
    /\ pc[t] \in {"edit", "send", "finish"} /\ text[t] = "added"
          => \E r \in posted : D(r.task) = D(t)

RequestAuthorised(r) ==
    /\ r.task.tap.kind = "confirm"
    /\ r.task.tap.tapper = Payer[D(r.task)]
    /\ r.task.tap \in tapped

\* Who may be doing what, and what must have happened before: the strengthening
\* that makes the safety properties inductive.  A task past the payer check
\* carries its payer's Confirm; a task past create_expense has its expense on
\* Splitwise, and so has whoever is being told of success.
Authorised ==
    /\ Captured
    /\ \A t \in Tasks : TaskAuthorised(t)
    /\ \A r \in inflight \cup posted : RequestAuthorised(r)
    /\ completed \subseteq posted
    /\ AddedIsReal

\* The lifecycle keeps the contract, whatever fails and whatever overlaps: a
\* draft is posted only by a confirm of its payer that read the row while it
\* existed, never after the draft is closed, and expenses_completed names only
\* expenses that are on Splitwise (get_pending's guard, the payer check, the
\* order of create_expense and mark_completed).
Contract == C!Spec

\* A row that has not expired leaves expenses_pending only because its payer's
\* expense is on Splitwise (mark_completed) or because its payer or its sender
\* cancelled it (delete_pending); a guest's tap never removes it.
RowLeavesForCause ==
    [][\A d \in pending \ pending' :
          \/ d \in overdue
          \/ \E r \in posted : D(r.task) = d /\ r.task.tap.tapper = Payer[d]
          \/ \E x \in tapped : /\ x.draft = d /\ x.kind = "cancel"
                               /\ x.tapper \in {Payer[d], Sender[d]}]_vars

\* What a handler says once its tapper was let through and the row was read.
Verdicts == {"notConnected", "corrupt", "unmatched", "rejected", "unreachable",
             "added", "cancelled"}

\* The last buttons of a stored draft disappear only with a verdict on a tap of
\* its payer or sender (a failed Confirm may be one: the draft then waits for the
\* sweep).  Neither a guest's tap nor "already handled" takes them away.
LastButtonsForCause ==
    [][\A d \in Drafts :
          keyboards[d] # {} /\ keyboards'[d] = {} /\ d \in pending'
             => \E x \in Taps : /\ x.draft = d /\ IsPendingOwner(d, x.tapper)
                               /\ said'[x] \cap Verdicts # {}]_vars

\* What makes LastButtonsForCause inductive: buttons show only what was posted to
\* the chat, and an edit carries a verdict unless the row is gone.
Spoken ==
    /\ \A d \in Drafts : keyboards[d] # {} => stage[d] = "shown"
    /\ \A t \in Tasks : pc[t] = "edit" =>
          \/ text[t] \in Verdicts /\ IsPendingOwner(D(t), t.tap.tapper)
          \/ text[t] = "handled" /\ D(t) \notin pending

\* The retry in create_expense never posts twice for one delivery of a Confirm:
\* true as long as a ConnectionError means nothing was sent.
OnePostPerTask ==
    \A r1, r2 \in posted \cup inflight : r1.task = r2.task => r1 = r2

\* Steps of a confirm that may still send a request.
Posting == {"token", "create", "await"}

\* A delivery that has not sent a request has no expense.
Unsent == {"unborn", "read", "token", "create"}

SentOnce == /\ OnePostPerTask
            /\ \A t \in Tasks : pc[t] \in Unsent
                  => \A r \in posted \cup inflight : r.task # t

\* Somebody still has to write the end of d's conversation, or it is written.
EndIsOwed(d) ==
    \/ d \in pending \/ outcome[d] # {} \/ d \in marking
    \/ \E t \in Tasks : /\ D(t) = d /\ pc[t] \in {"edit", "send", "finish"}
                        /\ text[t] \in {"added", "cancelled"}

\* Of what must happen for ConversationsEnd only a crash can lose anything: while
\* the database and Langfuse answer, whoever deletes a row (mark_completed,
\* handle_cancel, the sweep) owes the end of its conversation until it is written.
OnlyCrashesForget ==
    [][\A d \in Drafts : EndIsOwed(d) /\ crashes' = crashes => EndIsOwed(d)']_vars

\* The 200 that makes Telegram forget a tap comes after the words about it, when the
\* database, the token and Telegram do not fail: no tap ends in silence.
AckedIsTold == \A x \in acked : said[x] \ {"none"} # {}

\* What makes it inductive: a handler that answers has words, and has said some
\* before it comes to its end.
WordsReady ==
    /\ AckedIsTold
    /\ \A t \in Tasks :
          /\ pc[t] \in {"edit", "send"} => text[t] # "none"
          /\ pc[t] = "finish" => said[t.tap] \ {"none"} # {}

\* The steps a handler has ahead of it, from each one on; the retries come on top.
Ahead == [read |-> 10, token |-> 9, create |-> 8, await |-> 7, mark |-> 6, insert |-> 5,
          unlink |-> 4, delete |-> 4, edit |-> 3, send |-> 2, finish |-> 1]

StepsLeft(t) ==
    IF pc[t] = "unborn" THEN 9 + 2 * MaxAttempts
    ELSE IF pc[t] \in {"read"} \cup Posting THEN Ahead[pc[t]] + 2 * (MaxAttempts - attempt[t])
    ELSE IF pc[t] \in Running THEN Ahead[pc[t]]
    ELSE 0

\* A handler cannot go on for ever, whatever fails and whoever runs beside it: each
\* of its steps leaves it fewer, of 15 with three attempts, and no step of others
\* or crash gives it more.
HandlersRunDown ==
    [][\A t \in Tasks :
          /\ StepsLeft(t)' \in 0..StepsLeft(t)
          /\ Deliver(t) \/ HandlerStep(t) => StepsLeft(t)' < StepsLeft(t)]_vars

-----------------------------------------------------------------------------
\* Every pending row is eventually gone, whatever failed and whoever crashed:
\* the sweep loop outlives every error, so rows do not pile up.
RowsDoNotLeak == \A d \in Drafts : d \in pending ~> d \notin pending

\* The handler of t waits for the answer to a request that got lost.  The code
\* sets no timeout: only the connection's end would release it.
Hangs(t) == /\ pc[t] = "await"
            /\ Req(t) \notin inflight \cup posted

Stuck(x) == \E t \in Tasks : t.tap = x /\ Hangs(t)

\* Every tap's update is eventually answered with a 200, across a crash, unless
\* its handler hangs: nothing else a handler waits for may never come.
EveryTapAnswered == \A x \in Taps : x \in tapped ~> x \in acked \/ Stuck(x)

-----------------------------------------------------------------------------
(* What the repository says and the code does not do                       *)

\* db/expenses.py:178 of the rows the sweep deletes: "genuinely abandoned
\* expenses - a confirmed or cancelled one is deleted by its callback handler
\* and never reaches the sweep".
GenuinelyAbandoned ==
    \A d \in Drafts : "abandoned" \in outcome[d]
                         => ~\E r \in posted : D(r.task) = d
=============================================================================
