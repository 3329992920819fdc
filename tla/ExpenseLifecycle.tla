-------------------------- MODULE ExpenseLifecycle --------------------------
(***************************************************************************)
(* The life of a drafted expense, from the row _finalize_capture saves to  *)
(* the expense handle_confirm posts, the row handle_cancel deletes or the  *)
(* sweep that purges it.  The processes are: one webhook task per delivery *)
(* of a button tap (handle_confirm / handle_cancel), the TTL sweep loop of *)
(* app/main.py, Splitwise, Telegram, and the crash of the bot process.     *)
(* Every await is a step of its own: the event loop may run any other task *)
(* between two of them.                                                    *)
(***************************************************************************)
EXTENDS Naturals

CONSTANTS
    Drafts,         \* ids of rows of expenses_pending
    Users,          \* Telegram users
    Copies,         \* copies of a confirmation message (a retried send repeats it)
    Payer, Sender,  \* [Drafts -> Users]: who pays, whose message it was
    Fit,            \* [Drafts -> what the row may turn out to be at Confirm]
    Taps,           \* the button taps users may make
    MaxDeliveries,  \* times Telegram delivers one tap
    MaxAttempts,    \* retry_async's max_attempts (the code: 3)
    MaxCrashes,     \* crashes of the bot process
    Faults          \* which calls may fail, see AllFaults

AllFaults == {"supabase",   \* a database call raises, done or not
              "connect",    \* Splitwise cannot be reached: nothing was sent
              "abort",      \* the connection drops after the request was sent
              "timeout",    \* no answer to a request that was sent, or it is lost
              "reject",     \* Splitwise answers with an error object
              "token",      \* the stored token is missing or does not decrypt
              "telegram",   \* a Telegram call fails, done or not
              "repeat",     \* an answer to or from Telegram is lost or late: what
                            \* was sent (an update, a message) is sent again
              "langfuse"}   \* a trace call fails

ASSUME LifecycleAssumption ==
    /\ Payer \in [Drafts -> Users]
    /\ Sender \in [Drafts -> Users]
    /\ Fit \in [Drafts -> SUBSET {"ok", "corrupt", "unmatched"} \ {{}}]
    /\ Taps \subseteq [id : Nat, kind : {"confirm", "cancel"}, draft : Drafts,
                       tapper : Users, copy : Copies]
    /\ MaxDeliveries \in Nat /\ MaxAttempts \in Nat \ {0} /\ MaxCrashes \in Nat
    /\ Faults \subseteq AllFaults

Tasks    == [tap : Taps, n : 1..MaxDeliveries]          \* one per delivery of a tap
Requests == [task : Tasks, attempt : 1..MaxAttempts]    \* one per createExpense call
Texts    == {"none", "handled", "refused", "notConnected", "corrupt", "unmatched",
             "rejected", "unreachable", "added", "cancelled"}
Outcomes == {"expense_created", "cancelled", "abandoned"}

VARIABLES
    stage,      \* [Drafts -> {"none", "saved", "shown"}]: progress of the capture
    pending,    \* rows of expenses_pending
    overdue,    \* drafts whose expires_at is in the past
    completed,  \* rows of expenses_completed, as the expense each names
    inflight,   \* createExpense requests on their way to Splitwise
    posted,     \* expenses on Splitwise
    keyboards,  \* [Drafts -> SUBSET Copies]: copies that still show the buttons
    said,       \* [Taps -> SUBSET Texts]: what users have been told about each tap
    outcome,    \* [Drafts -> SUBSET Outcomes]: terminal marks in Langfuse
    tapped,     \* taps made
    acked,      \* taps whose update Telegram saw answered with a 200
    pc,         \* [Tasks -> step the task is at]
    attempt,    \* [Tasks -> attempt of retry_async]
    text,       \* [Tasks -> Texts]: the reply being delivered
    sweeping,   \* the task of the sweep loop is alive
    marking,    \* ids the sweep has deleted and still has to mark abandoned
    crashes     \* crashes so far

db       == <<pending, overdue, completed>>
net      == <<inflight, posted>>
chat     == <<keyboards, said>>
process  == <<pc, attempt, text>>
capture  == <<stage, sweeping, marking, crashes>>
updates  == <<tapped, acked>>
vars     == <<stage, pending, overdue, completed, inflight, posted, keyboards, said,
              outcome, tapped, acked, pc, attempt, text, sweeping, marking, crashes>>

Running == {"read", "token", "create", "await", "mark", "insert", "unlink",
            "delete", "edit", "send", "finish"}
D(t)      == t.tap.draft
Req(t)    == [task |-> t, attempt |-> attempt[t]]
May(f)    == f \in Faults
\* A call that may fail after it took effect: the outcomes a failure can leave.
Perhaps(f, done, undone) == IF May(f) THEN {done, undone} ELSE {done}

Init ==
    /\ stage = [d \in Drafts |-> "none"]
    /\ pending = {} /\ overdue = {} /\ completed = {}
    /\ inflight = {} /\ posted = {}
    /\ keyboards = [d \in Drafts |-> {}] /\ said = [x \in Taps |-> {}]
    /\ outcome = [d \in Drafts |-> {}]
    /\ tapped = {} /\ acked = {}
    /\ pc = [t \in Tasks |-> "unborn"]
    /\ attempt = [t \in Tasks |-> 1]
    /\ text = [t \in Tasks |-> "none"]
    /\ sweeping = TRUE /\ marking = {} /\ crashes = 0

-----------------------------------------------------------------------------
(* Capture and the clock                                                   *)

\* _finalize_capture stores the row under the conversation id ...
SaveDraft(d) ==
    /\ stage[d] = "none"
    /\ stage' = [stage EXCEPT ![d] = "saved"]
    /\ pending' = pending \cup {d}
    /\ UNCHANGED <<overdue, completed, sweeping, marking, crashes, net, chat, outcome, updates, process>>

\* ... and posts the confirmation; send_message may repeat it or give up, and nothing
\* is posted when create_pending raises after its effect.
ShowDraft(d) ==
    /\ stage[d] = "saved"
    /\ stage' = [stage EXCEPT ![d] = "shown"]
    /\ \E S \in SUBSET Copies :
          /\ S = {} => May("telegram") \/ May("supabase")
          /\ ~May("repeat") => \A c1, c2 \in S : c1 = c2
          /\ keyboards' = [keyboards EXCEPT ![d] = S]
    /\ UNCHANGED <<db, net, said, outcome, updates, process, sweeping, marking, crashes>>

\* expires_at, ten minutes after the insert, passes.
Expire(d) ==
    /\ d \in pending \ overdue
    /\ overdue' = overdue \cup {d}
    /\ UNCHANGED <<pending, completed, net, chat, outcome, updates, process, capture>>

-----------------------------------------------------------------------------
(* Taps and their delivery                                                 *)

Tap(x) ==
    /\ x \notin tapped
    /\ x.copy \in keyboards[x.draft]
    /\ tapped' = tapped \cup {x}
    /\ UNCHANGED <<acked, db, net, chat, outcome, process, capture>>

\* Telegram repeats an update until it sees a 200: after a crash, or (a fault)
\* while a slow handler still runs or when the 200 was lost.  Nothing in the
\* bot remembers update ids.
Previous(t) == [tap |-> t.tap, n |-> t.n - 1]

Deliverable(t) ==
    /\ t.tap \in tapped \ acked
    /\ pc[t] = "unborn"
    /\ t.n > 1 => \/ pc[Previous(t)] = "dead"
                  \/ May("repeat") /\ pc[Previous(t)] # "unborn"

\* Mutant: the update is acknowledged before it is handled.
Deliver_AcksFirst(t) ==
    /\ Deliverable(t)
    /\ pc' = [pc EXCEPT ![t] = "read"]
    /\ acked' = acked \cup {t.tap}
    /\ UNCHANGED <<tapped, attempt, text, db, net, chat, outcome, capture>>

\* The webhook enters handle_callback; its best-effort calls (identity, the
\* spinner) cannot stop it, so the next step is the handler's first read.
Deliver(t) ==
    /\ Deliverable(t)
    /\ pc' = [pc EXCEPT ![t] = "read"]
    /\ UNCHANGED <<attempt, text, db, net, chat, outcome, updates, capture>>

-----------------------------------------------------------------------------
(* How a handler goes on: to its next step, to a reply, or to its end      *)

Goto(t, step) ==
    /\ pc' = [pc EXCEPT ![t] = step]
    /\ UNCHANGED <<attempt, text>>

Reply(t, step, words) ==
    /\ pc' = [pc EXCEPT ![t] = step]
    /\ text' = [text EXCEPT ![t] = words]
    /\ UNCHANGED attempt

\* Mutant: a handler that could not reach Splitwise answers with an error status.
Return_FailureIs500(t) ==
    /\ pc' = [pc EXCEPT ![t] = "done"]
    /\ attempt' = [attempt EXCEPT ![t] = 1]
    /\ text' = [text EXCEPT ![t] = "none"]
    /\ acked' \in IF text[t] = "unreachable" THEN {acked}
                  ELSE Perhaps("repeat", acked \cup {t.tap}, acked)
    /\ UNCHANGED tapped

\* The webhook answers 200 whatever the handler did; the answer may be lost.
\* The handler's locals go with it.
Return(t) ==
    /\ pc' = [pc EXCEPT ![t] = "done"]
    /\ attempt' = [attempt EXCEPT ![t] = 1]
    /\ text' = [text EXCEPT ![t] = "none"]
    /\ acked' \in Perhaps("repeat", acked \cup {t.tap}, acked)
    /\ UNCHANGED tapped

-----------------------------------------------------------------------------
(* Both handlers: the first read                                           *)

IsPendingOwner(d, u) == u \in {Payer[d], Sender[d]}

MayTap(x) == \/ x.kind = "confirm" /\ x.tapper = Payer[x.draft]
             \/ x.kind = "cancel" /\ IsPendingOwner(x.draft, x.tapper)

\* get_pending finds the row whether or not it has expired.
FindGone(t) ==
    /\ pc[t] = "read"
    /\ D(t) \notin pending
    /\ Reply(t, "edit", "handled")
    /\ UNCHANGED <<db, net, chat, outcome, updates, capture>>

\* Mutant: the refusal replaces the message and its buttons.
Refuse_Edits(t) ==
    /\ pc[t] = "read"
    /\ D(t) \in pending
    /\ ~MayTap(t.tap)
    /\ Reply(t, "edit", "refused")
    /\ UNCHANGED <<db, net, chat, outcome, updates, capture>>

\* Side reply; the keyboard stays for whoever may tap it.
Refuse(t) ==
    /\ pc[t] = "read"
    /\ D(t) \in pending
    /\ ~MayTap(t.tap)
    /\ Reply(t, "send", "refused")
    /\ UNCHANGED <<db, net, chat, outcome, updates, capture>>

\* Mutant: the handler trusts the keyboard and does not look for the row.
Admit_TrustsKeyboard(t) ==
    /\ pc[t] = "read"
    /\ MayTap(t.tap)
    /\ Goto(t, IF t.tap.kind = "confirm" THEN "token" ELSE "delete")
    /\ UNCHANGED <<db, net, chat, outcome, updates, capture>>

Admit(t) ==
    /\ pc[t] = "read"
    /\ D(t) \in pending
    /\ MayTap(t.tap)
    /\ Goto(t, IF t.tap.kind = "confirm" THEN "token" ELSE "delete")
    /\ UNCHANGED <<db, net, chat, outcome, updates, capture>>

\* get_pending or load_user_token raises (InvalidToken included): the webhook
\* logs it and answers 200; the user hears nothing.
HandlerRaises(t) ==
    /\ \/ pc[t] \in {"read", "token"} /\ May("supabase")
       \/ pc[t] = "token" /\ May("token")
    /\ Return(t)
    /\ UNCHANGED <<db, net, chat, outcome, capture>>

-----------------------------------------------------------------------------
(* handle_confirm                                                          *)

NotConnected(t) ==
    /\ pc[t] = "token"
    /\ May("token")
    /\ Reply(t, "edit", "notConnected")
    /\ UNCHANGED <<db, net, chat, outcome, updates, capture>>

\* The row no longer validates, or _build_sw_splits returns no splits.
Unusable(t) ==
    /\ pc[t] = "token"
    /\ \E flaw \in Fit[D(t)] \ {"ok"} : Reply(t, "edit", flaw)
    /\ UNCHANGED <<db, net, chat, outcome, updates, capture>>

LoadToken(t) ==
    /\ pc[t] = "token"
    /\ "ok" \in Fit[D(t)]
    /\ Goto(t, "create")
    /\ UNCHANGED <<db, net, chat, outcome, updates, capture>>

\* Mutant: one attempt too many.
RetryOrGiveUp_OffByOne(t) ==
    \/ /\ attempt[t] <= MaxAttempts
       /\ attempt' = [attempt EXCEPT ![t] = @ + 1]
       /\ pc' = [pc EXCEPT ![t] = "create"]
       /\ UNCHANGED text
    \/ /\ attempt[t] > MaxAttempts
       /\ Reply(t, "edit", "unreachable")

\* retry_async: a ConnectionError is tried again until MaxAttempts, then raised.
RetryOrGiveUp(t) ==
    \/ /\ attempt[t] < MaxAttempts
       /\ attempt' = [attempt EXCEPT ![t] = @ + 1]
       /\ pc' = [pc EXCEPT ![t] = "create"]
       /\ UNCHANGED text
    \/ /\ attempt[t] >= MaxAttempts
       /\ Reply(t, "edit", "unreachable")

ConnectFails(t) ==
    /\ pc[t] = "create"
    /\ May("connect")
    /\ RetryOrGiveUp(t)
    /\ UNCHANGED <<db, net, chat, outcome, updates, capture>>

SendRequest(t) ==
    /\ pc[t] = "create"
    /\ inflight' = inflight \cup {Req(t)}
    /\ Goto(t, "await")
    /\ UNCHANGED <<posted, db, chat, outcome, updates, capture>>

\* requests raises ConnectionError also for a connection dropped mid-answer.
AbortsAfterSend(t) ==
    /\ pc[t] = "await"
    /\ May("abort")
    /\ RetryOrGiveUp(t)
    /\ UNCHANGED <<db, net, chat, outcome, updates, capture>>

\* Mutants: a read timeout is retried like a refused connect; or taken for success.
TimesOut_Retried(t) ==
    /\ pc[t] = "await"
    /\ May("timeout")
    /\ RetryOrGiveUp(t)
    /\ UNCHANGED <<db, net, chat, outcome, updates, capture>>

TimesOut_AsSuccess(t) ==
    /\ pc[t] = "await"
    /\ May("timeout")
    /\ Reply(t, "edit", "added")
    /\ UNCHANGED <<db, net, chat, outcome, updates, capture>>

TimesOut(t) ==
    /\ pc[t] = "await"
    /\ May("timeout")
    /\ Reply(t, "edit", "unreachable")
    /\ UNCHANGED <<db, net, chat, outcome, updates, capture>>

\* Splitwise answers with an error object: nothing was created.
Reject(t) ==
    /\ pc[t] = "await"
    /\ May("reject")
    /\ Req(t) \in inflight
    /\ inflight' = inflight \ {Req(t)}
    /\ Reply(t, "edit", "rejected")
    /\ UNCHANGED <<posted, db, chat, outcome, updates, capture>>

GetExpense(t) ==
    /\ pc[t] = "await"
    /\ Req(t) \in posted
    /\ Goto(t, "mark")
    /\ UNCHANGED <<db, net, chat, outcome, updates, capture>>

\* mark_completed reads the row again ...
CopyPending(t) ==
    /\ pc[t] = "mark"
    /\ D(t) \in pending
    /\ Goto(t, "insert")
    /\ UNCHANGED <<db, net, chat, outcome, updates, capture>>

\* ... PendingNotFoundError is logged, and the user is told of success anyway
PendingVanished(t) ==
    /\ pc[t] = "mark"
    /\ D(t) \notin pending
    /\ Reply(t, "edit", "added")
    /\ UNCHANGED <<db, net, chat, outcome, updates, capture>>

InsertCompleted(t) ==
    /\ pc[t] = "insert"
    /\ completed' = completed \cup {Req(t)}
    /\ Goto(t, "unlink")
    /\ UNCHANGED <<pending, overdue, net, chat, outcome, updates, capture>>

\* Mutant: mark_completed returns without its delete.
DeletePending_Forgotten(t) ==
    /\ pc[t] = "unlink"
    /\ Reply(t, "edit", "added")
    /\ UNCHANGED <<db, net, chat, outcome, updates, capture>>

DeletePending(t) ==
    /\ pc[t] = "unlink"
    /\ pending' = pending \ {D(t)}
    /\ Reply(t, "edit", "added")
    /\ UNCHANGED <<overdue, completed, net, chat, outcome, updates, capture>>

\* Any of the three requests of mark_completed raises, its effect done or not;
\* the error is logged and the user is told of success.
MarkCompletedRaises(t) ==
    /\ pc[t] \in {"mark", "insert", "unlink"}
    /\ May("supabase")
    /\ completed' \in {completed} \cup
          (IF pc[t] = "insert" THEN {completed \cup {Req(t)}} ELSE {})
    /\ pending' \in {pending} \cup
          (IF pc[t] = "unlink" THEN {pending \ {D(t)}} ELSE {})
    /\ Reply(t, "edit", "added")
    /\ UNCHANGED <<overdue, net, chat, outcome, updates, capture>>

-----------------------------------------------------------------------------
(* handle_cancel: a failed delete is logged and "Cancelled." said all the same *)

\* Mutant: the message is retracted, the row is not.
CancelDelete_KeepsRow(t) ==
    /\ pc[t] = "delete"
    /\ Reply(t, "edit", "cancelled")
    /\ UNCHANGED <<db, net, chat, outcome, updates, capture>>

CancelDelete(t) ==
    /\ pc[t] = "delete"
    /\ pending' \in Perhaps("supabase", pending \ {D(t)}, pending)
    /\ Reply(t, "edit", "cancelled")
    /\ UNCHANGED <<overdue, completed, net, chat, outcome, updates, capture>>

-----------------------------------------------------------------------------
(* _edit_or_send: replace the message and its keyboard, else send a new one *)

Tell(t) == said' = [said EXCEPT ![t.tap] = @ \cup {text[t]}]

Edit(t) == /\ keyboards' = [keyboards EXCEPT ![D(t)] = @ \ {t.tap.copy}]
           /\ Tell(t)

EditMessage(t) ==
    /\ pc[t] = "edit"
    /\ Edit(t)
    /\ Goto(t, "finish")
    /\ UNCHANGED <<db, net, outcome, updates, capture>>

\* The edit raises; it may have been applied.
EditFails(t) ==
    /\ pc[t] = "edit"
    /\ May("telegram")
    /\ Edit(t) \/ UNCHANGED chat
    /\ Goto(t, "send")
    /\ UNCHANGED <<db, net, outcome, updates, capture>>

\* _safe_send swallows every error.
SafeSend(t) ==
    /\ pc[t] = "send"
    /\ Tell(t) \/ (May("telegram") /\ UNCHANGED said)
    /\ Goto(t, "finish")
    /\ UNCHANGED <<keyboards, db, net, outcome, updates, capture>>

\* Mutant: handle_cancel returns without marking the end of the conversation.
EndMark_OnlyConfirm(words) == {m \in Outcomes : words = "added" /\ m = "expense_created"}

\* mark_conversation_end, when the handler reached its end, and return.
EndMark(words) == {m \in Outcomes : \/ words = "added" /\ m = "expense_created"
                                    \/ words = "cancelled" /\ m = "cancelled"}

Finish(t) ==
    /\ pc[t] = "finish"
    /\ outcome' \in Perhaps("langfuse",
          [outcome EXCEPT ![D(t)] = @ \cup EndMark(text[t])], outcome)
    /\ Return(t)
    /\ UNCHANGED <<db, net, chat, capture>>

\* The steps a handler takes by itself, and those that need the connection to
\* Splitwise to break: no call sets a timeout, so nothing obliges the latter.
Progress(t) ==
    \/ FindGone(t) \/ Refuse(t) \/ Admit(t) \/ HandlerRaises(t)
    \/ NotConnected(t) \/ Unusable(t) \/ LoadToken(t)
    \/ ConnectFails(t) \/ SendRequest(t) \/ Reject(t) \/ GetExpense(t)
    \/ CopyPending(t) \/ PendingVanished(t) \/ InsertCompleted(t) \/ DeletePending(t)
    \/ MarkCompletedRaises(t) \/ CancelDelete(t)
    \/ EditMessage(t) \/ EditFails(t) \/ SafeSend(t) \/ Finish(t)

HandlerStep(t) == Progress(t) \/ AbortsAfterSend(t) \/ TimesOut(t)

-----------------------------------------------------------------------------
(* Splitwise                                                               *)

\* A request that was sent takes effect, even if its task gave up or died.
Accept(r) ==
    /\ r \in inflight
    /\ inflight' = inflight \ {r}
    /\ posted' = posted \cup {r}
    /\ UNCHANGED <<db, chat, outcome, updates, process, capture>>

Lose(r) ==
    /\ r \in inflight
    /\ May("timeout") \/ May("abort")
    /\ inflight' = inflight \ {r}
    /\ UNCHANGED <<posted, db, chat, outcome, updates, process, capture>>

-----------------------------------------------------------------------------
(* The TTL sweep                                                           *)

\* Mutant: the sweep forgets to compare expires_at with the clock.
Sweep_IgnoresClock ==
    /\ sweeping /\ marking = {}
    /\ pending # {}
    /\ pending' = {}
    /\ marking' = pending
    /\ UNCHANGED <<stage, sweeping, crashes, overdue, completed, net, chat, outcome, updates, process>>

\* A tick that works: one DELETE ... WHERE expires_at < now, whose answer names the
\* rows deleted.
Sweep ==
    /\ sweeping /\ marking = {}
    /\ pending \cap overdue # {}
    /\ pending' = pending \ overdue
    /\ marking' = pending \cap overdue
    /\ UNCHANGED <<stage, sweeping, crashes, overdue, completed, net, chat, outcome, updates, process>>

\* Mutant: the loop does not catch what its tick raises.
SweepFails_EndsLoop ==
    /\ sweeping /\ marking = {}
    /\ May("supabase")
    /\ pending' \in {pending, pending \ overdue}
    /\ sweeping' = FALSE
    /\ UNCHANGED <<stage, marking, crashes, overdue, completed, net, chat, outcome, updates, process>>

\* A tick that raises, its DELETE done or not: no row is named, the error is logged
\* and the loop goes on to its next tick.
SweepFails ==
    /\ sweeping /\ marking = {}
    /\ May("supabase")
    /\ pending' \in {pending, pending \ overdue}
    /\ sweeping' = TRUE
    /\ UNCHANGED <<stage, marking, crashes, overdue, completed, net, chat, outcome, updates, process>>

\* mark_conversations_abandoned, one id; a failure is logged, the loop goes on.
MarkAbandoned(d) ==
    /\ d \in marking
    /\ marking' = marking \ {d}
    /\ outcome' \in Perhaps("langfuse",
                       [outcome EXCEPT ![d] = @ \cup {"abandoned"}], outcome)
    /\ UNCHANGED <<stage, sweeping, crashes, db, net, chat, updates, process>>

-----------------------------------------------------------------------------
\* The process dies and is restarted, and its sweep loop with it: its tasks and the
\* ids being marked are lost; rows, requests already sent and unanswered updates
\* survive.
Crash ==
    /\ crashes < MaxCrashes
    /\ crashes' = crashes + 1
    /\ pc' = [t \in Tasks |-> IF pc[t] \in Running THEN "dead" ELSE pc[t]]
    /\ attempt' = [t \in Tasks |-> 1]
    /\ text' = [t \in Tasks |-> "none"]
    /\ stage' = [d \in Drafts |-> IF stage[d] = "saved" THEN "shown" ELSE stage[d]]
    /\ sweeping' = TRUE /\ marking' = {}
    /\ UNCHANGED <<db, net, chat, outcome, updates>>

Next ==
    \/ \E d \in Drafts : SaveDraft(d) \/ ShowDraft(d) \/ Expire(d) \/ MarkAbandoned(d)
    \/ \E x \in Taps : Tap(x)
    \/ \E t \in Tasks : Deliver(t) \/ HandlerStep(t)
    \/ \E r \in Requests : Accept(r) \/ Lose(r)
    \/ Sweep \/ SweepFails
    \/ Crash

Spec == Init /\ [][Next]_vars

(***************************************************************************)
(* Fairness: the event loop runs every task that can go on by itself;      *)
(* Splitwise deals with what it receives; Telegram repeats an update until *)
(* it is answered; time passes, and as long as the sweep loop is alive not *)
(* every one of its ticks fails.                                           *)
(* No fairness on users (SaveDraft, Tap) nor on faults.                    *)
(***************************************************************************)
Fairness ==
    /\ \A t \in Tasks : WF_vars(Progress(t)) /\ WF_vars(Deliver(t))
    /\ \A r \in Requests : WF_vars(Accept(r))
    /\ \A d \in Drafts : WF_vars(Expire(d)) /\ WF_vars(MarkAbandoned(d))
                         /\ WF_vars(ShowDraft(d))
    /\ WF_vars(Sweep)

FairSpec == Spec /\ Fairness
=============================================================================
