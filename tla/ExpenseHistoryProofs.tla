------------------------ MODULE ExpenseHistoryProofs ------------------------
(***************************************************************************)
(* How often a draft can be posted.  One delivery posts once at most as    *)
(* long as the retry of create_expense retries only what was not sent; and *)
(* whatever is posted twice, or although its cancellation was announced,   *)
(* has one of the causes ExpenseHistory names, under every fault, overlap  *)
(* and crash and for every number of taps and deliveries.                  *)
(***************************************************************************)
EXTENDS ExpenseHistory, ExpenseLifecycleProofs

LEMMA SentOnceStep ==
  ASSUME "abort" \notin Faults
  PROVE  TypeOK /\ SentOnce /\ [Next]_vars => SentOnce'
  <1> SUFFICES ASSUME TypeOK, SentOnce, [Next]_vars PROVE SentOnce'
    OBVIOUS
  <1> USE DEF db, net, process, capture
  <1>1. ASSUME NEW t \in Tasks, SendRequest(t) PROVE SentOnce'
    <2>1. /\ pc[t] = "create" /\ pc' = [pc EXCEPT ![t] = "await"]
          /\ posted' = posted /\ inflight' = inflight \cup {Req(t)} /\ Req(t).task = t
      BY <1>1 DEF SendRequest, Goto, Req
    <2>2. \A r \in posted \cup inflight : r.task # t
      BY <2>1 DEF SentOnce, Unsent
    <2> QED
      BY <2>1, <2>2 DEF SentOnce, OnePostPerTask, Unsent, TypeOK
  <1>2. ASSUME NEW t \in Tasks, HandlerStep(t), ~SendRequest(t) PROVE SentOnce'
    <2>1. posted' = posted /\ inflight' \subseteq inflight
      BY <1>2 DEF HandlerStep, Progress, FindGone, Refuse, Admit, HandlerRaises, NotConnected,
             Unusable, LoadToken, ConnectFails, AbortsAfterSend, TimesOut, Reject,
             GetExpense, CopyPending, PendingVanished, InsertCompleted, DeletePending,
             MarkCompletedRaises, CancelDelete, EditMessage, EditFails, SafeSend, Finish
    <2>2. \A u \in Tasks : u # t => pc'[u] = pc[u]
      BY <1>2 DEF HandlerStep, Progress, FindGone, Refuse, Admit, HandlerRaises, NotConnected,
             Unusable, LoadToken, ConnectFails, AbortsAfterSend, TimesOut, Reject,
             GetExpense, CopyPending, PendingVanished, InsertCompleted, DeletePending,
             MarkCompletedRaises, CancelDelete, EditMessage, EditFails, SafeSend, Finish,
             RetryOrGiveUp, Goto, Reply, Return, TypeOK
    <2>3. pc'[t] \in Unsent => pc[t] \in Unsent
      BY <1>2 DEF HandlerStep, Progress, FindGone, Refuse, Admit, HandlerRaises, NotConnected,
             Unusable, LoadToken, ConnectFails, AbortsAfterSend, TimesOut, Reject,
             GetExpense, CopyPending, PendingVanished, InsertCompleted, DeletePending,
             MarkCompletedRaises, CancelDelete, EditMessage, EditFails, SafeSend, Finish,
             RetryOrGiveUp, Goto, Reply, Return, TypeOK, Unsent, May
    <2> QED
      BY <2>1, <2>2, <2>3 DEF SentOnce, OnePostPerTask
  <1>3. ASSUME NEW d \in Drafts, SaveDraft(d) \/ ShowDraft(d) \/ Expire(d) \/ MarkAbandoned(d)
        PROVE  SentOnce'
    BY <1>3 DEF SaveDraft, ShowDraft, Expire, MarkAbandoned, SentOnce, OnePostPerTask
  <1>4. ASSUME NEW x \in Taps, Tap(x) PROVE SentOnce'
    BY <1>4 DEF Tap, SentOnce, OnePostPerTask
  <1>5. ASSUME NEW t \in Tasks, Deliver(t) PROVE SentOnce'
    BY <1>5 DEF Deliver, Deliverable, SentOnce, OnePostPerTask, Unsent, TypeOK
  <1>6. ASSUME NEW r \in Requests, Accept(r) \/ Lose(r) PROVE SentOnce'
    BY <1>6 DEF Accept, Lose, SentOnce, OnePostPerTask
  <1>7. CASE Sweep \/ SweepFails
    BY <1>7 DEF Sweep, SweepFails, SentOnce, OnePostPerTask
  <1>8. CASE Crash
    <2>1. \A t \in Tasks : pc'[t] \in Unsent => pc[t] \in Unsent
      BY <1>8 DEF Crash, Unsent, Running
    <2> QED
      BY <1>8, <2>1 DEF Crash, SentOnce, OnePostPerTask
  <1>9. CASE UNCHANGED vars
    BY <1>9 DEF vars, SentOnce, OnePostPerTask
  <1> QED
    BY <1>1, <1>2, <1>3, <1>4, <1>5, <1>6, <1>7, <1>8, <1>9 DEF Next

\* If a ConnectionError means that nothing was sent, a delivery that is before
\* its request has no expense, and one that is past it has one at most.
THEOREM AlwaysSentOnce ==
  ASSUME "abort" \notin Faults
  PROVE  Spec => []SentOnce
  <1>1. Init => SentOnce
    BY DEF Init, SentOnce, OnePostPerTask
  <1> QED
    BY <1>1, SentOnceStep, TypeCorrect, PTL DEF Spec

\* So no delivery of a Confirm posts twice, whatever else fails, overlaps or
\* crashes.
THEOREM RetryIsSafe ==
  ASSUME "abort" \notin Faults
  PROVE  Spec => []OnePostPerTask
  <1>1. SentOnce => OnePostPerTask
    BY DEF SentOnce
  <1> QED
    BY <1>1, AlwaysSentOnce, PTL

-----------------------------------------------------------------------------
(* What one step can do                                                    *)

\* A step of the lifecycle with its memory is a step of the lifecycle.
LEMMA HistoryIsLifecycle ==
  /\ InitHistory => Init
  /\ [NextHistory]_hvars => [Next]_vars
  BY DEF InitHistory, NextHistory, hvars

\* Nothing of a draft is asked of Splitwise before somebody tapped on it.
LEMMA SendsCaptured ==
  ASSUME Authorised, NEW t \in Tasks, Sends(t)
  PROVE  stage[D(t)] # "none" /\ t.tap.kind = "confirm"
  BY DEF Authorised, RequestAuthorised, Captured, Sends, D

\* A handler moves only itself, and only forward in the data it shares.
LEMMA HandlerMoves ==
  ASSUME TypeOK, NEW t \in Tasks, HandlerStep(t)
  PROVE  /\ pc[t] \in Running
         /\ stage' = stage /\ posted' = posted
         /\ \/ said' = said
            \/ /\ pc[t] \in {"edit", "send"} /\ inflight' = inflight
               /\ said' = [said EXCEPT ![t.tap] = @ \cup {text[t]}]
         /\ SendRequest(t) \/ inflight' \subseteq inflight
  <1> USE DEF TypeOK, db, net, chat, updates, capture, Running
  <1>1. CASE FindGone(t) \/ Refuse(t) \/ Admit(t) \/ NotConnected(t) \/ Unusable(t)
             \/ LoadToken(t) \/ TimesOut(t) \/ GetExpense(t) \/ ConnectFails(t)
             \/ AbortsAfterSend(t) \/ CopyPending(t) \/ PendingVanished(t)
    BY <1>1 DEF FindGone, Refuse, Admit, NotConnected, Unusable, LoadToken, TimesOut,
           GetExpense, ConnectFails, AbortsAfterSend, CopyPending, PendingVanished
  <1>2. CASE SendRequest(t) \/ Reject(t)
    BY <1>2 DEF SendRequest, Reject
  <1>3. CASE HandlerRaises(t) \/ Finish(t)
    BY <1>3 DEF HandlerRaises, Finish
  <1>4. CASE InsertCompleted(t) \/ DeletePending(t) \/ MarkCompletedRaises(t) \/ CancelDelete(t)
    BY <1>4 DEF InsertCompleted, DeletePending, MarkCompletedRaises, CancelDelete
  <1>5. CASE EditMessage(t) \/ EditFails(t) \/ SafeSend(t)
    BY <1>5 DEF EditMessage, EditFails, SafeSend, Edit, Tell
  <1> QED
    BY <1>1, <1>2, <1>3, <1>4, <1>5 DEF HandlerStep, Progress

\* What happens to the row of the steps of others: nothing brings it, or a captured
\* draft, back.
LEMMA StageAndRows ==
  ASSUME TypeOK, [Next]_vars
  PROVE  \A d \in Drafts : stage[d] # "none"
            => stage'[d] # "none" /\ (d \notin pending => d \notin pending')
  <1>1. ASSUME NEW t \in Tasks, HandlerStep(t) PROVE stage' = stage
    BY <1>1, HandlerMoves
  <1>2. ASSUME NEW d \in Drafts, SaveDraft(d) \/ ShowDraft(d)
        PROVE  \A e \in Drafts : stage[e] # "none" => stage'[e] # "none"
    BY <1>2 DEF SaveDraft, ShowDraft, TypeOK
  <1>3. CASE Crash
    BY <1>3, RowsDoNotReturn DEF Crash
  <1>4. CASE UNCHANGED vars
    BY <1>4 DEF vars
  <1>5. ASSUME Next, ~Crash, ~\E t \in Tasks : HandlerStep(t),
               ~\E d \in Drafts : SaveDraft(d) \/ ShowDraft(d)
        PROVE  stage' = stage
    BY <1>5 DEF Next, Expire, MarkAbandoned, Tap, Deliver, Accept, Lose, Sweep, SweepFails,
           capture
  <1> QED
    BY <1>1, <1>2, <1>3, <1>4, <1>5, RowsDoNotReturn

\* Tasks move by a step of their own, or fall in a crash.
LEMMA WhoMoves ==
  ASSUME TypeOK, [Next]_vars, NEW t \in Tasks
  PROVE  \/ HandlerStep(t) \/ Deliver(t)
         \/ pc'[t] = pc[t] /\ text'[t] = text[t]
         \/ text'[t] = "none" /\ pc'[t] = (IF pc[t] \in Running THEN "dead" ELSE pc[t])
  <1>1. ASSUME NEW u \in Tasks, HandlerStep(u), u # t
        PROVE  pc'[t] = pc[t] /\ text'[t] = text[t]
    BY <1>1, HandlerStepIsLocal
  <1>2. ASSUME NEW u \in Tasks, Deliver(u), u # t
        PROVE  pc'[t] = pc[t] /\ text'[t] = text[t]
    BY <1>2 DEF Deliver, TypeOK
  <1>3. CASE Crash
    BY <1>3 DEF Crash
  <1>4. CASE UNCHANGED vars
    BY <1>4 DEF vars
  <1>5. ASSUME Next, ~Crash, ~\E u \in Tasks : HandlerStep(u) \/ Deliver(u)
        PROVE  UNCHANGED process
    BY <1>5 DEF Next, SaveDraft, ShowDraft, Expire, MarkAbandoned, Tap, Accept, Lose, Sweep,
           SweepFails
  <1> QED
    BY <1>1, <1>2, <1>3, <1>4, <1>5 DEF process

\* Words come from a handler that replies, requests from one that sends.
LEMMA WhoSpeaks ==
  ASSUME TypeOK, [Next]_vars
  PROVE  \/ said' = said
         \/ \E t \in Tasks : /\ pc[t] \in {"edit", "send"} /\ inflight' = inflight /\ posted' = posted
                             /\ said' = [said EXCEPT ![t.tap] = @ \cup {text[t]}]
  <1>1. ASSUME NEW t \in Tasks, HandlerStep(t) PROVE posted' = posted
    BY <1>1, HandlerMoves
  <1>2. ASSUME ~\E t \in Tasks : HandlerStep(t) PROVE said' = said
    BY <1>2 DEF Next, vars, SaveDraft, ShowDraft, Expire, MarkAbandoned, Tap, Deliver, Accept,
           Lose, Sweep, SweepFails, Crash, chat
  <1> QED
    BY <1>1, <1>2, HandlerMoves

LEMMA WhoSends ==
  ASSUME TypeOK, [Next]_vars
  PROVE  \/ /\ (posted \cup inflight)' \subseteq posted \cup inflight
            /\ (posted \cap inflight)' \subseteq posted \cap inflight
         \/ \E t \in Tasks : /\ SendRequest(t) /\ pc[t] = "create"
                             /\ posted' = posted /\ inflight' = inflight \cup {Req(t)}
  <1>1. ASSUME NEW t \in Tasks, HandlerStep(t), ~SendRequest(t)
        PROVE  posted' = posted /\ inflight' \subseteq inflight
    BY <1>1, HandlerMoves
  <1>2. ASSUME NEW t \in Tasks, SendRequest(t)
        PROVE  pc[t] = "create" /\ posted' = posted /\ inflight' = inflight \cup {Req(t)}
    BY <1>2 DEF SendRequest
  <1>3. ASSUME NEW r \in Requests, Accept(r) \/ Lose(r)
        PROVE  /\ (posted \cup inflight)' \subseteq posted \cup inflight
               /\ (posted \cap inflight)' \subseteq posted \cap inflight
    BY <1>3 DEF Accept, Lose
  <1>4. ASSUME ~\E t \in Tasks : HandlerStep(t), ~\E r \in Requests : Accept(r) \/ Lose(r)
        PROVE  posted' = posted /\ inflight' = inflight
    BY <1>4 DEF Next, vars, SaveDraft, ShowDraft, Expire, MarkAbandoned, Tap, Deliver, Sweep,
           SweepFails, Crash, net
  <1> QED
    BY <1>1, <1>2, <1>3, <1>4

\* The memory only grows, and who was cut short stays so.
LEMMA MemoryGrows ==
  ASSUME TypeOK, [NextHistory]_hvars
  PROVE  /\ met \subseteq met' /\ unanswered \subseteq unanswered' /\ kept \subseteq kept'
         /\ \A t \in Tasks : CutShort(t) => CutShort(t)'
  <1>1. met \subseteq met' /\ unanswered \subseteq unanswered' /\ kept \subseteq kept'
    BY DEF NextHistory, Remember, hvars
  <1>2. \A t \in Tasks : pc[t] = "dead" => pc'[t] = "dead"
    <2> SUFFICES ASSUME NEW t \in Tasks, pc[t] = "dead" PROVE pc'[t] = "dead"
      OBVIOUS
    <2>1. ~HandlerStep(t) /\ ~Deliver(t)
      BY HandlerMoves DEF Deliver, Deliverable, Running
    <2> QED
      BY <2>1, WhoMoves, HistoryIsLifecycle DEF Running
  <1> QED
    BY <1>1, <1>2 DEF CutShort

-----------------------------------------------------------------------------
(* The step of CausesKnown, conjunct by conjunct                           *)

LEMMA StepMeetings ==
  ASSUME CausesKnown, [NextHistory]_hvars
  PROVE  MeetingsNoted'
  <1>1. CASE NextHistory
    BY <1>1 DEF NextHistory, Remember, CausesKnown, MeetingsNoted, Overlapping, Sibling
  <1>2. CASE UNCHANGED hvars
    BY <1>2 DEF hvars, vars, CausesKnown, MeetingsNoted, Sibling
  <1> QED
    BY <1>1, <1>2

\* Siblings that are both running have met.
LEMMA RunningMet ==
  ASSUME CausesKnown, [NextHistory]_hvars, TypeOK, NEW t \in Tasks, NEW u \in Tasks,
         Sibling(t, u), pc[t] \in Running, pc[u] \in Running
  PROVE  <<t, u>> \in met' /\ <<u, t>> \in met'
  BY MemoryGrows DEF CausesKnown, MeetingsNoted

\* A request that is new comes from the task that sends it.
LEMMA NewRequest ==
  ASSUME TypeOK, [Next]_vars, NEW r \in (posted \cup inflight)', r \notin posted \cup inflight
  PROVE  /\ r.task \in Tasks /\ SendRequest(r.task) /\ pc[r.task] = "create"
         /\ pc'[r.task] = "await" /\ said' = said
         /\ posted' = posted /\ inflight' = inflight \cup {r}
  <1>1. PICK t \in Tasks : /\ SendRequest(t) /\ pc[t] = "create" /\ posted' = posted
                           /\ inflight' = inflight \cup {Req(t)}
    BY WhoSends
  <1>2. r = Req(t) /\ r.task = t
    BY <1>1 DEF Req
  <1> QED
    BY <1>1, <1>2 DEF SendRequest, Goto, chat, TypeOK

\* A word that is new was said by a handler that had it ready.
LEMMA NewWord ==
  ASSUME TypeOK, [Next]_vars, NEW x \in Taps, NEW w, w \in said'[x], w \notin said[x]
  PROVE  /\ inflight' = inflight /\ posted' = posted
         /\ \E t \in Tasks : t.tap = x /\ D(t) = x.draft /\ pc[t] \in {"edit", "send"} /\ text[t] = w
  BY WhoSpeaks, TaskType DEF TypeOK, D

LEMMA StepSoleRequest ==
  ASSUME TypeOK, CausesKnown, [NextHistory]_hvars, NEW t \in Tasks
  PROVE  SoleRequest(t)'
  <1>1. SoleRequest(t)
    BY DEF CausesKnown
  <1>2. CASE t \in unanswered
    BY <1>2, MemoryGrows DEF SoleRequest
  <1>3. CASE t \notin unanswered /\ \E u \in Tasks : SendRequest(u)
    <2>1. PICK u \in Tasks : SendRequest(u)
      BY <1>3
    <2>2. /\ posted' = posted /\ inflight' = inflight \cup {Req(u)} /\ Req(u).task = u
          /\ pc[u] = "create" /\ pc' = [pc EXCEPT ![u] = "await"]
      BY <2>1 DEF SendRequest, Goto, Req
    <2>3. CASE u = t
      <3>1. ~Sends(t)
        BY <1>1, <1>3, <2>2, <2>3 DEF SoleRequest, Unsent
      <3> QED
        BY <2>2, <2>3, <3>1 DEF SoleRequest, Sends, Unsent, TypeOK
    <2>4. CASE u # t
      BY <1>1, <1>3, <2>2, <2>4 DEF SoleRequest, Sends, Unsent, TypeOK
    <2> QED
      BY <2>3, <2>4
  <1>4. CASE t \notin unanswered /\ ~\E u \in Tasks : SendRequest(u)
    <2>1. /\ (posted \cup inflight)' \subseteq posted \cup inflight
          /\ (posted \cap inflight)' \subseteq posted \cap inflight
      BY <1>4, WhoSends, HistoryIsLifecycle
    <2>2. pc'[t] \in Unsent => pc[t] \in Unsent \/ AbortsAfterSend(t)
      <3>1. CASE HandlerStep(t)
        BY <3>1 DEF HandlerStep, Progress, FindGone, Refuse, Admit, HandlerRaises, NotConnected,
               Unusable, LoadToken, ConnectFails, SendRequest, TimesOut, Reject,
               GetExpense, CopyPending, PendingVanished, InsertCompleted, DeletePending,
               MarkCompletedRaises, CancelDelete, EditMessage, EditFails, SafeSend, Finish,
               RetryOrGiveUp, Goto, Reply, Return, TypeOK, Unsent, May
      <3>2. CASE Deliver(t)
        BY <3>2 DEF Deliver, Deliverable, Unsent
      <3> QED
        BY <3>1, <3>2, WhoMoves, HistoryIsLifecycle DEF Unsent, Running
    <2>3. AbortsAfterSend(t) => t \in unanswered'
      <3>1. ASSUME AbortsAfterSend(t) PROVE ~UNCHANGED hvars
        BY <3>1 DEF AbortsAfterSend, RetryOrGiveUp, Reply, hvars, vars, TypeOK
      <3> QED
        BY <3>1 DEF NextHistory, Remember
    <2> QED
      BY <1>1, <1>4, <2>1, <2>2, <2>3 DEF SoleRequest, Sends
  <1> QED
    BY <1>2, <1>3, <1>4

LEMMA StepRowFollows ==
  ASSUME TypeOK, Authorised, CausesKnown, [NextHistory]_hvars, NEW t \in Tasks
  PROVE  RowFollows(t)'
  <1> SUFFICES ASSUME Sends(t)'
               PROVE  pc'[t] \in Holding \/ D(t) \notin pending' \/ CutShort(t)'
    BY DEF RowFollows, D
  <1>1. CASE ~Sends(t)
    BY <1>1, NewRequest, HistoryIsLifecycle DEF Sends, Holding
  <1>2. CASE Sends(t) /\ CutShort(t)
    BY <1>2, MemoryGrows
  <1>3. CASE Sends(t) /\ D(t) \notin pending
    BY <1>3, SendsCaptured, StageAndRows, HistoryIsLifecycle, TaskType
  <1>4. CASE pc[t] \in Holding /\ D(t) \in pending
    <2>1. CASE AbortsAfterSend(t) \/ TimesOut(t)
      <3>1. ~UNCHANGED hvars
        BY <2>1 DEF AbortsAfterSend, TimesOut, RetryOrGiveUp, Reply, hvars, vars, TypeOK
      <3> QED
        BY <2>1, <3>1 DEF NextHistory, Remember, CutShort
    <2>2. CASE Reject(t)
      <3>1. /\ posted' = posted /\ inflight' = inflight \ {Req(t)} /\ Req(t) \in inflight
            /\ Req(t).task = t
        BY <2>2 DEF Reject, Req
      <3>2. CASE t \in unanswered
        BY <3>2, MemoryGrows DEF CutShort
      <3>3. CASE t \notin unanswered
        <4>1. /\ \A r, u \in posted \cup inflight : r.task = t /\ u.task = t => r = u
              /\ \A r \in posted \cap inflight : r.task # t
          BY <3>3 DEF CausesKnown, SoleRequest
        <4> QED
          BY <3>1, <4>1 DEF Sends
      <3> QED
        BY <3>2, <3>3
    <2>3. CASE GetExpense(t) \/ CopyPending(t) \/ InsertCompleted(t)
      BY <2>3 DEF GetExpense, CopyPending, InsertCompleted, Goto, Holding, TypeOK
    <2>4. CASE DeletePending(t)
      BY <2>4 DEF DeletePending
    <2>5. CASE MarkCompletedRaises(t)
      <3>1. ~UNCHANGED hvars
        BY <2>5 DEF MarkCompletedRaises, Reply, hvars, vars, TypeOK
      <3> QED
        BY <2>5, <3>1 DEF MarkCompletedRaises, NextHistory, Remember, KeepsRow, CutShort
    <2>6. CASE HandlerStep(t)
      BY <1>4, <2>1, <2>2, <2>3, <2>4, <2>5, <2>6 DEF HandlerStep, Progress, FindGone, Refuse, Admit,
             HandlerRaises, NotConnected, Unusable, LoadToken, ConnectFails, SendRequest,
             PendingVanished, CancelDelete, EditMessage, EditFails, SafeSend, Finish, Holding
    <2>7. ~Deliver(t)
      BY <1>4 DEF Deliver, Deliverable, Holding
    <2> QED
      BY <1>4, <2>6, <2>7, WhoMoves, HistoryIsLifecycle DEF Holding, Running, CutShort
  <1> QED
    BY <1>1, <1>2, <1>3, <1>4 DEF CausesKnown, RowFollows

\* Who is about to say "Added" or "Cancelled." had it ready before, or has just
\* dealt with the row.
LEMMA NewVerdict ==
  ASSUME TypeOK, NEW t \in Tasks, FinalWords(t), HandlerStep(t), text'[t] \in Settling
  PROVE  /\ pc'[t] \in {"edit", "send", "finish"}
         /\ \/ text'[t] = text[t] /\ pc[t] \in {"edit", "send"}
            \/ PendingVanished(t) \/ DeletePending(t) \/ MarkCompletedRaises(t)
            \/ CancelDelete(t) /\ pc[t] = "delete" /\ text'[t] = "cancelled"
  <1> USE DEF TypeOK, Settling
  <1>0. text[t] \in Settling => pc[t] \in {"edit", "send", "finish"}
    BY DEF FinalWords
  <1>1. CASE EditMessage(t) \/ EditFails(t) \/ SafeSend(t)
    BY <1>1 DEF EditMessage, EditFails, SafeSend, Goto
  <1>2. CASE \/ Admit(t) \/ LoadToken(t) \/ SendRequest(t) \/ GetExpense(t)
             \/ CopyPending(t) \/ InsertCompleted(t)
    BY <1>0, <1>2 DEF Admit, LoadToken, SendRequest, GetExpense, CopyPending, InsertCompleted, Goto
  <1>3. CASE \/ FindGone(t) \/ Refuse(t) \/ HandlerRaises(t) \/ NotConnected(t)
             \/ ConnectFails(t) \/ Reject(t) \/ AbortsAfterSend(t) \/ TimesOut(t) \/ Finish(t)
    BY <1>0, <1>3 DEF FindGone, Refuse, HandlerRaises, NotConnected, ConnectFails, Reject,
           AbortsAfterSend, TimesOut, Finish, RetryOrGiveUp, Reply, Return
  <1>4. CASE Unusable(t)
    <2>1. Fit[D(t)] \subseteq {"ok", "corrupt", "unmatched"}
      BY LifecycleAssumption, TaskType
    <2> QED
      BY <1>4, <2>1 DEF Unusable, Reply
  <1>5. CASE PendingVanished(t) \/ DeletePending(t) \/ MarkCompletedRaises(t) \/ CancelDelete(t)
    BY <1>5 DEF PendingVanished, DeletePending, MarkCompletedRaises, CancelDelete, Reply
  <1> QED
    BY <1>1, <1>2, <1>3, <1>4, <1>5 DEF HandlerStep, Progress

LEMMA StepFinalWords ==
  ASSUME TypeOK, Authorised, CausesKnown, [NextHistory]_hvars, NEW t \in Tasks
  PROVE  FinalWords(t)'
  <1> SUFFICES ASSUME text'[t] \in Settling
               PROVE  /\ pc'[t] \in {"edit", "send", "finish"}
                      /\ D(t) \notin pending' \/ t \in kept'
                      /\ text'[t] = "cancelled" => \A r \in PostsOf(D(t))' :
                            CutShort(r.task)' \/ <<t, r.task>> \in met' \/ t \in kept'
    BY DEF FinalWords, Settling, D
  <1>1. FinalWords(t) /\ StartsClean(t)
    BY DEF CausesKnown
  <1>2. ASSUME text[t] \in Settling
        PROVE  D(t) \notin pending' \/ t \in kept'
    <2>1. pc[t] # "unborn" /\ (D(t) \notin pending \/ t \in kept)
      BY <1>1, <1>2 DEF FinalWords
    <2> QED
      BY <2>1, BornCaptured, StageAndRows, MemoryGrows, HistoryIsLifecycle, TaskType
  <1>3. ASSUME text[t] = "cancelled", text'[t] = "cancelled", NEW r \in PostsOf(D(t))'
        PROVE  CutShort(r.task)' \/ <<t, r.task>> \in met' \/ t \in kept'
    <2>1. r \in (posted \cup inflight)' /\ D(r.task) = D(t)
      BY DEF PostsOf, D
    <2>2. CASE r \in posted \cup inflight
      <3>1. r \in PostsOf(D(t)) /\ r.task \in Tasks
        BY <2>1, <2>2 DEF PostsOf, TypeOK, Requests
      <3> QED
        BY <1>1, <1>3, <3>1, MemoryGrows DEF FinalWords, Settling
    <2>3. CASE r \notin posted \cup inflight
      <3>1. /\ r.task \in Tasks /\ SendRequest(r.task) /\ pc[r.task] = "create"
            /\ pc'[r.task] = "await" /\ pc' = [pc EXCEPT ![r.task] = "await"]
        BY <2>1, <2>3, NewRequest, HistoryIsLifecycle DEF SendRequest, Goto
      <3>2. pc[t] \in {"edit", "send", "finish"}
        BY <1>1, <1>3 DEF FinalWords, Settling
      <3>3. CASE pc[t] \in {"edit", "send", "finish"} /\ Sibling(t, r.task)
        BY <3>1, <3>3, RunningMet DEF Running
      <3> QED
        BY <2>1, <3>1, <3>2, <3>3 DEF Sibling
    <2> QED
      BY <2>2, <2>3
  <1>4. CASE HandlerStep(t)
    <2>1. /\ pc'[t] \in {"edit", "send", "finish"}
          /\ \/ text'[t] = text[t] /\ pc[t] \in {"edit", "send"}
             \/ PendingVanished(t) \/ DeletePending(t) \/ MarkCompletedRaises(t)
             \/ CancelDelete(t) /\ pc[t] = "delete" /\ text'[t] = "cancelled"
      BY <1>1, <1>4, NewVerdict
    <2>2. CASE text'[t] = text[t]
      BY <1>2, <1>3, <2>1, <2>2
    <2>3. CASE PendingVanished(t) \/ DeletePending(t)
      BY <2>1, <2>3 DEF PendingVanished, DeletePending, Reply, TypeOK, db
    <2>4. ASSUME MarkCompletedRaises(t) \/ CancelDelete(t), text'[t] # text[t]
          PROVE  D(t) \notin pending' \/ t \in kept'
      <3>1. NextHistory
        BY <2>4 DEF hvars, vars
      <3>2. May("supabase") \/ D(t) \notin pending'
        BY <2>4 DEF MarkCompletedRaises, CancelDelete, Perhaps
      <3> QED
        BY <2>4, <3>1, <3>2 DEF NextHistory, Remember, KeepsRow
    <2>5. CASE MarkCompletedRaises(t) /\ text'[t] # text[t]
      BY <2>1, <2>4, <2>5 DEF MarkCompletedRaises, Reply, TypeOK
    <2>6. CASE CancelDelete(t) /\ pc[t] = "delete" /\ text'[t] # text[t]
      <3>1. ASSUME NEW r \in PostsOf(D(t))'
            PROVE  CutShort(r.task)' \/ <<t, r.task>> \in met'
        <4>1. /\ r \in posted \cup inflight /\ D(r.task) = D(t) /\ r.task \in Tasks
          BY <2>6 DEF CancelDelete, PostsOf, D, net, TypeOK, Requests
        <4>2. Sends(r.task) /\ r.task.tap.kind = "confirm" /\ t.tap.kind = "cancel"
          BY <4>1, <2>6, SendsCaptured DEF Sends, Authorised, TaskAuthorised
        <4>3. Sibling(r.task, t)
          BY <4>1, <4>2 DEF Sibling
        <4>4. <<r.task, t>> \in met \/ CutShort(r.task)
          BY <1>1, <2>6, <4>1, <4>2, <4>3 DEF StartsClean
        <4>5. <<r.task, t>> \in met => <<t, r.task>> \in met
          BY <4>1 DEF CausesKnown, MeetingsNoted
        <4> QED
          BY <4>1, <4>4, <4>5, MemoryGrows
      <3> QED
        BY <2>1, <2>4, <2>6, <3>1
    <2> QED
      BY <2>1, <2>2, <2>3, <2>4, <2>5, <2>6
  <1>5. CASE pc'[t] = pc[t] /\ text'[t] = text[t]
    BY <1>1, <1>2, <1>3, <1>5 DEF FinalWords
  <1>6. CASE Deliver(t)
    BY <1>1, <1>6 DEF Deliver, Deliverable, FinalWords
  <1>7. text'[t] # "none"
    BY DEF Settling
  <1> QED
    BY <1>4, <1>5, <1>6, <1>7, WhoMoves, HistoryIsLifecycle

LEMMA StepStartsClean ==
  ASSUME TypeOK, Authorised, CausesKnown, [NextHistory]_hvars, NEW v \in Tasks
  PROVE  StartsClean(v)'
  <1> DEFINE Begun == Posting \cup {"delete"}
  <1>1. ASSUME pc[v] \in Begun, NEW t \in Tasks, Sibling(t, v), Sends(t)'
        PROVE  <<t, v>> \in met' \/ CutShort(t)'
    <2>1. CASE Sends(t)
      BY <1>1, <2>1, MemoryGrows DEF CausesKnown, StartsClean
    <2>2. CASE ~Sends(t)
      <3>1. pc[t] = "create"
        BY <1>1, <2>2, NewRequest, HistoryIsLifecycle DEF Sends
      <3> QED
        BY <1>1, <3>1, RunningMet DEF Running, Posting
    <2> QED
      BY <2>1, <2>2
  <1>2. ASSUME pc[v] \in Begun, NEW x \in Taps, x.draft = D(v), "cancelled" \in said'[x]
        PROVE  \E t \in Tasks : t.tap = x /\ (<<t, v>> \in met' \/ t \in kept')
    <2>1. CASE "cancelled" \in said[x]
      BY <1>2, <2>1, MemoryGrows DEF CausesKnown, StartsClean
    <2>2. CASE "cancelled" \notin said[x]
      <3>1. PICK t \in Tasks : t.tap = x /\ D(t) = x.draft /\ pc[t] \in {"edit", "send"}
        BY <1>2, <2>2, NewWord, HistoryIsLifecycle
      <3>2. Sibling(t, v)
        BY <1>2, <3>1 DEF Sibling, Posting
      <3> QED
        BY <1>2, <3>1, <3>2, RunningMet DEF Running, Posting
    <2> QED
      BY <2>1, <2>2
  <1>3. ASSUME pc'[v] \in Begun, pc[v] \notin Begun
        PROVE  Admit(v)
    <2>1. ~Deliver(v) /\ pc'[v] # pc[v] /\ pc'[v] # "dead"
      BY <1>3 DEF Deliver, Posting, TypeOK
    <2>2. HandlerStep(v)
      BY <2>1, <1>3, WhoMoves, HistoryIsLifecycle
    <2> QED
      BY <1>3, <2>2 DEF HandlerStep, Progress, FindGone, Refuse, HandlerRaises, NotConnected,
             Unusable, LoadToken, ConnectFails, SendRequest, AbortsAfterSend, TimesOut, Reject,
             GetExpense, CopyPending, PendingVanished, InsertCompleted, DeletePending,
             MarkCompletedRaises, CancelDelete, EditMessage, EditFails, SafeSend, Finish,
             RetryOrGiveUp, Goto, Reply, Return, TypeOK, Posting
  <1>4. ASSUME Admit(v)
        PROVE  /\ D(v) \in pending /\ pc[v] = "read"
               /\ posted' = posted /\ inflight' = inflight /\ said' = said
    BY <1>4 DEF Admit, net, chat
  <1>5. ASSUME Admit(v), NEW t \in Tasks, Sibling(t, v), Sends(t)'
        PROVE  <<t, v>> \in met' \/ CutShort(t)'
    <2>1. Sends(t) /\ D(t) \in pending
      BY <1>4, <1>5 DEF Sends, Sibling
    <2>2. pc[t] \in Holding \/ CutShort(t)
      BY <2>1 DEF CausesKnown, RowFollows
    <2>3. CASE pc[t] \in Holding
      BY <1>4, <1>5, <2>3, RunningMet DEF Holding, Running
    <2> QED
      BY <2>2, <2>3, MemoryGrows
  <1>6. ASSUME Admit(v), NEW x \in Taps, x.draft = D(v), "cancelled" \in said'[x]
        PROVE  \E t \in Tasks : t.tap = x /\ t \in kept'
    BY <1>4, <1>6, MemoryGrows DEF CausesKnown, SaidForGood, Settling
  <1> HIDE DEF Begun
  <1>7. /\ pc'[v] \in Begun =>
             \A t \in Tasks : Sibling(t, v) /\ Sends(t)' => <<t, v>> \in met' \/ CutShort(t)'
        /\ pc'[v] \in Begun =>
             \A x \in Taps : x.draft = D(v) /\ "cancelled" \in said'[x] =>
                \E t \in Tasks : t.tap = x /\ (<<t, v>> \in met' \/ t \in kept')
    BY <1>1, <1>2, <1>3, <1>5, <1>6
  <1> QED
    BY <1>7 DEF StartsClean, Begun, Sibling, D

LEMMA StepSaidForGood ==
  ASSUME TypeOK, Authorised, CausesKnown, [NextHistory]_hvars, NEW x \in Taps
  PROVE  SaidForGood(x)'
  <1> SUFFICES ASSUME said'[x] \cap Settling # {}
               PROVE  /\ stage'[x.draft] # "none"
                      /\ x.draft \notin pending' \/ \E t \in Tasks : t.tap = x /\ t \in kept'
    BY DEF SaidForGood
  <1>1. x.draft \in Drafts
    BY LifecycleAssumption
  <1>2. CASE said[x] \cap Settling # {}
    BY <1>1, <1>2, StageAndRows, MemoryGrows, HistoryIsLifecycle DEF CausesKnown, SaidForGood
  <1>3. CASE said[x] \cap Settling = {}
    <2>1. PICK w \in Settling : w \in said'[x] /\ w \notin said[x]
      BY <1>3
    <2>2. PICK t \in Tasks : t.tap = x /\ D(t) = x.draft /\ pc[t] \in {"edit", "send"} /\ text[t] = w
      BY <2>1, NewWord, HistoryIsLifecycle
    <2>3. stage[x.draft] # "none" /\ (x.draft \notin pending \/ t \in kept)
      BY <2>1, <2>2, BornCaptured DEF CausesKnown, FinalWords
    <2> QED
      BY <1>1, <2>2, <2>3, StageAndRows, MemoryGrows, HistoryIsLifecycle
  <1> QED
    BY <1>2, <1>3

\* A new request meets the requests of others, and its own earlier one, for a reason.
LEMMA NewRequestHasCause ==
  ASSUME TypeOK, Authorised, CausesKnown, [NextHistory]_hvars,
         NEW r \in (posted \cup inflight)', r \notin posted \cup inflight,
         NEW u \in posted \cup inflight, D(r.task) = D(u.task)
  PROVE  <<u.task, r.task>> \in met \/ CutShort(r.task) \/ CutShort(u.task)
  <1>1. r.task \in Tasks /\ pc[r.task] = "create"
    BY NewRequest, HistoryIsLifecycle
  <1>2. u.task \in Tasks /\ Sends(u.task)
    BY DEF TypeOK, Requests, Sends
  <1>3. CASE u.task = r.task
    BY <1>1, <1>2, <1>3 DEF CausesKnown, SoleRequest, Unsent, CutShort
  <1>4. CASE u.task # r.task
    BY <1>1, <1>2, <1>4 DEF CausesKnown, StartsClean, Posting, Sibling
  <1> QED
    BY <1>3, <1>4

LEMMA StepDuplicates ==
  ASSUME TypeOK, Authorised, CausesKnown, [NextHistory]_hvars
  PROVE  DuplicatesHaveCause'
  <1> DEFINE Cause(t, u) == <<t, u>> \in met \/ CutShort(t) \/ CutShort(u)
  <1>1. ASSUME NEW t \in Tasks, NEW u \in Tasks, Cause(t, u)
        PROVE  Cause(t, u)' /\ Cause(u, t)'
    BY <1>1, MemoryGrows DEF CausesKnown, MeetingsNoted
  <1>2. \A r \in (posted \cup inflight)' : r.task \in Tasks
    BY StepType, HistoryIsLifecycle DEF TypeOK, Requests
  <1>3. ASSUME NEW r \in (posted \cup inflight)', NEW u \in (posted \cup inflight)',
               r # u, D(r.task) = D(u.task)
        PROVE  Cause(r.task, u.task)'
    <2>1. CASE r \in posted \cup inflight /\ u \in posted \cup inflight
      BY <1>1, <1>2, <1>3, <2>1 DEF CausesKnown, DuplicatesHaveCause
    <2>2. CASE r \notin posted \cup inflight /\ u \in posted \cup inflight
      BY <1>1, <1>2, <1>3, <2>2, NewRequestHasCause
    <2>3. CASE r \in posted \cup inflight /\ u \notin posted \cup inflight
      BY <1>1, <1>2, <1>3, <2>3, NewRequestHasCause
    <2>4. CASE r \notin posted \cup inflight /\ u \notin posted \cup inflight
      BY <1>3, <2>4, NewRequest, HistoryIsLifecycle
    <2> QED
      BY <2>1, <2>2, <2>3, <2>4
  <1> QED
    BY <1>3 DEF DuplicatesHaveCause, D

LEMMA StepCancelledPosts ==
  ASSUME TypeOK, Authorised, CausesKnown, [NextHistory]_hvars
  PROVE  CancelledPostsHaveCause'
  <1> SUFFICES ASSUME NEW x \in Taps, "cancelled" \in said'[x], NEW r \in (posted \cup inflight)',
                      D(r.task) = x.draft
               PROVE  \/ CutShort(r.task)'
                      \/ \E t \in Tasks : t.tap = x /\ (<<t, r.task>> \in met' \/ t \in kept')
    BY DEF CancelledPostsHaveCause, PostsOf, D
  <1>1. CASE "cancelled" \in said[x] /\ r \in posted \cup inflight
    <2>1. r \in PostsOf(x.draft) /\ r.task \in Tasks
      BY <1>1 DEF PostsOf, TypeOK, Requests
    <2> QED
      BY <1>1, <2>1, MemoryGrows DEF CausesKnown, CancelledPostsHaveCause
  <1>2. CASE "cancelled" \in said[x] /\ r \notin posted \cup inflight
    <2>1. r.task \in Tasks /\ pc[r.task] = "create"
      BY <1>2, NewRequest, HistoryIsLifecycle
    <2>2. StartsClean(r.task) /\ pc[r.task] \in Posting
      BY <2>1 DEF CausesKnown, Posting
    <2> QED
      BY <1>2, <2>1, <2>2, MemoryGrows DEF StartsClean
  <1>3. CASE "cancelled" \notin said[x]
    <2>1. PICK t \in Tasks : /\ t.tap = x /\ D(t) = x.draft /\ text[t] = "cancelled"
                             /\ posted' = posted /\ inflight' = inflight
      BY <1>3, NewWord, HistoryIsLifecycle
    <2>2. r \in PostsOf(D(t)) /\ r.task \in Tasks
      BY <2>1 DEF PostsOf, TypeOK, Requests
    <2> QED
      BY <2>1, <2>2, MemoryGrows DEF CausesKnown, FinalWords
  <1> QED
    BY <1>1, <1>2, <1>3

LEMMA StepCauses == TypeOK /\ Authorised /\ CausesKnown /\ [NextHistory]_hvars => CausesKnown'
  <1> SUFFICES ASSUME TypeOK, Authorised, CausesKnown, [NextHistory]_hvars PROVE CausesKnown'
    OBVIOUS
  <1> QED
    BY StepMeetings, StepSoleRequest, StepRowFollows, StepFinalWords, StepStartsClean,
       StepSaidForGood, StepDuplicates, StepCancelledPosts DEF CausesKnown

LEMMA InitCauses == InitHistory => CausesKnown
  BY DEF InitHistory, Init, CausesKnown, MeetingsNoted, SoleRequest, RowFollows, FinalWords,
     StartsClean, SaidForGood, DuplicatesHaveCause, CancelledPostsHaveCause, Sends, Sibling,
     Running, Posting, Settling, PostsOf

\* What is known of the lifecycle holds with its memory.
LEMMA HistoryAuthorised == HistorySpec => [](TypeOK /\ Authorised)
  BY HistoryIsLifecycle, InitType, StepType, InitAuthorised, StepAuthorised, PTL DEF HistorySpec

LEMMA CausesAlwaysKnown == HistorySpec => []CausesKnown
  BY HistoryAuthorised, InitCauses, StepCauses, PTL DEF HistorySpec

\* Whatever fails, overlaps, is redelivered or crashes: two expenses of one draft come
\* from two Confirms that ran beside each other or from one that was cut short.
THEOREM DuplicatesAlwaysHaveCause == HistorySpec => []DuplicatesHaveCause
  <1>1. CausesKnown => DuplicatesHaveCause
    BY DEF CausesKnown
  <1> QED
    BY <1>1, CausesAlwaysKnown, PTL

\* And an expense of a draft whose cancellation was announced comes from a Confirm
\* beside the Cancel or cut short before it, or from a row the Cancel failed to delete.
THEOREM CancelledPostsAlwaysHaveCause == HistorySpec => []CancelledPostsHaveCause
  <1>1. CausesKnown => CancelledPostsHaveCause
    BY DEF CausesKnown
  <1> QED
    BY <1>1, CausesAlwaysKnown, PTL

\* After "Added to Splitwise" the row is gone, unless mark_completed failed.
THEOREM AddedStaysSettled == HistorySpec => []AddedIsSettled
  <1>1. CausesKnown => AddedIsSettled
    BY DEF CausesKnown, SaidForGood, AddedIsSettled, Settling
  <1> QED
    BY <1>1, CausesAlwaysKnown, PTL

=============================================================================
