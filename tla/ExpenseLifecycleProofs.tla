----------------------- MODULE ExpenseLifecycleProofs -----------------------
(***************************************************************************)
(* Theorems about ExpenseLifecycle for every set of drafts, users and taps *)
(* and every bound.                                                        *)
(***************************************************************************)
EXTENDS ExpenseProperties, TLAPS

\* The request a task is at is a request.
LEMMA ReqType == ASSUME TypeOK, NEW t \in Tasks PROVE Req(t) \in Requests
  BY DEF TypeOK, Req, Requests

\* The parts of a task have the types of a tap.
LEMMA TaskType ==
  ASSUME NEW t \in Tasks
  PROVE  /\ t.tap \in Taps
         /\ t.n \in 1..MaxDeliveries
         /\ D(t) \in Drafts
         /\ t.tap.copy \in Copies
         /\ t.tap.tapper \in Users
         /\ t.tap.kind \in {"confirm", "cancel"}
  BY LifecycleAssumption DEF Tasks, D

\* Init establishes the types.
LEMMA InitType == Init => TypeOK
  BY LifecycleAssumption DEF Init, TypeOK, Running, Texts

\* Every handler step of a task preserves the types.
LEMMA HandlerType ==
  ASSUME TypeOK, NEW t \in Tasks, HandlerStep(t)
  PROVE  TypeOK'
  <1> USE TaskType, ReqType DEF TypeOK, Running, Texts, Outcomes, Perhaps,
          db, net, chat, updates, capture, process, Goto, Reply
  <1>1. CASE FindGone(t) \/ Refuse(t) \/ Admit(t) \/ NotConnected(t) \/ LoadToken(t)
             \/ GetExpense(t) \/ CopyPending(t) \/ PendingVanished(t) \/ TimesOut(t)
    BY <1>1 DEF FindGone, Refuse, Admit, NotConnected, LoadToken, GetExpense,
                CopyPending, PendingVanished, TimesOut
  <1>2. CASE HandlerRaises(t)
    BY <1>2, LifecycleAssumption DEF HandlerRaises, Return
  <1>3. CASE Unusable(t)
    BY <1>3, LifecycleAssumption DEF Unusable
  <1>4. CASE ConnectFails(t) \/ AbortsAfterSend(t)
    <2>1. RetryOrGiveUp(t) /\ UNCHANGED <<db, net, chat, outcome, updates, capture>>
      BY <1>4 DEF ConnectFails, AbortsAfterSend
    <2>2. attempt[t] < MaxAttempts => attempt[t] + 1 \in 1..MaxAttempts
      BY LifecycleAssumption
    <2>3. pc' \in [Tasks -> Running \cup {"unborn", "done", "dead"}]
          /\ attempt' \in [Tasks -> 1..MaxAttempts] /\ text' \in [Tasks -> Texts]
      BY <2>1, <2>2 DEF RetryOrGiveUp
    <2> QED
      BY <2>1, <2>3
  <1>5. CASE SendRequest(t) \/ Reject(t)
    BY <1>5 DEF SendRequest, Reject
  <1>6. CASE InsertCompleted(t) \/ DeletePending(t) \/ MarkCompletedRaises(t)
             \/ CancelDelete(t)
    BY <1>6 DEF InsertCompleted, DeletePending, MarkCompletedRaises, CancelDelete
  <1>7. CASE EditMessage(t) \/ EditFails(t)
    BY <1>7 DEF EditMessage, EditFails, Edit, Tell
  <1>8. CASE SafeSend(t)
    BY <1>8 DEF SafeSend, Tell
  <1>9. CASE Finish(t)
    <2>1. EndMark(text[t]) \subseteq Outcomes
      BY DEF EndMark
    <2>2. outcome' \in [Drafts -> SUBSET Outcomes]
      BY <1>9, <2>1 DEF Finish
    <2>3. acked' \subseteq Taps /\ pc' = [pc EXCEPT ![t] = "done"]
      BY <1>9 DEF Finish, Return
    <2> QED
      BY <1>9, <2>2, <2>3, LifecycleAssumption DEF Finish, Return
  <1> QED
    BY <1>1, <1>2, <1>3, <1>4, <1>5, <1>6, <1>7, <1>8, <1>9 DEF HandlerStep, Progress

\* Every other step preserves them too.
LEMMA StepType == TypeOK /\ [Next]_vars => TypeOK'
  <1> SUFFICES ASSUME TypeOK, [Next]_vars PROVE TypeOK'
    OBVIOUS
  <1> USE DEF TypeOK, Running, Outcomes, Perhaps, db, net, chat, updates, capture,
              process, Goto
  <1>1. ASSUME NEW d \in Drafts, SaveDraft(d) \/ ShowDraft(d) \/ Expire(d)
        PROVE  TypeOK'
    BY <1>1 DEF SaveDraft, ShowDraft, Expire
  <1>2. ASSUME NEW d \in Drafts, MarkAbandoned(d) PROVE TypeOK'
    BY <1>2 DEF MarkAbandoned
  <1>3. ASSUME NEW x \in Taps, Tap(x) PROVE TypeOK'
    BY <1>3 DEF Tap
  <1>4. ASSUME NEW t \in Tasks, Deliver(t) PROVE TypeOK'
    BY <1>4 DEF Deliver
  <1>5. ASSUME NEW t \in Tasks, HandlerStep(t) PROVE TypeOK'
    BY <1>5, HandlerType
  <1>6. ASSUME NEW r \in Requests, Accept(r) \/ Lose(r) PROVE TypeOK'
    BY <1>6 DEF Accept, Lose
  <1>7. CASE Sweep \/ SweepFails
    BY <1>7 DEF Sweep, SweepFails
  <1>8. CASE Crash
    BY <1>8, LifecycleAssumption DEF Crash, Texts
  <1>9. CASE UNCHANGED vars
    BY <1>9 DEF vars
  <1> QED
    BY <1>1, <1>2, <1>3, <1>4, <1>5, <1>6, <1>7, <1>8, <1>9 DEF Next

\* Every variable keeps its type in every behaviour of the lifecycle.
THEOREM TypeCorrect == Spec => []TypeOK
  BY InitType, StepType, PTL DEF Spec

-----------------------------------------------------------------------------
(* Authorised                                                              *)

LEMMA InitAuthorised == Init => Authorised
  BY LifecycleAssumption
  DEF Init, Authorised, Captured, TaskAuthorised, AddedIsReal

\* Up to the answer of Splitwise.
LEMMA ConfirmAuthorised ==
  ASSUME TypeOK, Authorised, NEW t \in Tasks,
         \/ FindGone(t) \/ Refuse(t) \/ Admit(t) \/ HandlerRaises(t)
         \/ NotConnected(t) \/ Unusable(t) \/ LoadToken(t)
         \/ ConnectFails(t) \/ SendRequest(t) \/ AbortsAfterSend(t) \/ TimesOut(t)
         \/ Reject(t) \/ GetExpense(t)
  PROVE  Authorised'
  <1> USE TaskType DEF TypeOK, Authorised, db, net, chat, updates, capture
  <1>1. UNCHANGED <<stage, pending, keyboards, tapped, posted, completed, said>>
    BY DEF FindGone, Refuse, Admit, HandlerRaises, NotConnected, Unusable, LoadToken,
           ConnectFails, SendRequest, AbortsAfterSend, TimesOut, Reject, GetExpense,
           Return
  <1>2. Captured' /\ AddedIsReal' /\ (completed \subseteq posted)'
    BY <1>1 DEF Captured, AddedIsReal
  <1>3. \A u \in Tasks : TaskAuthorised(u)'
    <2> SUFFICES ASSUME NEW u \in Tasks PROVE TaskAuthorised(u)'
      OBVIOUS
    <2>1. CASE u # t
      <3>1. pc'[u] = pc[u] /\ text'[u] = text[u] /\ attempt'[u] = attempt[u]
        <4>1. CASE ConnectFails(t) \/ AbortsAfterSend(t)
          BY <2>1, <4>1 DEF ConnectFails, AbortsAfterSend, RetryOrGiveUp, Reply
        <4>2. CASE HandlerRaises(t)
          BY <2>1, <4>2 DEF HandlerRaises, Return
        <4>3. CASE ~(ConnectFails(t) \/ AbortsAfterSend(t) \/ HandlerRaises(t))
          BY <2>1, <4>3 DEF FindGone, Refuse, Admit, NotConnected, Unusable, LoadToken,
                 SendRequest, TimesOut, Reject, GetExpense, Goto, Reply
        <4> QED
          BY <4>1, <4>2, <4>3
      <3> QED
        BY <1>1, <3>1 DEF TaskAuthorised, Req
    <2>2. CASE u = t
      <3>1. CASE FindGone(t) \/ Refuse(t) \/ NotConnected(t) \/ TimesOut(t) \/ Reject(t)
        BY <1>1, <2>2, <3>1 DEF TaskAuthorised, Reply, FindGone, Refuse, NotConnected,
                                TimesOut, Reject
      <3>2. CASE Admit(t) \/ LoadToken(t) \/ SendRequest(t) \/ GetExpense(t)
        BY <1>1, <2>2, <3>2 DEF TaskAuthorised, Goto, Req, D, Admit, MayTap, LoadToken,
                                SendRequest, GetExpense
      <3>3. CASE HandlerRaises(t)
        BY <1>1, <2>2, <3>3 DEF TaskAuthorised, HandlerRaises, Return
      <3>4. CASE Unusable(t)
        BY <1>1, <2>2, <3>4, LifecycleAssumption DEF TaskAuthorised, Reply, Unusable
      <3>5. CASE ConnectFails(t) \/ AbortsAfterSend(t)
        BY <1>1, <2>2, <3>5 DEF TaskAuthorised, Reply, ConnectFails, AbortsAfterSend,
                                RetryOrGiveUp
      <3> QED
        BY <3>1, <3>2, <3>3, <3>4, <3>5
    <2> QED
      BY <2>1, <2>2
  <1>4. \A r \in (inflight \cup posted)' : RequestAuthorised(r)'
    <2>1. CASE SendRequest(t)
      BY <1>1, <2>1 DEF SendRequest, Req, RequestAuthorised, TaskAuthorised
    <2>2. CASE ~SendRequest(t)
      BY <1>1, <2>2 DEF FindGone, Refuse, Admit, HandlerRaises, NotConnected, Unusable,
             LoadToken, ConnectFails, AbortsAfterSend, TimesOut, Reject, GetExpense,
             RequestAuthorised
    <2> QED
      BY <2>1, <2>2
  <1> QED
    BY <1>2, <1>3, <1>4

\* From the answer of Splitwise to the end of the handler.
LEMMA EndAuthorised ==
  ASSUME TypeOK, Authorised, NEW t \in Tasks,
         \/ CopyPending(t) \/ PendingVanished(t) \/ InsertCompleted(t)
         \/ DeletePending(t) \/ MarkCompletedRaises(t) \/ CancelDelete(t)
         \/ EditMessage(t) \/ EditFails(t) \/ SafeSend(t) \/ Finish(t)
  PROVE  Authorised'
  <1> USE TaskType DEF TypeOK, Authorised, db, net, chat, updates, capture
  <1>1. UNCHANGED <<stage, tapped, inflight, posted>> /\ pending' \subseteq pending
    BY DEF CopyPending, PendingVanished, InsertCompleted, DeletePending,
           MarkCompletedRaises, CancelDelete, EditMessage, EditFails, SafeSend, Finish,
           Return, Perhaps
  <1>2. \A d \in Drafts : keyboards'[d] \subseteq keyboards[d]
    BY DEF CopyPending, PendingVanished, InsertCompleted, DeletePending,
           MarkCompletedRaises, CancelDelete, EditMessage, EditFails, SafeSend, Finish, Edit
  <1>3. Captured'
    BY <1>1, <1>2 DEF Captured
  <1>4. \A u \in Tasks : TaskAuthorised(u)'
    <2> SUFFICES ASSUME NEW u \in Tasks PROVE TaskAuthorised(u)'
      OBVIOUS
    <2>1. CASE u # t
      <3>1. pc'[u] = pc[u] /\ text'[u] = text[u] /\ attempt'[u] = attempt[u]
        BY <2>1 DEF CopyPending, PendingVanished, InsertCompleted, DeletePending,
               MarkCompletedRaises, CancelDelete, EditMessage, EditFails, SafeSend,
               Finish, Return, Goto, Reply
      <3> QED
        BY <1>1, <3>1 DEF TaskAuthorised, Req
    <2>2. CASE u = t
      <3>1. CASE CopyPending(t) \/ InsertCompleted(t)
        BY <1>1, <2>2, <3>1 DEF TaskAuthorised, Goto, Req, CopyPending, InsertCompleted
      <3>2. CASE PendingVanished(t) \/ DeletePending(t) \/ MarkCompletedRaises(t)
        BY <1>1, <2>2, <3>2 DEF TaskAuthorised, Reply, Req, PendingVanished,
                                DeletePending, MarkCompletedRaises
      <3>3. CASE CancelDelete(t)
        BY <1>1, <2>2, <3>3 DEF TaskAuthorised, Reply, CancelDelete
      <3>4. CASE EditMessage(t) \/ EditFails(t) \/ SafeSend(t)
        BY <1>1, <2>2, <3>4 DEF TaskAuthorised, Goto, EditMessage, EditFails, SafeSend
      <3>5. CASE Finish(t)
        BY <1>1, <2>2, <3>5 DEF TaskAuthorised, Finish, Return
      <3> QED
        BY <3>1, <3>2, <3>3, <3>4, <3>5
    <2> QED
      BY <2>1, <2>2
  <1>5. \A r \in (inflight \cup posted)' : RequestAuthorised(r)'
    BY <1>1 DEF RequestAuthorised
  <1>6. (completed \subseteq posted)'
    <2>1. \/ UNCHANGED completed
          \/ pc[t] = "insert" /\ completed' = completed \cup {Req(t)}
      BY DEF CopyPending, PendingVanished, InsertCompleted, DeletePending,
             MarkCompletedRaises, CancelDelete, EditMessage, EditFails, SafeSend, Finish
    <2> QED
      BY <1>1, <2>1 DEF TaskAuthorised
  <1>7. AddedIsReal'
    <2>1. \/ UNCHANGED said
          \/ pc[t] \in {"edit", "send"} /\ Tell(t)
      BY DEF CopyPending, PendingVanished, InsertCompleted, DeletePending,
             MarkCompletedRaises, CancelDelete, EditMessage, EditFails, SafeSend, Finish,
             Edit
    <2>2. CASE UNCHANGED said
      BY <1>1, <2>2 DEF AddedIsReal
    <2>3. CASE pc[t] \in {"edit", "send"} /\ Tell(t)
      BY <1>1, <2>3, TaskType DEF AddedIsReal, TaskAuthorised, Tell, D
    <2> QED
      BY <2>1, <2>2, <2>3
  <1> QED
    BY <1>3, <1>4, <1>5, <1>6, <1>7

\* A crash leaves no task running.
LEMMA CrashAuthorised == ASSUME TypeOK, Authorised, Crash PROVE Authorised'
  <1>1. /\ UNCHANGED <<pending, keyboards, tapped, inflight, posted, completed, said>>
        /\ \A d \in Drafts : stage[d] # "none" => stage'[d] # "none"
    BY DEF TypeOK, Crash, db, net, chat, updates
  <1>2. ASSUME NEW t \in Tasks PROVE TaskAuthorised(t)'
    <2>1. pc'[t] = IF pc[t] \in Running THEN "dead" ELSE pc[t]
      BY DEF Crash
    <2>2. pc'[t] # "unborn" => t.tap \in tapped'
      BY <1>1, <2>1 DEF Authorised, TaskAuthorised, Running
    <2>3. pc'[t] \notin Running
      BY <2>1 DEF Running
    <2> QED
      BY <2>2, <2>3 DEF TaskAuthorised, Running
  <1>3. Captured'
    BY <1>1, LifecycleAssumption DEF Authorised, Captured, TypeOK
  <1> QED
    BY <1>1, <1>2, <1>3 DEF Authorised, RequestAuthorised, AddedIsReal

LEMMA StepAuthorised == TypeOK /\ Authorised /\ [Next]_vars => Authorised'
  <1> SUFFICES ASSUME TypeOK, Authorised, [Next]_vars PROVE Authorised'
    OBVIOUS
  <1> USE TaskType DEF TypeOK, Authorised, Captured, TaskAuthorised, RequestAuthorised,
          AddedIsReal, db, net, chat, updates, capture, process, Req, D
  <1>1. ASSUME NEW d \in Drafts, SaveDraft(d) PROVE Authorised'
    BY <1>1 DEF SaveDraft
  <1>2. ASSUME NEW d \in Drafts, ShowDraft(d) PROVE Authorised'
    BY <1>2 DEF ShowDraft
  <1>3. ASSUME NEW d \in Drafts, Expire(d) \/ MarkAbandoned(d) PROVE Authorised'
    BY <1>3 DEF Expire, MarkAbandoned
  <1>4. ASSUME NEW x \in Taps, Tap(x) PROVE Authorised'
    BY <1>4, LifecycleAssumption DEF Tap
  <1>5. ASSUME NEW t \in Tasks, Deliver(t) PROVE Authorised'
    BY <1>5 DEF Deliver, Deliverable
  <1>6. ASSUME NEW t \in Tasks, HandlerStep(t) PROVE Authorised'
    BY <1>6, ConfirmAuthorised, EndAuthorised DEF HandlerStep, Progress
  <1>7. ASSUME NEW r \in Requests, Accept(r) \/ Lose(r) PROVE Authorised'
    BY <1>7 DEF Accept, Lose
  <1>8. CASE Sweep \/ SweepFails
    BY <1>8 DEF Sweep, SweepFails
  <1>9. CASE Crash
    BY <1>9, CrashAuthorised
  <1>10. CASE UNCHANGED vars
    BY <1>10 DEF vars
  <1> QED
    BY <1>1, <1>2, <1>3, <1>4, <1>5, <1>6, <1>7, <1>8, <1>9, <1>10 DEF Next

\* Authorised holds in every behaviour.
THEOREM AlwaysAuthorised == Spec => []Authorised
  BY InitType, StepType, InitAuthorised, StepAuthorised, PTL DEF Spec

\* Nobody is ever told of an expense that does not exist.
THEOREM AddedIsAlwaysReal == Spec => []AddedIsReal
  <1>1. Authorised => AddedIsReal
    BY DEF Authorised, AddedIsReal
  <1> QED
    BY <1>1, AlwaysAuthorised, PTL

-----------------------------------------------------------------------------
(* The contract                                                            *)

\* The contract's view of a step that creates no expense and reopens nothing:
\* it closes the drafts that can no longer be posted.
LEMMA ClosingStep ==
  ASSUME \A d \in Drafts : stage'[d] = "none" <=> stage[d] = "none",
         \A d \in Drafts : Postable(d)' => Postable(d),
         UNCHANGED <<posted, completed>>
  PROVE  C!Next
  <1> DEFINE S == {d \in Drafts : Phase(d) = "open" /\ Phase(d)' = "closed"}
  <1>1. [d \in Drafts |-> Phase(d)]' = [d \in Drafts |-> IF d \in S THEN "closed" ELSE Phase(d)]
    BY DEF Phase
  <1>2. C!Close(S)
    BY <1>1 DEF C!Close
  <1> QED
    BY <1>2 DEF C!Next

\* No handler step makes a draft postable again: a confirm starts only on a row
\* it found.
LEMMA HandlerNeverReopens ==
  ASSUME TypeOK, NEW t \in Tasks, HandlerStep(t)
  PROVE  \A d \in Drafts : Postable(d)' => Postable(d)
  <1> USE DEF TypeOK, db, net, chat, updates, capture
  <1>1. pending' \subseteq pending
    BY DEF HandlerStep, Progress, FindGone, Refuse, Admit, HandlerRaises, NotConnected, Unusable,
           LoadToken, ConnectFails, SendRequest, AbortsAfterSend, TimesOut, Reject,
           GetExpense, CopyPending, PendingVanished, InsertCompleted, DeletePending,
           MarkCompletedRaises, CancelDelete, EditMessage, EditFails, SafeSend, Finish,
           Perhaps
  <1>2. \/ inflight' \subseteq inflight
        \/ pc[t] = "create" /\ inflight' = inflight \cup {Req(t)}
    BY DEF HandlerStep, Progress, FindGone, Refuse, Admit, HandlerRaises, NotConnected, Unusable,
           LoadToken, ConnectFails, SendRequest, AbortsAfterSend, TimesOut, Reject,
           GetExpense, CopyPending, PendingVanished, InsertCompleted, DeletePending,
           MarkCompletedRaises, CancelDelete, EditMessage, EditFails, SafeSend, Finish
  <1>3. \A u \in Tasks : u # t => pc'[u] = pc[u]
    BY DEF HandlerStep, Progress, FindGone, Refuse, Admit, HandlerRaises, NotConnected, Unusable,
           LoadToken, ConnectFails, SendRequest, AbortsAfterSend, TimesOut, Reject,
           GetExpense, CopyPending, PendingVanished, InsertCompleted, DeletePending,
           MarkCompletedRaises, CancelDelete, EditMessage, EditFails, SafeSend, Finish,
           RetryOrGiveUp, Goto, Reply, Return
  <1>4. pc'[t] \in Posting => pc[t] \in Posting \/ D(t) \in pending
    BY DEF HandlerStep, Progress, FindGone, Refuse, Admit, HandlerRaises, NotConnected, Unusable,
           LoadToken, ConnectFails, SendRequest, AbortsAfterSend, TimesOut, Reject,
           GetExpense, CopyPending, PendingVanished, InsertCompleted, DeletePending,
           MarkCompletedRaises, CancelDelete, EditMessage, EditFails, SafeSend, Finish,
           RetryOrGiveUp, Goto, Reply, Return, Posting
  <1> SUFFICES ASSUME NEW d \in Drafts, Postable(d)' PROVE Postable(d)
    OBVIOUS
  <1>5. CASE d \in pending'
    BY <1>1, <1>5 DEF Postable
  <1>6. CASE \E u \in Tasks : D(u) = d /\ pc'[u] \in Posting
    BY <1>3, <1>4, <1>6 DEF Postable, Posting
  <1>7. CASE \E r \in inflight' : D(r.task) = d
    BY <1>2, <1>7 DEF Postable, Req
  <1> QED
    BY <1>5, <1>6, <1>7 DEF Postable, Posting

\* Recording an expense that is on Splitwise, the row still there.
LEMMA RecordingStep ==
  ASSUME TypeOK, Authorised, NEW t \in Tasks, pc[t] = "insert",
         completed' = completed \cup {Req(t)},
         \A u \in Tasks : u # t => pc'[u] = pc[u], pc'[t] \notin Posting,
         UNCHANGED <<stage, pending, inflight, posted>>
  PROVE  C!Next
  <1>1. Req(t) \in Requests /\ Req(t) \in posted
    BY ReqType DEF Authorised, TaskAuthorised
  <1>2. \A d \in Drafts : Phase(d)' = Phase(d)
    BY DEF Phase, Postable, Posting
  <1>3. C!Record(Req(t))
    BY <1>1, <1>2 DEF C!Record
  <1> QED
    BY <1>1, <1>3 DEF C!Next

LEMMA HandlerRefines ==
  ASSUME TypeOK, Authorised, NEW t \in Tasks, HandlerStep(t)
  PROVE  C!Next
  <1>1. UNCHANGED <<stage, posted>>
    BY DEF HandlerStep, Progress, FindGone, Refuse, Admit, HandlerRaises, NotConnected, Unusable,
           LoadToken, ConnectFails, SendRequest, AbortsAfterSend, TimesOut, Reject,
           GetExpense, CopyPending, PendingVanished, InsertCompleted, DeletePending,
           MarkCompletedRaises, CancelDelete, EditMessage, EditFails, SafeSend, Finish,
           net, capture
  <1>2. CASE UNCHANGED completed
    BY <1>1, <1>2, HandlerNeverReopens, ClosingStep
  <1>3. CASE completed' # completed
    <2>1. \/ InsertCompleted(t)
          \/ MarkCompletedRaises(t) /\ pc[t] = "insert" /\ completed' = completed \cup {Req(t)}
      BY <1>3 DEF HandlerStep, Progress, FindGone, Refuse, Admit, HandlerRaises, NotConnected,
             Unusable, LoadToken, ConnectFails, SendRequest, AbortsAfterSend, TimesOut,
             Reject, GetExpense, CopyPending, PendingVanished, DeletePending,
             MarkCompletedRaises, CancelDelete, EditMessage, EditFails, SafeSend, Finish, db
    <2>2. /\ pc[t] = "insert" /\ completed' = completed \cup {Req(t)}
          /\ UNCHANGED <<pending, inflight>>
      BY <2>1 DEF InsertCompleted, MarkCompletedRaises, net
    <2>3. pc' = [pc EXCEPT ![t] = "unlink"] \/ pc' = [pc EXCEPT ![t] = "edit"]
      BY <2>1 DEF InsertCompleted, MarkCompletedRaises, Goto, Reply
    <2>4. /\ \A u \in Tasks : u # t => pc'[u] = pc[u]
          /\ pc'[t] \notin Posting
      BY <2>3 DEF TypeOK, Posting
    <2> QED
      BY <1>1, <2>2, <2>4, RecordingStep
  <1> QED
    BY <1>2, <1>3

\* Splitwise carries out a request of the payer.
LEMMA AcceptRefines ==
  ASSUME TypeOK, Authorised, NEW r \in Requests, Accept(r)
  PROVE  C!Next
  <1>1. UNCHANGED <<stage, pending, pc, completed>> /\ inflight' = inflight \ {r}
        /\ r \in inflight /\ posted' = posted \cup {r}
    BY DEF Accept, db, process, capture
  <1>2. D(r.task) \in Drafts
    BY TaskType DEF Requests
  <1>3. RequestAuthorised(r)
    BY <1>1 DEF Authorised
  <1>4. stage[D(r.task)] # "none"
    BY <1>3 DEF RequestAuthorised, Authorised, Captured, D
  <1>5. Phase(D(r.task)) = "open" /\ Phase(D(r.task))' \in {"open", "closed"}
    BY <1>1, <1>4 DEF Phase, Postable
  <1>6. \A d \in Drafts : d # D(r.task) => Phase(d)' = Phase(d)
    BY <1>1 DEF Phase, Postable
  <1>7. C!Post(r)
    BY <1>1, <1>2, <1>3, <1>5, <1>6 DEF C!Post, RequestAuthorised
  <1> QED
    BY <1>7 DEF C!Next

\* A new row opens its draft.
LEMMA SaveRefines ==
  ASSUME TypeOK, NEW d \in Drafts, SaveDraft(d)
  PROVE  C!Next
  <1>1. /\ UNCHANGED <<pc, inflight, posted, completed>>
        /\ stage[d] = "none" /\ stage' = [stage EXCEPT ![d] = "saved"]
        /\ pending' = pending \cup {d}
    BY DEF SaveDraft, net, process
  <1>2. Phase(d) = "none" /\ Phase(d)' = "open"
    BY <1>1 DEF Phase, Postable, TypeOK
  <1>3. \A e \in Drafts : e # d => Phase(e)' = Phase(e)
    BY <1>1 DEF Phase, Postable, TypeOK
  <1>4. C!Open(d)
    BY <1>1, <1>2, <1>3 DEF C!Open
  <1> QED
    BY <1>4 DEF C!Next

LEMMA StepRefines == TypeOK /\ Authorised /\ [Next]_vars => [C!Next]_(C!vars)
  <1> SUFFICES ASSUME TypeOK, Authorised, [Next]_vars PROVE [C!Next]_(C!vars)
    OBVIOUS
  <1> USE DEF db, net, process
  <1>1. ASSUME NEW d \in Drafts, SaveDraft(d) PROVE C!Next
    BY <1>1, SaveRefines
  <1>2. ASSUME NEW d \in Drafts, ShowDraft(d) PROVE C!Next
    BY <1>2, ClosingStep DEF ShowDraft, Postable, TypeOK
  <1>3. ASSUME NEW d \in Drafts, Expire(d) \/ MarkAbandoned(d) PROVE C!Next
    BY <1>3, ClosingStep DEF Expire, MarkAbandoned, Postable, capture
  <1>4. ASSUME NEW x \in Taps, Tap(x) PROVE C!Next
    BY <1>4, ClosingStep DEF Tap, Postable, capture
  <1>5. ASSUME NEW t \in Tasks, Deliver(t) PROVE C!Next
    <2>1. \A u \in Tasks : pc'[u] \in Posting => pc[u] \in Posting
      BY <1>5 DEF Deliver, Posting, TypeOK
    <2> QED
      BY <1>5, <2>1, ClosingStep DEF Deliver, Postable, Posting, capture
  <1>6. ASSUME NEW t \in Tasks, HandlerStep(t) PROVE C!Next
    BY <1>6, HandlerRefines
  <1>7. ASSUME NEW r \in Requests, Accept(r) PROVE C!Next
    BY <1>7, AcceptRefines
  <1>8. ASSUME NEW r \in Requests, Lose(r) PROVE C!Next
    BY <1>8, ClosingStep DEF Lose, Postable, capture
  <1>9. CASE Sweep \/ SweepFails
    BY <1>9, ClosingStep DEF Sweep, SweepFails, Postable
  <1>10. CASE Crash
    <2>1. \A u \in Tasks : pc'[u] \in Posting => pc[u] \in Posting
      BY <1>10 DEF Crash, Posting, TypeOK, Running
    <2>2. \A d \in Drafts : stage'[d] = "none" <=> stage[d] = "none"
      BY <1>10 DEF Crash
    <2> QED
      BY <1>10, <2>1, <2>2, ClosingStep DEF Crash, Postable, Posting
  <1>11. CASE UNCHANGED vars
    BY <1>11 DEF vars, C!vars, Phase, Postable
  <1> QED
    BY <1>1, <1>2, <1>3, <1>4, <1>5, <1>6, <1>7, <1>8, <1>9, <1>10, <1>11 DEF Next

\* Every behaviour of the lifecycle is a behaviour of the contract.
THEOREM LifecycleKeepsContract == Spec => Contract
  <1>1. Init => C!Init
    BY DEF Init, C!Init, Phase
  <1> QED
    BY <1>1, StepRefines, TypeCorrect, AlwaysAuthorised, PTL DEF Spec, Contract, C!Spec

-----------------------------------------------------------------------------
\* A live row leaves only for its payer's expense or its owner's Cancel.
THEOREM RowsLeaveForCause == Spec => RowLeavesForCause
  <1> DEFINE Cause(d) == \/ d \in overdue
                         \/ \E r \in posted : D(r.task) = d /\ r.task.tap.tapper = Payer[d]
                         \/ \E x \in tapped : /\ x.draft = d /\ x.kind = "cancel"
                                              /\ x.tapper \in {Payer[d], Sender[d]}
  <1>1. TypeOK /\ Authorised /\ [Next]_vars => [\A d \in pending \ pending' : Cause(d)]_vars
    <2> SUFFICES ASSUME TypeOK, Authorised, Next, NEW d \in pending \ pending'
                 PROVE  Cause(d)
      OBVIOUS
    <2>1. CASE Sweep \/ SweepFails
      BY <2>1 DEF Sweep, SweepFails
    <2>2. ASSUME NEW t \in Tasks, HandlerStep(t) PROVE Cause(d)
      <3>1. /\ D(t) = d
            /\ \/ pc[t] = "unlink"
               \/ pc[t] = "delete"
        BY <2>2 DEF HandlerStep, Progress, FindGone, Refuse, Admit, HandlerRaises, NotConnected,
               Unusable, LoadToken, ConnectFails, SendRequest, AbortsAfterSend, TimesOut,
               Reject, GetExpense, CopyPending, PendingVanished, InsertCompleted,
               DeletePending, MarkCompletedRaises, CancelDelete, EditMessage, EditFails,
               SafeSend, Finish, db, Perhaps
      <3>2. CASE pc[t] = "unlink"
        BY <3>1, <3>2 DEF Authorised, TaskAuthorised, Req
      <3>3. CASE pc[t] = "delete"
        BY <3>1, <3>3, TaskType DEF Authorised, TaskAuthorised, IsPendingOwner, D
      <3> QED
        BY <3>1, <3>2, <3>3
    <2>3. \/ Sweep \/ SweepFails
          \/ \E t \in Tasks : HandlerStep(t)
      BY DEF Next, SaveDraft, ShowDraft, Expire, MarkAbandoned, Tap, Deliver, Accept,
             Lose, Crash, db
    <2> QED
      BY <2>1, <2>2, <2>3
  <1> QED
    BY <1>1, TypeCorrect, AlwaysAuthorised, PTL DEF Spec, RowLeavesForCause

-----------------------------------------------------------------------------
(* What was said                                                           *)

\* No step brings a row back.
LEMMA RowsDoNotReturn ==
  ASSUME [Next]_vars
  PROVE  \A d \in Drafts : d \in pending' => d \in pending \/ stage[d] = "none"
  <1> USE DEF db, Perhaps
  <1>1. ASSUME NEW t \in Tasks, HandlerStep(t) PROVE pending' \subseteq pending
    BY <1>1 DEF HandlerStep, Progress, FindGone, Refuse, Admit, HandlerRaises, NotConnected,
           Unusable, LoadToken, ConnectFails, SendRequest, AbortsAfterSend, TimesOut,
           Reject, GetExpense, CopyPending, PendingVanished, InsertCompleted,
           DeletePending, MarkCompletedRaises, CancelDelete, EditMessage, EditFails,
           SafeSend, Finish
  <1>2. CASE UNCHANGED vars
    BY <1>2 DEF vars
  <1>3. ASSUME NEW d \in Drafts, SaveDraft(d)
        PROVE  stage[d] = "none" /\ pending' = pending \cup {d}
    BY <1>3 DEF SaveDraft
  <1>4. CASE Next /\ (~\E t \in Tasks : HandlerStep(t)) /\ (~\E d \in Drafts : SaveDraft(d))
    BY <1>4 DEF Next, ShowDraft, Expire, MarkAbandoned, Tap, Deliver, Accept, Lose, Sweep, SweepFails,
           Crash
  <1> QED
    BY <1>1, <1>2, <1>3, <1>4

\* A task was born of a tap on a draft that was captured.
LEMMA BornCaptured ==
  ASSUME Authorised, NEW t \in Tasks, pc[t] # "unborn"
  PROVE  stage[D(t)] # "none"
  BY DEF Authorised, TaskAuthorised, Captured, D

LEMMA StepSpoken == TypeOK /\ Authorised /\ Spoken /\ [Next]_vars => Spoken'
  <1> SUFFICES ASSUME TypeOK, Authorised, Spoken, [Next]_vars PROVE Spoken'
    OBVIOUS
  <1> USE DEF db, net, chat, updates, capture, process
  <1>1. \A t \in Tasks : pc[t] # "unborn" /\ D(t) \notin pending => D(t) \notin pending'
    BY RowsDoNotReturn, BornCaptured, TaskType
  <1>2. ASSUME NEW t \in Tasks, HandlerStep(t) PROVE Spoken'
    <2>1. /\ stage' = stage
          /\ \A d \in Drafts : keyboards'[d] \subseteq keyboards[d]
      BY <1>2 DEF HandlerStep, Progress, FindGone, Refuse, Admit, HandlerRaises, NotConnected,
             Unusable, LoadToken, ConnectFails, SendRequest, AbortsAfterSend, TimesOut,
             Reject, GetExpense, CopyPending, PendingVanished, InsertCompleted,
             DeletePending, MarkCompletedRaises, CancelDelete, EditMessage, EditFails,
             SafeSend, Finish, Edit, TypeOK
    <2>2. \A u \in Tasks : u # t => pc'[u] = pc[u] /\ text'[u] = text[u]
      BY <1>2 DEF HandlerStep, Progress, FindGone, Refuse, Admit, HandlerRaises, NotConnected,
             Unusable, LoadToken, ConnectFails, SendRequest, AbortsAfterSend, TimesOut,
             Reject, GetExpense, CopyPending, PendingVanished, InsertCompleted,
             DeletePending, MarkCompletedRaises, CancelDelete, EditMessage, EditFails,
             SafeSend, Finish, RetryOrGiveUp, Goto, Reply, Return, TypeOK
    <2>3. pc'[t] = "edit" => \/ text'[t] \in Verdicts /\ pc[t] # "read"
                             \/ text'[t] = "handled" /\ FindGone(t)
      <3>1. CASE Unusable(t)
        BY <3>1, TaskType, LifecycleAssumption DEF Unusable, Reply, Verdicts, TypeOK
      <3>2. CASE ConnectFails(t) \/ AbortsAfterSend(t)
        BY <3>2 DEF ConnectFails, AbortsAfterSend, RetryOrGiveUp, Reply, Verdicts, TypeOK
      <3>3. CASE FindGone(t) \/ Refuse(t) \/ NotConnected(t) \/ TimesOut(t) \/ Reject(t)
                 \/ PendingVanished(t) \/ DeletePending(t) \/ MarkCompletedRaises(t)
                 \/ CancelDelete(t)
        BY <3>3 DEF FindGone, Refuse, NotConnected, TimesOut, Reject, PendingVanished,
               DeletePending, MarkCompletedRaises, CancelDelete, Reply, Verdicts, TypeOK
      <3>4. CASE Admit(t) \/ HandlerRaises(t) \/ LoadToken(t) \/ SendRequest(t)
                 \/ GetExpense(t) \/ CopyPending(t) \/ InsertCompleted(t)
                 \/ EditMessage(t) \/ EditFails(t) \/ SafeSend(t) \/ Finish(t)
        BY <3>4 DEF Admit, HandlerRaises, LoadToken, SendRequest, GetExpense, CopyPending,
               InsertCompleted, EditMessage, EditFails, SafeSend, Finish, Goto, Return, TypeOK
      <3> QED
        BY <1>2, <3>1, <3>2, <3>3, <3>4 DEF HandlerStep, Progress
    <2>4. FindGone(t) => pc[t] # "unborn" /\ D(t) \notin pending
      BY DEF FindGone
    <2>5. pc'[t] = "edit" /\ pc[t] # "read" => IsPendingOwner(D(t), t.tap.tapper)
      BY <1>2 DEF HandlerStep, Progress, FindGone, Refuse, Admit, HandlerRaises, NotConnected,
             Unusable, LoadToken, ConnectFails, SendRequest, AbortsAfterSend, TimesOut,
             Reject, GetExpense, CopyPending, PendingVanished, InsertCompleted,
             DeletePending, MarkCompletedRaises, CancelDelete, EditMessage, EditFails,
             SafeSend, Finish, RetryOrGiveUp, Goto, Reply, Return, TypeOK, Authorised,
             TaskAuthorised, IsPendingOwner
    <2> QED
      BY <1>1, <2>1, <2>2, <2>3, <2>4, <2>5 DEF Spoken
  <1>3. ASSUME NEW d \in Drafts, SaveDraft(d) \/ ShowDraft(d) PROVE Spoken'
    BY <1>1, <1>3 DEF SaveDraft, ShowDraft, Spoken, TypeOK
  <1>4. ASSUME UNCHANGED <<stage, keyboards, text>>,
               \A t \in Tasks : pc'[t] = pc[t] \/ pc'[t] # "edit"
        PROVE  Spoken'
    BY <1>1, <1>4 DEF Spoken
  <1>5. ASSUME NEW d \in Drafts, Expire(d) \/ MarkAbandoned(d) PROVE Spoken'
    BY <1>4, <1>5 DEF Expire, MarkAbandoned
  <1>6. ASSUME NEW x \in Taps, Tap(x) PROVE Spoken'
    BY <1>4, <1>6 DEF Tap
  <1>7. ASSUME NEW t \in Tasks, Deliver(t) PROVE Spoken'
    BY <1>4, <1>7 DEF Deliver, TypeOK
  <1>8. ASSUME NEW r \in Requests, Accept(r) \/ Lose(r) PROVE Spoken'
    BY <1>4, <1>8 DEF Accept, Lose
  <1>9. CASE Sweep \/ SweepFails
    BY <1>4, <1>9 DEF Sweep, SweepFails
  <1>10. CASE Crash
    BY <1>10 DEF Crash, Spoken, Running, TypeOK
  <1>11. CASE UNCHANGED vars
    BY <1>4, <1>11 DEF vars
  <1> QED
    BY <1>2, <1>3, <1>5, <1>6, <1>7, <1>8, <1>9, <1>10, <1>11 DEF Next

\* The last buttons of a stored draft go only with a verdict on a tap of its
\* payer or sender, under every fault and overlap.
THEOREM LastButtonsGoForCause == Spec => LastButtonsForCause
  <1> DEFINE Heard(d) == \E x \in Taps : /\ x.draft = d /\ IsPendingOwner(d, x.tapper)
                                         /\ said'[x] \cap Verdicts # {}
             Kept == \A d \in Drafts :
                        keyboards[d] # {} /\ keyboards'[d] = {} /\ d \in pending'
                           => \E x \in Taps : /\ x.draft = d /\ IsPendingOwner(d, x.tapper)
                                             /\ said'[x] \cap Verdicts # {}
  <1>1. Init => Spoken
    BY DEF Init, Spoken
  <1>2. TypeOK /\ Authorised /\ Spoken /\ [Next]_vars => [Kept]_vars
    <2> SUFFICES ASSUME TypeOK, Authorised, Spoken, Next, NEW d \in Drafts,
                        keyboards[d] # {}, keyboards'[d] = {}, d \in pending'
                 PROVE  Heard(d)
      OBVIOUS
    <2>1. PICK t \in Tasks : EditMessage(t) \/ EditFails(t)
      BY DEF Next, HandlerStep, Progress, FindGone, Refuse, Admit, HandlerRaises,
             NotConnected, Unusable, LoadToken, ConnectFails, SendRequest,
             AbortsAfterSend, TimesOut, Reject, GetExpense, CopyPending, PendingVanished,
             InsertCompleted, DeletePending, MarkCompletedRaises, CancelDelete, SafeSend,
             Finish, SaveDraft, ShowDraft, Expire, MarkAbandoned, Tap, Deliver, Accept,
             Lose, Sweep, SweepFails, Crash, chat, Spoken, TypeOK
    <2>2. pc[t] = "edit" /\ Edit(t) /\ D(t) = d /\ pending' = pending
      BY <2>1 DEF EditMessage, EditFails, Edit, chat, db, TypeOK
    <2>3. text[t] \in Verdicts /\ IsPendingOwner(d, t.tap.tapper)
      BY <2>2 DEF Spoken
    <2>4. t.tap \in Taps /\ t.tap.draft = d /\ text[t] \in said'[t.tap]
      BY <2>2, TaskType DEF Edit, Tell, TypeOK, D
    <2> QED
      BY <2>3, <2>4
  <1> QED
    BY <1>1, <1>2, StepSpoken, TypeCorrect, AlwaysAuthorised, PTL
       DEF Spec, LastButtonsForCause

-----------------------------------------------------------------------------
(* Termination: its part that needs no fairness                            *)

\* The steps left, place by place.
StepsInRange(t) ==
    /\ StepsLeft(t) \in 0..(9 + 2 * MaxAttempts)
    /\ pc[t] = "unborn" => StepsLeft(t) = 9 + 2 * MaxAttempts
    /\ pc[t] = "read" => StepsLeft(t) = 10 + 2 * (MaxAttempts - attempt[t])
    /\ pc[t] = "token" => StepsLeft(t) = 9 + 2 * (MaxAttempts - attempt[t])
    /\ pc[t] = "create" => StepsLeft(t) = 8 + 2 * (MaxAttempts - attempt[t])
    /\ pc[t] = "await" => StepsLeft(t) = 7 + 2 * (MaxAttempts - attempt[t])
    /\ pc[t] = "mark" => StepsLeft(t) = 6
    /\ pc[t] = "insert" => StepsLeft(t) = 5
    /\ pc[t] \in {"unlink", "delete"} => StepsLeft(t) = 4
    /\ pc[t] = "edit" => StepsLeft(t) = 3
    /\ pc[t] = "send" => StepsLeft(t) = 2
    /\ pc[t] = "finish" => StepsLeft(t) = 1
    /\ pc[t] \in {"done", "dead"} => StepsLeft(t) = 0

AllInRange == \A t \in Tasks : StepsInRange(t)

LEMMA StepsCounted == TypeOK => AllInRange
  <1> SUFFICES ASSUME TypeOK, NEW t \in Tasks PROVE StepsInRange(t)
    BY DEF AllInRange
  <1>1. /\ pc[t] \in Running \cup {"unborn", "done", "dead"}
        /\ attempt[t] \in 1..MaxAttempts /\ MaxAttempts \in Nat \ {0}
    BY LifecycleAssumption DEF TypeOK
  <1> QED
    BY <1>1 DEF StepsInRange, StepsLeft, Ahead, Posting, Running

\* A step of the handler itself.
LEMMA HandlerRunsDown ==
  ASSUME TypeOK, AllInRange, AllInRange', NEW t \in Tasks, HandlerStep(t)
  PROVE  /\ StepsLeft(t)' \in 0..StepsLeft(t) /\ StepsLeft(t)' < StepsLeft(t)
         /\ \A u \in Tasks \ {t} : pc'[u] = pc[u] /\ attempt'[u] = attempt[u]
  <1>1. /\ StepsInRange(t) /\ StepsInRange(t)'
        /\ attempt[t] \in 1..MaxAttempts /\ MaxAttempts \in Nat \ {0}
    BY LifecycleAssumption DEF AllInRange, TypeOK
  <1> USE DEF TypeOK, StepsInRange, Goto, Reply, Return
  <1>2. CASE FindGone(t) \/ Refuse(t) \/ Admit(t) \/ HandlerRaises(t)
    BY <1>1, <1>2 DEF FindGone, Refuse, Admit, HandlerRaises
  <1>3. CASE NotConnected(t) \/ Unusable(t) \/ LoadToken(t) \/ SendRequest(t)
    BY <1>1, <1>3, LifecycleAssumption DEF NotConnected, Unusable, LoadToken, SendRequest
  <1>4. CASE ConnectFails(t) \/ AbortsAfterSend(t)
    BY <1>1, <1>4 DEF ConnectFails, AbortsAfterSend, RetryOrGiveUp
  <1>5. CASE TimesOut(t) \/ Reject(t) \/ GetExpense(t) \/ CopyPending(t) \/ PendingVanished(t)
    BY <1>1, <1>5 DEF TimesOut, Reject, GetExpense, CopyPending, PendingVanished
  <1>6. CASE \/ InsertCompleted(t) \/ DeletePending(t) \/ MarkCompletedRaises(t)
             \/ CancelDelete(t)
    BY <1>1, <1>6 DEF InsertCompleted, DeletePending, MarkCompletedRaises, CancelDelete
  <1>7. CASE EditMessage(t) \/ EditFails(t) \/ SafeSend(t) \/ Finish(t)
    BY <1>1, <1>7 DEF EditMessage, EditFails, SafeSend, Finish
  <1> QED
    BY <1>2, <1>3, <1>4, <1>5, <1>6, <1>7 DEF HandlerStep, Progress

\* A delivery takes nine steps and twice the attempts at most, under every fault and
\* overlap: the retry loop ends, and nothing sends a handler back.
THEOREM HandlersAlwaysRunDown == Spec => HandlersRunDown
  <1> DEFINE Down(t) == /\ StepsLeft(t)' \in 0..StepsLeft(t)
                        /\ Deliver(t) \/ HandlerStep(t) => StepsLeft(t)' < StepsLeft(t)
  <1>1. ASSUME TypeOK, AllInRange, AllInRange', Next PROVE \A t \in Tasks : Down(t)
    <2> SUFFICES ASSUME NEW t \in Tasks PROVE Down(t)
      OBVIOUS
    <2>1. /\ StepsInRange(t) /\ StepsInRange(t)'
          /\ attempt[t] \in 1..MaxAttempts /\ MaxAttempts \in Nat \ {0}
          /\ StepsLeft(t) \in Nat /\ StepsLeft(t)' \in Nat
      BY <1>1, LifecycleAssumption DEF AllInRange, TypeOK, StepsInRange
    <2>2. CASE Deliver(t)
      BY <1>1, <2>1, <2>2 DEF Deliver, Deliverable, TypeOK, StepsInRange
    <2>3. CASE HandlerStep(t)
      BY <1>1, <2>1, <2>3, HandlerRunsDown
    <2>4. CASE ~Deliver(t) /\ ~HandlerStep(t)
      <3> SUFFICES StepsLeft(t)' <= StepsLeft(t)
        BY <2>1, <2>4
      <3>1. CASE Crash
        BY <1>1, <2>1, <3>1 DEF Crash, TypeOK, StepsInRange, Running
      <3>2. CASE ~Crash
        <4>1. pc'[t] = pc[t] /\ attempt'[t] = attempt[t]
          <5>1. ASSUME NEW u \in Tasks, HandlerStep(u)
                PROVE  pc'[t] = pc[t] /\ attempt'[t] = attempt[t]
            BY <1>1, <2>4, <5>1, HandlerRunsDown
          <5>2. ASSUME NEW u \in Tasks, Deliver(u)
                PROVE  pc'[t] = pc[t] /\ attempt'[t] = attempt[t]
            BY <1>1, <2>4, <5>2 DEF Deliver, TypeOK
          <5>3. CASE UNCHANGED process
            BY <5>3 DEF process
          <5> QED
            BY <1>1, <3>2, <5>1, <5>2, <5>3 DEF Next, SaveDraft, ShowDraft, Expire,
               MarkAbandoned, Tap, Accept, Lose, Sweep, SweepFails
        <4> QED
          BY <2>1, <4>1 DEF StepsLeft
      <3> QED
        BY <3>1, <3>2
    <2> QED
      BY <2>2, <2>3, <2>4
  <1>2. TypeOK /\ AllInRange /\ AllInRange' /\ [Next]_vars => [\A t \in Tasks : Down(t)]_vars
    BY <1>1
  <1> QED
    BY <1>2, TypeCorrect, StepsCounted, PTL DEF Spec, HandlersRunDown

-----------------------------------------------------------------------------
(* Ends and words                                                          *)

\* A handler's step is its own: the locals of the others stay, words that were said
\* and marks that were made stay, and nothing but the end of a handler is acked.
LEMMA HandlerStepIsLocal ==
  ASSUME TypeOK, NEW t \in Tasks, HandlerStep(t)
  PROVE  /\ \A u \in Tasks \ {t} : pc'[u] = pc[u] /\ text'[u] = text[u]
         /\ \A x \in Taps : said[x] \subseteq said'[x]
         /\ \A d \in Drafts : outcome[d] \subseteq outcome'[d]
         /\ UNCHANGED <<stage, sweeping, marking, crashes>>
         /\ \A d \in Drafts \ {D(t)} : d \in pending => d \in pending'
         /\ Finish(t) \/ HandlerRaises(t) \/ UNCHANGED acked
  <1> USE DEF TypeOK, db, net, chat, updates, capture
  <1>1. CASE FindGone(t) \/ Refuse(t) \/ Admit(t) \/ NotConnected(t) \/ Unusable(t)
             \/ LoadToken(t) \/ SendRequest(t) \/ TimesOut(t) \/ Reject(t) \/ GetExpense(t)
             \/ CopyPending(t) \/ PendingVanished(t) \/ InsertCompleted(t)
    BY <1>1 DEF FindGone, Refuse, Admit, NotConnected, Unusable, LoadToken, SendRequest,
           TimesOut, Reject, GetExpense, CopyPending, PendingVanished, InsertCompleted,
           Goto, Reply
  <1>2. CASE ConnectFails(t) \/ AbortsAfterSend(t)
    BY <1>2 DEF ConnectFails, AbortsAfterSend, RetryOrGiveUp, Reply
  <1>3. CASE HandlerRaises(t) \/ Finish(t)
    BY <1>3 DEF HandlerRaises, Finish, Return, Perhaps
  <1>4. CASE DeletePending(t) \/ MarkCompletedRaises(t) \/ CancelDelete(t)
    BY <1>4 DEF DeletePending, MarkCompletedRaises, CancelDelete, Reply, Perhaps
  <1>5. CASE EditMessage(t) \/ EditFails(t) \/ SafeSend(t)
    BY <1>5 DEF EditMessage, EditFails, SafeSend, Edit, Tell, Goto
  <1> QED
    BY <1>1, <1>2, <1>3, <1>4, <1>5 DEF HandlerStep, Progress

\* A handler that owes the end of a conversation keeps owing it until it marks it,
\* and one that deletes the row owes it from then on.
LEMMA HandlerKeepsEnds ==
  ASSUME Faults \cap {"supabase", "langfuse"} = {}, TypeOK,
         NEW t \in Tasks, HandlerStep(t), NEW d \in Drafts, EndIsOwed(d)
  PROVE  EndIsOwed(d)'
  <1> USE DEF db, net, chat, updates, capture
  <1>1. CASE outcome[d] # {} \/ d \in marking
    BY <1>1, HandlerStepIsLocal DEF EndIsOwed
  <1>2. ASSUME NEW u \in Tasks, u # t, D(u) = d, pc[u] \in {"edit", "send", "finish"},
               text[u] \in {"added", "cancelled"}
        PROVE  EndIsOwed(d)'
    BY <1>2, HandlerStepIsLocal DEF EndIsOwed, D
  <1>3. CASE /\ D(t) = d /\ pc[t] \in {"edit", "send", "finish"}
             /\ text[t] \in {"added", "cancelled"}
    <2>1. CASE EditMessage(t) \/ EditFails(t) \/ SafeSend(t)
      <3>1. pc'[t] \in {"send", "finish"} /\ text'[t] = text[t]
        BY <2>1 DEF EditMessage, EditFails, SafeSend, Goto, TypeOK
      <3> QED
        BY <1>3, <3>1 DEF EndIsOwed, D
    <2>2. CASE Finish(t)
      <3>1. outcome'[d] = outcome[d] \cup EndMark(text[t])
        BY <1>3, <2>2 DEF Finish, Perhaps, May, TypeOK
      <3>2. EndMark(text[t]) # {}
        BY <1>3 DEF EndMark, Outcomes
      <3> QED
        BY <3>1, <3>2 DEF EndIsOwed
    <2> QED
      BY <1>3, <2>1, <2>2 DEF HandlerStep, Progress, FindGone, Refuse, Admit, HandlerRaises,
         NotConnected, Unusable, LoadToken, ConnectFails, SendRequest, AbortsAfterSend,
         TimesOut, Reject, GetExpense, CopyPending, PendingVanished, InsertCompleted,
         DeletePending, MarkCompletedRaises, CancelDelete
  <1>4. CASE d \in pending
    <2>1. CASE DeletePending(t) \/ CancelDelete(t)
      <3>1. pc'[t] = "edit" /\ text'[t] \in {"added", "cancelled"}
        BY <2>1 DEF DeletePending, CancelDelete, Reply, TypeOK
      <3> QED
        BY <1>4, <3>1, HandlerStepIsLocal DEF EndIsOwed, D
    <2>2. CASE ~(DeletePending(t) \/ CancelDelete(t))
      <3>1. pending' = pending
        BY <2>2 DEF HandlerStep, Progress, FindGone, Refuse, Admit, HandlerRaises, May,
           NotConnected, Unusable, LoadToken, ConnectFails, SendRequest, AbortsAfterSend,
           TimesOut, Reject, GetExpense, CopyPending, PendingVanished, InsertCompleted,
           MarkCompletedRaises, EditMessage, EditFails, SafeSend, Finish
      <3> QED
        BY <1>4, <3>1 DEF EndIsOwed
    <2> QED
      BY <2>1, <2>2
  <1> QED
    BY <1>1, <1>2, <1>3, <1>4 DEF EndIsOwed

\* With a database and a Langfuse that answer, nothing but a crash ever forgets the
\* end of a conversation, however confirms, cancels, retries and the sweep overlap.
THEOREM OnlyCrashesForgetEnds ==
  ASSUME Faults \cap {"supabase", "langfuse"} = {}
  PROVE  Spec => OnlyCrashesForget
  <1> DEFINE Kept == \A d \in Drafts : EndIsOwed(d) /\ crashes' = crashes => EndIsOwed(d)'
  <1>1. TypeOK /\ [Next]_vars => [Kept]_vars
    <2> SUFFICES ASSUME TypeOK, Next, NEW d \in Drafts, EndIsOwed(d), crashes' = crashes
                 PROVE  EndIsOwed(d)'
      OBVIOUS
    <2> USE DEF db, net, chat, updates, process, capture
    <2>1. ASSUME NEW t \in Tasks, HandlerStep(t) PROVE EndIsOwed(d)'
      BY <2>1, HandlerKeepsEnds
    <2>2. ASSUME UNCHANGED <<outcome, marking, text>>, pending \subseteq pending',
                 \A t \in Tasks : pc'[t] = pc[t] \/ pc[t] = "unborn"
          PROVE  EndIsOwed(d)'
      BY <2>2 DEF EndIsOwed
    <2>3. ASSUME NEW e \in Drafts, SaveDraft(e) \/ ShowDraft(e) \/ Expire(e)
          PROVE  EndIsOwed(d)'
      BY <2>2, <2>3 DEF SaveDraft, ShowDraft, Expire
    <2>4. ASSUME NEW e \in Drafts, MarkAbandoned(e) PROVE EndIsOwed(d)'
      <3>1. /\ outcome' = [outcome EXCEPT ![e] = @ \cup {"abandoned"}]
            /\ marking' = marking \ {e} /\ UNCHANGED <<pending, pc, text>>
        BY <2>4 DEF MarkAbandoned, Perhaps, May
      <3>2. outcome'[e] # {} /\ \A x \in Drafts : outcome[x] \subseteq outcome'[x]
        BY <3>1 DEF TypeOK
      <3> QED
        BY <3>1, <3>2 DEF EndIsOwed
    <2>5. ASSUME NEW x \in Taps, Tap(x) PROVE EndIsOwed(d)'
      BY <2>2, <2>5 DEF Tap
    <2>6. ASSUME NEW t \in Tasks, Deliver(t) PROVE EndIsOwed(d)'
      <3>1. /\ UNCHANGED <<outcome, marking, text, pending>> /\ pc[t] = "unborn"
            /\ \A u \in Tasks \ {t} : pc'[u] = pc[u]
        BY <2>6 DEF Deliver, Deliverable, TypeOK
      <3> QED
        BY <2>2, <3>1
    <2>7. ASSUME NEW r \in Requests, Accept(r) \/ Lose(r) PROVE EndIsOwed(d)'
      BY <2>2, <2>7 DEF Accept, Lose
    <2>8. CASE Sweep \/ SweepFails
      <3>1. /\ pending' = pending \ overdue /\ marking' = pending \cap overdue /\ marking = {}
            /\ UNCHANGED <<outcome, pc, text>>
        BY <2>8 DEF Sweep, SweepFails, May
      <3> QED
        BY <3>1 DEF EndIsOwed
    <2>9. CASE Crash
      BY <2>9 DEF Crash, TypeOK
    <2> QED
      BY <2>1, <2>3, <2>4, <2>5, <2>6, <2>7, <2>8, <2>9 DEF Next
  <1> QED
    BY <1>1, TypeCorrect, PTL DEF Spec, OnlyCrashesForget

\* A handler has found its words before it edits or sends, and said them before it
\* returns.
LEMMA HandlerFindsWords ==
  ASSUME Faults \cap {"supabase", "token", "telegram"} = {}, TypeOK, WordsReady,
         NEW t \in Tasks, HandlerStep(t)
  PROVE  /\ pc'[t] \in {"edit", "send"} => text'[t] # "none"
         /\ pc'[t] = "finish" => said'[t.tap] \ {"none"} # {}
         /\ acked' \subseteq acked \cup {t.tap}
         /\ t.tap \in acked' \ acked => said'[t.tap] \ {"none"} # {}
  <1> USE DEF TypeOK, db, net, chat, updates, capture, May
  <1>1. CASE FindGone(t) \/ Refuse(t) \/ Admit(t) \/ LoadToken(t) \/ SendRequest(t)
             \/ TimesOut(t) \/ Reject(t) \/ GetExpense(t) \/ CopyPending(t)
             \/ PendingVanished(t) \/ InsertCompleted(t) \/ DeletePending(t) \/ CancelDelete(t)
    BY <1>1 DEF FindGone, Refuse, Admit, LoadToken, SendRequest, TimesOut, Reject, GetExpense,
           CopyPending, PendingVanished, InsertCompleted, DeletePending, CancelDelete,
           Goto, Reply
  <1>2. CASE Unusable(t)
    BY <1>2, TaskType, LifecycleAssumption DEF Unusable, Reply
  <1>3. CASE ConnectFails(t) \/ AbortsAfterSend(t)
    BY <1>3 DEF ConnectFails, AbortsAfterSend, RetryOrGiveUp, Reply
  <1>4. CASE EditMessage(t) \/ SafeSend(t)
    <2>1. text[t] # "none" /\ said'[t.tap] = said[t.tap] \cup {text[t]}
          /\ pc' = [pc EXCEPT ![t] = "finish"] /\ UNCHANGED acked
      BY <1>4, TaskType DEF EditMessage, SafeSend, Edit, Tell, Goto, WordsReady
    <2> QED
      BY <2>1
  <1>5. CASE Finish(t)
    BY <1>5 DEF Finish, Return, Perhaps, WordsReady
  <1>6. CASE HandlerRaises(t) \/ NotConnected(t) \/ MarkCompletedRaises(t) \/ EditFails(t)
    BY <1>6 DEF HandlerRaises, NotConnected, MarkCompletedRaises, EditFails
  <1> QED
    BY <1>1, <1>2, <1>3, <1>4, <1>5, <1>6 DEF HandlerStep, Progress

\* No tap is answered with a bare 200 unless the database, the token or Telegram
\* failed: whatever Splitwise, Langfuse, crashes and other handlers do.
THEOREM AckedIsAlwaysTold ==
  ASSUME Faults \cap {"supabase", "token", "telegram"} = {}
  PROVE  Spec => []AckedIsTold
  <1>1. Init => WordsReady
    BY DEF Init, WordsReady, AckedIsTold
  <1>2. TypeOK /\ WordsReady /\ [Next]_vars => WordsReady'
    <2> SUFFICES ASSUME TypeOK, WordsReady, [Next]_vars PROVE WordsReady'
      OBVIOUS
    <2> USE DEF db, net, chat, updates, process, capture
    <2>1. ASSUME UNCHANGED <<said, acked, text>>,
                 \A t \in Tasks : pc'[t] = pc[t] \/ pc'[t] \in {"read", "dead"}
          PROVE  WordsReady'
      BY <2>1 DEF WordsReady, AckedIsTold
    <2>2. ASSUME NEW t \in Tasks, HandlerStep(t) PROVE WordsReady'
      <3>1. /\ pc'[t] \in {"edit", "send"} => text'[t] # "none"
            /\ pc'[t] = "finish" => said'[t.tap] \ {"none"} # {}
            /\ acked' \subseteq acked \cup {t.tap}
            /\ t.tap \in acked' \ acked => said'[t.tap] \ {"none"} # {}
        BY <2>2, HandlerFindsWords
      <3>2. /\ \A u \in Tasks \ {t} : pc'[u] = pc[u] /\ text'[u] = text[u]
            /\ \A x \in Taps : said[x] \subseteq said'[x]
        BY <2>2, HandlerStepIsLocal
      <3>3. \A x \in acked : said'[x] \ {"none"} # {}
        BY <3>2 DEF WordsReady, AckedIsTold, TypeOK
      <3>4. AckedIsTold'
        BY <3>1, <3>3 DEF AckedIsTold
      <3>5. ASSUME NEW u \in Tasks
            PROVE  /\ pc'[u] \in {"edit", "send"} => text'[u] # "none"
                   /\ pc'[u] = "finish" => said'[u.tap] \ {"none"} # {}
        BY <3>1, <3>2, TaskType DEF WordsReady
      <3> QED
        BY <3>4, <3>5 DEF WordsReady
    <2>3. ASSUME NEW d \in Drafts, SaveDraft(d) \/ ShowDraft(d) \/ Expire(d) \/ MarkAbandoned(d)
          PROVE  WordsReady'
      BY <2>1, <2>3 DEF SaveDraft, ShowDraft, Expire, MarkAbandoned
    <2>4. ASSUME NEW x \in Taps, Tap(x) PROVE WordsReady'
      BY <2>1, <2>4 DEF Tap
    <2>5. ASSUME NEW t \in Tasks, Deliver(t) PROVE WordsReady'
      BY <2>1, <2>5 DEF Deliver, TypeOK
    <2>6. ASSUME NEW r \in Requests, Accept(r) \/ Lose(r) PROVE WordsReady'
      BY <2>1, <2>6 DEF Accept, Lose
    <2>7. CASE Sweep \/ SweepFails
      BY <2>1, <2>7 DEF Sweep, SweepFails
    <2>8. CASE Crash
      BY <2>8 DEF Crash, WordsReady, AckedIsTold, Running, TypeOK
    <2>9. CASE UNCHANGED vars
      BY <2>1, <2>9 DEF vars
    <2> QED
      BY <2>2, <2>3, <2>4, <2>5, <2>6, <2>7, <2>8, <2>9 DEF Next
  <1>3. WordsReady => AckedIsTold
    BY DEF WordsReady
  <1> QED
    BY <1>1, <1>2, <1>3, TypeCorrect, PTL DEF Spec
=============================================================================
