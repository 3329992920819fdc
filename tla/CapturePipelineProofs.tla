------------------------- MODULE CapturePipelineProofs -------------------------
(***************************************************************************)
(* For any number of messages, deliveries, users and restarts: drafts are  *)
(* paid by connected users, buttons belong to saved drafts, nobody is left *)
(* without a word unless the database, Telegram or the key failed, and     *)
(* those kept out by the webhook leave no trace.                           *)
(***************************************************************************)
EXTENDS CapturePipeline, UserRowsProofs

USE RowsAssumption, CaptureAssumption

LEMMA MessageType ==
    ASSUME CaptureTypeOK, NEW t \in Deliveries
    PROVE  /\ M(t) \in [user : Users, group : BOOLEAN, kind : Kinds, payer : Users \cup {None}]
           /\ U(t) \in Users /\ t.id \in 1..MaxMessages
  BY DEF CaptureTypeOK, Deliveries, M, U

LEMMA RouteType ==
    ASSUME NEW kind \in Kinds, kind \notin {"greeting", "unknown"}
    PROVE  Route[kind] \in {"sync", "ask", "listen", "context", "ignored"}
  BY DEF Kinds, Route

-----------------------------------------------------------------------------
(* The inductive invariant: what a handler knows at each of its steps.     *)

PastToken == {"sync", "ask", "listen", "context", "download", "parse", "members", "users",
              "payer", "save", "show"}

\* Where a handler is only if the webhook let its sender in.
Inside == InTask \ {"send"}

Admitted(t) == LetIn(U(t)) /\ M(t).kind # "unknown"

Told(t) == heard[t] # {} \/ t \in buttons

TaskOK(t) ==
    /\ pc[t] \in Inside => Admitted(t)
    /\ pc[t] \in PastToken => Connected(U(t))
    /\ \A c \in pool[t] : c.sw # None => Connected(c.user)
    /\ pc[t] = "users" /\ M(t).group => \A c \in pool[t] : c.user = U(t) => c.sw # None
    /\ pc[t] = "payer" => \E c \in pool[t] : c.user = U(t) /\ c.sw # None
    /\ pc[t] = "save" => Payers(t) # {}
    /\ pc[t] = "show" \/ t \in buttons => \E d \in drafts : d.id = t
    /\ Told(t) => pc[t] = "done"
    /\ heard[t] # {} => t \notin buttons
    /\ pc[t] \in {"done", "raised"} => Told(t) \/ trouble[t] # {}
    /\ reply[t] # "youNotConnected"

DraftOK(d) ==
    /\ d.id \in Deliveries /\ Connected(U(d.id)) /\ LetIn(U(d.id))
    /\ d.payer.user \in Users /\ Connected(d.payer.user)
    /\ d.payer.user = M(d.id).payer /\ d.payer.sw # None

\* The rows and the members of whoever is kept out.
Untouched == \A u \in Users : ~LetIn(u) =>
                 ~row[u].named /\ row[u].token = None /\ u \notin members

CaptureInv ==
    /\ CaptureTypeOK /\ Whole /\ Untouched
    /\ \A t \in Deliveries : TaskOK(t)
    /\ \A d \in drafts : DraftOK(d)

\* Connected users stay connected, and the drafts there are stay.
Grows ==
    /\ \A u \in Users : Connected(u) => Connected(u)'
    /\ drafts \subseteq drafts' /\ sent' = sent

\* The rows, the members and the drafts there are stay as they are.
LEMMA StillUntouched ==
    ASSUME Untouched, UNCHANGED <<row, members>> PROVE Untouched'
  BY DEF Untouched, LetIn

\* Nothing happens to any other task.
Only(t) ==
    \A u \in Deliveries \ {t} :
        /\ pc'[u] = pc[u] /\ reply'[u] = reply[u] /\ pool'[u] = pool[u]
        /\ heard'[u] = heard[u] /\ trouble'[u] = trouble[u]
        /\ u \in buttons' <=> u \in buttons

LEMMA GrowsIfRowsKept ==
    ASSUME UNCHANGED <<row, drafts, sent>> PROVE Grows
  BY DEF Grows, Connected

\* What holds of a task that stands still goes on holding.
LEMMA OthersKept ==
    ASSUME CaptureInv, Grows, NEW u \in Deliveries,
           pc'[u] = pc[u] /\ reply'[u] = reply[u] /\ pool'[u] = pool[u],
           heard'[u] = heard[u] /\ trouble'[u] = trouble[u], u \in buttons' <=> u \in buttons
    PROVE  TaskOK(u)'
  <1>1. TaskOK(u) /\ U(u) \in Users /\ pool[u] \in SUBSET [user : Users, sw : Accounts \cup {None}]
    BY MessageType DEF CaptureInv, CaptureTypeOK
  <1>2. U(u)' = U(u) /\ M(u)' = M(u)
    BY DEF Grows, U, M
  <1>3. Payers(u)' = Payers(u)
    BY <1>2 DEF Payers
  <1>4. pc[u] \in PastToken => Connected(U(u))'
    <2>1. PICK w \in Users : w = U(u)
      BY <1>1
    <2>2. Connected(w) => Connected(w)'
      BY DEF Grows
    <2> QED
      BY <1>1, <1>2, <2>1, <2>2 DEF TaskOK, Connected
  <1>5. \A c \in pool[u] : c.sw # None => Connected(c.user)'
    BY <1>1 DEF TaskOK, Grows, Connected
  <1>6. Told(u)' <=> Told(u)
    BY DEF Told
  <1> QED
    BY <1>1, <1>2, <1>3, <1>4, <1>5, <1>6 DEF TaskOK, Grows, Admitted, LetIn

LEMMA DraftsKept ==
    ASSUME CaptureInv, Grows, NEW d \in drafts PROVE DraftOK(d)'
  <1>1. DraftOK(d)
    BY DEF CaptureInv
  <1>2. PICK u \in Users : u = U(d.id)
    BY <1>1, MessageType DEF CaptureInv, DraftOK
  <1>3. PICK w \in Users : w = d.payer.user
    BY <1>1 DEF DraftOK
  <1>4. Connected(u)' /\ Connected(w)'
    BY <1>1, <1>2, <1>3 DEF DraftOK, Grows
  <1>5. U(d.id)' = U(d.id) /\ M(d.id)' = M(d.id)
    BY DEF Grows, U, M
  <1> QED
    BY <1>1, <1>2, <1>3, <1>4, <1>5 DEF DraftOK, Connected, LetIn

\* One task moves: it is enough to look at that one.
LEMMA OneMoves ==
    ASSUME CaptureInv, CaptureTypeOK', Whole', Untouched', Grows, UNCHANGED drafts, NEW t \in Deliveries, Only(t), TaskOK(t)'
    PROVE  CaptureInv'
  <1>1. \A u \in Deliveries : TaskOK(u)'
    <2> SUFFICES ASSUME NEW u \in Deliveries, u # t PROVE TaskOK(u)'
      OBVIOUS
    <2> QED
      BY OthersKept DEF Only
  <1> QED
    BY <1>1, DraftsKept DEF CaptureInv

-----------------------------------------------------------------------------
(* Steps that move on, or choose the words to send                         *)

Quietly(t) == UNCHANGED <<rows, sent, pool, chat, drafts>>

\* Where such a step may go, and from where.
Moves(t) ==
    \E to \in (InTask \ {"payer", "save", "show"}) \cup {"raised", "ignored"} :
        /\ pc' = [pc EXCEPT ![t] = to]
        /\ pc[t] # "done"
        /\ to \in PastToken => pc[t] \in PastToken
        /\ to \in Inside => pc[t] \in Inside \/ Admitted(t)
        /\ to = "users" => ~M(t).group
        /\ \/ to # "raised" /\ UNCHANGED trouble
           \/ \E why \in {"supabase", "key"} : trouble' = [trouble EXCEPT ![t] = @ \cup {why}]
        /\ \/ UNCHANGED reply
           \/ \E words \in Replies \ {"youNotConnected"} : reply' = [reply EXCEPT ![t] = words]
        /\ members' = members \/ (members' = members \cup {U(t)} /\ Admitted(t))

LEMMA MovesInvariant ==
    ASSUME CaptureInv, NEW t \in Deliveries, Quietly(t), Moves(t)
    PROVE  CaptureInv'
  <1>1. PICK to \in (InTask \ {"payer", "save", "show"}) \cup {"raised", "ignored"} :
           /\ pc' = [pc EXCEPT ![t] = to]
           /\ pc[t] # "done"
           /\ to \in PastToken => pc[t] \in PastToken
           /\ to \in Inside => pc[t] \in Inside \/ Admitted(t)
           /\ to = "users" => ~M(t).group
           /\ \/ to # "raised" /\ UNCHANGED trouble
              \/ \E why \in {"supabase", "key"} : trouble' = [trouble EXCEPT ![t] = @ \cup {why}]
           /\ \/ UNCHANGED reply
              \/ \E words \in Replies \ {"youNotConnected"} : reply' = [reply EXCEPT ![t] = words]
           /\ members' = members \/ (members' = members \cup {U(t)} /\ Admitted(t))
    BY DEF Moves
  <1>2. U(t) \in Users /\ TaskOK(t)
    BY MessageType DEF CaptureInv
  <1>3. CaptureTypeOK'
    <2>1. members' \subseteq Users
      BY <1>1, <1>2 DEF CaptureInv, CaptureTypeOK
    <2>2. pc' \in [Deliveries -> {"unborn", "dead"} \cup Handled \cup InTask]
      BY <1>1 DEF CaptureInv, CaptureTypeOK, Handled
    <2>3. reply' \in [Deliveries -> Replies]
      BY <1>1 DEF CaptureInv, CaptureTypeOK
    <2>4. trouble' \in [Deliveries -> SUBSET {"supabase", "telegram", "key"}]
      BY <1>1 DEF CaptureInv, CaptureTypeOK
    <2> QED
      BY <2>1, <2>2, <2>3, <2>4 DEF CaptureInv, CaptureTypeOK, RowsTypeOK, Quietly, rows, chat
  <1>4. Grows
    BY GrowsIfRowsKept DEF Quietly, rows
  <1>5. Only(t)
    BY <1>1 DEF CaptureInv, CaptureTypeOK, Only, Quietly, chat
  <1>6. TaskOK(t)'
    <2>1. ~Told(t) /\ ~Told(t)'
      BY <1>1, <1>2 DEF TaskOK, Told, Quietly, chat
    <2>2. pc'[t] = to /\ reply'[t] # "youNotConnected" /\ (to = "raised" => trouble'[t] # {})
      <3>1. pc'[t] = to
        BY <1>1 DEF CaptureInv, CaptureTypeOK
      <3>2. reply'[t] # "youNotConnected"
        BY <1>1, <1>2 DEF CaptureInv, CaptureTypeOK, TaskOK
      <3>3. ASSUME NEW why, trouble' = [trouble EXCEPT ![t] = @ \cup {why}]
            PROVE  trouble'[t] # {}
        BY <3>3 DEF CaptureInv, CaptureTypeOK
      <3> QED
        BY <1>1, <3>1, <3>2, <3>3
    <2>3. U(t)' = U(t) /\ M(t)' = M(t)
      BY DEF U, M, Quietly
    <2>4. to \in PastToken => Connected(U(t))'
      BY <1>1, <1>2, <2>3 DEF TaskOK, Connected, Quietly, rows
    <2>5. \A c \in pool'[t] : c.sw # None => Connected(c.user)'
      BY <1>2 DEF TaskOK, Connected, Quietly, rows
    <2>6. to \in Inside => Admitted(t)'
      BY <1>1, <1>2, <2>3 DEF TaskOK, Admitted, LetIn
    <2> QED
      BY <1>1, <2>1, <2>2, <2>3, <2>4, <2>5, <2>6 DEF TaskOK, Told, InTask
  <1>7. Whole' /\ Untouched'
    BY <1>1 DEF CaptureInv, Quietly, rows, Whole, Untouched, LetIn, Admitted
  <1> QED
    BY <1>3, <1>4, <1>5, <1>6, <1>7, OneMoves DEF Quietly

LEMMA DeliverMoves ==
    ASSUME CaptureInv, NEW t \in Deliveries, Deliver(t) PROVE Quietly(t) /\ Moves(t)
  <1>1. /\ Dispatch(t) /\ UNCHANGED trouble
        /\ UNCHANGED <<rows, sent, pool, chat, drafts, members>>
    BY DEF Deliver, Dispatch
  <1>2. ASSUME NEW words \in {"anonymous", "inviteOnly"}, Answer(t, "unborn", words)
        PROVE  Moves(t)
    BY <1>1, <1>2 DEF Answer, Step, Moves, InTask, Inside, PastToken, Replies
  <1>3. ASSUME LetIn(U(t)), UNCHANGED reply,
               Step(t, "unborn", IF M(t).kind = "unknown" THEN "ignored" ELSE "identify")
        PROVE  Moves(t)
    <2>1. CASE M(t).kind = "unknown"
      BY <1>1, <1>3, <2>1 DEF Step, Moves, InTask, Inside, PastToken
    <2>2. CASE M(t).kind # "unknown"
      BY <1>1, <1>3, <2>2 DEF Step, Moves, InTask, Inside, Admitted, PastToken
    <2> QED
      BY <2>1, <2>2
  <1> QED
    BY <1>1, <1>2, <1>3 DEF Dispatch, Quietly

LEMMA TokenMoves ==
    ASSUME CaptureInv, NEW t \in Deliveries,
           RecordMembership(t) \/ LoadRaises(t) \/ NotConnected(t)
    PROVE  Quietly(t) /\ Moves(t)
  <1>1. CASE RecordMembership(t)
    BY <1>1 DEF RecordMembership, Step, CaptureInv, TaskOK, Quietly, Moves, InTask, Inside, PastToken
  <1>2. CASE LoadRaises(t)
    BY <1>2 DEF LoadRaises, Raise, Step, Quietly, Moves, InTask, Inside, PastToken
  <1>3. CASE NotConnected(t)
    BY <1>3 DEF NotConnected, Answer, Step, Quietly, Moves, InTask, Inside, PastToken, Replies
  <1> QED
    BY <1>1, <1>2, <1>3

LEMMA CaptureMoves ==
    ASSUME CaptureInv, NEW t \in Deliveries,
           \/ SyncFriends(t) \/ AnswerQuestion(t) \/ Listen(t) \/ BuildContext(t)
           \/ Download(t) \/ Parse(t) \/ ReadRaises(t)
    PROVE  Quietly(t) /\ Moves(t)
  <1>1. CASE SyncFriends(t)
    BY <1>1 DEF SyncFriends, Answer, Step, Quietly, Moves, InTask, Inside, PastToken, Replies
  <1>2. CASE AnswerQuestion(t)
    BY <1>2 DEF AnswerQuestion, Answer, Raise, Step, Quietly, Moves, InTask, Inside, PastToken, Replies
  <1>3. CASE Listen(t)
    BY <1>3 DEF Listen, Answer, Step, Quietly, Moves, InTask, Inside, PastToken, Replies
  <1>4. CASE BuildContext(t)
    BY <1>4 DEF BuildContext, Answer, Step, Quietly, Moves, InTask, Inside, PastToken, Replies
  <1>5. CASE Download(t)
    BY <1>5 DEF Download, Answer, Step, Quietly, Moves, InTask, Inside, PastToken, Replies
  <1>6. CASE Parse(t)
    BY <1>6 DEF Parse, Answer, Step, Quietly, Moves, InTask, Inside, PastToken, Replies
  <1>7. CASE ReadRaises(t)
    BY <1>7 DEF ReadRaises, Raise, Step, Quietly, Moves, InTask, Inside, PastToken
  <1> QED
    BY <1>1, <1>2, <1>3, <1>4, <1>5, <1>6, <1>7

-----------------------------------------------------------------------------
(* Steps that read or write what others see                                *)

LEMMA RecordIdentityStep ==
    ASSUME CaptureInv, NEW t \in Deliveries, RecordIdentity(t) PROVE CaptureInv'
  <1>1. U(t) \in Users /\ TaskOK(t)
    BY MessageType DEF CaptureInv
  <1>2. /\ RowsTypeOK' /\ Whole'
        /\ \A w \in Users : row'[w].token = row[w].token /\ row'[w].sw = row[w].sw
    <2>1. UNCHANGED <<key, restarts>> /\ (row' = Named(U(t)) \/ row' = row)
      BY DEF RecordIdentity
    <2>2. RowsTypeOK /\ Whole
      BY DEF CaptureInv, CaptureTypeOK
    <2>3. PICK u \in Users : u = U(t)
      BY <1>1
    <2>4. CASE row' = Named(u)
      BY <2>1, <2>2, <2>4, NamedKeeps, NamedWhole
    <2>5. CASE row' = row
      BY <2>1, <2>2, <2>5 DEF RowsTypeOK, Whole
    <2> QED
      BY <2>1, <2>3, <2>4, <2>5
  <1>3. /\ UNCHANGED <<sent, reply, pool, chat, drafts, trouble, members>>
        /\ \E to \in {"member", "load"} : pc' = [pc EXCEPT ![t] = to]
        /\ pc[t] = "identify"
    BY DEF RecordIdentity, Step
  <1>4. CaptureTypeOK'
    BY <1>2, <1>3 DEF CaptureInv, CaptureTypeOK, chat, InTask
  <1>5. Grows
    BY <1>2, <1>3 DEF Grows, Connected
  <1>6. Only(t) /\ pc'[t] \in {"member", "load"}
    BY <1>3 DEF CaptureInv, CaptureTypeOK, Only, chat
  <1>7. ~Told(t)' /\ t \notin buttons
    BY <1>1, <1>3 DEF TaskOK, Told, chat
  <1>8. \A c \in pool[t] : c.sw # None => Connected(c.user)'
    BY <1>1, <1>2 DEF CaptureInv, CaptureTypeOK, TaskOK, Connected
  <1>9. Admitted(t) /\ Admitted(t)'
    BY <1>1, <1>3 DEF TaskOK, Inside, InTask, Admitted, LetIn, U, M
  <1>10. TaskOK(t)'
    BY <1>1, <1>3, <1>6, <1>7, <1>8, <1>9 DEF TaskOK, PastToken, Told
  <1>11. Untouched'
    <2>1. row' = Named(U(t)) \/ row' = row
      BY DEF RecordIdentity
    <2>2. \A w \in Users \ {U(t)} : row'[w] = row[w]
      BY <1>1, <2>1 DEF Named, CaptureInv, CaptureTypeOK, RowsTypeOK
    <2> QED
      BY <1>3, <1>9, <2>2 DEF CaptureInv, Untouched, Admitted, LetIn
  <1> QED
    BY <1>2, <1>3, <1>4, <1>5, <1>6, <1>10, <1>11, OneMoves

\* The candidates read from the table, and what is known of them.
LEMMA CandidateType ==
    ASSUME CaptureInv, NEW u \in Users
    PROVE  /\ Candidate(u) \in [user : Users, sw : Accounts \cup {None}]
           /\ Candidate(u).user = u
           /\ Candidate(u).sw # None <=> row[u].sw # None
           /\ Candidate(u).sw # None <=> Connected(u)
  BY DEF CaptureInv, CaptureTypeOK, RowsTypeOK, Candidate, Whole, Connected

\* Steps that put other candidates into the pool of their task.
LEMMA PoolStep ==
    ASSUME CaptureInv, NEW t \in Deliveries, NEW to \in InTask \cup {"ignored"},
           NEW new \in SUBSET [user : Users, sw : Accounts \cup {None}],
           UNCHANGED <<rows, sent, chat, drafts, trouble, members>>,
           pc[t] # "done", pc' = [pc EXCEPT ![t] = to], pool' = [pool EXCEPT ![t] = new],
           \/ UNCHANGED reply
           \/ \E words \in Replies \ {"youNotConnected"} : reply' = [reply EXCEPT ![t] = words],
           to \in PastToken => Connected(U(t)), pc[t] \in Inside,
           \A c \in new : c.sw # None => Connected(c.user),
           to = "users" => \A c \in new : c.user = U(t) => c.sw # None,
           to = "payer" => \E c \in new : c.user = U(t) /\ c.sw # None,
           to = "save" => \E c \in new : c.user = M(t).payer /\ c.sw # None,
           to # "show"
    PROVE  CaptureInv'
  <1>1. TaskOK(t)
    BY DEF CaptureInv
  <1>2. CaptureTypeOK' /\ Whole'
    BY DEF CaptureInv, CaptureTypeOK, RowsTypeOK, rows, chat, Handled, Whole
  <1>3. Grows
    BY GrowsIfRowsKept DEF rows
  <1>4. Only(t)
    BY DEF CaptureInv, CaptureTypeOK, Only, chat
  <1>5. /\ pc'[t] = to /\ pool'[t] = new
        /\ U(t)' = U(t) /\ M(t)' = M(t)
    BY DEF CaptureInv, CaptureTypeOK, U, M
  <1>6. reply'[t] # "youNotConnected"
    BY <1>1 DEF CaptureInv, CaptureTypeOK, TaskOK
  <1>7. ~Told(t)'
    BY <1>1 DEF TaskOK, Told, chat
  <1>8. to = "save" => Payers(t)' # {}
    BY <1>5 DEF Payers
  <1>9. /\ to \in PastToken => Connected(U(t))'
        /\ \A c \in new : c.sw # None => Connected(c.user)'
    BY <1>5 DEF Connected, rows
  <1>10. Admitted(t)' /\ Untouched'
    BY <1>1, <1>5, StillUntouched DEF CaptureInv, TaskOK, Admitted, LetIn, rows
  <1>11. TaskOK(t)'
    BY <1>5, <1>6, <1>7, <1>8, <1>9, <1>10 DEF TaskOK, Told, InTask, PastToken
  <1> QED
    BY <1>2, <1>3, <1>4, <1>10, <1>11, OneMoves

LEMMA LoadTokenStep ==
    ASSUME CaptureInv, NEW t \in Deliveries, LoadToken(t) PROVE CaptureInv'
  <1>1. PICK u \in Users : u = U(t)
    BY MessageType DEF CaptureInv
  <1>2. /\ Connected(u) /\ pc[t] = "load"
        /\ pool' = [pool EXCEPT ![t] = {Candidate(u)}]
        /\ UNCHANGED <<rows, sent, chat, drafts, trouble, members>>
    BY <1>1 DEF LoadToken, Answer, Step
  <1>3. M(t).kind \in Kinds \ {"unknown"} /\ pc[t] \in Inside
    BY <1>2, MessageType DEF CaptureInv, TaskOK, Inside, InTask, Admitted
  <1>4. PICK to \in InTask \cup {"ignored"} :
           /\ pc' = [pc EXCEPT ![t] = to]
           /\ to \notin {"users", "payer", "save", "show"}
           /\ UNCHANGED reply \/ reply' = [reply EXCEPT ![t] = "info"]
    <2>1. CASE M(t).kind = "greeting"
      BY <2>1 DEF LoadToken, Answer, Step, InTask
    <2>2. CASE M(t).kind # "greeting"
      BY <1>3, <2>2, RouteType DEF LoadToken, Step, InTask
    <2> QED
      BY <2>1, <2>2
  <1>5. /\ {Candidate(u)} \in SUBSET [user : Users, sw : Accounts \cup {None}]
        /\ \A c \in {Candidate(u)} : c.sw # None => Connected(c.user)
    BY <1>1, CandidateType
  <1>6. "info" \in Replies \ {"youNotConnected"}
    BY DEF Replies
  <1> QED
    BY <1>1, <1>2, <1>3, <1>4, <1>5, <1>6, PoolStep

LEMMA ReadMembersStep ==
    ASSUME CaptureInv, NEW t \in Deliveries, ReadMembers(t) PROVE CaptureInv'
  <1> DEFINE read == {Candidate(u) : u \in members}
  <1>1. /\ pc[t] = "members" /\ pc' = [pc EXCEPT ![t] = "users"]
        /\ pool' = [pool EXCEPT ![t] = read]
        /\ UNCHANGED <<rows, sent, reply, chat, drafts, trouble, members>>
    BY DEF ReadMembers, Step
  <1>2. Connected(U(t))
    BY <1>1 DEF CaptureInv, TaskOK, PastToken
  <1>3. members \subseteq Users
    BY DEF CaptureInv, CaptureTypeOK
  <1>4. /\ read \in SUBSET [user : Users, sw : Accounts \cup {None}]
        /\ \A c \in read : c.sw # None => Connected(c.user)
        /\ \A c \in read : c.user = U(t) => c.sw # None
    BY <1>2, <1>3, CandidateType
  <1>5. "users" \in InTask /\ pc[t] \in Inside
    BY <1>1 DEF InTask, Inside
  <1> HIDE DEF read
  <1> QED
    BY <1>1, <1>2, <1>4, <1>5, PoolStep

LEMMA ReadUsersStep ==
    ASSUME CaptureInv, NEW t \in Deliveries, ReadUsers(t) PROVE CaptureInv'
  <1> DEFINE known == IF M(t).group THEN pool[t] ELSE {}
             new   == {u \in Users : row[u].sw # None /\ \A c \in known : c.user # u}
             read  == known \cup {Candidate(u) : u \in new}
  <1>1. /\ pc[t] = "users" /\ pc' = [pc EXCEPT ![t] = "payer"]
        /\ pool' = [pool EXCEPT ![t] = read]
        /\ UNCHANGED <<rows, sent, reply, chat, drafts, trouble, members>>
    BY DEF ReadUsers, Step
  <1>2. /\ Connected(U(t)) /\ U(t) \in Users
        /\ M(t).group => \A c \in pool[t] : c.user = U(t) => c.sw # None
        /\ \A c \in pool[t] : c.sw # None => Connected(c.user)
    BY <1>1, MessageType DEF CaptureInv, TaskOK, PastToken
  <1>3. pool[t] \in SUBSET [user : Users, sw : Accounts \cup {None}]
    BY DEF CaptureInv, CaptureTypeOK
  <1>4. /\ read \in SUBSET [user : Users, sw : Accounts \cup {None}]
        /\ \A c \in read : c.sw # None => Connected(c.user)
    BY <1>2, <1>3, CandidateType
  <1>5. \E c \in read : c.user = U(t) /\ c.sw # None
    <2>1. PICK u \in Users : u = U(t)
      BY <1>2
    <2>2. CASE \E c \in known : c.user = u
      BY <1>2, <2>1, <2>2
    <2>3. CASE \A c \in known : c.user # u
      <3>1. Candidate(u) \in read
        BY <1>2, <2>1, <2>3 DEF Connected
      <3> QED
        BY <1>2, <2>1, <3>1, CandidateType
    <2> QED
      BY <2>2, <2>3
  <1>6. "payer" \in InTask /\ pc[t] \in Inside
    BY <1>1 DEF InTask, Inside
  <1> HIDE DEF read
  <1> QED
    BY <1>1, <1>2, <1>4, <1>5, <1>6, PoolStep

LEMMA PayerSteps ==
    ASSUME CaptureInv, NEW t \in Deliveries, RefusePayer(t) \/ AcceptPayer(t) PROVE CaptureInv'
  <1>1. /\ pc[t] = "payer" /\ TaskOK(t)
        /\ Connected(U(t)) /\ \E c \in pool[t] : c.user = U(t) /\ c.sw # None
        /\ UNCHANGED <<rows, sent, chat, drafts, trouble, members>>
    BY DEF RefusePayer, AcceptPayer, Answer, Step, CaptureInv, TaskOK, PastToken
  <1>2. pool[t] \in SUBSET [user : Users, sw : Accounts \cup {None}]
    BY DEF CaptureInv, CaptureTypeOK
  <1>3. CASE RefusePayer(t)
    <2>1. M(t).payer # U(t)
      BY <1>1, <1>3 DEF RefusePayer, Payers
    <2>2. PICK words \in Replies \ {"youNotConnected"} : reply' = [reply EXCEPT ![t] = words]
      BY <1>3, <2>1 DEF RefusePayer, Answer, Replies
    <2>3. pc' = [pc EXCEPT ![t] = "send"] /\ pool' = [pool EXCEPT ![t] = {}]
      BY <1>3 DEF RefusePayer, Answer, Step, Forget
    <2>4. "send" \in InTask \cup {"ignored"} /\ "send" \notin PastToken /\ pc[t] \in Inside
      BY <1>1 DEF InTask, PastToken, Inside
    <2>5. PICK new \in SUBSET [user : Users, sw : Accounts \cup {None}] : new = {}
      OBVIOUS
    <2>6. pool' = [pool EXCEPT ![t] = new] /\ \A c \in new : FALSE
      BY <2>3, <2>5
    <2> QED
      BY <1>1, <2>2, <2>3, <2>4, <2>6, PoolStep
  <1>4. CASE AcceptPayer(t)
    <2>1. /\ pc' = [pc EXCEPT ![t] = "save"] /\ pool' = [pool EXCEPT ![t] = Payers(t)]
          /\ UNCHANGED reply /\ Payers(t) # {}
      BY <1>4 DEF AcceptPayer, Step
    <2>2. /\ Payers(t) \in SUBSET [user : Users, sw : Accounts \cup {None}]
          /\ \A c \in Payers(t) : c.sw # None => Connected(c.user)
          /\ \E c \in Payers(t) : c.user = M(t).payer /\ c.sw # None
      BY <1>1, <1>2, <2>1 DEF Payers, TaskOK
    <2>3. "save" \in InTask /\ pc[t] \in Inside
      BY <1>1 DEF InTask, Inside
    <2> QED
      BY <1>1, <2>1, <2>2, <2>3, PoolStep
  <1> QED
    BY <1>3, <1>4

-----------------------------------------------------------------------------
(* The draft and the answer                                                *)

LEMMA SaveDraftStep ==
    ASSUME CaptureInv, NEW t \in Deliveries, SaveDraft(t) PROVE CaptureInv'
  <1>1. /\ pc[t] = "save" /\ TaskOK(t) /\ Connected(U(t)) /\ Payers(t) # {} /\ Admitted(t)
        /\ UNCHANGED <<rows, sent, chat, trouble, members>>
        /\ pool' = [pool EXCEPT ![t] = {}]
    BY DEF SaveDraft, Answer, Step, Forget, CaptureInv, TaskOK, PastToken,
           Inside, InTask
  <1>2. PICK to \in {"show", "send"} :
           /\ pc' = [pc EXCEPT ![t] = to]
           /\ UNCHANGED reply \/ reply' = [reply EXCEPT ![t] = "unsaved"]
           /\ drafts' = drafts \cup {Row(t)} \/ (drafts' = drafts /\ to = "send")
    BY DEF SaveDraft, Answer, Step
  <1>3. pool[t] \in SUBSET [user : Users, sw : Accounts \cup {None}]
    BY DEF CaptureInv, CaptureTypeOK
  <1>4. PICK c : c = Row(t).payer
    OBVIOUS
  <1>5. c \in Payers(t) /\ Row(t) = [id |-> t, payer |-> c]
    BY <1>1, <1>4 DEF Row
  <1>6. c.user \in Users /\ c.user = M(t).payer /\ c.sw # None /\ Connected(c.user)
    BY <1>1, <1>3, <1>5 DEF Payers, TaskOK
  <1>7. CaptureTypeOK' /\ Whole'
    BY <1>1, <1>2 DEF CaptureInv, CaptureTypeOK, RowsTypeOK, rows, chat, InTask, Replies, Whole
  <1>8. Grows
    BY <1>1, <1>2 DEF Grows, Connected, rows
  <1>9. Only(t)
    BY <1>1, <1>2 DEF CaptureInv, CaptureTypeOK, Only, chat
  <1>10. TaskOK(t)'
    <2>1. pc'[t] = to /\ pool'[t] = {} /\ reply'[t] # "youNotConnected" /\ ~Told(t)'
      BY <1>1, <1>2 DEF CaptureInv, CaptureTypeOK, TaskOK, Told, chat
    <2>2. Connected(U(t))'
      BY <1>1 DEF Connected, U, M, rows
    <2>3. to = "show" => \E d \in drafts' : d.id = t
      BY <1>2, <1>5
    <2>4. Admitted(t)'
      BY <1>1 DEF Admitted, LetIn, U, M
    <2> QED
      BY <2>1, <2>2, <2>3, <2>4 DEF TaskOK, Told
  <1>11. \A u \in Deliveries : TaskOK(u)'
    <2> SUFFICES ASSUME NEW u \in Deliveries, u # t PROVE TaskOK(u)'
      BY <1>10
    <2> QED
      BY <1>8, <1>9, OthersKept DEF Only
  <1>12. \A d \in drafts' : DraftOK(d)'
    <2> SUFFICES ASSUME NEW d, d = Row(t) PROVE DraftOK(d)'
      BY <1>2, <1>8, DraftsKept
    <2>1. d.id = t /\ d.payer = c
      BY <1>5
    <2>2. Connected(U(t))' /\ Connected(c.user)' /\ M(t)' = M(t) /\ LetIn(U(t))'
      BY <1>1, <1>6 DEF Connected, U, M, rows, Admitted, LetIn
    <2> QED
      BY <1>6, <2>1, <2>2 DEF DraftOK, Connected
  <1>13. Untouched'
    BY <1>1, StillUntouched DEF CaptureInv, rows
  <1> QED
    BY <1>7, <1>11, <1>12, <1>13 DEF CaptureInv

LEMMA AnswerSteps ==
    ASSUME CaptureInv, NEW t \in Deliveries, ShowDraft(t) \/ SafeSend(t) PROVE CaptureInv'
  <1>1. /\ pc[t] \in {"show", "send"} /\ TaskOK(t) /\ ~Told(t)
        /\ pc' = [pc EXCEPT ![t] = "done"]
        /\ UNCHANGED <<rows, sent, reply, pool, drafts, members>>
    BY DEF ShowDraft, SafeSend, Step, CaptureInv, TaskOK
  <1>2. /\ UNCHANGED trouble \/ trouble' = [trouble EXCEPT ![t] = @ \cup {"telegram"}]
        /\ \/ UNCHANGED <<heard, buttons>>
           \/ UNCHANGED heard /\ pc[t] = "show" /\ buttons' = buttons \cup {t}
           \/ UNCHANGED buttons /\ heard' = [heard EXCEPT ![t] = @ \cup {reply[t]}]
    BY DEF ShowDraft, SafeSend, Step
  <1>3. CaptureTypeOK' /\ Whole'
    BY <1>1, <1>2 DEF CaptureInv, CaptureTypeOK, RowsTypeOK, rows, Handled, Whole
  <1>4. Grows
    BY <1>1, GrowsIfRowsKept DEF rows
  <1>5. Only(t)
    BY <1>1, <1>2 DEF CaptureInv, CaptureTypeOK, Only
  <1>6. pc'[t] = "done" /\ reply'[t] # "youNotConnected"
    BY <1>1 DEF CaptureInv, CaptureTypeOK, TaskOK
  <1>7. Told(t)' \/ trouble'[t] # {}
    <2>1. \/ buttons' = buttons \cup {t}
          \/ heard' = [heard EXCEPT ![t] = @ \cup {reply[t]}]
          \/ trouble' = [trouble EXCEPT ![t] = @ \cup {"telegram"}]
      BY DEF ShowDraft, SafeSend
    <2>2. CASE buttons' = buttons \cup {t}
      BY <2>2 DEF Told
    <2>3. CASE heard' = [heard EXCEPT ![t] = @ \cup {reply[t]}]
      BY <2>3 DEF Told, CaptureInv, CaptureTypeOK
    <2>4. CASE trouble' = [trouble EXCEPT ![t] = @ \cup {"telegram"}]
      BY <2>4 DEF CaptureInv, CaptureTypeOK
    <2> QED
      BY <2>1, <2>2, <2>3, <2>4
  <1>8. heard'[t] # {} => t \notin buttons'
    BY <1>1, <1>2 DEF Told, CaptureInv, CaptureTypeOK
  <1>9. t \in buttons' => \E d \in drafts' : d.id = t
    BY <1>1, <1>2 DEF Told, TaskOK
  <1>10. \A c \in pool'[t] : c.sw # None => Connected(c.user)'
    BY <1>1 DEF TaskOK, Connected, rows
  <1>11. TaskOK(t)'
    BY <1>6, <1>7, <1>8, <1>9, <1>10 DEF TaskOK, PastToken, Inside, InTask
  <1>12. Untouched'
    BY <1>1, StillUntouched DEF CaptureInv, rows
  <1> QED
    BY <1>1, <1>3, <1>4, <1>5, <1>11, <1>12, OneMoves

-----------------------------------------------------------------------------
(* The whole system                                                        *)

LEMMA HandlerKeeps ==
    ASSUME CaptureInv, NEW t \in Deliveries, Deliver(t) \/ HandlerStep(t) PROVE CaptureInv'
  <1>1. CASE \/ Deliver(t) \/ RecordMembership(t) \/ LoadRaises(t) \/ NotConnected(t)
             \/ SyncFriends(t) \/ AnswerQuestion(t) \/ Listen(t) \/ BuildContext(t)
             \/ Download(t) \/ Parse(t) \/ ReadRaises(t)
    BY <1>1, DeliverMoves, TokenMoves, CaptureMoves, MovesInvariant
  <1>2. CASE \/ RecordIdentity(t) \/ LoadToken(t) \/ ReadMembers(t) \/ ReadUsers(t)
             \/ RefusePayer(t) \/ AcceptPayer(t) \/ SaveDraft(t) \/ ShowDraft(t) \/ SafeSend(t)
    BY <1>2, RecordIdentityStep, LoadTokenStep, ReadMembersStep, ReadUsersStep, PayerSteps,
       SaveDraftStep, AnswerSteps
  <1> QED
    BY <1>1, <1>2 DEF HandlerStep, Progress

LEMMA ConnectKeeps ==
    ASSUME CaptureInv, NEW u \in Users, NEW a \in Accounts, Connect(u, a) PROVE CaptureInv'
  <1>1. /\ row' = WithToken(u, a)
        /\ UNCHANGED <<key, restarts, sent, pc, reply, pool, chat, drafts, trouble, members>>
    BY DEF Connect
  <1>2. RowsTypeOK /\ Whole
    BY DEF CaptureInv, CaptureTypeOK
  <1>3. /\ RowsTypeOK' /\ Whole' /\ Connected(u)'
        /\ \A w \in Users \ {u} : row'[w] = row[w]
    BY <1>1, <1>2, TokenSaved, SavedWhole
  <1>4. Grows
    BY <1>1, <1>3 DEF Grows, Connected
  <1>5. CaptureTypeOK'
    BY <1>1, <1>3 DEF CaptureInv, CaptureTypeOK, chat
  <1>6. \A t \in Deliveries : TaskOK(t)'
    BY <1>1, <1>4, OthersKept DEF chat
  <1>7. Untouched'
    BY <1>1, <1>3 DEF Connect, CaptureInv, Untouched, LetIn
  <1> QED
    BY <1>1, <1>3, <1>4, <1>5, <1>6, <1>7, DraftsKept DEF CaptureInv

LEMMA CrashKeeps ==
    ASSUME CaptureInv, NEW k \in Keys, Crash(k) PROVE CaptureInv'
  <1>1. UNCHANGED <<row, sent, reply, pool, chat, drafts, trouble, members>>
    BY DEF Crash, Restarts
  <1>2. \A t \in Deliveries : pc'[t] = IF pc[t] \in InTask THEN "dead" ELSE pc[t]
    BY DEF Crash
  <1>3. CaptureTypeOK' /\ Whole'
    BY <1>1 DEF Crash, Restarts, CaptureInv, CaptureTypeOK, RowsTypeOK, chat, Handled, InTask, Whole
  <1>4. Grows
    BY <1>1, GrowsIfRowsKept
  <1>5. ASSUME NEW t \in Deliveries PROVE TaskOK(t)'
    <2>1. CASE pc[t] \in InTask
      <3>1. TaskOK(t) /\ pc'[t] = "dead"
        BY <1>2, <2>1 DEF CaptureInv
      <3>2. ~Told(t)'
        BY <1>1, <2>1, <3>1 DEF TaskOK, Told, chat, InTask
      <3>3. \A c \in pool'[t] : c.sw # None => Connected(c.user)'
        BY <1>1, <3>1 DEF TaskOK, Connected
      <3> QED
        BY <1>1, <3>1, <3>2, <3>3 DEF TaskOK, PastToken, Told, Inside, InTask
    <2>2. CASE pc[t] \notin InTask
      BY <1>1, <1>2, <1>4, <2>2, OthersKept DEF chat
    <2> QED
      BY <2>1, <2>2
  <1>6. Untouched'
    BY <1>1, StillUntouched DEF CaptureInv
  <1> QED
    BY <1>1, <1>3, <1>4, <1>5, <1>6, DraftsKept DEF CaptureInv

LEMMA CaptureInvariant == Spec => []CaptureInv
  <1>1. Init => CaptureInv
    BY DEF Init, RowsInit, CaptureInv, CaptureTypeOK, RowsTypeOK, Whole, TaskOK, Told, Replies,
           PastToken, Inside, InTask, Untouched
  <1>2. CaptureInv /\ [Next]_vars => CaptureInv'
    <2>1. ASSUME CaptureInv, UNCHANGED vars PROVE CaptureInv'
      <3>1. Grows /\ Whole' /\ CaptureTypeOK' /\ Untouched'
        BY <2>1, GrowsIfRowsKept, StillUntouched
           DEF vars, rows, chat, CaptureInv, CaptureTypeOK, RowsTypeOK, Whole
      <3>2. \A t \in Deliveries : TaskOK(t)'
        BY <2>1, <3>1, OthersKept DEF vars, chat
      <3> QED
        BY <2>1, <3>1, <3>2, DraftsKept DEF vars, CaptureInv
    <2>2. ASSUME CaptureInv, Next PROVE CaptureInv'
      BY <2>2, HandlerKeeps, ConnectKeeps, CrashKeeps DEF Next
    <2> QED
      BY <2>1, <2>2
  <1> QED
    BY <1>1, <1>2, PTL DEF Spec

-----------------------------------------------------------------------------
\* Every variable keeps its type, for every value of the constants.
THEOREM CaptureTypeCorrect == Spec => []CaptureTypeOK
  BY CaptureInvariant, PTL DEF CaptureInv

\* Whoever connects while a message is handled, _finalize_capture finds its sender
\* among the candidates, connected: nobody is told to connect a second time.
THEOREM SenderIsAlwaysKnown == Spec => []SenderIsKnown
  <1>1. CaptureInv => SenderIsKnown
    BY DEF CaptureInv, TaskOK, SenderIsKnown
  <1> QED
    BY <1>1, CaptureInvariant, PTL

\* The row _finalize_capture saves is for the payer the message named, who is
\* connected, as is the sender.
THEOREM DraftsAreAlwaysPaid == Spec => []DraftsArePaid
  <1>1. CaptureInv => DraftsArePaid
    BY DEF CaptureInv, DraftOK, DraftsArePaid
  <1> QED
    BY <1>1, CaptureInvariant, PTL

\* A confirmation is only shown for a row that was saved, and not beside another
\* answer to the same delivery.
THEOREM ButtonsAreAlwaysSaved == Spec => []ButtonsAreSaved
  <1>1. CaptureInv => ButtonsAreSaved
    BY DEF CaptureInv, CaptureTypeOK, TaskOK, ButtonsAreSaved
  <1> QED
    BY <1>1, CaptureInvariant, PTL

\* A handler that ends without a word had a failure of the database, of Telegram
\* or of the key behind it.
THEOREM SilenceHasCause == Spec => []SilentForCause
  <1>1. CaptureInv => SilentForCause
    BY DEF CaptureInv, TaskOK, Told, SilentForCause
  <1> QED
    BY <1>1, CaptureInvariant, PTL

\* Nobody the webhook keeps out leaves a name, a token, a membership or a draft
\* behind, as sender or as payer.
THEOREM KeptOutNeverTraced == Spec => []KeptOutLeavesNoTrace
  <1>1. ASSUME CaptureInv PROVE KeptOutLeavesNoTrace
    <2>1. ASSUME NEW u \in Users, ~LetIn(u), NEW d \in drafts, U(d.id) = u \/ d.payer.user = u
          PROVE  FALSE
      <3>1. LetIn(U(d.id)) /\ Connected(d.payer.user)
        BY <1>1 DEF CaptureInv, DraftOK
      <3> QED
        BY <1>1, <2>1, <3>1 DEF CaptureInv, Untouched, Connected
    <2> QED
      BY <1>1, <2>1 DEF CaptureInv, Untouched, KeptOutLeavesNoTrace
  <1> QED
    BY <1>1, CaptureInvariant, PTL

\* Of all its steps, handle_incoming_message writes the users table in the identity
\* refresh only, as RefreshIdentity does, and never in a column of the token.
THEOREM CaptureImplementsRows == Spec => RowsSpec
  <1>1. Init => RowsInit
    BY DEF Init
  <1>2. CaptureInv /\ [Next]_vars => [RowsNext]_rows
    <2>1. ASSUME CaptureInv, NEW t \in Deliveries, Deliver(t) \/ HandlerStep(t)
          PROVE  [RowsNext]_rows
      <3>1. CASE RecordIdentity(t)
        <4>1. U(t) \in Users
          BY <2>1, MessageType DEF CaptureInv
        <4>2. UNCHANGED <<key, restarts>> /\ (row' = Named(U(t)) \/ row' = row)
          BY <3>1 DEF RecordIdentity
        <4> QED
          BY <4>1, <4>2 DEF RowsNext, RefreshIdentity, rows
      <3>2. CASE ~RecordIdentity(t)
        BY <2>1, <3>2 DEF HandlerStep, Progress, Deliver, RecordMembership, LoadRaises,
           NotConnected, LoadToken, SyncFriends, AnswerQuestion, Listen, BuildContext, Download,
           Parse, ReadMembers, ReadUsers, ReadRaises, RefusePayer, AcceptPayer, SaveDraft,
           ShowDraft, SafeSend
      <3> QED
        BY <3>1, <3>2
    <2>2. ASSUME NEW u \in Users, NEW a \in Accounts, Connect(u, a)
          PROVE  RowsNext
      BY <2>2 DEF Connect, RowsNext, SaveUserToken
    <2>3. ASSUME NEW k \in Keys, Crash(k)
          PROVE  RowsNext
      BY <2>3 DEF Crash, RowsNext
    <2>4. UNCHANGED vars => UNCHANGED rows
      BY DEF vars
    <2> QED
      BY <2>1, <2>2, <2>3, <2>4 DEF Next
  <1> QED
    BY <1>1, <1>2, CaptureInvariant, PTL DEF Spec, RowsSpec

\* users.py:52, through the pipeline: however many messages are handled at once,
\* nobody whose account is connected is disconnected by one of them.
THEOREM CaptureKeepsConnections == Spec => StaysConnected
  BY CaptureImplementsRows, TableKeepsConnections

-----------------------------------------------------------------------------
(* The models                                                              *)

\* Only a task's own step, or a crash, moves it.
LEMMA OwnSteps ==
    ASSUME CaptureTypeOK, [Next]_vars, NEW t \in Deliveries
    PROVE  \/ Deliver(t) \/ HandlerStep(t)
           \/ pc'[t] = pc[t] /\ reply'[t] = reply[t] /\ UNCHANGED sent
           \/ pc'[t] = "dead" /\ pc[t] \in InTask
  <1>1. ASSUME NEW u \in Deliveries, u # t, Deliver(u) \/ HandlerStep(u)
        PROVE  pc'[t] = pc[t] /\ reply'[t] = reply[t] /\ UNCHANGED sent
    BY <1>1 DEF CaptureTypeOK, HandlerStep, Progress, Deliver, Dispatch, Step, Answer, Raise,
       RecordIdentity, RecordMembership, LoadRaises, NotConnected, LoadToken, SyncFriends,
       AnswerQuestion, Listen, BuildContext, Download, Parse, ReadMembers, ReadUsers,
       ReadRaises, RefusePayer, AcceptPayer, SaveDraft, ShowDraft, SafeSend
  <1>2. ASSUME NEW k \in Keys, Crash(k)
        PROVE  \/ pc'[t] = pc[t] /\ reply'[t] = reply[t] /\ UNCHANGED sent
               \/ pc'[t] = "dead" /\ pc[t] \in InTask
    BY <1>2 DEF Crash
  <1>3. ASSUME NEW u \in Users, NEW a \in Accounts, Connect(u, a)
        PROVE  UNCHANGED <<pc, reply, sent>>
    BY <1>3 DEF Connect
  <1>4. UNCHANGED vars => UNCHANGED <<pc, reply, sent>>
    BY DEF vars
  <1> QED
    BY <1>1, <1>2, <1>3, <1>4 DEF Next

\* A delivery goes from the transcription and the parser as ReadingContract says,
\* of which ReceiptReading is an implementation: the one composes with the other.
THEOREM CaptureReadsAsContracted == Spec => ReadsAsContracted
  <1>1. CaptureTypeOK /\ [Next]_vars => [ReadsOn]_vars
    <2> SUFFICES ASSUME CaptureTypeOK, Next, NEW t \in Deliveries, pc[t] \in AtModels,
                        pc'[t] # "dead"
                 PROVE  \/ Reading(t)!Next
                        \/ UNCHANGED <<M(t).kind = "photo", ReadingPhase(t)>>
      BY DEF ReadsOn
    <2>1. CASE pc'[t] = pc[t] /\ reply'[t] = reply[t] /\ UNCHANGED sent
      BY <2>1 DEF M, ReadingPhase
    <2>2. CASE Listen(t) \/ BuildContext(t) \/ Download(t) \/ Parse(t)
      <3>1. UNCHANGED M(t)
        BY <2>2 DEF Listen, BuildContext, Download, Parse, M
      <3>2. CASE Listen(t)
        <4>1. /\ ReadingPhase(t) = "listen"
              /\ ReadingPhase(t)' \in {"parse", "hint", "sorry"}
          BY <3>2 DEF Listen, Step, Answer, ReadingPhase, AtModels, CaptureTypeOK
        <4> QED
          BY <3>1, <4>1 DEF Reading!Next, Reading!Listen
      <3>3. CASE BuildContext(t) \/ Download(t)
        <4>1. /\ ReadingPhase(t) = "parse"
              /\ ReadingPhase(t)' \in {"parse", "sorry"}
          BY <3>3 DEF BuildContext, Download, Step, Answer, ReadingPhase, AtModels, CaptureTypeOK
        <4> QED
          BY <3>1, <4>1 DEF Reading!Next, Reading!Parse
      <3>4. CASE Parse(t)
        <4>1. /\ ReadingPhase(t) = "parse"
              /\ \/ ReadingPhase(t)' \in {"expense", "sorry"}
                 \/ ReadingPhase(t)' = "hint" /\ M(t).kind # "photo"
          BY <3>4 DEF Parse, Step, Answer, ReadingPhase, AtModels, CaptureTypeOK
        <4> QED
          BY <3>1, <4>1 DEF Reading!Next, Reading!Parse
      <3> QED
        BY <2>2, <3>2, <3>3, <3>4
    <2>3. CASE Deliver(t) \/ (HandlerStep(t) /\ ~(Listen(t) \/ BuildContext(t) \/ Download(t)
                                                  \/ Parse(t)))
      BY <2>3 DEF AtModels, HandlerStep, Progress, Deliver, Dispatch, Step, Answer, Raise,
         RecordIdentity, RecordMembership, LoadRaises, NotConnected, LoadToken, SyncFriends,
         AnswerQuestion, ReadMembers, ReadUsers, ReadRaises, RefusePayer, AcceptPayer,
         SaveDraft, ShowDraft, SafeSend
    <2> QED
      BY <2>1, <2>2, <2>3, OwnSteps
  <1> QED
    BY <1>1, CaptureTypeCorrect, PTL DEF Spec, ReadsAsContracted

-----------------------------------------------------------------------------
(* The end                                                                 *)

\* What the measure is worth at each step of a handler.
StepsInRange(t) ==
    /\ StepsLeft(t) \in 0..14
    /\ pc[t] = "unborn" => StepsLeft(t) = 14
    /\ pc[t] \in InTask => StepsLeft(t) = Ahead[pc[t]] /\ Ahead[pc[t]] \in 1..13
    /\ pc[t] \in {"dead"} \cup Handled => StepsLeft(t) = 0

AllInRange == \A t \in Deliveries : StepsInRange(t)

LEMMA StepsCounted == CaptureTypeOK => AllInRange
  BY DEF CaptureTypeOK, AllInRange, StepsInRange, StepsLeft, Ahead, InTask, Handled

\* A step of the handler itself.
LEMMA OwnStepCounts ==
    ASSUME CaptureInv, AllInRange, AllInRange', NEW t \in Deliveries,
           Deliver(t) \/ HandlerStep(t)
    PROVE  StepsLeft(t)' < StepsLeft(t)
  <1>1. StepsInRange(t) /\ StepsInRange(t)'
    BY DEF AllInRange
  <1>2. ASSUME NEW from, NEW to, pc[t] = from, pc' = [pc EXCEPT ![t] = to],
               from \in {"unborn"} \cup InTask, to \in Handled \cup InTask,
               from = "unborn" \/ to \in Handled \/ Ahead[to] < Ahead[from]
        PROVE  StepsLeft(t)' < StepsLeft(t)
    <2>1. pc'[t] = to
      BY <1>2 DEF CaptureInv, CaptureTypeOK
    <2>2. CASE to \in Handled
      BY <1>1, <1>2, <2>1, <2>2 DEF StepsInRange
    <2>3. CASE to \in InTask
      BY <1>1, <1>2, <2>1, <2>3 DEF StepsInRange, InTask
    <2> QED
      BY <1>2, <2>2, <2>3
  <1> USE DEF Step, Answer, Raise, InTask, Handled, Ahead
  <1>3. CASE Deliver(t)
    BY <1>2, <1>3 DEF Deliver, Dispatch
  <1>4. CASE RecordIdentity(t) \/ RecordMembership(t) \/ LoadRaises(t) \/ NotConnected(t)
    BY <1>2, <1>4 DEF RecordIdentity, RecordMembership, LoadRaises, NotConnected
  <1>5. CASE LoadToken(t)
    <2>1. M(t).kind \in Kinds \ {"unknown"}
      BY <1>5, MessageType DEF LoadToken, CaptureInv, TaskOK, Inside, Admitted
    <2>2. M(t).kind # "greeting" => Route[M(t).kind] \in {"sync", "ask", "listen", "context", "ignored"}
      BY <2>1, RouteType
    <2> QED
      BY <1>2, <1>5, <2>2 DEF LoadToken
  <1>6. CASE SyncFriends(t) \/ AnswerQuestion(t) \/ Listen(t) \/ BuildContext(t) \/ Download(t)
    BY <1>2, <1>6 DEF SyncFriends, AnswerQuestion, Listen, BuildContext, Download
  <1>7. CASE Parse(t) \/ ReadMembers(t) \/ ReadUsers(t) \/ ReadRaises(t)
    BY <1>2, <1>7 DEF Parse, ReadMembers, ReadUsers, ReadRaises
  <1>8. CASE RefusePayer(t) \/ AcceptPayer(t) \/ SaveDraft(t) \/ ShowDraft(t) \/ SafeSend(t)
    BY <1>2, <1>8 DEF RefusePayer, AcceptPayer, SaveDraft, ShowDraft, SafeSend
  <1> QED
    BY <1>3, <1>4, <1>5, <1>6, <1>7, <1>8 DEF HandlerStep, Progress

\* A delivery ends after 14 steps at most, whatever fails and whoever runs beside it:
\* of EveryMessageIsHandled only the fairness of the event loop is left.
THEOREM CaptureHandlersRunDown == Spec => HandlersRunDown
  <1> DEFINE Down(t) == /\ StepsLeft(t)' \in 0..StepsLeft(t)
                        /\ Deliver(t) \/ HandlerStep(t) => StepsLeft(t)' < StepsLeft(t)
  <1>1. ASSUME CaptureInv, AllInRange, AllInRange', Next, NEW t \in Deliveries
        PROVE  Down(t)
    <2>1. /\ StepsLeft(t) \in 0..14 /\ StepsLeft(t)' \in 0..14
          /\ pc'[t] = "dead" => StepsLeft(t)' = 0
      BY <1>1 DEF AllInRange, StepsInRange
    <2>2. CASE Deliver(t) \/ HandlerStep(t)
      BY <1>1, <2>1, <2>2, OwnStepCounts
    <2>3. CASE ~(Deliver(t) \/ HandlerStep(t))
      <3>1. CASE pc'[t] = pc[t]
        BY <2>1, <2>3, <3>1 DEF StepsLeft
      <3>2. CASE pc'[t] = "dead"
        BY <2>1, <2>3, <3>2
      <3> QED
        BY <1>1, <2>3, <3>1, <3>2, OwnSteps DEF CaptureInv
    <2> QED
      BY <2>2, <2>3
  <1>2. CaptureInv /\ AllInRange /\ AllInRange' /\ [Next]_vars
           => [\A t \in Deliveries : Down(t)]_vars
    BY <1>1
  <1> QED
    BY <1>2, StepsCounted, CaptureInvariant, CaptureTypeCorrect, PTL DEF Spec, HandlersRunDown
=============================================================================
