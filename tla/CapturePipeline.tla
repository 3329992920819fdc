--------------------------- MODULE CapturePipeline ---------------------------
(***************************************************************************)
(* From a message that reaches the webhook, past its gate and through      *)
(* handle_incoming_message, to its one answer, which may be the            *)
(* confirmation of a saved draft.  Several deliveries are handled at once, *)
(* while users connect their accounts (one step here, oauth_callback in    *)
(* OAuthConnect); every await is a step.                                   *)
(*                                                                         *)
(* A message is [user, group, kind, payer]: group says whether it was sent *)
(* to the group, payer whom the parser would name as payer - the user, for *)
(* "self", or None for a name that fits nobody.                            *)
(***************************************************************************)
EXTENDS UserRows

CONSTANTS
    Proxies,        \* the bots behind which people post anonymously
    Invited,        \* telegram_allowed_user_ids; empty for no restriction
    Messages,       \* the messages users may send
    MaxMessages,    \* how many of them they send
    MaxDeliveries   \* times Telegram delivers one of them

Kinds == {"photo", "voice", "text", "start", "ask", "greeting", "other", "unknown"}

ASSUME CaptureAssumption ==
    /\ Proxies \subseteq Users /\ Invited \subseteq Users
    /\ Messages \subseteq [user : Users, group : BOOLEAN, kind : Kinds,
                           payer : Users \cup {None}]
    /\ MaxMessages \in Nat /\ MaxDeliveries \in Nat

Deliveries == [id : 1..MaxMessages, n : 1..MaxDeliveries]   \* and the drafts' ids
Handled == {"done", "ignored", "raised"}
InTask  == {"identify", "member", "load", "sync", "ask", "listen", "context", "download",
            "parse", "members", "users", "payer", "save", "show", "send"}
Replies == {"none", "link", "connectFirst", "info", "hint", "sorry", "noSuchPayer",
            "youNotConnected", "payerNotConnected", "unsaved",
            "anonymous", "inviteOnly"}

VARIABLES
    sent,       \* [1..MaxMessages -> the message]
    pc,         \* [Deliveries -> step the task is at]
    reply,      \* [Deliveries -> the reply being sent]
    pool,       \* [Deliveries -> users it has read, and their accounts then]
    heard,      \* [Deliveries -> replies that reached the chat]
    drafts,     \* rows of expenses_pending ever saved
    buttons,    \* drafts whose confirmation reached the chat
    trouble,    \* [Deliveries -> failures of what it cannot do without]
    members     \* users recorded in the group

chat == <<heard, buttons>>
vars == <<rows, sent, pc, reply, pool, chat, drafts, trouble, members>>

M(t) == sent[t.id]
U(t) == M(t).user

Init ==
    /\ RowsInit
    /\ sent \in [1..MaxMessages -> Messages]
    /\ pc = [t \in Deliveries |-> "unborn"]
    /\ reply = [t \in Deliveries |-> "none"]
    /\ pool = [t \in Deliveries |-> {}]
    /\ heard = [t \in Deliveries |-> {}]
    /\ drafts = {} /\ buttons = {} /\ members = {}
    /\ trouble = [t \in Deliveries |-> {}]

\* Whose updates reach a handler.
LetIn(u) == u \notin Proxies /\ (Invited = {} \/ u \in Invited)

\* Some callback saves a token; an account is connected, or another one.  The
\* links are only handed out past the gate.
Connect(u, a) ==
    /\ LetIn(u)
    /\ row' = WithToken(u, a)
    /\ UNCHANGED <<key, restarts, sent, pc, reply, pool, chat, drafts, trouble, members>>

-----------------------------------------------------------------------------
(* How a handler goes on                                                   *)

Step(t, from, to) ==
    /\ pc[t] = from
    /\ pc' = [pc EXCEPT ![t] = to]

Answer(t, from, words) ==
    /\ Step(t, from, "send")
    /\ reply' = [reply EXCEPT ![t] = words]

\* An exception nobody catches before the webhook, which logs it and answers 200.
Raise(t, from, why) ==
    /\ Step(t, from, "raised")
    /\ trouble' = [trouble EXCEPT ![t] = @ \cup {why}]

\* Mutant: the allowlist is only asked about commands.
Dispatch_CommandsOnly(t) ==
    /\ UNCHANGED trouble
    /\ IF ~LetIn(U(t)) /\ M(t).kind = "start" THEN Answer(t, "unborn", "inviteOnly")
       ELSE Step(t, "unborn", "identify") /\ UNCHANGED reply

\* _dispatch: who is kept out is told why, and no handler is entered.
Dispatch(t) ==
    /\ \/ U(t) \in Proxies /\ Answer(t, "unborn", "anonymous")
       \/ U(t) \notin Proxies /\ ~LetIn(U(t)) /\ Answer(t, "unborn", "inviteOnly")
       \/ /\ LetIn(U(t))
          /\ Step(t, "unborn", IF M(t).kind = "unknown" THEN "ignored" ELSE "identify")
          /\ UNCHANGED reply
    /\ UNCHANGED trouble

\* Mutant: Telegram is told to forget an update as soon as it arrives.
Deliver_Once(t) ==
    /\ t.n = 1
    /\ Dispatch(t)
    /\ UNCHANGED <<rows, sent, pool, chat, drafts, members>>

\* Telegram delivers a message, and repeats what was not answered: after a crash,
\* or when the answer is late or lost.
Deliver(t) ==
    /\ t.n > 1 => LET before == pc[[t EXCEPT !.n = @ - 1]]
                  IN  before = "dead" \/ (May("telegram") /\ before # "unborn")
    /\ Dispatch(t)
    /\ UNCHANGED <<rows, sent, pool, chat, drafts, members>>

\* Both records are best effort.
RecordIdentity(t) ==
    /\ Step(t, "identify", IF M(t).group THEN "member" ELSE "load")
    /\ row' \in {Named(U(t))} \cup (IF May("supabase") THEN {row} ELSE {})
    /\ UNCHANGED <<key, restarts, sent, reply, pool, chat, drafts, trouble, members>>

RecordMembership(t) ==
    /\ Step(t, "member", "load")
    /\ members' \in {members \cup {U(t)}} \cup (IF May("supabase") THEN {members} ELSE {})
    /\ UNCHANGED <<rows, sent, reply, pool, chat, drafts, trouble>>

-----------------------------------------------------------------------------
(* The token, and what the message is                                      *)

LoadRaises(t) ==
    /\ \/ May("supabase") /\ Raise(t, "load", "supabase")
       \/ Unreadable(U(t)) /\ Raise(t, "load", "key")
    /\ UNCHANGED <<rows, sent, reply, pool, chat, drafts, members>>

\* Somebody not connected is not exposed before the group.
Quiet(m) == m.group /\ m.kind \notin {"photo", "start"}

\* Mutant: a photo is taken from anybody, like the identity of its sender.
NotConnected_PhotoGoesOn(t) ==
    /\ ~Connected(U(t))
    /\ IF M(t).kind = "photo" THEN Step(t, "load", "context") /\ UNCHANGED reply
       ELSE IF Quiet(M(t)) THEN Step(t, "load", "ignored") /\ UNCHANGED reply
       ELSE Answer(t, "load", "link")
    /\ UNCHANGED <<rows, sent, pool, chat, drafts, trouble, members>>

NotConnected(t) ==
    /\ ~Connected(U(t))
    /\ IF Quiet(M(t)) THEN Step(t, "load", "ignored") /\ UNCHANGED reply
       ELSE Answer(t, "load", IF M(t).kind = "photo" THEN "connectFirst" ELSE "link")
    /\ UNCHANGED <<rows, sent, pool, chat, drafts, trouble, members>>

Candidate(u) == [user |-> u, sw |-> row[u].sw]

Route == [start |-> "sync", ask |-> "ask", voice |-> "listen",
          text |-> "context", photo |-> "context", other |-> "ignored"]

LoadToken(t) ==
    /\ Connected(U(t)) /\ ~Unreadable(U(t))
    /\ pool' = [pool EXCEPT ![t] = {Candidate(U(t))}]
    /\ IF M(t).kind = "greeting" THEN Answer(t, "load", "info")
       ELSE Step(t, "load", Route[M(t).kind]) /\ UNCHANGED reply
    /\ UNCHANGED <<rows, sent, chat, drafts, trouble, members>>

-----------------------------------------------------------------------------
(* /start of somebody connected; /people and "can I split with ..."        *)

SyncFriends(t) ==
    /\ Answer(t, "sync", "info")
    /\ UNCHANGED <<rows, sent, pool, chat, drafts, trouble, members>>

AnswerQuestion(t) ==
    /\ \/ Answer(t, "ask", "info") /\ UNCHANGED trouble
       \/ May("supabase") /\ Raise(t, "ask", "supabase") /\ UNCHANGED reply
    /\ UNCHANGED <<rows, sent, pool, chat, drafts, members>>

-----------------------------------------------------------------------------
(* Capture                                                                 *)

\* Download and transcription of a voice note without a photo.
Listen(t) ==
    /\ \/ Step(t, "listen", "context") /\ UNCHANGED reply
       \/ Answer(t, "listen", "hint")
       \/ (May("files") \/ May("model")) /\ Answer(t, "listen", "sorry")
    /\ UNCHANGED <<rows, sent, pool, chat, drafts, trouble, members>>

BuildContext(t) ==
    /\ \/ /\ Step(t, "context", IF M(t).kind = "photo" THEN "download" ELSE "parse")
          /\ UNCHANGED reply
       \/ May("supabase") /\ Answer(t, "context", "sorry")
    /\ UNCHANGED <<rows, sent, pool, chat, drafts, trouble, members>>

Download(t) ==
    /\ \/ Step(t, "download", "parse") /\ UNCHANGED reply
       \/ May("files") /\ Answer(t, "download", "sorry")
    /\ UNCHANGED <<rows, sent, pool, chat, drafts, trouble, members>>

\* Mutant: a parser that gives up is logged, and that is all.
Parse_GivesUpSilently(t) ==
    /\ \/ Step(t, "parse", IF M(t).group THEN "members" ELSE "users")
       \/ May("model") /\ Step(t, "parse", "done")
    /\ UNCHANGED <<rows, sent, reply, pool, chat, drafts, trouble, members>>

\* Too low a confidence, without a photo, is answered like a parser that gave up.
Parse(t) ==
    /\ \/ /\ Step(t, "parse", IF M(t).group THEN "members" ELSE "users")
          /\ UNCHANGED reply
       \/ M(t).kind # "photo" /\ Answer(t, "parse", "hint")
       \/ May("model") /\ Answer(t, "parse", "sorry")
    /\ UNCHANGED <<rows, sent, pool, chat, drafts, trouble, members>>

\* eligible_split_members: in a group first the members ...
ReadMembers(t) ==
    /\ Step(t, "members", "users")
    /\ pool' = [pool EXCEPT ![t] = {Candidate(u) : u \in members}]
    /\ UNCHANGED <<rows, sent, reply, chat, drafts, trouble, members>>

\* ... and then every connected user who was not read as a member.
ReadUsers(t) ==
    /\ Step(t, "users", "payer")
    /\ LET known == IF M(t).group THEN pool[t] ELSE {}
           new   == {u \in Users : row[u].sw # None /\ \A c \in known : c.user # u}
       IN  pool' = [pool EXCEPT ![t] = known \cup {Candidate(u) : u \in new}]
    /\ UNCHANGED <<rows, sent, reply, chat, drafts, trouble, members>>

\* Nothing in _finalize_capture guards these reads.
ReadRaises(t) ==
    /\ May("supabase")
    /\ Raise(t, "members", "supabase") \/ Raise(t, "users", "supabase")
    /\ UNCHANGED <<rows, sent, reply, pool, chat, drafts, members>>

\* The sender is always among them (SenderIsKnown), so that _resolve_payer never
\* looks for the sender's row again.
Payers(t) == {c \in pool[t] : c.user = M(t).payer /\ c.sw # None}

Forget(t) == pool' = [pool EXCEPT ![t] = {}]

RefusePayer(t) ==
    /\ Payers(t) = {}
    /\ Answer(t, "payer", IF \A c \in pool[t] : c.user # M(t).payer THEN "noSuchPayer"
                          ELSE IF M(t).payer = U(t) THEN "youNotConnected"
                          ELSE "payerNotConnected")
    /\ Forget(t)
    /\ UNCHANGED <<rows, sent, chat, drafts, trouble, members>>

\* The friends are read as well; without them the splits resolve to members only.
AcceptPayer(t) ==
    /\ Payers(t) # {}
    /\ Step(t, "payer", "save")
    /\ pool' = [pool EXCEPT ![t] = Payers(t)]
    /\ UNCHANGED <<rows, sent, reply, chat, drafts, trouble, members>>

Row(t) == [id |-> t, payer |-> CHOOSE c \in Payers(t) : TRUE]

SaveDraft(t) ==
    /\ \/ /\ Step(t, "save", "show")
          /\ drafts' = drafts \cup {Row(t)}
          /\ UNCHANGED reply
       \/ /\ May("supabase")
          /\ Answer(t, "save", "unsaved")
          /\ drafts' \in {drafts, drafts \cup {Row(t)}}
    /\ Forget(t)
    /\ UNCHANGED <<rows, sent, chat, trouble, members>>

-----------------------------------------------------------------------------
(* The answer.  A failed one is logged; it may have arrived all the same.  *)

ShowDraft(t) ==
    /\ Step(t, "show", "done")
    /\ \/ buttons' = buttons \cup {t} /\ UNCHANGED trouble
       \/ /\ May("telegram")
          /\ trouble' = [trouble EXCEPT ![t] = @ \cup {"telegram"}]
          /\ buttons' \in {buttons, buttons \cup {t}}
    /\ UNCHANGED <<rows, sent, reply, pool, heard, drafts, members>>

SafeSend(t) ==
    /\ Step(t, "send", "done")
    /\ \/ heard' = [heard EXCEPT ![t] = @ \cup {reply[t]}] /\ UNCHANGED trouble
       \/ /\ May("telegram")
          /\ trouble' = [trouble EXCEPT ![t] = @ \cup {"telegram"}]
          /\ heard' \in {heard, [heard EXCEPT ![t] = @ \cup {reply[t]}]}
    /\ UNCHANGED <<rows, sent, reply, pool, drafts, buttons, members>>

Progress(t) ==
    \/ RecordIdentity(t) \/ RecordMembership(t)
    \/ LoadRaises(t) \/ NotConnected(t) \/ LoadToken(t)
    \/ AnswerQuestion(t)
    \/ Listen(t) \/ BuildContext(t) \/ Download(t)
    \/ ReadMembers(t) \/ ReadUsers(t) \/ ReadRaises(t) \/ RefusePayer(t) \/ AcceptPayer(t)
    \/ SaveDraft(t) \/ ShowDraft(t) \/ SafeSend(t)

HandlerStep(t) == Progress(t) \/ SyncFriends(t) \/ Parse(t)

-----------------------------------------------------------------------------
\* A restart kills the handlers.
Crash(k) ==
    /\ Restarts(k)
    /\ pc' = [t \in Deliveries |-> IF pc[t] \in InTask THEN "dead" ELSE pc[t]]
    /\ UNCHANGED <<sent, reply, pool, chat, drafts, trouble, members>>

Next == \/ \E t \in Deliveries : Deliver(t) \/ HandlerStep(t)
        \/ \E u \in Users, a \in Accounts : Connect(u, a)
        \/ \E k \in Keys : Crash(k)

Spec == Init /\ [][Next]_vars

\* The event loop runs every handler on; Telegram repeats what it must.  No
\* timeout is set for Splitwise or Gemini: nothing obliges them to answer.
FairSpec == Spec /\ \A t \in Deliveries : WF_vars(Progress(t)) /\ WF_vars(Deliver(t))

-----------------------------------------------------------------------------
\* Every variable keeps its type.
CaptureTypeOK ==
    /\ RowsTypeOK
    /\ sent \in [1..MaxMessages -> Messages]
    /\ pc \in [Deliveries -> {"unborn", "dead"} \cup Handled \cup InTask]
    /\ reply \in [Deliveries -> Replies]
    /\ pool \in [Deliveries -> SUBSET [user : Users, sw : Accounts \cup {None}]]
    /\ heard \in [Deliveries -> SUBSET Replies]
    /\ buttons \subseteq Deliveries /\ members \subseteq Users
    /\ trouble \in [Deliveries -> SUBSET {"supabase", "telegram", "key"}]

\* Whoever got past the token check is among the candidates for the payer, and
\* connected, however long the model took: a sender is never told to connect an
\* account that was loaded a moment ago.
SenderIsKnown ==
    \A t \in Deliveries :
        /\ pc[t] = "payer" => \E c \in pool[t] : c.user = U(t) /\ c.sw # None
        /\ reply[t] # "youNotConnected"

\* A draft was written by somebody connected, for the payer the message named,
\* who is connected as well.
DraftsArePaid ==
    \A d \in drafts :
        /\ Connected(U(d.id)) /\ Connected(d.payer.user)
        /\ d.payer.user = M(d.id).payer /\ d.payer.sw # None

\* Buttons are only ever shown for a row that was saved; whoever is told that the
\* draft could not be saved has none, though the row may be there for the sweep.
ButtonsAreSaved ==
    /\ \A t \in buttons : \E d \in drafts : d.id = t
    /\ \A t \in Deliveries : heard[t] # {} => t \notin buttons

\* A message that is not to be ignored is answered, whatever the models, the
\* files and the friends' list do: only a database or a Telegram that fails, or a
\* token under another key, leaves its sender without a word.
SilentForCause ==
    \A t \in Deliveries :
        pc[t] \in {"done", "raised"} => heard[t] # {} \/ t \in buttons \/ trouble[t] # {}

\* "everyone else gets a polite rejection and their handler never runs"
\* (config.py:27): whatever they send, and however often, nobody who is kept out
\* leaves anything behind.
KeptOutLeavesNoTrace ==
    \A u \in Users : ~LetIn(u) =>
        /\ ~row[u].named /\ row[u].token = None /\ u \notin members
        /\ \A d \in drafts : U(d.id) # u /\ d.payer.user # u

\* What the models have made of a delivery, in the terms of ReadingContract.
AtModels == {"listen", "context", "download", "parse"}

ReadingPhase(t) == IF pc[t] = "listen" THEN "listen"
                   ELSE IF pc[t] \in AtModels THEN "parse"
                   ELSE IF pc[t] = "send" THEN reply[t]
                   ELSE "expense"

Reading(t) == INSTANCE ReadingContract WITH photo <- M(t).kind = "photo",
                                            phase <- ReadingPhase(t)

\* As long as a delivery is with the transcription and the parser, it goes through
\* the steps ReceiptReading was shown to implement, and no others, unless it dies.
ReadsOn == \A t \in Deliveries : pc[t] \in AtModels /\ pc'[t] # "dead"
              => Reading(t)!Next \/ UNCHANGED <<M(t).kind = "photo", ReadingPhase(t)>>

ReadsAsContracted == [][ReadsOn]_vars

\* The steps a handler has ahead of it at most, from each one on.
Ahead == [identify |-> 13, member |-> 12, load |-> 11, sync |-> 10, ask |-> 10, listen |-> 10,
          context |-> 9, download |-> 8, parse |-> 7, members |-> 6, users |-> 5, payer |-> 4,
          save |-> 3, show |-> 2, send |-> 1]

StepsLeft(t) == IF pc[t] = "unborn" THEN 14 ELSE IF pc[t] \in InTask THEN Ahead[pc[t]] ELSE 0

\* Each step of a handler leaves it fewer, of 14 at most, and nothing sends one back:
\* no other message, no connection, no restart.
HandlersRunDown ==
    [][\A t \in Deliveries :
          /\ StepsLeft(t)' \in 0..StepsLeft(t)
          /\ Deliver(t) \/ HandlerStep(t) => StepsLeft(t)' < StepsLeft(t)]_vars

\* A message that was delivered is handled to the end, by a repeated delivery if
\* the process died over the first, unless it dies over every one of them, or
\* Splitwise or Gemini never answers one.
Lost(i) == \A u \in Deliveries : u.id = i => pc[u] = "dead"

Hangs(i) == \E u \in Deliveries : u.id = i /\ pc[u] \in {"sync", "parse"}

EveryMessageIsHandled ==
    \A t \in Deliveries :
        \/ <>[]Hangs(t.id)
        \/ pc[t] # "unborn" ~>
              Lost(t.id) \/ (\E u \in Deliveries : u.id = t.id /\ pc[u] \in Handled)
=============================================================================
