--------------------------- MODULE DraftResolution ---------------------------
(***************************************************************************)
(* One parsed message on its way to Splitwise: _finalize_capture resolves  *)
(* the payer and the names against whoever is eligible then, the row keeps *)
(* the Splitwise ids it found, handle_confirm turns them into shares, and  *)
(* Splitwise takes them or not.  Meanwhile people connect their accounts,  *)
(* or other accounts than before.                                          *)
(*                                                                         *)
(* A message is [sender, group, payer, amount, splits]: group is the set   *)
(* of recorded members of the chat ({} in a DM), payer a name or NoName,   *)
(* splits a sequence of [name, share].                                     *)
(***************************************************************************)
EXTENDS NameResolution, SplitShares

CONSTANTS
    Cases,      \* a roster, and a message before ParsedExpense checks it: [roster, message]
    Accounts,   \* [Users -> the ids of the Splitwise accounts the person has]
    FriendId,   \* [Friends -> the id of the cached row]; a friend may be a user as well
    FriendsOf   \* [Users -> SUBSET Friends]: the cached Splitwise friends

ASSUME AccountAssumption ==
    /\ \A u \in Users : NoId \notin Accounts[u]
    /\ \A f \in Friends : FriendId[f] # NoId
    /\ FriendsOf \in [Users -> SUBSET Friends]
    /\ \A c \in Cases :
          /\ c = [roster |-> c.roster, message |-> c.message]
          /\ c.message.group \subseteq Users /\ c.message.sender \in Users
          /\ c.message.amount \in Nat
          /\ c.message.splits \in Seq([name : Spoken, share : 0..Scale])

VARIABLES
    roster,     \* who is called what
    account,    \* [Users -> splitwise_user_id of the row, or NoId]
    message,    \* the message being captured
    stage,      \* "parsed", "saved", "refused", "unmatched", "sent", "created", "rejected"
    row,        \* the pending row: [payer, resolved], with the people there were to
                \* choose among and the ids they had then
    sent        \* the splits given to create_expense

vars == <<roster, account, message, stage, row, sent>>

Shares(m) == [i \in DOMAIN m.splits |-> m.splits[i].share]
NoRow     == [payer |-> NoOne, among |-> {}, ids |-> << >>, resolved |-> << >>]

Connected == {u \in Users : account[u] # NoId}
IdOf(p)   == IF p \in Friends THEN FriendId[p] ELSE account[p]

Init ==
    /\ \E c \in Cases : roster = c.roster /\ message = c.message
    /\ SumsToOne(Shares(message))
    /\ account \in [Users -> (UNION {Accounts[u] : u \in Users}) \cup {NoId}]
    /\ \A u \in Users : account[u] \in Accounts[u] \cup {NoId}
    /\ message.sender \in Connected
    /\ stage = "parsed" /\ row = NoRow /\ sent = << >>

\* For the first time, or as somebody else: /start hands out a link to whoever is
\* not connected, and a link that was handed out may be followed later.
Connect(u, a) ==
    /\ a # account[u]
    /\ account' = [account EXCEPT ![u] = a]
    /\ UNCHANGED <<roster, message, stage, row, sent>>

Pool  == Eligible(message.group, Connected)
Payer == ResolvePayer(roster, message.payer, message.sender, Pool)

\* No such payer, or one who never connected: nothing is saved.
RefuseCapture ==
    /\ stage = "parsed"
    /\ Payer # NoOne => IdOf(Payer) = NoId
    /\ stage' = "refused"
    /\ UNCHANGED <<roster, account, message, row, sent>>

Resolved(friends) ==
    [i \in DOMAIN message.splits |->
        LET who == ResolveName(roster, message.splits[i].name, Pool, friends, Payer)
        IN  [who   |-> who,
             share |-> message.splits[i].share,
             sw    |-> IF who = NoOne THEN NoId ELSE IdOf(who)]]

\* Without the friends if the cache cannot be read, though they are there.
SaveRow ==
    /\ stage = "parsed"
    /\ Payer # NoOne /\ IdOf(Payer) # NoId
    /\ \E friends \in {FriendsOf[Payer], {}} :
          row' = [payer |-> Payer, among |-> Pool \cup FriendsOf[Payer],
                  ids |-> [p \in People |-> IdOf(p)], resolved |-> Resolved(friends)]
    /\ stage' = "saved"
    /\ UNCHANGED <<roster, account, message, sent>>

Confirm ==
    /\ stage = "saved"
    /\ sent' = BuildSwSplits(message.amount, row.resolved)
    /\ stage' = IF sent' = << >> THEN "unmatched" ELSE "sent"
    /\ UNCHANGED <<roster, account, message, row>>

Judge ==
    /\ stage = "sent"
    /\ stage' = IF Balances(sent, message.amount) THEN "created" ELSE "rejected"
    /\ UNCHANGED <<roster, account, message, row, sent>>

Next == \/ \E u \in Users : \E a \in Accounts[u] : Connect(u, a)
        \/ RefuseCapture \/ SaveRow \/ Confirm \/ Judge

Spec == Init /\ [][Next]_vars

-----------------------------------------------------------------------------
Ids == (UNION {Accounts[u] : u \in Users}) \cup {FriendId[f] : f \in Friends}

\* Every variable keeps its shape.
DraftTypeOK ==
    /\ [roster |-> roster, message |-> message] \in Cases
    /\ \A u \in Users : account[u] \in Accounts[u] \cup {NoId}
    /\ stage \in {"parsed", "saved", "refused", "unmatched", "sent", "created", "rejected"}
    /\ row.payer \in Users \cup {NoOne} /\ row.among \subseteq People
    /\ \A i \in DOMAIN row.resolved : row.resolved[i].sw \in Ids \cup {NoId}
    /\ \A i \in DOMAIN sent : sent[i].sw \in Ids

TwiceNamed == \E i, j \in DOMAIN row.resolved :
                  i # j /\ row.resolved[i].sw = row.resolved[j].sw
WholeCents == message.amount % 10 = 0

\* An amount in whole cents, split among different people, is never rejected as
\* unbalanced: whatever rounding and imprecise shares lose, the reconciliation
\* in _build_sw_splits gives back to the last cent.
RejectedForCause == stage = "rejected" => TwiceNamed \/ ~WholeCents

\* Nobody owes more or less than the share the confirmation showed, but for the
\* two percent ParsedExpense tolerates and half a cent of rounding for the amount and
\* for each participant: the reconciliation cannot move more than that.
ChargedAsShown ==
    \A i \in DOMAIN sent :
        100 * Abs(sent[i].owed * Scale - message.amount * row.resolved[i].share)
            <= 2 * Scale * message.amount + 500 * Scale * (Len(sent) + 1)

\* n begins, or is, one of the names of p.
Denotes(n, p) == \E k \in KeysOf(roster, p) : Norm[n] # Blank /\ k \in Longer[Norm[n]]
Named(n, p)   == Norm[n] \in KeysOf(roster, p)

\* p is the one whom n means: the payer if it is "self", and otherwise the only
\* one looked at who fits as well, members coming before friends.
MeantBy(n, p) ==
    \/ Norm[n] = Norm[Self] /\ p = row.payer
    \/ /\ Norm[n] # Norm[Self] /\ Denotes(n, p)
       /\ \A q \in row.among \ {p} :
             \/ ~Denotes(n, q)
             \/ p \in Users /\ q \in Friends
             \/ Named(n, p) /\ ~Named(n, q) /\ (p \in Users <=> q \in Users)

\* What is sent to Splitwise charges, for every name of the message, the one
\* person it means, as the account that person had when the draft was drawn up,
\* whoever connects as somebody else before it is confirmed, and even if the
\* friends it may mean could not be read.  A draft with one name that is unknown,
\* ambiguous or not connected charges nobody at all.
ChargesWhoWasNamed ==
    stage \in {"sent", "created", "rejected"} =>
        /\ DOMAIN sent = DOMAIN message.splits
        /\ \A i \in DOMAIN sent : \E p \in People :
              sent[i].sw = row.ids[p] /\ MeantBy(message.splits[i].name, p)

\* "Can I split with Ann?" is answered with the person that a draft of the asker's
\* would charge for the same name among the same people: whoever is charged for a
\* name that means somebody else than the asker, the answer was Yes, with that very
\* person.  (After a Yes a draft may still charge nobody, or the asker: the asker,
\* who is not among those the question looks at, can make a name ambiguous.)
YesToTheSame(r, n, asker, members, friends) ==
    ResolveName(r, n, members, friends, asker)
        \in {CanSplitWith(r, n, asker, members, friends), asker, NoOne}

QuestionsAgree ==
    \A n \in Spoken : \A u \in Users : \A friends \in {FriendsOf[u], {}} :
        YesToTheSame(roster, n, u, Pool, friends)

-----------------------------------------------------------------------------
(* What the repository says and the code does not do                       *)

\* expense_pipeline.py:1407: "We assume the payer paid the full amount".
PayerPaidItAll ==
    \A i \in DOMAIN sent :
        sent[i].paid = IF sent[i].sw = row.ids[row.payer] THEN message.amount ELSE 0

\* expense_pipeline.py:910: "If it matches the sender's own name, that's still
\* the sender", names being compared without punctuation (group_context.py:447).
SenderIsRecognised ==
    row # NoRow /\ message.payer # NoName /\ Named(message.payer, message.sender)
        => row.payer = message.sender
=============================================================================
