----------------------------- MODULE DraftProofs -----------------------------
(***************************************************************************)
(* Who is charged and how much, for every roster, message and group: names *)
(* are resolved without guessing, the Splitwise ids found at capture are   *)
(* the ones that reach Splitwise, and the splits add up to the last cent.  *)
(***************************************************************************)
EXTENDS DraftResolution, FiniteSetTheorems, WellFoundedInduction, TLAPS

-----------------------------------------------------------------------------
(* Names                                                                   *)

\* Somebody who is the only match.
LEMMA TheOnlyOne ==
  ASSUME NEW S, NoOne \notin S, TheOnly(S) # NoOne
  PROVE  S = {TheOnly(S)}
  <1>1. PICK p \in S : S = {p}
    BY DEF TheOnly
  <1>2. (CHOOSE q \in S : TRUE) = p
    BY <1>1
  <1> QED
    BY <1>1, <1>2 DEF TheOnly

\* Leaving people out leaves a single match, if it is not one of them, alone.
LEMMA MatchAmongFewer ==
  ASSUME NEW r, NEW k, NEW pool, NEW fewer \in SUBSET pool, NEW p \in fewer,
         Matches(r, k, pool) = {p}
  PROVE  Matches(r, k, fewer) = {p}
  <1>1. CASE Exactly(r, k, pool) # {}
    BY <1>1 DEF Matches, Exactly
  <1>2. CASE Exactly(r, k, pool) = {}
    BY <1>2 DEF Matches, Exactly, Beginning
  <1> QED
    BY <1>1, <1>2

\* _reply_can_split_with says Yes to whoever resolve_split_names would charge.
THEOREM YesMeansTheSame ==
  ASSUME NEW r, NEW n, NEW asker, NEW members \in SUBSET People, NEW friends \in SUBSET People
  PROVE  YesToTheSame(r, n, asker, members, friends)
  <1> DEFINE p      == ResolveName(r, n, members, friends, asker)
             others == members \ {asker}
  <1> SUFFICES ASSUME p # asker, p # NoOne
               PROVE  p = CanSplitWith(r, n, asker, members, friends)
    BY DEF YesToTheSame
  <1>1. /\ p = TheOnly(Candidates(r, n, members, friends))
        /\ NoOne \notin People
    BY NamesAssumption DEF ResolveName
  <1>2. ASSUME NEW pool \in SUBSET People
        PROVE  Matches(r, Norm[n], pool) \subseteq pool
    BY DEF Matches, Exactly, Beginning
  <1>3. CASE Matches(r, Norm[n], members) # {}
    <2>1. Candidates(r, n, members, friends) = Matches(r, Norm[n], members)
      BY <1>3 DEF Candidates
    <2>2. NoOne \notin Matches(r, Norm[n], members)
      BY <1>1, <1>2
    <2>3. Matches(r, Norm[n], members) = {p}
      BY <1>1, <2>1, <2>2, TheOnlyOne
    <2>4. p \in others
      BY <1>2, <2>3
    <2>5. Matches(r, Norm[n], others) = {p}
      BY <2>3, <2>4, MatchAmongFewer
    <2>6. FindByName(r, n, others) = p
      BY <1>1, <2>1, <2>3, <2>5 DEF FindByName
    <2> QED
      BY <2>6 DEF CanSplitWith
  <1>4. CASE Matches(r, Norm[n], members) = {}
    <2>1. p = FindByName(r, n, friends)
      BY <1>1, <1>4 DEF Candidates, FindByName
    <2>2. Matches(r, Norm[n], others) = {}
      BY <1>4 DEF Matches, Exactly, Beginning
    <2>3. FindByName(r, n, others) = NoOne
      BY <2>2 DEF FindByName, TheOnly
    <2> QED
      BY <2>1, <2>3 DEF CanSplitWith
  <1> QED
    BY <1>3, <1>4

-----------------------------------------------------------------------------
(* ChargesWhoWasNamed                                                      *)

\* What a sequence over a set consists of.
LEMMA ElementsOf ==
  ASSUME NEW S, NEW q \in Seq(S)
  PROVE  /\ Len(q) \in Nat /\ DOMAIN q = 1..Len(q)
         /\ \A i \in DOMAIN q : q[i] \in S
  OBVIOUS

\* A case has people of the group, an amount, and splits whose shares are parts of one.
LEMMA CaseShape ==
  ASSUME NEW c \in Cases
  PROVE  /\ c.message.group \subseteq Users /\ c.message.sender \in Users
         /\ c.message.amount \in Nat
         /\ Len(c.message.splits) \in Nat
         /\ DOMAIN c.message.splits = 1..Len(c.message.splits)
         /\ \A i \in DOMAIN c.message.splits : /\ c.message.splits[i].name \in Spoken
                                               /\ c.message.splits[i].share \in Nat
  <1> DEFINE m == c.message
  <1>1. /\ m.group \subseteq Users /\ m.sender \in Users /\ m.amount \in Nat
        /\ m.splits \in Seq([name : Spoken, share : 0..Scale])
    BY AccountAssumption
  <1> HIDE DEF m
  <1>2. \A i \in DOMAIN m.splits : m.splits[i] \in [name : Spoken, share : 0..Scale]
    BY <1>1, ElementsOf
  <1>3. /\ Len(m.splits) \in Nat /\ DOMAIN m.splits = 1..Len(m.splits)
        /\ \A i \in DOMAIN m.splits : m.splits[i].name \in Spoken /\ m.splits[i].share \in Nat
    BY <1>1, <1>2, ElementsOf, ScaleAssumption
  <1> QED
    BY <1>1, <1>3 DEF m

Saved == {"saved", "unmatched", "sent", "created", "rejected"}
Sent  == {"sent", "created", "rejected"}

\* The row has an id for a name only if it is the account of whom it means; and
\* what was sent is the row, without a name that has no id.
RowIsRight ==
    /\ message.group \subseteq Users /\ message.sender \in Users
    /\ \A i \in DOMAIN message.splits : message.splits[i].name \in Spoken
    /\ stage \in Saved =>
         /\ DOMAIN row.resolved = DOMAIN message.splits
         /\ \A i \in DOMAIN row.resolved : row.resolved[i].sw # NoId =>
               \E p \in People : /\ row.resolved[i].sw = row.ids[p]
                                 /\ MeantBy(message.splits[i].name, p)
    /\ stage \in Sent =>
         /\ DOMAIN sent = DOMAIN row.resolved
         /\ \A i \in DOMAIN sent : /\ sent[i].sw = row.resolved[i].sw
                                   /\ row.resolved[i].sw # NoId

\* Whoever matches has a name that begins with the one looked up, and nobody in
\* the pool fits better.
LEMMA MatchFits ==
  ASSUME NEW n \in Spoken, NEW pool, NEW p \in Matches(roster, Norm[n], pool)
  PROVE  /\ p \in pool /\ Denotes(n, p)
         /\ \A q \in pool \ Matches(roster, Norm[n], pool) :
               ~Denotes(n, q) \/ (Named(n, p) /\ ~Named(n, q))
  <1>1. Norm[n] \in Keys /\ Norm[n] \in Longer[Norm[n]]
    BY NamesAssumption DEF Keys
  <1>2. \A q : Named(n, q) => Norm[n] # Blank
    BY DEF Named, KeysOf
  <1>3. CASE Exactly(roster, Norm[n], pool) # {}
    <2>1. Matches(roster, Norm[n], pool) = Exactly(roster, Norm[n], pool)
      BY <1>3 DEF Matches
    <2> QED
      BY <2>1, <1>1, <1>2 DEF Exactly, Named, Denotes
  <1>4. CASE Exactly(roster, Norm[n], pool) = {}
    <2>1. Matches(roster, Norm[n], pool) = Beginning(roster, Norm[n], pool)
      BY <1>4 DEF Matches
    <2>2. \A q \in pool : q \in Beginning(roster, Norm[n], pool) <=> Denotes(n, q)
      BY DEF Beginning, Denotes
    <2>3. p \in pool
      BY <2>1 DEF Beginning
    <2>4. Denotes(n, p)
      BY <2>1, <2>2, <2>3
    <2>5. ASSUME NEW q \in pool \ Matches(roster, Norm[n], pool) PROVE ~Denotes(n, q)
      BY <2>1, <2>2, <2>5
    <2> QED
      BY <2>3, <2>4, <2>5
  <1> QED
    BY <1>3, <1>4

\* The only match of a name is somebody the name denotes.
LEMMA UniqueMatchFits ==
  ASSUME NEW n \in Spoken, NEW pool, NoOne \notin pool,
         TheOnly(Matches(roster, Norm[n], pool)) # NoOne
  PROVE  \E p \in pool : /\ p = TheOnly(Matches(roster, Norm[n], pool)) /\ Denotes(n, p)
                         /\ \A q \in pool \ {p} :
                               ~Denotes(n, q) \/ (Named(n, p) /\ ~Named(n, q))
  <1>1. NoOne \notin Matches(roster, Norm[n], pool)
    BY DEF Matches, Exactly, Beginning
  <1>2. PICK p : p = TheOnly(Matches(roster, Norm[n], pool))
    OBVIOUS
  <1>3. Matches(roster, Norm[n], pool) = {p}
    BY <1>1, <1>2, TheOnlyOne
  <1>4. p \in Matches(roster, Norm[n], pool)
    BY <1>3
  <1>5. /\ p \in pool /\ Denotes(n, p)
        /\ \A q \in pool \ Matches(roster, Norm[n], pool) :
              ~Denotes(n, q) \/ (Named(n, p) /\ ~Named(n, q))
    BY <1>4, MatchFits
  <1> QED
    BY <1>2, <1>3, <1>5

\* One name of a message, resolved when the row is saved, with the friends there
\* are or with none.
LEMMA ResolvedIsMeant ==
  ASSUME NEW n \in Spoken, NEW members \in SUBSET Users, NEW known \in SUBSET Friends,
         NEW friends \in {known, {}},
         NEW payer \in Users, row'.payer = payer, row'.among = members \cup known,
         roster' = roster, ResolveName(roster, n, members, friends, payer) # NoOne
  PROVE  \E p \in People : /\ p = ResolveName(roster, n, members, friends, payer)
                           /\ MeantBy(n, p)'
  <1> USE NamesAssumption DEF People
  <1>1. CASE Norm[n] = Norm[Self]
    BY <1>1 DEF ResolveName, MeantBy
  <1>2. CASE Norm[n] # Norm[Self] /\ Matches(roster, Norm[n], members) # {}
    <2>1. ResolveName(roster, n, members, friends, payer)
             = TheOnly(Matches(roster, Norm[n], members))
      BY <1>2 DEF ResolveName, Candidates
    <2>2. PICK p \in members : /\ p = ResolveName(roster, n, members, friends, payer)
                               /\ Denotes(n, p)
                               /\ \A q \in members \ {p} :
                                     ~Denotes(n, q) \/ (Named(n, p) /\ ~Named(n, q))
      BY <2>1, UniqueMatchFits
    <2> QED
      BY <1>2, <2>2 DEF MeantBy, Denotes, Named, KeysOf
  <1>3. CASE Norm[n] # Norm[Self] /\ Matches(roster, Norm[n], members) = {}
    <2>1. ResolveName(roster, n, members, friends, payer)
             = TheOnly(Matches(roster, Norm[n], friends))
      BY <1>3 DEF ResolveName, Candidates
    <2>2. PICK p \in friends : /\ p = ResolveName(roster, n, members, friends, payer)
                               /\ Denotes(n, p)
                               /\ \A q \in friends \ {p} :
                                     ~Denotes(n, q) \/ (Named(n, p) /\ ~Named(n, q))
      BY <2>1, UniqueMatchFits
    <2>4. friends = known
      BY <2>2
    <2>3. \A q \in members : ~Denotes(n, q)
      BY <1>3 DEF Matches, Exactly, Beginning, Denotes
    <2> QED
      BY <1>3, <2>2, <2>3, <2>4 DEF MeantBy, Denotes, Named, KeysOf
  <1> QED
    BY <1>1, <1>2, <1>3

\* The splits are built one for one from the saved row, with the ids it carries.
LEMMA BuiltFromRow ==
  ASSUME NEW amount, NEW meta, BuildSwSplits(amount, meta) # << >>
  PROVE  /\ DOMAIN BuildSwSplits(amount, meta) = DOMAIN meta
         /\ \A i \in DOMAIN meta : /\ BuildSwSplits(amount, meta)[i].sw = meta[i].sw
                                   /\ meta[i].sw # NoId
  BY DEF BuildSwSplits

\* Payers are looked for among Telegram users only.
LEMMA PoolIsOfUsers ==
  ASSUME message.group \subseteq Users
  PROVE  Pool \subseteq Users
  BY DEF Pool, Eligible, Connected

\* So the payer is one.
LEMMA PayerIsUser ==
  ASSUME message.group \subseteq Users, message.sender \in Users,
         Payer # NoOne
  PROVE  Payer \in Users
  <1> DEFINE others == Pool \ {message.sender}
             M == Matches(roster, Norm[message.payer], others)
  <1>1. M \subseteq Users
    BY PoolIsOfUsers DEF Matches, Exactly, Beginning
  <1>2. CASE Payer = message.sender
    BY <1>2
  <1>3. CASE Payer = TheOnly(M)
    <2>1. M = {Payer}
      BY <1>1, <1>3, TheOnlyOne, NamesAssumption DEF People
    <2> QED
      BY <1>1, <2>1
  <1> QED
    BY <1>2, <1>3 DEF Payer, ResolvePayer, FindByName

\* The row that is saved names whom the message meant.
LEMMA SaveRowIsRight ==
  ASSUME RowIsRight, SaveRow
  PROVE  RowIsRight'
  <1>1. /\ stage' = "saved" /\ UNCHANGED <<roster, account, message, sent>>
        /\ Payer # NoOne
    BY DEF SaveRow
  <1>2. PICK friends \in {FriendsOf[Payer], {}} :
           row' = [payer |-> Payer, among |-> Pool \cup FriendsOf[Payer],
                   ids |-> [p \in People |-> IdOf(p)], resolved |-> Resolved(friends)]
    BY DEF SaveRow
  <1>3. Payer \in Users /\ Pool \in SUBSET Users
    BY <1>1, PayerIsUser, PoolIsOfUsers DEF RowIsRight
  <1>4. FriendsOf[Payer] \in SUBSET Friends
    BY <1>3, AccountAssumption
  <1>5. ASSUME NEW i \in DOMAIN message.splits, Resolved(friends)[i].sw # NoId
        PROVE  \E p \in People : /\ Resolved(friends)[i].sw = IdOf(p)
                                 /\ MeantBy(message.splits[i].name, p)'
    <2>1. PICK n : n = message.splits[i].name
      OBVIOUS
    <2>2. n \in Spoken
      BY <2>1 DEF RowIsRight
    <2>3. LET p == ResolveName(roster, n, Pool, friends, Payer)
          IN  p # NoOne /\ Resolved(friends)[i].sw = IdOf(p)
      BY <1>5, <2>1 DEF Resolved
    <2>4. row'.payer = Payer /\ row'.among = Pool \cup FriendsOf[Payer] /\ roster' = roster
      BY <1>1, <1>2
    <2>5. PICK p \in People : Resolved(friends)[i].sw = IdOf(p) /\ MeantBy(n, p)'
      BY <1>2, <1>3, <1>4, <2>2, <2>3, <2>4, ResolvedIsMeant
    <2>6. (message.splits[i].name)' = n
      BY <1>1, <2>1
    <2>7. MeantBy(message.splits[i].name, p)'
      BY <2>5, <2>6 DEF MeantBy, Denotes, Named, KeysOf
    <2> QED
      BY <2>5, <2>7
  <1>6. DOMAIN Resolved(friends) = DOMAIN message.splits
    BY DEF Resolved
  <1> QED
    BY <1>1, <1>2, <1>5, <1>6 DEF RowIsRight, Saved, Sent

\* No later step changes whom the row names.
LEMMA StepKeepsRow == RowIsRight /\ [Next]_vars => RowIsRight'
  <1> SUFFICES ASSUME RowIsRight, [Next]_vars PROVE RowIsRight'
    OBVIOUS
  <1>1. CASE SaveRow
    BY <1>1, SaveRowIsRight
  <1>2. CASE Confirm
    <2> DEFINE built == BuildSwSplits(message.amount, row.resolved)
    <2>1. /\ stage = "saved" /\ sent' = built
          /\ stage' = IF built = << >> THEN "unmatched" ELSE "sent"
          /\ UNCHANGED <<roster, account, message, row>>
      BY <1>2 DEF Confirm
    <2>2. built # << >> => /\ DOMAIN built = DOMAIN row.resolved
                          /\ \A i \in DOMAIN row.resolved :
                                built[i].sw = row.resolved[i].sw /\ row.resolved[i].sw # NoId
      BY BuiltFromRow
    <2> QED
      BY <2>1, <2>2 DEF RowIsRight, Saved, Sent, MeantBy, Denotes, Named, KeysOf
  <1>3. CASE Judge
    BY <1>3 DEF Judge, RowIsRight, Saved, Sent, MeantBy, Denotes, Named, KeysOf
  <1>4. CASE RefuseCapture
    BY <1>4 DEF RefuseCapture, RowIsRight, Saved, Sent
  <1>5. ASSUME NEW u \in Users, NEW a, Connect(u, a) PROVE RowIsRight'
    BY <1>5 DEF Connect, RowIsRight, Saved, Sent, MeantBy, Denotes, Named, KeysOf
  <1>6. CASE UNCHANGED vars
    BY <1>6 DEF vars, RowIsRight, Saved, Sent, MeantBy, Denotes, Named, KeysOf
  <1> QED
    BY <1>1, <1>2, <1>3, <1>4, <1>5, <1>6 DEF Next

\* Whatever the names, whoever connects meanwhile and whether or not the friends
\* can be read: a posted draft charges exactly the people its names mean.
THEOREM NobodyElseIsCharged == Spec => []ChargesWhoWasNamed
  <1>1. Init => RowIsRight
    BY CaseShape DEF Init, RowIsRight, Saved, Sent
  <1>2. RowIsRight => ChargesWhoWasNamed
    BY DEF RowIsRight, ChargesWhoWasNamed, Saved, Sent
  <1> QED
    BY <1>1, <1>2, StepKeepsRow, PTL DEF Spec

-----------------------------------------------------------------------------
(* The shape of the variables                                              *)

\* The people of the message are Telegram users.
LEMMA MessageShape ==
  ASSUME DraftTypeOK
  PROVE  message.group \subseteq Users /\ message.sender \in Users
  <1>1. PICK c \in Cases : c = [roster |-> roster, message |-> message]
    BY DEF DraftTypeOK
  <1> QED
    BY <1>1, AccountAssumption

\* An id is one of those that Splitwise gave out, or none.
LEMMA IdShape ==
  ASSUME DraftTypeOK, NEW p \in People
  PROVE  IdOf(p) \in Ids \cup {NoId}
  <1>1. CASE p \in Friends
    <2>1. FriendId[p] \in {FriendId[f] : f \in Friends}
      BY <1>1
    <2>2. IdOf(p) = FriendId[p]
      BY <1>1 DEF IdOf
    <2>3. FriendId[p] \in Ids
      BY <2>1 DEF Ids
    <2> QED
      BY <2>2, <2>3
  <1>2. CASE p \notin Friends
    <2>1. p \in Users /\ account[p] \in Accounts[p] \cup {NoId}
      BY <1>2 DEF DraftTypeOK, People
    <2> QED
      BY <1>2, <2>1 DEF IdOf, Ids
  <1> QED
    BY <1>1, <1>2

\* A resolved name is a member, a friend or the payer.
LEMMA ResolvedPeople ==
  ASSUME NEW n, NEW members \in SUBSET Users, NEW friends \in SUBSET Friends,
         NEW payer \in Users, ResolveName(roster, n, members, friends, payer) # NoOne
  PROVE  ResolveName(roster, n, members, friends, payer) \in People
  <1> DEFINE C == Candidates(roster, n, members, friends)
  <1>1. C \subseteq People
    BY DEF Candidates, Matches, Exactly, Beginning, People
  <1>2. CASE Norm[n] = Norm[Self]
    BY <1>2 DEF ResolveName, People
  <1>3. CASE Norm[n] # Norm[Self]
    <2>1. ResolveName(roster, n, members, friends, payer) = TheOnly(C)
      BY <1>3 DEF ResolveName
    <2>2. C = {TheOnly(C)}
      BY <1>1, <2>1, TheOnlyOne, NamesAssumption
    <2> QED
      BY <1>1, <2>1, <2>2
  <1> QED
    BY <1>2, <1>3

\* Every step keeps the types.
LEMMA StepKeepsShape == DraftTypeOK /\ [Next]_vars => DraftTypeOK'
  <1> SUFFICES ASSUME DraftTypeOK, [Next]_vars PROVE DraftTypeOK'
    OBVIOUS
  <1>0. Ids' = Ids
    BY DEF Ids
  <1>1. CASE SaveRow
    <2>1. /\ stage' = "saved" /\ UNCHANGED <<roster, account, message, sent>>
          /\ Payer # NoOne
      BY <1>1 DEF SaveRow
    <2>2. PICK friends \in {FriendsOf[Payer], {}} :
             row' = [payer |-> Payer, among |-> Pool \cup FriendsOf[Payer],
                     ids |-> [p \in People |-> IdOf(p)], resolved |-> Resolved(friends)]
      BY <1>1 DEF SaveRow
    <2>3. Payer \in Users /\ Pool \in SUBSET Users
      BY <2>1, MessageShape, PayerIsUser, PoolIsOfUsers
    <2>4. friends \in SUBSET Friends /\ FriendsOf[Payer] \in SUBSET Friends
      BY <2>3, AccountAssumption
    <2>5. ASSUME NEW i \in DOMAIN Resolved(friends)
          PROVE  Resolved(friends)[i].sw \in Ids \cup {NoId}
      <3> DEFINE who == ResolveName(roster, message.splits[i].name, Pool, friends, Payer)
      <3>1. Resolved(friends)[i].sw = IF who = NoOne THEN NoId ELSE IdOf(who)
        BY DEF Resolved
      <3>2. who # NoOne => who \in People
        BY <2>3, <2>4, ResolvedPeople
      <3> HIDE DEF who
      <3> QED
        BY <3>1, <3>2, IdShape
    <2>6. /\ row'.payer = Payer /\ row'.among = Pool \cup FriendsOf[Payer]
          /\ row'.resolved = Resolved(friends)
      BY <2>2
    <2> QED
      BY <1>0, <2>1, <2>3, <2>4, <2>5, <2>6 DEF DraftTypeOK, People
  <1>2. CASE Confirm
    <2> DEFINE built == BuildSwSplits(message.amount, row.resolved)
    <2>1. /\ stage = "saved" /\ sent' = built
          /\ stage' \in {"unmatched", "sent"}
          /\ UNCHANGED <<roster, account, message, row>>
      BY <1>2 DEF Confirm
    <2>2. built # << >> => /\ DOMAIN built = DOMAIN row.resolved
                          /\ \A i \in DOMAIN row.resolved :
                                built[i].sw = row.resolved[i].sw /\ row.resolved[i].sw # NoId
      BY BuiltFromRow
    <2> HIDE DEF built
    <2>3. ASSUME NEW i \in DOMAIN built PROVE built[i].sw \in Ids
      BY <2>2, <2>3 DEF DraftTypeOK
    <2> QED
      BY <1>0, <2>1, <2>3 DEF DraftTypeOK
  <1>3. CASE RefuseCapture \/ Judge
    BY <1>0, <1>3 DEF RefuseCapture, Judge, DraftTypeOK
  <1>4. ASSUME NEW u \in Users, NEW a \in Accounts[u], Connect(u, a) PROVE DraftTypeOK'
    <2>1. /\ account' = [account EXCEPT ![u] = a]
          /\ UNCHANGED <<roster, message, stage, row, sent>>
      BY <1>4 DEF Connect
    <2>2. \A w \in Users : account'[w] = account[w] \/ (w = u /\ account'[w] = a)
      BY <2>1
    <2> QED
      BY <1>0, <1>4, <2>1, <2>2 DEF DraftTypeOK
  <1>5. CASE UNCHANGED vars
    BY <1>0, <1>5 DEF vars, DraftTypeOK
  <1> QED
    BY <1>1, <1>2, <1>3, <1>4, <1>5 DEF Next

\* Every variable of a capture keeps its shape, for every town and every message.
THEOREM DraftTypeCorrect == Spec => []DraftTypeOK
  <1>1. Init => DraftTypeOK
    <2> SUFFICES ASSUME Init PROVE DraftTypeOK
      OBVIOUS
    <2>1. PICK c \in Cases : roster = c.roster /\ message = c.message
      BY DEF Init
    <2>2. [roster |-> roster, message |-> message] \in Cases
      BY <2>1, AccountAssumption
    <2> QED
      BY <2>2 DEF Init, DraftTypeOK, NoRow
  <1> QED
    BY <1>1, StepKeepsShape, PTL DEF Spec

\* Whoever connects, and whatever the roster: the answer to "can I split with ..." and
\* a draft of the same moment never mean two people by one name, but for the asker.
THEOREM QuestionsAlwaysAgree == Spec => []QuestionsAgree
  <1>1. DraftTypeOK => QuestionsAgree
    <2> SUFFICES ASSUME DraftTypeOK, NEW n \in Spoken, NEW u \in Users,
                        NEW friends \in {FriendsOf[u], {}}
                 PROVE  YesToTheSame(roster, n, u, Pool, friends)
      BY DEF QuestionsAgree
    <2>1. Pool \in SUBSET People
      BY PoolIsOfUsers, AccountAssumption DEF DraftTypeOK, People
    <2>2. friends \in SUBSET People
      BY AccountAssumption DEF People
    <2> QED
      BY <2>1, <2>2, YesMeansTheSame
  <1> QED
    BY <1>1, DraftTypeCorrect, PTL

-----------------------------------------------------------------------------
(* Induction without an operator: over the naturals, and over the subsets  *)
(* of a finite set in the order in which a fold takes elements out.        *)

\* Induction over a set of natural numbers.
LEMMA NatSetInduction ==
  ASSUME NEW T, 0 \in T, \A n \in Nat : n \in T => n + 1 \in T
  PROVE  \A n \in Nat : n \in T
  <1> DEFINE Bad == {n \in Nat : n \notin T}
  <1> SUFFICES ASSUME Bad # {} PROVE FALSE
    OBVIOUS
  <1>1. PICK m \in Bad : \A n \in Bad : <<n, m>> \notin OpToRel(<, Nat)
    <2> HIDE DEF Bad
    <2>1. Bad \subseteq Nat
      BY DEF Bad
    <2> QED
      BY <2>1, NatLessThanWellFounded, WFMin
  <1>2. m # 0 /\ m - 1 \in Nat /\ m - 1 < m
    OBVIOUS
  <1>3. <<m - 1, m>> \in OpToRel(<, Nat)
    BY <1>2 DEF OpToRel
  <1>4. m - 1 \in T
    BY <1>1, <1>2, <1>3
  <1>5. (m - 1) + 1 = m
    BY <1>2
  <1> QED
    BY <1>2, <1>4, <1>5

First(s) == CHOOSE x \in s : TRUE
Rest(s)  == s \ {First(s)}

\* The element a fold takes out first is there.
LEMMA FirstIn ==
  ASSUME NEW s, s # {}
  PROVE  First(s) \in s
  BY DEF First

\* What holds of the empty part, and of a part whose rest it holds of, holds of every part.
LEMMA SubsetInduction ==
  ASSUME NEW D, IsFiniteSet(D), NEW T, {} \in T,
         \A s \in SUBSET D : s # {} /\ Rest(s) \in T => s \in T
  PROVE  \A s \in SUBSET D : s \in T
  <1> DEFINE Bad == {s \in SUBSET D : s \notin T}
  <1> SUFFICES ASSUME Bad # {} PROVE FALSE
    OBVIOUS
  <1>1. IsWellFoundedOn(StrictSubsetOrdering(D), SUBSET D)
    BY FS_StrictSubsetOrderingWellFounded, FS_FiniteSubsetsOfFinite
  <1>2. PICK s \in Bad : \A t \in Bad : <<t, s>> \notin StrictSubsetOrdering(D)
    <2> HIDE DEF Bad
    <2>1. Bad \subseteq SUBSET D
      BY DEF Bad
    <2> QED
      BY <1>1, <2>1, WFMin
  <1>3. s # {} /\ First(s) \in s
    BY FirstIn
  <1>4. Rest(s) \in SUBSET D /\ Rest(s) \subseteq s /\ Rest(s) # s
    BY <1>3 DEF Rest
  <1>5. <<Rest(s), s>> \in StrictSubsetOrdering(D)
    BY <1>4 DEF StrictSubsetOrdering
  <1> QED
    BY <1>2, <1>3, <1>4, <1>5

-----------------------------------------------------------------------------
(* Total                                                                   *)

Unfold(f, g, s) == IF s = {} THEN 0 ELSE f[First(s)] + g[Rest(s)]
Sums(f) == CHOOSE g : g = [s \in SUBSET DOMAIN f |-> Unfold(f, g, s)]

Numbers(f) == IsFiniteSet(DOMAIN f) /\ \A i \in DOMAIN f : f[i] \in Int

\* FoldFunction, written out.
LEMMA TotalIsSum == ASSUME NEW f PROVE Total(f) = Sums(f)[DOMAIN f]
  BY DEF Total, FoldFunction, FoldFunctionOnSet, MapThenFoldSet, Sums, Unfold, First, Rest

\* The recursive function a fold is made of exists.
LEMMA SumsUnfold ==
  ASSUME NEW f, Numbers(f)
  PROVE  /\ Sums(f) \in [SUBSET DOMAIN f -> Int]
         /\ \A s \in SUBSET DOMAIN f : Sums(f)[s] = Unfold(f, Sums(f), s)
  <1> DEFINE D == DOMAIN f
             T == {n \in Nat : \E g \in [SUBSET D -> Int] :
                     \A s \in SUBSET D : Cardinality(s) <= n => g[s] = Unfold(f, g, s)}
  <1>1. \A s \in SUBSET D : Cardinality(s) \in Nat /\ (Cardinality(s) = 0 <=> s = {})
    BY FS_Subset, FS_CardinalityType, FS_EmptySet DEF Numbers
  <1>2. ASSUME NEW s \in SUBSET D, s # {}
        PROVE  /\ First(s) \in D /\ Rest(s) \in SUBSET D
               /\ Cardinality(Rest(s)) = Cardinality(s) - 1
    BY <1>2, FirstIn, FS_Subset, FS_RemoveElement DEF Rest, Numbers
  <1>3. 0 \in T
    <2> DEFINE g == [s \in SUBSET D |-> 0]
    <2>1. \A s \in SUBSET D : Cardinality(s) <= 0 => s = {}
      BY <1>1
    <2>2. g \in [SUBSET D -> Int] /\ \A s \in SUBSET D : Cardinality(s) <= 0 => g[s] = Unfold(f, g, s)
      BY <2>1 DEF Unfold
    <2> QED
      BY <2>2
  <1>4. ASSUME NEW n \in Nat, n \in T PROVE n + 1 \in T
    <2>1. PICK g \in [SUBSET D -> Int] :
             \A s \in SUBSET D : Cardinality(s) <= n => g[s] = Unfold(f, g, s)
      BY <1>4
    <2> DEFINE h == [s \in SUBSET D |-> Unfold(f, g, s)]
    <2>2. h \in [SUBSET D -> Int]
      BY <1>2, <2>1 DEF Unfold, Numbers
    <2>3. ASSUME NEW s \in SUBSET D, Cardinality(s) <= n + 1, s # {}
          PROVE  h[s] = Unfold(f, h, s)
      <3>1. Rest(s) \in SUBSET D /\ Cardinality(Rest(s)) <= n
        BY <1>1, <1>2, <2>3
      <3>2. g[Rest(s)] = h[Rest(s)]
        BY <2>1, <3>1
      <3> QED
        BY <2>3, <3>2 DEF Unfold
    <2>4. h[{}] = Unfold(f, h, {})
      BY DEF Unfold
    <2> HIDE DEF h
    <2>5. \A s \in SUBSET D : Cardinality(s) <= n + 1 => h[s] = Unfold(f, h, s)
      BY <2>3, <2>4
    <2> QED
      BY <2>2, <2>5
  <1>5. Cardinality(D) \in T
    <2> HIDE DEF T
    <2> QED
      BY <1>1, <1>3, <1>4, NatSetInduction
  <1>6. PICK g \in [SUBSET D -> Int] :
           \A s \in SUBSET D : Cardinality(s) <= Cardinality(D) => g[s] = Unfold(f, g, s)
    BY <1>5
  <1>7. \A s \in SUBSET D : Cardinality(s) <= Cardinality(D)
    BY FS_Subset DEF Numbers
  <1>8. g = [s \in SUBSET D |-> Unfold(f, g, s)]
    BY <1>6, <1>7
  <1>9. Sums(f) = [s \in SUBSET D |-> Unfold(f, Sums(f), s)]
    BY <1>8 DEF Sums
  <1>10. ASSUME NEW s \in SUBSET D PROVE Sums(f)[s] = Unfold(f, Sums(f), s)
    BY <1>9
  <1>11. \A s \in SUBSET D : Sums(f)[s] \in Int
    <2> DEFINE S == {s \in SUBSET D : Sums(f)[s] \in Int}
    <2>0. {} \in SUBSET D /\ 0 \in Int
      OBVIOUS
    <2>a. Sums(f)[{}] = 0
      BY <1>10, <2>0 DEF Unfold
    <2>1. {} \in S
      BY <2>0, <2>a
    <2>2. ASSUME NEW s \in SUBSET D, s # {}, Rest(s) \in S PROVE s \in S
      <3>1. f[First(s)] \in Int /\ Sums(f)[Rest(s)] \in Int
        BY <1>2, <2>2 DEF Numbers
      <3>2. Sums(f)[s] = f[First(s)] + Sums(f)[Rest(s)]
        BY <1>10, <2>2 DEF Unfold
      <3> QED
        BY <3>1, <3>2
    <2> HIDE DEF S
    <2>3. \A s \in SUBSET D : s \in S
      BY <2>1, <2>2, SubsetInduction DEF Numbers
    <2> QED
      BY <2>3 DEF S
  <1> QED
    BY <1>9, <1>10, <1>11

\* A sum of numbers is a number.
LEMMA TotalType ==
  ASSUME NEW f, Numbers(f)
  PROVE  Total(f) \in Int
  BY TotalIsSum, SumsUnfold

\* How a sum is taken: what holds of the empty part, and of a part if it holds of the
\* part without its first element, holds of all of it.
LEMMA SumStep ==
  ASSUME NEW f, Numbers(f), NEW s \in SUBSET DOMAIN f, s # {}
  PROVE  /\ First(s) \in DOMAIN f /\ f[First(s)] \in Int
         /\ Rest(s) \in SUBSET DOMAIN f /\ Sums(f)[Rest(s)] \in Int
         /\ Sums(f)[s] = f[First(s)] + Sums(f)[Rest(s)]
  <1>1. First(s) \in DOMAIN f /\ Rest(s) \in SUBSET DOMAIN f
    BY FirstIn DEF Rest
  <1> QED
    BY <1>1, SumsUnfold DEF Numbers, Unfold

\* Nothing adds up to zero.
LEMMA SumOfNothing ==
  ASSUME NEW f, Numbers(f)
  PROVE  Sums(f)[{}] = 0
  BY SumsUnfold DEF Unfold

\* A sum is linear.
LEMMA TotalLinear ==
  ASSUME NEW f, NEW g, NEW h, NEW a \in Int, NEW b \in Int, Numbers(f), Numbers(g),
         DOMAIN g = DOMAIN f, DOMAIN h = DOMAIN f,
         \A i \in DOMAIN f : h[i] = a * f[i] + b * g[i]
  PROVE  Total(h) = a * Total(f) + b * Total(g)
  <1> DEFINE T == {s \in SUBSET DOMAIN f : Sums(h)[s] = a * Sums(f)[s] + b * Sums(g)[s]}
  <1>1. Numbers(h)
    BY DEF Numbers
  <1>2. {} \in T
    BY <1>1, SumOfNothing
  <1>3. ASSUME NEW s \in SUBSET DOMAIN f, s # {}, Rest(s) \in T PROVE s \in T
    <2> DEFINE i == First(s)
               F == Sums(f)[Rest(s)]
               G == Sums(g)[Rest(s)]
    <2>1. /\ i \in DOMAIN f /\ f[i] \in Int /\ g[i] \in Int /\ F \in Int /\ G \in Int
          /\ Sums(f)[s] = f[i] + F /\ Sums(g)[s] = g[i] + G
          /\ Sums(h)[s] = h[i] + Sums(h)[Rest(s)]
      BY <1>1, <1>3, SumStep
    <2>2. Sums(h)[Rest(s)] = a * F + b * G
      BY <1>3
    <2>3. h[i] = a * f[i] + b * g[i]
      BY <2>1
    <2> HIDE DEF i, F, G
    <2>4. Sums(h)[s] = (a * f[i] + b * g[i]) + (a * F + b * G)
      BY <2>1, <2>2, <2>3
    <2>5. @ = a * (f[i] + F) + b * (g[i] + G)
      BY <2>1
    <2> QED
      BY <2>1, <2>4, <2>5
  <1> HIDE DEF T
  <1>4. DOMAIN f \in T
    BY <1>2, <1>3, SubsetInduction DEF Numbers
  <1> QED
    BY <1>4, TotalIsSum DEF T

\* Nothing negative adds up to nothing negative.
LEMMA TotalNat ==
  ASSUME NEW f, Numbers(f), \A i \in DOMAIN f : f[i] >= 0
  PROVE  Total(f) >= 0
  <1> DEFINE T == {s \in SUBSET DOMAIN f : Sums(f)[s] >= 0}
  <1>1. {} \in T
    BY SumOfNothing
  <1>2. ASSUME NEW s \in SUBSET DOMAIN f, s # {}, Rest(s) \in T PROVE s \in T
    <2>1. f[First(s)] >= 0 /\ Sums(f)[Rest(s)] >= 0
      BY <1>2, SumStep
    <2> QED
      BY <1>2, <2>1, SumStep
  <1> HIDE DEF T
  <1>3. DOMAIN f \in T
    BY <1>1, <1>2, SubsetInduction DEF Numbers
  <1> QED
    BY <1>3, TotalIsSum DEF T

\* The sum of one number among zeros.
LEMMA TotalOfOne ==
  ASSUME NEW f, Numbers(f), NEW j \in DOMAIN f, \A i \in DOMAIN f : i # j => f[i] = 0
  PROVE  Total(f) = f[j]
  <1> DEFINE T == {s \in SUBSET DOMAIN f : Sums(f)[s] = IF j \in s THEN f[j] ELSE 0}
  <1>1. {} \in T
    BY SumOfNothing
  <1>2. ASSUME NEW s \in SUBSET DOMAIN f, s # {}, Rest(s) \in T PROVE s \in T
    <2>1. Sums(f)[Rest(s)] = IF j \in Rest(s) THEN f[j] ELSE 0
      BY <1>2
    <2>2. Sums(f)[s] = f[First(s)] + Sums(f)[Rest(s)] /\ First(s) \in DOMAIN f
      BY <1>2, SumStep
    <2>3. First(s) # j => f[First(s)] = 0
      BY <2>2
    <2>4. j \in Rest(s) <=> j \in s /\ First(s) # j
      BY DEF Rest
    <2>5. First(s) \in s /\ f[j] \in Int
      BY <1>2, FirstIn DEF Numbers
    <2> QED
      BY <2>1, <2>2, <2>3, <2>4, <2>5
  <1> HIDE DEF T
  <1>3. DOMAIN f \in T
    BY <1>1, <1>2, SubsetInduction DEF Numbers
  <1> QED
    BY <1>3, TotalIsSum DEF T

\* The sum of n ones.
LEMMA TotalOfOnes ==
  ASSUME NEW f, Numbers(f), \A i \in DOMAIN f : f[i] = 1
  PROVE  Total(f) = Cardinality(DOMAIN f)
  <1> DEFINE T == {s \in SUBSET DOMAIN f : Sums(f)[s] = Cardinality(s)}
  <1>1. {} \in T
    BY SumOfNothing, FS_EmptySet
  <1>2. ASSUME NEW s \in SUBSET DOMAIN f, s # {}, Rest(s) \in T PROVE s \in T
    <2>1. Cardinality(Rest(s)) = Cardinality(s) - 1 /\ Cardinality(s) \in Nat
      BY <1>2, FirstIn, FS_Subset, FS_CardinalityType, FS_RemoveElement DEF Rest, Numbers
    <2>2. Sums(f)[s] = 1 + Sums(f)[Rest(s)]
      BY <1>2, SumStep
    <2> QED
      BY <1>2, <2>1, <2>2
  <1> HIDE DEF T
  <1>3. DOMAIN f \in T
    BY <1>1, <1>2, SubsetInduction DEF Numbers
  <1> QED
    BY <1>3, TotalIsSum DEF T

-----------------------------------------------------------------------------
(* Cents                                                                   *)

\* ROUND_HALF_UP is off by half at most.
LEMMA RoundNear ==
  ASSUME NEW x \in Nat, NEW y \in Nat \ {0}
  PROVE  /\ Round(x, y) \in Nat
         /\ 2 * (y * Round(x, y)) <= 2 * x + y
         /\ 2 * x <= 2 * (y * Round(x, y)) + y
  <1> DEFINE q == (2 * x + y) \div (2 * y)
  <1>1. /\ q \in Nat
        /\ (2 * y) * q <= 2 * x + y
        /\ 2 * x + y < (2 * y) * q + 2 * y
    OBVIOUS
  <1>2. Round(x, y) = q
    BY DEF Round
  <1> HIDE DEF q
  <1>3. (2 * y) * q = 2 * (y * q)
    BY <1>1
  <1>4. y * q \in Nat
    BY <1>1
  <1> QED
    BY <1>1, <1>2, <1>3, <1>4

\* An amount in thousandths is rounded to its nearest cent, and whole cents stay.
LEMMA CentsNear ==
  ASSUME NEW a \in Nat
  PROVE  /\ Cents(a) \in Nat
         /\ 10 * Cents(a) <= a + 5 /\ a <= 10 * Cents(a) + 5
         /\ a % 10 = 0 => 10 * Cents(a) = a
  <1>1. Round(a, 10) = (2 * a + 10) \div 20
    BY DEF Round
  <1> QED
    BY <1>1 DEF Cents

AreShares(s) == Numbers(s) /\ \A i \in DOMAIN s : s[i] \in Nat

\* Whatever rounding and imprecise shares lose, the first split makes up for.
LEMMA OwedIsWhole ==
  ASSUME NEW a \in Nat, NEW s, AreShares(s), 1 \in DOMAIN s
  PROVE  /\ \A i \in DOMAIN s : OwedCents(a, s)[i] \in Int
         /\ DOMAIN OwedCents(a, s) = DOMAIN s
         /\ Total(OwedCents(a, s)) = Cents(a)
  <1> DEFINE raw  == RawOwed(a, s)
             d    == Cents(a) - Total(raw)
             unit == [i \in DOMAIN s |-> IF i = 1 THEN 1 ELSE 0]
  <1>1. Cents(a) \in Nat
    BY CentsNear
  <1>2. DOMAIN raw = DOMAIN s /\ \A i \in DOMAIN s : raw[i] \in Int
    <2>1. \A i \in DOMAIN s : Cents(a) * s[i] \in Nat
      BY <1>1 DEF AreShares
    <2> QED
      BY <2>1, RoundNear, ScaleAssumption DEF RawOwed
  <1>3. Numbers(raw) /\ Total(raw) \in Int
    BY <1>2, TotalType DEF AreShares, Numbers
  <1>4. OwedCents(a, s) = [raw EXCEPT ![1] = @ + d]
    BY DEF OwedCents
  <1> HIDE DEF raw
  <1>5. d \in Int
    BY <1>1, <1>3
  <1>6. \A i \in DOMAIN s : OwedCents(a, s)[i] = IF i = 1 THEN raw[i] + d ELSE raw[i]
    BY <1>2, <1>4
  <1>7. DOMAIN OwedCents(a, s) = DOMAIN s
    BY <1>2, <1>4
  <1>8. Numbers(unit) /\ DOMAIN unit = DOMAIN s /\ Total(unit) = 1
    <2>1. Numbers(unit)
      BY DEF AreShares, Numbers
    <2> QED
      BY <2>1, TotalOfOne
  <1>9. \A i \in DOMAIN s : OwedCents(a, s)[i] = 1 * raw[i] + d * unit[i]
    BY <1>2, <1>5, <1>6
  <1> HIDE DEF unit, d
  <1>10. Total(OwedCents(a, s)) = 1 * Total(raw) + d * Total(unit)
    <2> DEFINE owed == OwedCents(a, s)
    <2> HIDE DEF owed
    <2>1. /\ Numbers(raw) /\ Numbers(unit) /\ 1 \in Int /\ d \in Int
          /\ DOMAIN unit = DOMAIN raw /\ DOMAIN owed = DOMAIN raw
          /\ \A i \in DOMAIN raw : owed[i] = 1 * raw[i] + d * unit[i]
      BY <1>2, <1>3, <1>5, <1>7, <1>8, <1>9 DEF owed
    <2>2. Total(owed) = 1 * Total(raw) + d * Total(unit)
      BY <2>1, TotalLinear
    <2> QED
      BY <2>2 DEF owed
  <1>11. Total(OwedCents(a, s)) = Cents(a)
    BY <1>1, <1>3, <1>5, <1>8, <1>10 DEF d
  <1> QED
    BY <1>2, <1>5, <1>6, <1>7, <1>11

\* A sum is monotone.
LEMMA TotalMonotone ==
  ASSUME NEW f, NEW g, Numbers(f), Numbers(g), DOMAIN g = DOMAIN f,
         \A i \in DOMAIN f : f[i] <= g[i]
  PROVE  Total(f) <= Total(g)
  <1> DEFINE h == [i \in DOMAIN f |-> 1 * g[i] + (-1) * f[i]]
  <1>1. Numbers(h) /\ \A i \in DOMAIN h : h[i] >= 0
    BY DEF Numbers
  <1>2. Total(h) >= 0
    BY <1>1, TotalNat
  <1>3. Total(h) = 1 * Total(g) + (-1) * Total(f)
    <2>1. DOMAIN h = DOMAIN g /\ \A i \in DOMAIN g : h[i] = 1 * g[i] + (-1) * f[i]
      OBVIOUS
    <2> HIDE DEF h
    <2> QED
      BY <2>1, TotalLinear
  <1> HIDE DEF h
  <1> QED
    BY <1>2, <1>3, TotalType

\* A term of a sum of natural numbers is not more than the sum.
LEMMA TermAtMost ==
  ASSUME NEW s, AreShares(s), NEW j \in DOMAIN s
  PROVE  s[j] <= Total(s)
  <1> DEFINE one == [i \in DOMAIN s |-> IF i = j THEN s[j] ELSE 0]
  <1>1. Numbers(one) /\ DOMAIN one = DOMAIN s /\ \A i \in DOMAIN s : one[i] <= s[i]
    BY DEF AreShares, Numbers
  <1>2. Total(one) = s[j]
    BY <1>1, TotalOfOne
  <1> HIDE DEF one
  <1> QED
    BY <1>1, <1>2, TotalMonotone DEF AreShares

\* The numbers from 1 to n are finitely many, and n.
LEMMA Interval == \A n \in Nat : IsFiniteSet(1..n) /\ Cardinality(1..n) = n
  BY FS_Interval

\* What rounding does to all splits but the first is less than half a cent for each.
LEMMA OthersNear ==
  ASSUME NEW e, NEW n \in Nat \ {0}, NEW c \in Nat, DOMAIN e = 1..n,
         \A i \in 1..n : e[i] \in Int /\ 2 * e[i] <= c /\ -c <= 2 * e[i]
  PROVE  /\ Total(e) \in Int
         /\ 2 * (Total(e) - e[1]) <= c * (n - 1)
         /\ -(c * (n - 1)) <= 2 * (Total(e) - e[1])
  <1> DEFINE ones  == [i \in 1..n |-> 1]
             unit  == [i \in 1..n |-> IF i = 1 THEN 1 ELSE 0]
             k     == -(2 * e[1])
             rest  == [i \in 1..n |-> 2 * e[i] + k * unit[i]]
             upper == [i \in 1..n |-> c * ones[i] + (-c) * unit[i]]
             lower == [i \in 1..n |-> (-c) * ones[i] + c * unit[i]]
  <1>1. IsFiniteSet(1..n) /\ Cardinality(1..n) = n /\ 1 \in 1..n
    BY Interval
  <1>2. Numbers(e) /\ Numbers(ones) /\ Numbers(unit)
    BY <1>1 DEF Numbers
  <1>3. Numbers(rest) /\ Numbers(upper) /\ Numbers(lower)
    BY <1>1 DEF Numbers
  <1>4. Total(ones) = n /\ Total(unit) = 1
    <2>1. Total(ones) = n
      BY <1>1, <1>2, TotalOfOnes
    <2>2. Total(unit) = 1
      BY <1>1, <1>2, TotalOfOne
    <2> QED
      BY <2>1, <2>2
  <1>5. \A i \in 1..n : lower[i] <= rest[i] /\ rest[i] <= upper[i]
    <2> SUFFICES ASSUME NEW i \in 1..n PROVE lower[i] <= rest[i] /\ rest[i] <= upper[i]
      OBVIOUS
    <2>1. CASE i = 1
      BY <2>1
    <2>2. CASE i # 1
      <3>1. lower[i] = -c /\ rest[i] = 2 * e[i] /\ upper[i] = c
        BY <2>2
      <3> QED
        BY <3>1
    <2> QED
      BY <2>1, <2>2
  <1>6. Total(rest) = 2 * Total(e) + k * Total(unit)
    <2>1. DOMAIN rest = DOMAIN e /\ DOMAIN unit = DOMAIN e /\ 2 \in Int /\ k \in Int
          /\ \A i \in DOMAIN e : rest[i] = 2 * e[i] + k * unit[i]
      BY <1>1
    <2> HIDE DEF rest, unit, k, upper, lower, ones
    <2> QED
      BY <1>2, <2>1, TotalLinear
  <1>7. Total(upper) = c * Total(ones) + (-c) * Total(unit)
    <2>1. DOMAIN upper = DOMAIN ones /\ DOMAIN unit = DOMAIN ones /\ c \in Int /\ -c \in Int
          /\ \A i \in DOMAIN ones : upper[i] = c * ones[i] + (-c) * unit[i]
      OBVIOUS
    <2> HIDE DEF upper, unit, ones
    <2> QED
      BY <1>2, <2>1, TotalLinear
  <1>8. Total(lower) = (-c) * Total(ones) + c * Total(unit)
    <2>1. DOMAIN lower = DOMAIN ones /\ DOMAIN unit = DOMAIN ones /\ c \in Int /\ -c \in Int
          /\ \A i \in DOMAIN ones : lower[i] = (-c) * ones[i] + c * unit[i]
      OBVIOUS
    <2> HIDE DEF lower, unit, ones
    <2> QED
      BY <1>2, <2>1, TotalLinear
  <1>9. Total(lower) <= Total(rest) /\ Total(rest) <= Total(upper)
    <2>1. DOMAIN lower = 1..n /\ DOMAIN rest = 1..n /\ DOMAIN upper = 1..n
      OBVIOUS
    <2> HIDE DEF lower, rest, upper
    <2> QED
      BY <1>3, <1>5, <2>1, TotalMonotone
  <1>10. Total(e) \in Int /\ e[1] \in Int
    BY <1>1, <1>2, TotalType
  <1> HIDE DEF lower, rest, upper, unit, ones
  <1>11. Total(rest) = 2 * Total(e) - 2 * e[1]
    BY <1>4, <1>6, <1>10
  <1>12. Total(upper) = c * n - c /\ Total(lower) = c - c * n
    BY <1>4, <1>7, <1>8
  <1>13. c * (n - 1) = c * n - c
    OBVIOUS
  <1> QED
    BY <1>9, <1>10, <1>11, <1>12, <1>13

\* How far a split is from the share that was shown, in tenths of a cent and parts
\* of the whole.
Gap(a, s, i) == 10 * OwedCents(a, s)[i] * Scale - a * s[i]

Within(x, bound) == x <= bound /\ -bound <= x

\* Shares that are taken for a whole exceed it by two percent at most.
LEMMA SharesBounded ==
  ASSUME NEW s, AreShares(s), SumsToOne(s), NEW i \in DOMAIN s
  PROVE  /\ Total(s) \in Nat /\ s[i] \in Nat /\ 50 * s[i] <= 51 * Scale
         /\ 50 * (Total(s) - Scale) <= Scale /\ 50 * (Scale - Total(s)) <= Scale
  <1>1. Total(s) \in Int /\ s[i] \in Nat /\ s[i] <= Total(s)
    BY TotalType, TermAtMost DEF AreShares
  <1> QED
    BY <1>1, ScaleAssumption DEF SumsToOne, Abs

\* What each split is charged before the reconciliation.
LEMMA RawNear ==
  ASSUME NEW a \in Nat, NEW s, AreShares(s), NEW i \in DOMAIN s
  PROVE  /\ DOMAIN RawOwed(a, s) = DOMAIN s /\ RawOwed(a, s)[i] \in Nat
         /\ 2 * (Scale * RawOwed(a, s)[i]) <= 2 * (Cents(a) * s[i]) + Scale
         /\ 2 * (Cents(a) * s[i]) <= 2 * (Scale * RawOwed(a, s)[i]) + Scale
  <1>1. Cents(a) * s[i] \in Nat
    <2>1. PICK C \in Nat, t \in Nat : C = Cents(a) /\ t = s[i]
      BY CentsNear DEF AreShares
    <2>2. C * t \in Nat
      OBVIOUS
    <2> QED
      BY <2>1, <2>2
  <1>2. DOMAIN RawOwed(a, s) = DOMAIN s /\ RawOwed(a, s)[i] = Round(Cents(a) * s[i], Scale)
    BY DEF RawOwed
  <1> QED
    BY <1>1, <1>2, RoundNear, ScaleAssumption

\* What half a cent of the amount is in a share of the whole and two percent at most.
CentGap(C, a, t) == (10 * C - a) * t

LEMMA CentOfShare ==
  ASSUME NEW C \in Nat, NEW a \in Nat, 10 * C <= a + 5, a <= 10 * C + 5,
         NEW S \in Nat, NEW t \in Nat, 50 * t <= 51 * S
  PROVE  CentGap(C, a, t) \in Int /\ Within(100 * CentGap(C, a, t), 510 * S)
  <1>1. PICK d \in -5..5 : d = 10 * C - a
    OBVIOUS
  <1>2. d * t \in Int /\ d * t <= 5 * t /\ (-5) * t <= d * t
    OBVIOUS
  <1>3. 100 * (d * t) <= 510 * S /\ -(510 * S) <= 100 * (d * t)
    BY <1>2
  <1> QED
    BY <1>1, <1>2, <1>3 DEF Within, CentGap

\* Any split but the first.
LEMMA OtherNear ==
  ASSUME NEW a \in Nat, NEW n \in Nat, NEW s, AreShares(s), SumsToOne(s),
         DOMAIN s = 1..n, NEW i \in DOMAIN s, i # 1
  PROVE  /\ Gap(a, s, i) \in Int
         /\ Within(100 * Gap(a, s, i), 2 * (Scale * a) + 500 * (Scale * (n + 1)))
  <1>1. PICK S \in Nat \ {0} : S = Scale
    BY ScaleAssumption
  <1>2. PICK C \in Nat : C = Cents(a) /\ 10 * C <= a + 5 /\ a <= 10 * C + 5
    BY CentsNear
  <1>3. PICK t \in Nat : t = s[i] /\ 50 * t <= 51 * S
    BY <1>1, SharesBounded
  <1>4. PICK r \in Nat : /\ r = RawOwed(a, s)[i]
                         /\ 2 * (S * r) <= 2 * (C * t) + S
                         /\ 2 * (C * t) <= 2 * (S * r) + S
    BY <1>1, <1>2, <1>3, RawNear
  <1>5. OwedCents(a, s)[i] = r
    BY <1>4, RawNear DEF OwedCents
  <1>6. Gap(a, s, i) = 10 * r * S - a * t
    BY <1>1, <1>3, <1>5 DEF Gap
  <1>7. 10 * r * S - a * t = 10 * (S * r - C * t) + (10 * C - a) * t
    OBVIOUS
  <1>8. PICK x \in Int : /\ x = CentGap(C, a, t)
                         /\ 100 * x <= 510 * S /\ -(510 * S) <= 100 * x
    <2>1. CentGap(C, a, t) \in Int /\ Within(100 * CentGap(C, a, t), 510 * S)
      BY <1>2, <1>3, CentOfShare
    <2> QED
      BY <2>1 DEF Within
  <1>9. PICK e \in Int : e = S * r - C * t /\ 2 * e <= S /\ -S <= 2 * e
    <2>1. PICK u \in Int, v \in Int : u = S * r /\ v = C * t
      OBVIOUS
    <2>2. 2 * u <= 2 * v + S /\ 2 * v <= 2 * u + S
      BY <1>4, <2>1
    <2>3. u - v \in Int /\ 2 * (u - v) <= S /\ -S <= 2 * (u - v)
      BY <2>2
    <2> QED
      BY <2>1, <2>3
  <1>10. PICK g \in Int : g = Gap(a, s, i) /\ g = 10 * e + x
    BY <1>6, <1>7, <1>8, <1>9 DEF CentGap
  <1>11. n >= 2
    BY <1>1
  <1>12. PICK k \in Nat, b \in Nat : k = S * (n + 1) /\ b = S * a /\ k >= 3 * S
    <2>1. S * (n + 1) >= 3 * S
      BY <1>11
    <2> QED
      BY <2>1
  <1>13. 100 * g <= 2 * b + 500 * k /\ -(2 * b + 500 * k) <= 100 * g
    <2>1. /\ 100 * x <= 510 * S /\ -(510 * S) <= 100 * x
          /\ 2 * e <= S /\ -S <= 2 * e /\ g = 10 * e + x /\ k >= 3 * S
      BY <1>8, <1>9, <1>10, <1>12
    <2> QED
      BY <2>1
  <1> QED
    BY <1>1, <1>10, <1>12, <1>13 DEF Within

\* What rounding loses to the splits after the first.
LEMMA LostToOthers ==
  ASSUME NEW a \in Nat, NEW n \in Nat, NEW s, AreShares(s), DOMAIN s = 1..n, 1 \in 1..n
  PROVE  LET raw  == RawOwed(a, s)
             lost == Scale * (Total(raw) - raw[1]) - Cents(a) * (Total(s) - s[1])
         IN  /\ Total(raw) \in Int /\ Total(s) \in Int
             /\ Within(2 * lost, Scale * (n - 1))
  <1> DEFINE raw == RawOwed(a, s)
  <1>1. PICK S \in Nat : S = Scale
    BY ScaleAssumption
  <1>2. PICK C \in Nat : C = Cents(a)
    BY CentsNear
  <1> DEFINE e == [j \in 1..n |-> S * raw[j] + (-C) * s[j]]
  <1>3. DOMAIN raw = 1..n /\ Numbers(raw) /\ Numbers(s) /\ DOMAIN s = DOMAIN raw
    BY RawNear DEF AreShares, Numbers
  <1>4. Total(e) = S * Total(raw) + (-C) * Total(s)
    <2>1. /\ S \in Int /\ -C \in Int /\ DOMAIN e = DOMAIN raw
          /\ \A j \in DOMAIN raw : e[j] = S * raw[j] + (-C) * s[j]
      BY <1>3
    <2> HIDE DEF e, raw
    <2> QED
      BY <1>3, <2>1, TotalLinear
  <1>5. ASSUME NEW j \in 1..n
        PROVE  e[j] \in Int /\ 2 * e[j] <= S /\ -S <= 2 * e[j]
    <2>0. PICK r \in Nat, t \in Nat : r = raw[j] /\ t = s[j]
      BY RawNear DEF AreShares
    <2>1. 2 * (S * r) <= 2 * (C * t) + S /\ 2 * (C * t) <= 2 * (S * r) + S
      BY <1>1, <1>2, <2>0, RawNear
    <2>2. PICK u \in Int, v \in Int : u = S * r /\ v = C * t /\ (-C) * t = -v
      OBVIOUS
    <2>3. 2 * u <= 2 * v + S /\ 2 * v <= 2 * u + S
      BY <2>1, <2>2
    <2>4. e[j] = u + -v
      BY <2>0, <2>2
    <2> HIDE DEF e
    <2> QED
      BY <2>3, <2>4
  <1>6. /\ Total(e) \in Int
        /\ 2 * (Total(e) - e[1]) <= S * (n - 1)
        /\ -(S * (n - 1)) <= 2 * (Total(e) - e[1])
    <2>1. DOMAIN e = 1..n /\ n \in Nat \ {0}
      OBVIOUS
    <2> HIDE DEF e
    <2> QED
      BY <1>5, <2>1, OthersNear
  <1>7. PICK R \in Int, T \in Int, r \in Int, t \in Int :
           R = Total(raw) /\ T = Total(s) /\ r = raw[1] /\ t = s[1]
    BY <1>3, TotalType DEF Numbers
  <1>8. e[1] = S * r + (-C) * t
    BY <1>7
  <1>9. Total(e) - e[1] = S * (R - r) - C * (T - t)
    <2>1. (S * R + (-C) * T) - (S * r + (-C) * t) = S * (R - r) - C * (T - t)
      OBVIOUS
    <2> HIDE DEF e
    <2> QED
      BY <1>4, <1>7, <1>8, <2>1
  <1> HIDE DEF e
  <1>10. Within(2 * (S * (R - r) - C * (T - t)), S * (n - 1))
    BY <1>6, <1>9 DEF Within
  <1> QED
    BY <1>1, <1>2, <1>7, <1>10

\* The first split, which is given what is left over.
LEMMA FirstNear ==
  ASSUME NEW a \in Nat, NEW n \in Nat, NEW s, AreShares(s), SumsToOne(s),
         DOMAIN s = 1..n, 1 \in DOMAIN s
  PROVE  /\ Gap(a, s, 1) \in Int
         /\ Within(100 * Gap(a, s, 1), 2 * (Scale * a) + 500 * (Scale * (n + 1)))
  <1> DEFINE raw == RawOwed(a, s)
  <1>1. PICK S \in Nat \ {0} : S = Scale
    BY ScaleAssumption
  <1>2. PICK C \in Nat : C = Cents(a) /\ 10 * C <= a + 5 /\ a <= 10 * C + 5
    BY CentsNear
  <1>3. PICK t \in Nat, T \in Nat : /\ t = s[1] /\ 50 * t <= 51 * S /\ T = Total(s)
                                    /\ 50 * (T - S) <= S /\ 50 * (S - T) <= S
    BY <1>1, SharesBounded
  <1>4. PICK r \in Nat : r = raw[1]
    BY RawNear
  <1>5. PICK R \in Int : R = Total(raw) /\ Within(2 * (S * (R - r) - C * (T - t)), S * (n - 1))
    <2>1. 1 \in 1..n
      OBVIOUS
    <2> HIDE DEF raw
    <2> QED
      BY <1>1, <1>2, <1>3, <1>4, <2>1, LostToOthers DEF raw
  <1>6. OwedCents(a, s)[1] = r + (C - R)
    BY <1>2, <1>4, <1>5, RawNear DEF OwedCents
  <1>7. Gap(a, s, 1) = 10 * (r + (C - R)) * S - a * t
    BY <1>1, <1>3, <1>6 DEF Gap
  <1>8. PICK x \in Int : /\ x = CentGap(C, a, t)
                         /\ 100 * x <= 510 * S /\ -(510 * S) <= 100 * x
    <2>1. CentGap(C, a, t) \in Int /\ Within(100 * CentGap(C, a, t), 510 * S)
      BY <1>2, <1>3, CentOfShare
    <2> QED
      BY <2>1 DEF Within
  <1>9. PICK lost \in Int, y \in Int, cs \in Nat, b \in Nat, m \in Nat :
           /\ lost = S * (R - r) - C * (T - t)
           /\ y = C * (S - T) /\ cs = C * S /\ b = S * a /\ m = S * n
    OBVIOUS
  <1>10. 10 * (r + (C - R)) * S - a * t
            = (10 * C - a) * t + 10 * (C * (S - T)) - 10 * (S * (R - r) - C * (T - t))
    OBVIOUS
  <1>11. PICK g \in Int : g = Gap(a, s, 1) /\ g = x + 10 * y - 10 * lost
    BY <1>7, <1>8, <1>9, <1>10 DEF CentGap
  <1>12. 50 * y <= cs /\ -cs <= 50 * y
    <2>0. PICK p \in Int, q \in Int : /\ p = 50 * (S - T) /\ p <= S
                                      /\ q = 50 * (T - S) /\ q <= S
      BY <1>3
    <2>a. p <= S /\ q <= S
      BY <2>0
    <2>b. C * p <= C * S /\ C * q <= C * S
      BY <2>a
    <2>1. C * (50 * (S - T)) <= C * S /\ C * (50 * (T - S)) <= C * S
      BY <2>0, <2>b
    <2>2. C * (50 * (S - T)) = 50 * (C * (S - T)) /\ C * (50 * (T - S)) = -(50 * (C * (S - T)))
      OBVIOUS
    <2> QED
      BY <1>9, <2>1, <2>2
  <1>13. 10 * cs <= b + 5 * S
    <2>1. S * (10 * C) <= S * (a + 5)
      BY <1>2
    <2>2. S * (10 * C) = 10 * (C * S) /\ S * (a + 5) = S * a + 5 * S
      OBVIOUS
    <2> QED
      BY <1>9, <2>1, <2>2
  <1>14. 2 * lost <= m - S /\ -(m - S) <= 2 * lost
    <2>1. S * (n - 1) = S * n - S
      OBVIOUS
    <2> QED
      BY <1>5, <1>9, <2>1 DEF Within
  <1>15. S * (n + 1) = m + S /\ S * a = b
    BY <1>9
  <1>16. /\ 100 * g <= 2 * b + 500 * (m + S)
         /\ -(2 * b + 500 * (m + S)) <= 100 * g
    <2>1. /\ 100 * x <= 510 * S /\ -(510 * S) <= 100 * x
          /\ g = x + 10 * y - 10 * lost
      BY <1>8, <1>11
    <2> QED
      BY <1>12, <1>13, <1>14, <2>1
  <1> QED
    BY <1>1, <1>11, <1>15, <1>16 DEF Within

\* So every split is near its share.
LEMMA OwedNear ==
  ASSUME NEW a \in Nat, NEW n \in Nat, NEW s, AreShares(s), SumsToOne(s),
         DOMAIN s = 1..n, NEW i \in DOMAIN s
  PROVE  100 * Abs(Gap(a, s, i)) <= 2 * Scale * a + 500 * Scale * (n + 1)
  <1>0. /\ Gap(a, s, i) \in Int
        /\ Within(100 * Gap(a, s, i), 2 * (Scale * a) + 500 * (Scale * (n + 1)))
    <2>1. CASE i = 1
      BY <2>1, FirstNear
    <2>2. CASE i # 1
      BY <2>2, OtherNear
    <2> QED
      BY <2>1, <2>2
  <1>1. PICK g \in Int : g = Gap(a, s, i)
    BY <1>0
  <1>2. Within(100 * g, 2 * (Scale * a) + 500 * (Scale * (n + 1)))
    BY <1>0, <1>1
  <1>3. PICK k \in Nat, b \in Nat : k = Scale * (n + 1) /\ b = Scale * a
    BY ScaleAssumption
  <1>4. 2 * Scale * a = 2 * b /\ 500 * Scale * (n + 1) = 500 * k
    BY <1>3, ScaleAssumption
  <1>5. 100 * g <= 2 * b + 500 * k /\ -(2 * b + 500 * k) <= 100 * g
    BY <1>2, <1>3 DEF Within
  <1> QED
    BY <1>1, <1>4, <1>5 DEF Abs

-----------------------------------------------------------------------------
(* ChargedAsShown, RejectedForCause                                        *)

ShareList(resolved) == [i \in DOMAIN resolved |-> resolved[i].share]

\* The message is one the parser accepts, the row keeps its shares, what was sent is
\* the row in cents, and what Splitwise rejected does not balance.
SharesAreRight ==
    /\ [roster |-> roster, message |-> message] \in Cases
    /\ SumsToOne(Shares(message))
    /\ stage \in Saved =>
         /\ DOMAIN row.resolved = DOMAIN message.splits
         /\ \A i \in DOMAIN row.resolved : row.resolved[i].share = message.splits[i].share
    /\ IF stage \in Sent
       THEN /\ sent = BuildSwSplits(message.amount, row.resolved)
            /\ sent # << >>
       ELSE sent = << >>
    /\ stage = "rejected" => ~Balances(sent, message.amount)

\* It holds before anything is captured ...
LEMMA SharesInit == Init => SharesAreRight
  <1> SUFFICES ASSUME Init PROVE SharesAreRight
    OBVIOUS
  <1>1. PICK c \in Cases : roster = c.roster /\ message = c.message
    BY DEF Init
  <1>2. [roster |-> roster, message |-> message] \in Cases
    BY <1>1, AccountAssumption
  <1> QED
    BY <1>2 DEF Init, SharesAreRight, Saved, Sent

\* ... and every step keeps it.
LEMMA StepKeepsShares == SharesAreRight /\ [Next]_vars => SharesAreRight'
  <1> SUFFICES ASSUME SharesAreRight, [Next]_vars PROVE SharesAreRight'
    OBVIOUS
  <1>1. CASE SaveRow
    <2>1. /\ stage = "parsed" /\ stage' = "saved"
          /\ UNCHANGED <<roster, account, message, sent>>
      BY <1>1 DEF SaveRow
    <2>2. PICK friends : row'.resolved = Resolved(friends)
      BY <1>1 DEF SaveRow
    <2>3. /\ DOMAIN Resolved(friends) = DOMAIN message.splits
          /\ \A i \in DOMAIN message.splits :
                Resolved(friends)[i].share = message.splits[i].share
      BY DEF Resolved
    <2> QED
      BY <2>1, <2>2, <2>3 DEF SharesAreRight, Saved, Sent, Shares
  <1>2. CASE Confirm
    BY <1>2 DEF Confirm, SharesAreRight, Saved, Sent, Shares
  <1>3. CASE Judge
    BY <1>3 DEF Judge, SharesAreRight, Saved, Sent, Shares
  <1>4. CASE RefuseCapture
    BY <1>4 DEF RefuseCapture, SharesAreRight, Saved, Sent, Shares
  <1>5. ASSUME NEW u \in Users, NEW a, Connect(u, a) PROVE SharesAreRight'
    BY <1>5 DEF Connect, SharesAreRight, Saved, Sent, Shares
  <1>6. CASE UNCHANGED vars
    BY <1>6 DEF vars, SharesAreRight, Saved, Sent, Shares
  <1> QED
    BY <1>1, <1>2, <1>3, <1>4, <1>5, <1>6 DEF Next

\* What a message that was sent looks like.
LEMMA SentShape ==
  ASSUME SharesAreRight, stage \in Sent
  PROVE  LET s == ShareList(row.resolved) n == Len(message.splits)
         IN  /\ message.amount \in Nat /\ n \in Nat
             /\ AreShares(s) /\ SumsToOne(s) /\ DOMAIN s = 1..n /\ 1 \in DOMAIN s
             /\ DOMAIN row.resolved = 1..n /\ Len(sent) = n
             /\ sent = [i \in 1..n |->
                          [sw   |-> row.resolved[i].sw,
                           paid |-> IF row.resolved[i].sw = row.resolved[1].sw
                                    THEN message.amount ELSE 0,
                           owed |-> 10 * OwedCents(message.amount, s)[i]]]
  <1> DEFINE s == ShareList(row.resolved)
             n == Len(message.splits)
  <1>1. PICK c \in Cases : c = [roster |-> roster, message |-> message]
    BY DEF SharesAreRight
  <1>2. /\ message.amount \in Nat /\ n \in Nat /\ DOMAIN message.splits = 1..n
        /\ \A i \in 1..n : message.splits[i].share \in Nat
    BY <1>1, CaseShape
  <1>3. /\ DOMAIN row.resolved = 1..n
        /\ \A i \in 1..n : row.resolved[i].share = message.splits[i].share
    BY <1>2 DEF SharesAreRight, Saved, Sent
  <1>4. s = Shares(message)
    BY <1>2, <1>3 DEF ShareList, Shares
  <1>5. SumsToOne(s) /\ s # << >>
    BY <1>4 DEF SharesAreRight, SumsToOne
  <1>6. DOMAIN s = 1..n /\ AreShares(s)
    <2>1. DOMAIN s = 1..n /\ \A i \in 1..n : s[i] \in Nat
      BY <1>2, <1>3 DEF ShareList
    <2> HIDE DEF s, n
    <2>2. IsFiniteSet(1..n)
      BY <1>2, Interval
    <2> QED
      BY <2>1, <2>2 DEF AreShares, Numbers
  <1>7. 1 \in DOMAIN s
    <2>1. CASE n = 0
      BY <1>5, <1>6, <2>1 DEF ShareList
    <2> QED
      BY <1>2, <1>6, <2>1
  <1>8. sent = [i \in 1..n |->
                  [sw   |-> row.resolved[i].sw,
                   paid |-> IF row.resolved[i].sw = row.resolved[1].sw
                            THEN message.amount ELSE 0,
                   owed |-> 10 * OwedCents(message.amount, s)[i]]]
    BY <1>3 DEF SharesAreRight, BuildSwSplits, ShareList
  <1>9. Len(sent) = n
    BY <1>2, <1>8
  <1> QED
    BY <1>2, <1>3, <1>5, <1>6, <1>7, <1>8, <1>9

\* An amount in whole cents split among different people balances.
LEMMA SplitsBalance ==
  ASSUME SharesAreRight, stage \in Sent, WholeCents, ~TwiceNamed
  PROVE  Balances(sent, message.amount)
  <1> DEFINE s    == ShareList(row.resolved)
             n    == Len(message.splits)
             a    == message.amount
             owed == OwedCents(a, s)
             paid == [i \in DOMAIN sent |-> sent[i].paid]
             owes == [i \in DOMAIN sent |-> sent[i].owed]
  <1>1. /\ a \in Nat /\ n \in Nat /\ AreShares(s) /\ DOMAIN s = 1..n /\ 1 \in DOMAIN s
        /\ DOMAIN sent = 1..n /\ DOMAIN row.resolved = 1..n
        /\ \A i \in 1..n :
             /\ sent[i].paid = IF row.resolved[i].sw = row.resolved[1].sw THEN a ELSE 0
             /\ sent[i].owed = 10 * owed[i]
    BY SentShape
  <1>2. \A i \in 1..n : i # 1 => row.resolved[i].sw # row.resolved[1].sw
    BY <1>1 DEF TwiceNamed
  <1> HIDE DEF s, n, a
  <1>3. PaidIn(sent) = a
    <2>1. /\ Numbers(paid) /\ 1 \in DOMAIN paid
          /\ \A i \in DOMAIN paid : i # 1 => paid[i] = 0
      <3>1. IsFiniteSet(1..n)
        BY <1>1, Interval
      <3>2. DOMAIN paid = 1..n /\ \A i \in 1..n : paid[i] = IF i = 1 THEN a ELSE 0
        BY <1>1, <1>2
      <3> HIDE DEF paid
      <3> QED
        BY <1>1, <3>1, <3>2 DEF Numbers
    <2>2. paid[1] = a
      BY <1>1
    <2> HIDE DEF paid
    <2> QED
      BY <2>1, <2>2, TotalOfOne DEF PaidIn, paid
  <1>4. OwedIn(sent) = a
    <2>1. /\ \A i \in DOMAIN s : owed[i] \in Int
          /\ DOMAIN owed = DOMAIN s /\ Total(owed) = Cents(a)
      BY <1>1, OwedIsWhole
    <2>2. Numbers(owed) /\ DOMAIN owes = DOMAIN owed
          /\ \A i \in DOMAIN owed : owes[i] = 10 * owed[i] + 0 * owed[i]
      BY <1>1, <2>1 DEF AreShares, Numbers
    <2> HIDE DEF owed, owes
    <2>3. Total(owes) = 10 * Total(owed) + 0 * Total(owed)
      BY <2>2, TotalLinear
    <2>4. 10 * Cents(a) = a /\ Cents(a) \in Nat
      BY <1>1, CentsNear DEF WholeCents, a
    <2> QED
      BY <2>1, <2>3, <2>4 DEF OwedIn, owes
  <1> QED
    BY <1>3, <1>4 DEF Balances, a

\* Whatever the shares and however many: what Splitwise rejects as unbalanced names
\* somebody twice or has fractions of a cent.
THEOREM RejectionsHaveCause == Spec => []RejectedForCause
  <1>1. SharesAreRight => RejectedForCause
    BY SplitsBalance DEF RejectedForCause, SharesAreRight, Sent
  <1> QED
    BY <1>1, SharesInit, StepKeepsShares, PTL DEF Spec

\* Whatever the amount, the shares and their number: everybody is charged what was
\* shown, but for two percent of the amount and half a cent for each rounding.
THEOREM AlwaysChargedAsShown == Spec => []ChargedAsShown
  <1>1. SharesAreRight => ChargedAsShown
    <2> SUFFICES ASSUME SharesAreRight, NEW i \in DOMAIN sent
                 PROVE  100 * Abs(sent[i].owed * Scale - message.amount * row.resolved[i].share)
                          <= 2 * Scale * message.amount + 500 * Scale * (Len(sent) + 1)
      BY DEF ChargedAsShown
    <2> DEFINE s == ShareList(row.resolved)
               n == Len(message.splits)
    <2>1. stage \in Sent
      BY DEF SharesAreRight
    <2>2. /\ message.amount \in Nat /\ n \in Nat /\ AreShares(s) /\ SumsToOne(s)
          /\ DOMAIN s = 1..n /\ i \in 1..n /\ Len(sent) = n
          /\ sent[i].owed = 10 * OwedCents(message.amount, s)[i]
      BY <2>1, SentShape
    <2>3. s[i] = row.resolved[i].share
      BY <2>2 DEF ShareList
    <2> HIDE DEF s, n
    <2>4. Gap(message.amount, s, i)
             = sent[i].owed * Scale - message.amount * row.resolved[i].share
      BY <2>2, <2>3 DEF Gap
    <2> QED
      BY <2>2, <2>4, OwedNear
  <1> QED
    BY <1>1, SharesInit, StepKeepsShares, PTL DEF Spec
=============================================================================
