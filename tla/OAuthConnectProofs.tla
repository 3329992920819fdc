-------------------------- MODULE OAuthConnectProofs --------------------------
(***************************************************************************)
(* For any number of users, accounts, links, approvals, reloads, restarts  *)
(* and keys: connected users stay connected, to accounts approved for      *)
(* them, and nobody is shown a success that did not happen.                *)
(***************************************************************************)
EXTENDS OAuthConnect, UserRowsProofs

\* What a callback, or /start, knows at each of its steps.
Backed ==
    /\ \A c \in codes : minted[c.link] # None
    /\ \A v \in Visits :
          /\ at[v] \in Underway \cup Pages => v.code \in codes
          /\ at[v] \in {"save", "sync", "connected"} => v.code \in redeemed
          /\ at[v] \in {"sync", "connected"} => Connected(Owner(v))
    /\ \A u \in Users : syncing[u] # None => Connected(u) /\ Approved(u, syncing[u])

ConnectInv == ConnectTypeOK /\ Backed /\ TokenIsOfItsAccount /\ FriendsAreOwn

USE RowsAssumption, ConnectAssumption

-----------------------------------------------------------------------------
(* Codes and visits                                                        *)

LEMMA CodeParts ==
    ASSUME NEW c \in Codes
    PROVE  c.link \in Links /\ c.account \in Accounts /\ c = [link |-> c.link, account |-> c.account]
  OBVIOUS

LEMMA VisitParts ==
    ASSUME NEW v \in Visits
    PROVE  v.code \in Codes /\ v.code.link \in Links /\ v.code.account \in Accounts
  BY CodeParts DEF Visits

-----------------------------------------------------------------------------
(* What a step may do: links, codes and approvals are only ever added; a   *)
(* row keeps its token or gets one with the id it belongs to; and whoever  *)
(* goes on knows what Backed says.                                         *)

LinksGrow ==
    /\ \A l \in Links : minted[l] # None => minted'[l] = minted[l]
    /\ codes \subseteq codes' /\ redeemed \subseteq redeemed'
    /\ \A c \in codes' : c \in codes \/ minted'[c.link] # None

RowsGoOn ==
    \A u \in Users : \/ row'[u].token = row[u].token /\ row'[u].sw = row[u].sw
                     \/ /\ Connected(u)'
                        /\ row'[u].token.account = row'[u].sw
                        /\ Approved(u, row[u].sw)'

UsersGoOn ==
    \A u \in Users :
        /\ \/ syncing'[u] \in {None, syncing[u]}
           \/ Connected(u)' /\ Approved(u, syncing[u])'
        /\ \A a \in cache'[u] : a \in cache[u] \/ (Connected(u)' /\ Approved(u, a)')

VisitsGoOn ==
    \A v \in Visits :
        \/ at'[v] \in {at[v], "dead"}
        \/ /\ v.code \in codes
           /\ at'[v] \in {"save", "sync", "connected"} => v.code \in redeemed'
           /\ at'[v] \in {"sync", "connected"} => Connected(Owner(v))'

LEMMA OwnerKept ==
    ASSUME ConnectInv, LinksGrow, NEW v \in Visits, v.code \in codes
    PROVE  Owner(v)' = Owner(v) /\ Owner(v) \in Users /\ minted[v.code.link] # None
  <1>1. minted[v.code.link] # None /\ v.code.link \in Links
    BY VisitParts DEF ConnectInv, Backed
  <1>2. minted[v.code.link] \in [user : Users, key : Keys]
    BY <1>1 DEF ConnectInv, ConnectTypeOK
  <1> QED
    BY <1>1, <1>2 DEF Owner, LinksGrow

LEMMA ConnectedKept ==
    ASSUME RowsGoOn, NEW u \in Users, Connected(u)
    PROVE  Connected(u)'
  BY DEF RowsGoOn, Connected

LEMMA GoesOn ==
    ASSUME ConnectInv, ConnectTypeOK', LinksGrow, RowsGoOn, UsersGoOn, VisitsGoOn
    PROVE  ConnectInv'
  <1>1. \A u, a : Approved(u, a) => Approved(u, a)'
    BY DEF Approved, LinksGrow
  <1>2. TokenIsOfItsAccount'
    <2> SUFFICES ASSUME NEW u \in Users
                 PROVE  \/ row'[u].token = None /\ row'[u].sw = None
                        \/ /\ row'[u].token # None
                           /\ row'[u].token.account = row'[u].sw
                           /\ Approved(u, row[u].sw)'
      BY DEF TokenIsOfItsAccount
    <2>1. CASE row'[u].token = row[u].token /\ row'[u].sw = row[u].sw
      <3>1. Approved(u, row[u].sw) => Approved(u, row[u].sw)'
        <4>1. PICK a : a = row[u].sw
          OBVIOUS
        <4>2. Approved(u, row[u].sw)' <=> Approved(u, a)'
          BY <2>1, <4>1 DEF Approved
        <4> QED
          BY <1>1, <4>1, <4>2
      <3> QED
        BY <2>1, <3>1 DEF ConnectInv, TokenIsOfItsAccount
    <2>2. CASE /\ Connected(u)'
               /\ row'[u].token.account = row'[u].sw
               /\ Approved(u, row[u].sw)'
      BY <2>2 DEF Connected
    <2> QED
      BY <2>1, <2>2 DEF RowsGoOn
  <1>3. FriendsAreOwn'
    <2> SUFFICES ASSUME NEW u \in Users, NEW a \in cache'[u]
                 PROVE  Connected(u)' /\ Approved(u, a)'
      BY DEF FriendsAreOwn
    <2>1. CASE a \in cache[u]
      BY <1>1, <2>1, ConnectedKept DEF ConnectInv, FriendsAreOwn
    <2> QED
      BY <2>1 DEF UsersGoOn
  <1>4. \A c \in codes' : minted'[c.link] # None
    <2> SUFFICES ASSUME NEW c \in codes
                 PROVE  minted'[c.link] # None
      BY DEF LinksGrow
    <2>1. c.link \in Links
      BY CodeParts DEF ConnectInv, ConnectTypeOK
    <2> QED
      BY <2>1 DEF ConnectInv, Backed, LinksGrow
  <1>5. ASSUME NEW v \in Visits
        PROVE  /\ at'[v] \in Underway \cup Pages => v.code \in codes'
               /\ at'[v] \in {"save", "sync", "connected"} => v.code \in redeemed'
               /\ at'[v] \in {"sync", "connected"} => Connected(Owner(v))'
    <2>1. CASE at'[v] = at[v]
      <3>1. at[v] \in {"sync", "connected"} => Connected(Owner(v))'
        <4> SUFFICES ASSUME at[v] \in {"sync", "connected"}
                     PROVE  Connected(Owner(v))'
          OBVIOUS
        <4>1. v.code \in codes /\ Connected(Owner(v))
          BY DEF ConnectInv, Backed, Underway, Pages
        <4>2. Owner(v)' = Owner(v) /\ Owner(v) \in Users
          BY <4>1, OwnerKept
        <4>3. PICK u \in Users : u = Owner(v)
          BY <4>2
        <4>4. Connected(u)'
          BY <4>1, <4>3, ConnectedKept
        <4> QED
          BY <4>2, <4>3, <4>4 DEF Connected
      <3> QED
        BY <2>1, <3>1 DEF ConnectInv, Backed, LinksGrow
    <2>2. CASE at'[v] = "dead"
      BY <2>2 DEF Underway, Pages
    <2> QED
      BY <2>1, <2>2 DEF VisitsGoOn, LinksGrow
  <1>6. \A u \in Users : syncing'[u] # None => Connected(u)' /\ Approved(u, syncing[u])'
    <2> SUFFICES ASSUME NEW u \in Users, syncing'[u] # None
                 PROVE  Connected(u)' /\ Approved(u, syncing[u])'
      OBVIOUS
    <2>1. CASE syncing'[u] = syncing[u]
      <3>1. Connected(u) /\ Approved(u, syncing[u])
        BY <2>1 DEF ConnectInv, Backed
      <3>2. PICK a : a = syncing[u]
        OBVIOUS
      <3>3. Approved(u, a)'
        BY <1>1, <3>1, <3>2
      <3>4. Approved(u, syncing[u])' <=> Approved(u, a)'
        BY <2>1, <3>2 DEF Approved
      <3> QED
        BY <3>1, <3>3, <3>4, ConnectedKept
    <2> QED
      BY <2>1 DEF UsersGoOn
  <1>7. Backed'
    BY <1>4, <1>5, <1>6 DEF Backed
  <1> QED
    BY <1>2, <1>3, <1>7 DEF ConnectInv

-----------------------------------------------------------------------------
(* Every step goes on                                                      *)

\* Steps that leave the rows alone.
LEMMA RowsKept == ASSUME UNCHANGED row PROVE RowsGoOn
  BY DEF RowsGoOn

LEMMA UserSteps ==
    ASSUME ConnectInv, NEW u \in Users, Identify(u) \/ StartSync(u) \/ Resync(u)
    PROVE  ConnectTypeOK' /\ LinksGrow /\ RowsGoOn /\ UsersGoOn /\ VisitsGoOn
  <1>1. UNCHANGED <<links, at>>
    BY DEF Identify, StartSync, Resync
  <1>2. LinksGrow /\ VisitsGoOn
    BY <1>1 DEF links, LinksGrow, VisitsGoOn
  <1>3. CASE Identify(u)
    <2>1. RowsTypeOK' /\ RowsGoOn
      BY <1>3, NamedKeeps DEF ConnectInv, ConnectTypeOK, Identify, RowsGoOn
    <2>2. UsersGoOn
      BY <1>3 DEF Identify, UsersGoOn
    <2> QED
      BY <1>1, <1>2, <1>3, <2>1, <2>2 DEF ConnectInv, ConnectTypeOK, Identify, links
  <1>4. CASE StartSync(u)
    <2>1. Connected(u) /\ Approved(u, row[u].sw) /\ row[u].sw \in Accounts
      BY <1>4 DEF StartSync, Connected, ConnectInv, ConnectTypeOK, RowsTypeOK, TokenIsOfItsAccount
    <2>2. UNCHANGED <<rows, cache>> /\ syncing' = [syncing EXCEPT ![u] = row[u].sw]
      BY <1>4 DEF StartSync
    <2>3. ConnectTypeOK'
      BY <1>1, <2>1, <2>2 DEF ConnectInv, ConnectTypeOK, RowsTypeOK, links, rows
    <2>4. Connected(u)' /\ Approved(u, syncing[u])'
      BY <1>1, <2>1, <2>2 DEF ConnectInv, ConnectTypeOK, Connected, Approved, links, rows
    <2>5. UsersGoOn
      BY <2>2, <2>4 DEF ConnectInv, ConnectTypeOK, UsersGoOn
    <2> QED
      BY <1>2, <2>2, <2>3, <2>5, RowsKept DEF rows
  <1>5. CASE Resync(u)
    <2>1. Connected(u) /\ Approved(u, syncing[u]) /\ syncing[u] \in Accounts
      BY <1>5 DEF Resync, ConnectInv, Backed, ConnectTypeOK
    <2>2. /\ UNCHANGED rows /\ syncing' = [syncing EXCEPT ![u] = None]
          /\ cache' \in {cache, [cache EXCEPT ![u] = @ \cup {syncing[u]}]}
      BY <1>5 DEF Resync, Synced
    <2>3. ConnectTypeOK'
      BY <1>1, <2>1, <2>2 DEF ConnectInv, ConnectTypeOK, RowsTypeOK, links, rows
    <2>4. PICK a \in Accounts : a = syncing[u]
      BY <2>1
    <2>5. Connected(u)' /\ Approved(u, a)'
      BY <1>1, <2>1, <2>2, <2>4 DEF Connected, Approved, links, rows
    <2>6. \A w \in Users : \A b \in cache'[w] : b \in cache[w] \/ (w = u /\ b = a)
      BY <2>2, <2>4 DEF ConnectInv, ConnectTypeOK
    <2>7. \A w \in Users : syncing'[w] \in {None, syncing[w]}
      BY <2>2 DEF ConnectInv, ConnectTypeOK
    <2>8. UsersGoOn
      BY <2>5, <2>6, <2>7 DEF UsersGoOn
    <2> QED
      BY <1>2, <2>2, <2>3, <2>8, RowsKept DEF rows
  <1> QED
    BY <1>3, <1>4, <1>5

LEMMA LinkSteps ==
    ASSUME ConnectInv,
           \/ \E u \in Users, l \in Links : SendLink(u, l)
           \/ \E l \in Links : Expire(l)
           \/ \E c \in Codes : Approve(c)
    PROVE  ConnectTypeOK' /\ LinksGrow /\ RowsGoOn /\ UsersGoOn /\ VisitsGoOn
  <1>1. UNCHANGED <<rows, redeemed, at, syncing, cache>>
    BY DEF SendLink, Expire, Approve
  <1>2. RowsGoOn /\ UsersGoOn /\ VisitsGoOn
    BY <1>1 DEF rows, RowsGoOn, UsersGoOn, VisitsGoOn
  <1>3. ASSUME NEW u \in Users, NEW l \in Links, SendLink(u, l)
        PROVE  ConnectTypeOK' /\ LinksGrow
    BY <1>1, <1>3 DEF SendLink, ConnectInv, ConnectTypeOK, RowsTypeOK, rows, LinksGrow
  <1>4. ASSUME NEW l \in Links, Expire(l)
        PROVE  ConnectTypeOK' /\ LinksGrow
    BY <1>1, <1>4 DEF Expire, ConnectInv, ConnectTypeOK, RowsTypeOK, rows, LinksGrow
  <1>5. ASSUME NEW c \in Codes, Approve(c)
        PROVE  ConnectTypeOK' /\ LinksGrow
    BY <1>1, <1>5 DEF Approve, ConnectInv, ConnectTypeOK, RowsTypeOK, rows, LinksGrow
  <1> QED
    BY <1>2, <1>3, <1>4, <1>5

LEMMA CallbackSteps ==
    ASSUME ConnectInv, NEW v \in Visits, Arrive(v) \/ Exchange(v) \/ Sync(v)
    PROVE  ConnectTypeOK' /\ LinksGrow /\ RowsGoOn /\ UsersGoOn /\ VisitsGoOn
  <1>1. UNCHANGED <<rows, minted, stale, codes, syncing>> /\ RowsGoOn
    BY RowsKept DEF Arrive, Exchange, Sync, rows, links
  <1>2. CASE Arrive(v)
    <2>1. v.code \in codes /\ UNCHANGED <<redeemed, cache>>
      BY <1>2 DEF Arrive, links
    <2>2. PICK step \in {"exchange", "invalid"} : at' = [at EXCEPT ![v] = step]
      BY <1>2 DEF Arrive, Goto
    <2>3. ConnectTypeOK'
      BY <1>1, <2>1, <2>2 DEF ConnectInv, ConnectTypeOK, RowsTypeOK, rows, Underway, Pages
    <2>4. VisitsGoOn
      BY <2>1, <2>2 DEF ConnectInv, ConnectTypeOK, VisitsGoOn
    <2> QED
      BY <1>1, <2>1, <2>3, <2>4 DEF LinksGrow, UsersGoOn
  <1>3. CASE Exchange(v)
    <2>1. v.code \in codes /\ UNCHANGED cache
      BY <1>3 DEF Exchange, ConnectInv, Backed, Underway
    <2>2. PICK step \in {"save", "failed"} :
             /\ at' = [at EXCEPT ![v] = step]
             /\ redeemed' \in {redeemed, redeemed \cup {v.code}}
             /\ step = "save" => v.code \in redeemed'
      BY <1>3 DEF Exchange, Goto
    <2>3. ConnectTypeOK'
      BY <1>1, <2>1, <2>2 DEF ConnectInv, ConnectTypeOK, RowsTypeOK, rows, Underway, Pages
    <2>4. VisitsGoOn
      BY <2>1, <2>2 DEF ConnectInv, ConnectTypeOK, VisitsGoOn
    <2> QED
      BY <1>1, <2>1, <2>2, <2>3, <2>4 DEF LinksGrow, UsersGoOn
  <1>4. CASE Sync(v)
    <2>1. v.code \in codes /\ v.code \in redeemed /\ Connected(Owner(v)) /\ UNCHANGED redeemed
      BY <1>4 DEF Sync, ConnectInv, Backed, Underway, links
    <2>2. LinksGrow
      BY <1>1, <2>1 DEF LinksGrow
    <2>3. Owner(v)' = Owner(v) /\ Owner(v) \in Users /\ minted[v.code.link] # None
      BY <2>1, <2>2, OwnerKept
    <2>4. PICK u \in Users : u = Owner(v)
      BY <2>3
    <2>5. /\ at' = [at EXCEPT ![v] = "connected"]
          /\ cache' \in {cache, [cache EXCEPT ![u] = @ \cup {v.code.account}]}
      BY <1>4, <2>4 DEF Sync, Goto, Synced
    <2>6. v.code.account \in Accounts
      BY VisitParts
    <2>7. ConnectTypeOK'
      BY <1>1, <2>1, <2>5, <2>6 DEF ConnectInv, ConnectTypeOK, RowsTypeOK, rows, Underway, Pages
    <2>8. Connected(u)' /\ Connected(Owner(v))'
      BY <1>1, <2>1, <2>3, <2>4 DEF Connected, rows
    <2>9. Approved(u, v.code.account)'
      BY <1>1, <2>1, <2>3, <2>4, VisitParts, CodeParts DEF Approved, Owner
    <2>10. VisitsGoOn
      BY <2>1, <2>5, <2>8 DEF ConnectInv, ConnectTypeOK, VisitsGoOn
    <2>11. \A w \in Users : \A b \in cache'[w] : b \in cache[w] \/ (w = u /\ b = v.code.account)
      BY <2>5 DEF ConnectInv, ConnectTypeOK
    <2>12. UsersGoOn
      BY <1>1, <2>8, <2>9, <2>11 DEF UsersGoOn
    <2> QED
      BY <1>1, <2>2, <2>7, <2>10, <2>12
  <1> QED
    BY <1>2, <1>3, <1>4

LEMMA SaveStep ==
    ASSUME ConnectInv, NEW v \in Visits, Save(v)
    PROVE  ConnectTypeOK' /\ LinksGrow /\ RowsGoOn /\ UsersGoOn /\ VisitsGoOn
  <1>1. /\ v.code \in codes /\ v.code \in redeemed
        /\ UNCHANGED <<key, restarts, minted, stale, codes, redeemed, syncing, cache>>
    BY DEF Save, ConnectInv, Backed, Underway, links
  <1>2. LinksGrow /\ UsersGoOn
    BY <1>1 DEF LinksGrow, UsersGoOn
  <1>3. Owner(v)' = Owner(v) /\ Owner(v) \in Users /\ minted[v.code.link] # None
    BY <1>1, <1>2, OwnerKept
  <1>4. PICK u \in Users : u = Owner(v)
    BY <1>3
  <1>5. PICK a \in Accounts : a = v.code.account
    BY VisitParts
  <1>6. Approved(u, a)'
    BY <1>1, <1>3, <1>4, <1>5, VisitParts, CodeParts DEF Approved, Owner
  <1>7. PICK step \in {"sync", "error"} :
           /\ at' = [at EXCEPT ![v] = step]
           /\ row' = WithToken(u, a) \/ (row' = row /\ step = "error")
    BY <1>4, <1>5 DEF Save, Goto
  <1>8. RowsTypeOK' /\ RowsGoOn /\ (step = "sync" => Connected(u)')
    <2>1. CASE row' = WithToken(u, a)
      <3>1. /\ RowsTypeOK'
            /\ row'[u].sw = a /\ row'[u].token.account = a /\ Connected(u)'
            /\ \A w \in Users \ {u} : row'[w] = row[w]
        BY <1>1, <2>1, TokenSaved DEF ConnectInv, ConnectTypeOK
      <3>2. Approved(u, row[u].sw)'
        BY <1>6, <3>1 DEF Approved
      <3> QED
        BY <3>1, <3>2 DEF RowsGoOn
    <2>2. CASE row' = row /\ step = "error"
      BY <1>1, <2>2, RowsKept DEF ConnectInv, ConnectTypeOK, RowsTypeOK
    <2> QED
      BY <1>7, <2>1, <2>2
  <1>9. ConnectTypeOK'
    BY <1>1, <1>7, <1>8 DEF ConnectInv, ConnectTypeOK, Underway, Pages
  <1>10. step = "sync" => Connected(Owner(v))'
    BY <1>3, <1>4, <1>8 DEF Connected
  <1>11. VisitsGoOn
    BY <1>1, <1>7, <1>10 DEF ConnectInv, ConnectTypeOK, VisitsGoOn
  <1> QED
    BY <1>2, <1>8, <1>9, <1>11

LEMMA RestartStep ==
    ASSUME ConnectInv, NEW k \in Keys, Restart(k)
    PROVE  ConnectTypeOK' /\ LinksGrow /\ RowsGoOn /\ UsersGoOn /\ VisitsGoOn
  <1>1. UNCHANGED <<row, minted, stale, codes, redeemed, cache>>
    BY DEF Restart, Restarts, links
  <1>2. LinksGrow /\ RowsGoOn
    BY <1>1, RowsKept DEF LinksGrow
  <1>3. VisitsGoOn /\ UsersGoOn
    BY <1>1 DEF Restart, VisitsGoOn, UsersGoOn
  <1>4. ConnectTypeOK'
    BY <1>1 DEF Restart, Restarts, ConnectInv, ConnectTypeOK, RowsTypeOK, Underway, Pages
  <1> QED
    BY <1>2, <1>3, <1>4

LEMMA StepGoesOn == ASSUME ConnectInv, Next PROVE ConnectInv' /\ RowsGoOn
  <1>1. ConnectTypeOK' /\ LinksGrow /\ RowsGoOn /\ UsersGoOn /\ VisitsGoOn
    BY UserSteps, LinkSteps, CallbackSteps, SaveStep, RestartStep DEF Next, Callback
  <1> QED
    BY <1>1, GoesOn

LEMMA ConnectInvariant == Spec => []ConnectInv
  <1>1. Init => ConnectInv
    BY DEF Init, RowsInit, ConnectInv, ConnectTypeOK, RowsTypeOK, Backed, TokenIsOfItsAccount,
           FriendsAreOwn, Underway, Pages
  <1>2. ConnectInv /\ [Next]_vars => ConnectInv'
    <2>1. ASSUME ConnectInv, UNCHANGED vars PROVE ConnectInv'
      BY <2>1 DEF vars, rows, links, ConnectInv, ConnectTypeOK, RowsTypeOK, Backed,
              TokenIsOfItsAccount, FriendsAreOwn, Connected, Approved, Owner
    <2> QED
      BY <2>1, StepGoesOn
  <1> QED
    BY <1>1, <1>2, PTL DEF Spec

-----------------------------------------------------------------------------
\* Every variable keeps its type, for every value of the constants.
THEOREM ConnectTypeCorrect == Spec => []ConnectTypeOK
  BY ConnectInvariant, PTL DEF ConnectInv

\* However callbacks, reloads, refreshes and restarts interleave (oauth_callback,
\* upsert_user), the token of a user is that of the id stored beside it, and of
\* an account that was approved with a link of that very user.
THEOREM TokensMatch == Spec => []TokenIsOfItsAccount
  BY ConnectInvariant, PTL DEF ConnectInv

\* The success page of oauth_callback is only shown to somebody connected.
THEOREM SuccessIsAlwaysReal == Spec => []SuccessIsReal
  <1>1. ConnectInv => SuccessIsReal
    BY DEF ConnectInv, Backed, SuccessIsReal
  <1> QED
    BY <1>1, ConnectInvariant, PTL

\* known_people only holds friends of accounts that were their owner's.
THEOREM FriendsAreAlwaysOwn == Spec => []FriendsAreOwn
  BY ConnectInvariant, PTL DEF ConnectInv

\* A callback of four steps, repeated, overlapping or killed, writes the users
\* table as SaveUserToken does, in one of them, for an existing user and account;
\* /start, links and browsers do not touch it.  CapturePipeline may therefore take
\* a whole callback for one step.
THEOREM ConnectImplementsRows == Spec => RowsSpec
  <1>1. Init => RowsInit
    BY DEF Init
  <1>2. ConnectInv /\ [Next]_vars => [RowsNext]_rows
    <2>1. ASSUME NEW u \in Users, Identify(u) \/ StartSync(u) \/ Resync(u)
          PROVE  [RowsNext]_rows
      BY <2>1 DEF Identify, StartSync, Resync, RowsNext, RefreshIdentity
    <2>2. ASSUME \/ \E u \in Users, l \in Links : SendLink(u, l)
                 \/ \E l \in Links : Expire(l)
                 \/ \E c \in Codes : Approve(c)
                 \/ \E v \in Visits : Arrive(v) \/ Exchange(v) \/ Sync(v)
          PROVE  UNCHANGED rows
      BY <2>2 DEF SendLink, Expire, Approve, Arrive, Exchange, Sync
    <2>3. ASSUME ConnectInv, NEW v \in Visits, Save(v)
          PROVE  [RowsNext]_rows
      <3>1. v.code \in codes /\ UNCHANGED <<minted, codes, redeemed, key, restarts>>
        BY <2>3 DEF Save, ConnectInv, Backed, Underway, links
      <3>2. Owner(v) \in Users /\ v.code.account \in Accounts
        BY <2>3, <3>1, OwnerKept, VisitParts DEF LinksGrow
      <3>3. row' = row \/ row' = WithToken(Owner(v), v.code.account)
        BY <2>3 DEF Save
      <3>4. row' = row \/ SaveUserToken(Owner(v), v.code.account)
        BY <3>1, <3>3 DEF SaveUserToken
      <3> QED
        BY <3>1, <3>2, <3>4 DEF RowsNext, rows
    <2>4. ASSUME NEW k \in Keys, Restart(k)
          PROVE  RowsNext
      BY <2>4 DEF Restart, RowsNext
    <2>5. UNCHANGED vars => UNCHANGED rows
      BY DEF vars
    <2> QED
      BY <2>1, <2>2, <2>3, <2>4, <2>5 DEF Next, Callback
  <1> QED
    BY <1>1, <1>2, ConnectInvariant, PTL DEF Spec, RowsSpec

\* users.py:52: no refresh, save or restart ever disconnects a user.
THEOREM ConnectionsLast == Spec => StaysConnected
  BY ConnectImplementsRows, TableKeepsConnections
=============================================================================
