----------------------------- MODULE OAuthConnect -----------------------------
(***************************************************************************)
(* How a Telegram user gets a Splitwise account: the link with its signed  *)
(* state, the approval in a browser, oauth_callback with its exchange, its *)
(* save and its best-effort sync of friends, and the users row, which the  *)
(* identity refresh of every message writes as well.  A user may hold      *)
(* several links, open them at any time, as any account, and reload the    *)
(* page; the process may die and come back with another encryption key.    *)
(***************************************************************************)
EXTENDS UserRows

CONSTANTS
    Links,          \* the links that are followed
    Codes,          \* the approvals that may be given: [link, account]
    MaxVisits       \* requests a browser makes for one code

ASSUME ConnectAssumption ==
    /\ None \notin [user : Users, key : Keys]
    /\ Codes \subseteq [link : Links, account : Accounts]
    /\ MaxVisits \in Nat

Visits == [code : Codes, n : 1..MaxVisits]

VARIABLES
    minted,     \* [Links -> the state inside: for whom, signed with which key]
    stale,      \* links older than _STATE_TTL_SECONDS
    codes,      \* codes Splitwise has issued
    redeemed,   \* codes it has exchanged for a token
    at,         \* [Visits -> step of oauth_callback, or the page it ended with]
    syncing,    \* [Users -> the account /start read and syncs the friends of]
    cache       \* [Users -> accounts whose friends are in known_people]

links == <<minted, stale, codes, redeemed>>
vars  == <<rows, links, at, syncing, cache>>

Owner(v) == minted[v.code.link].user
Underway == {"exchange", "save", "sync"}
Pages    == {"invalid", "failed", "error", "connected"}

Init ==
    /\ RowsInit
    /\ minted = [l \in Links |-> None]
    /\ stale = {} /\ codes = {} /\ redeemed = {}
    /\ at = [v \in Visits |-> "unborn"]
    /\ syncing = [u \in Users |-> None]
    /\ cache = [u \in Users |-> {}]

-----------------------------------------------------------------------------
(* Messages: the identity refresh, links, and /start of somebody connected *)

\* _capture_user_identity, on every message and every tap; it never raises.
Identify(u) ==
    /\ row' = Named(u)
    /\ UNCHANGED <<key, restarts, links, at, syncing, cache>>

\* /start, or any DM, of somebody not connected.  A link is minted without being
\* stored; those nobody follows are forgotten.
SendLink(u, l) ==
    /\ ~Connected(u)
    /\ minted[l] = None
    /\ minted' = [minted EXCEPT ![l] = [user |-> u, key |-> key]]
    /\ UNCHANGED <<rows, stale, codes, redeemed, at, syncing, cache>>

StartSync(u) ==
    /\ Connected(u) /\ ~Unreadable(u)
    /\ syncing[u] = None
    /\ syncing' = [syncing EXCEPT ![u] = row[u].sw]
    /\ UNCHANGED <<rows, links, at, cache>>

\* sync_known_people adds, never prunes; its failure breaks nothing.
Synced(u, a) ==
    {[cache EXCEPT ![u] = @ \cup {a}]}
        \cup (IF May("splitwise") \/ May("supabase") THEN {cache} ELSE {})

Resync(u) ==
    /\ syncing[u] # None
    /\ cache' \in Synced(u, syncing[u])
    /\ syncing' = [syncing EXCEPT ![u] = None]
    /\ UNCHANGED <<rows, links, at>>

-----------------------------------------------------------------------------
(* The browser and Splitwise                                               *)

Expire(l) ==
    /\ minted[l] # None /\ l \notin stale
    /\ stale' = stale \cup {l}
    /\ UNCHANGED <<rows, minted, codes, redeemed, at, syncing, cache>>

\* Whoever opens the link approves as the account the browser is logged into.
Approve(c) ==
    /\ c \notin codes
    /\ minted[c.link] # None
    /\ codes' = codes \cup {c}
    /\ UNCHANGED <<rows, minted, stale, redeemed, at, syncing, cache>>

-----------------------------------------------------------------------------
(* oauth_callback                                                          *)

Goto(v, step) == at' = [at EXCEPT ![v] = step]

\* verify_state: the signature, Fernet's timestamp and the exp claim.
Verified(l) == minted[l].key = key /\ l \notin stale

\* The redirect arrives; a reload repeats it.
Arrive(v) ==
    /\ at[v] = "unborn"
    /\ v.code \in codes
    /\ v.n > 1 => at[[v EXCEPT !.n = @ - 1]] # "unborn"
    /\ Goto(v, IF Verified(v.code.link) THEN "exchange" ELSE "invalid")
    /\ UNCHANGED <<rows, links, syncing, cache>>

\* Splitwise takes a code once.  getCurrentUser, in the same thread, may fail
\* when the code is spent.
Exchange(v) ==
    /\ at[v] = "exchange"
    /\ \/ /\ v.code \notin redeemed
          /\ redeemed' = redeemed \cup {v.code}
          /\ Goto(v, "save")
       \/ /\ v.code \in redeemed \/ May("splitwise")
          /\ redeemed' \in {redeemed, redeemed \cup {v.code}}
          /\ Goto(v, "failed")
    /\ UNCHANGED <<rows, minted, stale, codes, syncing, cache>>

\* Mutants: the friends are cached before the token is saved; a failed save is
\* logged and answered with the success page.
Save_AfterSync(v) ==
    /\ at[v] = "save"
    /\ \/ row' = WithToken(Owner(v), v.code.account) /\ Goto(v, "sync")
       \/ May("supabase") /\ row' = row /\ Goto(v, "error")
    /\ cache' = [cache EXCEPT ![Owner(v)] = @ \cup {v.code.account}]
    /\ UNCHANGED <<key, restarts, links, syncing>>

Save_FailureSwallowed(v) ==
    /\ at[v] = "save"
    /\ row' \in {WithToken(Owner(v), v.code.account)} \cup (IF May("supabase") THEN {row} ELSE {})
    /\ Goto(v, "sync")
    /\ UNCHANGED <<key, restarts, links, syncing, cache>>

\* save_user_token is not guarded: when it raises, the page is a plain 500.
Save(v) ==
    /\ at[v] = "save"
    /\ \/ /\ row' = WithToken(Owner(v), v.code.account)
          /\ Goto(v, "sync")
       \/ /\ May("supabase")
          /\ row' \in {row, WithToken(Owner(v), v.code.account)}
          /\ Goto(v, "error")
    /\ UNCHANGED <<key, restarts, links, syncing, cache>>

Sync(v) ==
    /\ at[v] = "sync"
    /\ cache' \in Synced(Owner(v), v.code.account)
    /\ Goto(v, "connected")
    /\ UNCHANGED <<rows, links, syncing>>

Callback(v) == Arrive(v) \/ Exchange(v) \/ Save(v) \/ Sync(v)

\* Requests and handlers die with the process.
Restart(k) ==
    /\ Restarts(k)
    /\ at' = [v \in Visits |-> IF at[v] \in Underway THEN "dead" ELSE at[v]]
    /\ syncing' = [u \in Users |-> None]
    /\ UNCHANGED <<links, cache>>

Next == \/ \E u \in Users : Identify(u) \/ StartSync(u) \/ Resync(u)
        \/ \E u \in Users, l \in Links : SendLink(u, l)
        \/ \E l \in Links : Expire(l)
        \/ \E c \in Codes : Approve(c)
        \/ \E v \in Visits : Callback(v)
        \/ \E k \in Keys : Restart(k)

Spec == Init /\ [][Next]_vars

-----------------------------------------------------------------------------
\* Every variable keeps its type.
ConnectTypeOK ==
    /\ RowsTypeOK
    /\ minted \in [Links -> [user : Users, key : Keys] \cup {None}]
    /\ stale \subseteq Links /\ redeemed \subseteq codes /\ codes \subseteq Codes
    /\ at \in [Visits -> {"unborn", "dead"} \cup Underway \cup Pages]
    /\ syncing \in [Users -> Accounts \cup {None}]
    /\ cache \in [Users -> SUBSET Accounts]

\* a was approved with a link of u's, and its code exchanged.
Approved(u, a) == \E l \in Links : /\ minted[l] # None /\ minted[l].user = u
                                   /\ [link |-> l, account |-> a] \in redeemed

\* The token of a user is always the token of the splitwise_user_id stored
\* beside it, whatever callbacks, refreshes and restarts interleave; and that
\* account was approved with a link of that very user.
TokenIsOfItsAccount ==
    \A u \in Users : \/ /\ row[u].token = None /\ row[u].sw = None
                     \/ /\ row[u].token # None
                        /\ row[u].token.account = row[u].sw
                        /\ Approved(u, row[u].sw)

\* The success page is only shown to somebody who is connected ...
SuccessIsReal == \A v \in Visits : at[v] = "connected" => Connected(Owner(v))

\* ... and friends are only cached for somebody connected, from accounts that
\* were theirs at some time.
FriendsAreOwn ==
    \A u \in Users : \A a \in cache[u] : Connected(u) /\ Approved(u, a)

=============================================================================
