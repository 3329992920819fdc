---------------------------- MODULE UserRowsProofs ----------------------------
(* What the two writes to the users table leave behind.                     *)
EXTENDS UserRows, TLAPS

USE RowsAssumption

\* A refresh leaves every token where it is.
LEMMA NamedKeeps ==
    ASSUME RowsTypeOK, NEW u \in Users, row' = Named(u), UNCHANGED <<key, restarts>>
    PROVE  RowsTypeOK' /\ \A w \in Users : row'[w].token = row[w].token /\ row'[w].sw = row[w].sw
  BY DEF RowsTypeOK, Named

\* A save connects its user, and touches nobody else.
LEMMA TokenSaved ==
    ASSUME RowsTypeOK, NEW u \in Users, NEW a \in Accounts,
           row' = WithToken(u, a), UNCHANGED <<key, restarts>>
    PROVE  /\ RowsTypeOK'
           /\ row'[u].sw = a /\ row'[u].token.account = a /\ row'[u].token # None
           /\ Connected(u)'
           /\ \A w \in Users \ {u} : row'[w] = row[w]
  <1> DEFINE ct == [account |-> a, key |-> key]
  <1>1. ct \in Ciphertexts
    BY DEF RowsTypeOK, Ciphertexts
  <1>2. row' = [row EXCEPT ![u].token = ct, ![u].sw = a]
    BY DEF WithToken
  <1> HIDE DEF ct
  <1>3. row'[u].token = ct /\ row'[u].sw = a /\ \A w \in Users \ {u} : row'[w] = row[w]
    BY <1>2 DEF RowsTypeOK
  <1>4. RowsTypeOK'
    BY <1>1, <1>2 DEF RowsTypeOK
  <1>5. ct.account = a /\ ct # None
    BY <1>1 DEF ct
  <1> QED
    BY <1>3, <1>4, <1>5 DEF Connected

\* The two columns load_user_token looks at are set together.
Whole == \A u \in Users : row[u].token = None <=> row[u].sw = None

LEMMA NamedWhole ==
    ASSUME RowsTypeOK, Whole, NEW u \in Users, row' = Named(u)
    PROVE  Whole'
  BY DEF RowsTypeOK, Named, Whole

LEMMA SavedWhole ==
    ASSUME RowsTypeOK, Whole, NEW u \in Users, NEW a \in Accounts,
           row' = WithToken(u, a), UNCHANGED <<key, restarts>>
    PROVE  Whole'
  BY TokenSaved DEF Whole

-----------------------------------------------------------------------------
(* The table on its own: what its users need not prove again.              *)

RowsInv == RowsTypeOK /\ Whole

\* Each write keeps the rows whole, and disconnects nobody.
LEMMA WritesKeep ==
    ASSUME RowsInv, RowsNext
    PROVE  RowsInv' /\ \A w \in Users : Connected(w) => Connected(w)'
  <1>1. ASSUME NEW u \in Users, RefreshIdentity(u)
        PROVE  RowsInv' /\ \A w \in Users : Connected(w) => Connected(w)'
    BY <1>1, NamedKeeps, NamedWhole DEF RowsInv, RefreshIdentity, Connected
  <1>2. ASSUME NEW u \in Users, NEW a \in Accounts, SaveUserToken(u, a)
        PROVE  RowsInv' /\ \A w \in Users : Connected(w) => Connected(w)'
    <2>1. /\ RowsTypeOK' /\ Whole' /\ Connected(u)'
          /\ \A w \in Users \ {u} : row'[w] = row[w]
      BY <1>2, TokenSaved, SavedWhole DEF RowsInv, SaveUserToken
    <2> QED
      BY <2>1 DEF RowsInv, Connected
  <1>3. ASSUME NEW k \in Keys, Restarts(k)
        PROVE  RowsInv' /\ \A w \in Users : Connected(w) => Connected(w)'
    BY <1>3 DEF Restarts, RowsInv, RowsTypeOK, Whole, Connected
  <1> QED
    BY <1>1, <1>2, <1>3 DEF RowsNext

LEMMA RowsInvariant == RowsSpec => []RowsInv
  <1>1. RowsInit => RowsInv
    BY DEF RowsInit, RowsInv, RowsTypeOK, Whole
  <1>2. RowsInv /\ [RowsNext]_rows => RowsInv'
    <2>1. ASSUME RowsInv, UNCHANGED rows PROVE RowsInv'
      BY <2>1 DEF rows, RowsInv, RowsTypeOK, Whole
    <2> QED
      BY <2>1, WritesKeep
  <1> QED
    BY <1>1, <1>2, PTL DEF RowsSpec

\* The two columns of set_user_token are set together and never apart: whoever
\* writes the table only by its two functions never sees half a connection.
THEOREM RowsStayWhole == RowsSpec => []Whole
  BY RowsInvariant, PTL DEF RowsInv

\* users.py:52, of the table itself: none of its writes disconnects a user,
\* whatever code the writes come from.
THEOREM TableKeepsConnections == RowsSpec => StaysConnected
  <1>1. RowsInv /\ [RowsNext]_rows => [\A u \in Users : Connected(u) => Connected(u)']_row
    BY WritesKeep DEF rows
  <1> QED
    BY <1>1, RowsInvariant, PTL DEF RowsSpec, StaysConnected
=============================================================================
