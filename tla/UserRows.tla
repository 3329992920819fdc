------------------------------- MODULE UserRows -------------------------------
(***************************************************************************)
(* The users table and the key that encrypts its tokens: what the message  *)
(* pipeline, oauth_callback and /start share.                              *)
(***************************************************************************)
EXTENDS Naturals

CONSTANTS
    Users,          \* Telegram users
    Accounts,       \* Splitwise accounts
    Keys,           \* values TOKEN_ENCRYPTION_KEY takes
    MaxRestarts,    \* restarts of the process
    Faults,         \* which calls may fail, see AllFaults
    None

AllFaults == {"supabase",   \* a database call raises, done or not
              "splitwise",  \* an exchange or a read of friends fails, done or not
              "telegram",   \* a message cannot be sent, or an update is repeated
              "files",      \* a photo or voice note cannot be downloaded
              "model"}      \* the parser or the transcription fails

Ciphertexts == [account : Accounts, key : Keys]

ASSUME RowsAssumption ==
    /\ None \notin Accounts \cup Users /\ None \notin Ciphertexts
    /\ MaxRestarts \in Nat
    /\ Faults \subseteq AllFaults

VARIABLES
    row,        \* [Users -> the row: is it named, its token, its splitwise_user_id]
    key,        \* TOKEN_ENCRYPTION_KEY
    restarts

rows == <<row, key, restarts>>

May(f) == f \in Faults

RowsInit ==
    /\ row = [u \in Users |-> [named |-> FALSE, token |-> None, sw |-> None]]
    /\ key \in Keys /\ restarts = 0

RowsTypeOK ==
    /\ row \in [Users -> [named : BOOLEAN, token : Ciphertexts \cup {None},
                          sw : Accounts \cup {None}]]
    /\ key \in Keys /\ restarts \in 0..MaxRestarts

\* load_user_token returns None unless both columns are set; it raises
\* InvalidToken when the token was encrypted with another key.
Connected(u)  == row[u].token # None /\ row[u].sw # None
Unreadable(u) == Connected(u) /\ row[u].token.key # key

\* Mutants: the refresh writes the whole row; re-auth forgets the id; the token
\* is stored as it is.
Named_WholeRow(u) == [row EXCEPT ![u] = [named |-> TRUE, token |-> None, sw |-> None]]
WithToken_KeepsId(u, a) ==
    [row EXCEPT ![u].token = [account |-> a, key |-> key], ![u].sw = IF @ = None THEN a ELSE @]
WithToken_Plaintext(u, a) == [row EXCEPT ![u].token = a, ![u].sw = a]

\* upsert_user touches the identity columns only, set_user_token the other two.
Named(u)        == [row EXCEPT ![u].named = TRUE]
WithToken(u, a) == [row EXCEPT ![u].token = [account |-> a, key |-> key], ![u].sw = a]

\* The process dies and comes back, with a key of the operator's choice.
Restarts(k) ==
    /\ restarts < MaxRestarts
    /\ restarts' = restarts + 1
    /\ key' = k
    /\ UNCHANGED row

\* The users table as every user of it writes it: one column group at a time.
RefreshIdentity(u)  == row' = Named(u) /\ UNCHANGED <<key, restarts>>
SaveUserToken(u, a) == row' = WithToken(u, a) /\ UNCHANGED <<key, restarts>>

RowsNext == \/ \E u \in Users : RefreshIdentity(u)
            \/ \E u \in Users, a \in Accounts : SaveUserToken(u, a)
            \/ \E k \in Keys : Restarts(k)

\* What OAuthConnect and CapturePipeline both implement: in the one a callback of
\* four steps, in the other a single step, is a SaveUserToken and no more.
RowsSpec == RowsInit /\ [][RowsNext]_rows

\* users.py:52: a routine identity refresh never clobbers a token.  Nor does
\* anything else: once connected, always connected.
StaysConnected == [][\A u \in Users : Connected(u) => Connected(u)']_row
=============================================================================
