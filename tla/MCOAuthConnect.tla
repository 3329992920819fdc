---------------------------- MODULE MCOAuthConnect ----------------------------
(* Two users, two links, each approved for an account of its own, and two keys, for TLC. *)
EXTENDS OAuthConnect, TLC

CONSTANTS ann, bob, k1, k2, l1, l2, acc1, acc2

TwoUsers    == {ann, bob}
TwoAccounts == {acc1, acc2}
TwoKeys     == {k1, k2}
TwoLinks    == {l1, l2}
TwoCodes    == {[link |-> l1, account |-> acc1], [link |-> l2, account |-> acc2]}

\* Nothing tells the users or the keys apart.
Alike == Permutations(TwoUsers) \cup Permutations(TwoKeys)
=============================================================================
