-------------------------- MODULE MCDraftResolution --------------------------
(* A small town of similar names, and amounts that do not divide, for TLC. *)
EXTENDS DraftResolution, FiniteSets

CONSTANTS lea, ann, bob,    \* the sender and two other users
          cy,               \* a Splitwise friend of everybody
          none, nobody

MCUsers   == {lea, ann, bob}
MCFriends == {cy}

\* "An-n" normalises like "Ann"; "(;" to nothing; "anna bo" is a full name.
MCSpoken == {"self", "ann", "an-n", "anna", "bo", "anna bo", "(;"}
MCNorm   == [n \in MCSpoken |-> CASE n = "an-n" -> "ann" [] n = "anna bo" -> "annabo"
                                  [] n = "(;" -> "" [] OTHER -> n]
Prefixes == {<<"ann", "anna">>, <<"ann", "annabo">>, <<"anna", "annabo">>}
MCLonger == [k \in Keys |-> {l \in Keys : k = l \/ k = "" \/ <<k, l>> \in Prefixes}]

Called(parts, full) == [parts |-> parts, full |-> full]
Names == {Called({"ann"}, {}), Called({"an-n"}, {}), Called({"bo"}, {}),
          Called({"(;"}, {}), Called({"anna", "bo"}, {"anna bo"})}
Plain == [p \in People |-> CASE p = ann -> Called({"ann"}, {}) [] p = bob -> Called({"bo"}, {})
                              [] OTHER -> Called({"(;"}, {})]

\* The friend is bob, whom the sender knows from Splitwise under another name; the
\* sender has a second account.
MCAccounts  == [u \in Users |-> CASE u = lea -> {1, 4} [] u = ann -> {2} [] OTHER -> {3}]
MCFriendId  == [f \in Friends |-> 3]
MCFriendsOf == [u \in Users |-> {cy}]

Message(group, payer, amount, splits) ==
    [sender |-> lea, group |-> group, payer |-> payer, amount |-> amount, splits |-> splits]
Part(n, k) == [name |-> n, share |-> k]

\* Every roster, and every way to name the payer and the other party of a halved
\* 10.01, in a DM and in a group where bob has spoken.
Naming == [roster  : [People -> Names],
           message : {Message(g, p, 10010, <<Part("self", 25), Part(n, 25)>>) :
                         g \in {{}, {bob}}, p \in {NoName, "ann"}, n \in MCSpoken}]
\* Shares of fifty among "self" and two others, in any order, of amounts from
\* nothing much to ten dollars, some of them not in whole cents.
Sharing == [roster  : {Plain},
            message : {Message({}, NoName, a, <<Part("bo", x), Part("self", y), Part("ann", z)>>) :
                          a \in {1, 10, 50, 1000, 9990, 9995}, x \in {0, 1, 16, 17},
                          y \in {16, 17, 33}, z \in {15, 16, 17, 32, 33}}]
MCCases == Naming \cup Sharing
=============================================================================
