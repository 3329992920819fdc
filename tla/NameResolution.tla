---------------------------- MODULE NameResolution ----------------------------
(***************************************************************************)
(* How the names of a parsed expense become people (group_context.py and   *)
(* _resolve_payer).  A name is an element of Spoken: as it was written,    *)
(* trimmed and in lower case.  Norm is _normalise, which drops everything  *)
(* but letters a-z and digits; Longer gives the normalised names that      *)
(* start with one, itself included.                                        *)
(*                                                                         *)
(* A roster maps each person to [parts, full]: the names of the row (first *)
(* name, last name, username) and "First Last" when it has both.           *)
(***************************************************************************)
CONSTANTS
    Users,      \* rows of users
    Friends,    \* Splitwise people of known_people who are not bot users
    Spoken, Norm, Longer,
    Blank,      \* what a name without a letter a-z or a digit normalises to
    Self,       \* the reserved name "self", in Spoken
    NoName,     \* the parser named no payer
    NoOne       \* None / UNRESOLVED

People == Users \cup Friends
Keys   == {Norm[n] : n \in Spoken} \cup {Blank}

ASSUME NamesAssumption ==
    /\ Users \cap Friends = {} /\ NoOne \notin People
    /\ Self \in Spoken /\ NoName \notin Spoken /\ Norm[Self] # Blank
    /\ Longer \in [Keys -> SUBSET Keys] /\ \A k \in Keys : k \in Longer[k]

\* _name_candidates, _known_person_candidates; keys that are empty are skipped.
KeysOf(roster, p) == {Norm[n] : n \in roster[p].parts \cup roster[p].full} \ {Blank}

Exactly(roster, key, pool) == {p \in pool : key \in KeysOf(roster, p)}

Beginning(roster, key, pool) ==
    {p \in pool : key # Blank /\ KeysOf(roster, p) \cap Longer[key] # {}}

\* An exact match wins over a prefix match; somebody who matches by several of
\* their names is one match.
Matches(roster, key, pool) ==
    LET exact == Exactly(roster, key, pool)
    IN  IF exact # {} THEN exact ELSE Beginning(roster, key, pool)

\* Mutant: the first of several will do.
TheOnly_First(people) == IF people # {} THEN CHOOSE p \in people : TRUE ELSE NoOne

TheOnly(people) == IF \E p \in people : people = {p}
                   THEN CHOOSE p \in people : TRUE ELSE NoOne

\* find_user_by_name, find_known_person
FindByName(roster, n, pool) == TheOnly(Matches(roster, Norm[n], pool))

\* Whom a name of a split can mean: friends count only when no member matches.
Candidates(roster, n, members, friends) ==
    LET matching == Matches(roster, Norm[n], members)
    IN  IF matching # {} THEN matching ELSE Matches(roster, Norm[n], friends)

\* resolve_split_names for one name; several candidates resolve to no one.
ResolveName(roster, n, members, friends, payer) ==
    IF Norm[n] = Norm[Self] THEN payer
    ELSE TheOnly(Candidates(roster, n, members, friends))

\* _resolve_payer.  The sender is compared by parts as they are written, the
\* others by find_user_by_name.
ResolvePayer(roster, n, sender, members) ==
    IF n \in {NoName, Self} \/ n \in roster[sender].parts
    THEN sender
    ELSE FindByName(roster, n, members \ {sender})

\* eligible_split_members: everybody connected, and in a group its members too.
Eligible(group, connected) == group \cup connected

\* _reply_can_split_with: the person the bot says "Yes" about, if any.
CanSplitWith(roster, n, asker, members, friends) ==
    LET member == FindByName(roster, n, members \ {asker})
    IN  IF member # NoOne THEN member ELSE FindByName(roster, n, friends)
=============================================================================
