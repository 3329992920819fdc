---------------------------- MODULE SchemaVersions ----------------------------
(***************************************************************************)
(* What the runners of scripts/migrate.py promise together, whoever they   *)
(* are and whatever happens to them: the database goes through the         *)
(* versions of its schema one at a time, never back, and is never seen     *)
(* between two of them.                                                    *)
(***************************************************************************)
EXTENDS Naturals

CONSTANTS
    Last,   \* the newest version there is
    Adds    \* [1..Last -> what a version adds to the one before]

VARIABLES
    version,    \* the version the database has
    schema      \* the parts of the schema that are committed

Init == version = 0 /\ schema = {}

Upgrade ==
    /\ version < Last
    /\ version' = version + 1
    /\ schema' = schema \cup Adds[version + 1]

Spec == Init /\ [][Upgrade]_<<version, schema>>
=============================================================================
