--------------------------- MODULE SchemaMigrations ---------------------------
(***************************************************************************)
(* scripts/migrate.py and the four files of app/db/migrations: runners     *)
(* that bootstrap schema_migrations, read once what is applied, and then   *)
(* apply what was pending, one transaction per file.  Several may run at   *)
(* once, from checkouts of different age, and any of them may die or lose  *)
(* its connection between two statements.                                  *)
(***************************************************************************)
EXTENDS Naturals, FiniteSets, Sequences

CONSTANTS
    Runners,        \* places the script is run from
    Releases,       \* how many of the files a checkout may have
    MaxLaunches,    \* times the script is run
    MaxFaults       \* runs that die or lose the database

\* The .sql files, numbered in lexical order.
Files == 1..4

ASSUME MigrationsAssumption ==
    Releases \subseteq Files /\ MaxLaunches \in Nat /\ MaxFaults \in Nat

\* What each file adds, unless it is there.
InitialTables == {"users", "groups", "group_memberships", "expenses_pending",
                  "expenses_completed"}
DisplayNames  == {"users.first_name", "users.last_name"}
WideIds       == {"users.bigint", "groups.bigint", "expenses_completed.bigint"}
KnownPeople   == {"known_people"}

Adds == <<InitialTables, DisplayNames, WideIds, KnownPeople>>

\* The tables it cannot do without.
Alters == <<{}, {"users"}, {"users", "groups", "expenses_completed"}, {}>>

\* Mutant: two files alter the same tables, each in an order of its own.
Locks_TwoOrders == <<
    <<"create", "group_memberships", "expenses_pending", "expenses_completed", "record">>,
    <<"groups", "users", "record">>,
    <<"users", "groups", "expenses_completed", "record">>,
    <<"create", "known_people", "record">> >>

\* What its statements lock, one after the other, until the transaction ends: the
\* names of the tables it creates ("create"), the tables it indexes or alters, and
\* last the key of its own row in schema_migrations ("record").
Locks == <<
    <<"create", "group_memberships", "expenses_pending", "expenses_completed", "record">>,
    <<"users", "record">>,
    <<"users", "groups", "expenses_completed", "record">>,
    <<"create", "known_people", "record">> >>

Parts == UNION {Adds[f] : f \in Files}
Modes == {"apply", "dry-run", "list"}

VARIABLES
    tracking,   \* schema_migrations exists
    schema,     \* the parts of the schema that are committed
    recorded,   \* the files in schema_migrations
    at,         \* [Runners -> step of run()]
    files,      \* [Runners -> how many files its checkout has]
    mode,       \* [Runners -> apply, or one of the two options]
    pending,    \* [Runners -> files it still has to apply]
    taken,      \* [Runners -> locks of the file it is at that it has taken]
    launches, faults

database == <<tracking, schema, recorded>>
runs     == <<files, mode>>
vars     == <<database, at, runs, pending, taken, launches, faults>>

Running == {"bootstrap", "fetch", "apply", "commit"}

Init ==
    /\ tracking = FALSE /\ schema = {} /\ recorded = {}
    /\ at = [r \in Runners |-> "idle"]
    /\ files \in [Runners -> Releases]
    /\ mode = [r \in Runners |-> "apply"]
    /\ pending = [r \in Runners |-> {}] /\ taken = [r \in Runners |-> 0]
    /\ launches = 0 /\ faults = 0

Goto(r, step) == at' = [at EXCEPT ![r] = step]

\* Mutant: the glob is not sorted.
Reached_Unsorted(r, f) == f \in pending[r]

\* The file run() has reached: pending keeps the order of the files.
Reached(r, f) == f \in pending[r] /\ \A g \in pending[r] : f <= g

-----------------------------------------------------------------------------
(* The steps of run()                                                      *)

Launch(r) ==
    /\ at[r] \notin Running
    /\ launches < MaxLaunches
    /\ launches' = launches + 1
    /\ files' \in {[files EXCEPT ![r] = n] : n \in Releases}
    /\ mode' \in {[mode EXCEPT ![r] = o] : o \in Modes}
    /\ pending' = [pending EXCEPT ![r] = {}]
    /\ Goto(r, "bootstrap")
    /\ UNCHANGED <<database, taken, faults>>

\* The tracking table is created and committed, with every option.
Bootstrap(r) ==
    /\ at[r] = "bootstrap"
    /\ tracking' = TRUE
    /\ Goto(r, "fetch")
    /\ UNCHANGED <<schema, recorded, runs, pending, taken, launches, faults>>

\* Mutant: the files are numbered from zero.
Fetch_OffByOne(r) ==
    /\ at[r] = "fetch"
    /\ pending' = [pending EXCEPT ![r] = (0..files[r]) \ recorded]
    /\ Goto(r, IF mode[r] = "apply" THEN "apply" ELSE "done")
    /\ UNCHANGED <<database, runs, taken, launches, faults>>

\* What is applied is read once; --list and --dry-run stop here.
Fetch(r) ==
    /\ at[r] = "fetch"
    /\ pending' = [pending EXCEPT ![r] = (1..files[r]) \ recorded]
    /\ Goto(r, IF mode[r] = "apply" /\ ~(1..files[r] \subseteq recorded)
               THEN "apply" ELSE "done")
    /\ UNCHANGED <<database, runs, taken, launches, faults>>

Holds(s, g, x) == /\ at[s] \in {"apply", "commit"}
                  /\ Reached(s, g) /\ x \in {Locks[g][i] : i \in 1..taken[s]}

\* Two CREATE INDEX go together, an ALTER TABLE goes with nothing; names and keys
\* that are new wait for whoever is at the same.
Incompatible(f, g, x) ==
    \/ x = "create" /\ f = g /\ ~(Adds[f] \subseteq schema)
    \/ x = "record" /\ f = g
    \/ x \notin {"create", "record"} /\ ~({f, g} \subseteq {1, 4})

\* The next statement of f needs a lock another transaction has.
Waits(r, f) ==
    LET x == Locks[f][taken[r] + 1]
    IN  \E s \in Runners \ {r}, g \in Files : Holds(s, g, x) /\ Incompatible(f, g, x)

\* Runner r executes the statement of f that takes its next lock.
Takes(r, f) ==
    /\ ~Waits(r, f) /\ Alters[f] \subseteq schema
    /\ taken' = [taken EXCEPT ![r] = @ + 1]
    /\ Goto(r, IF taken[r] + 1 = Len(Locks[f]) THEN "commit" ELSE "apply")

\* Mutant: with autocommit every statement is its own transaction.
Execute_Autocommit(r) ==
    /\ at[r] = "apply"
    /\ \E f \in Files : Reached(r, f) /\ Takes(r, f) /\ schema' = schema \cup Adds[f]
    /\ UNCHANGED <<tracking, recorded, runs, pending, launches, faults>>

\* One statement of the file, unseen by others until the commit.
Execute(r) ==
    /\ at[r] = "apply"
    /\ \E f \in Files : Reached(r, f) /\ Takes(r, f)
    /\ UNCHANGED <<database, runs, pending, launches, faults>>

\* What the commit of f makes visible, its row in schema_migrations included.
Commits(f) == schema' = schema \cup Adds[f] /\ recorded' = recorded \cup {f}

Passed(r, f) ==
    /\ pending' = [pending EXCEPT ![r] = @ \ {f}]
    /\ taken' = [taken EXCEPT ![r] = 0]
    /\ Goto(r, IF pending[r] = {f} THEN "done" ELSE "apply")

Commit(r) ==
    /\ at[r] = "commit"
    /\ \E f \in Files : Reached(r, f) /\ Commits(f) /\ Passed(r, f)
    /\ UNCHANGED <<tracking, runs, launches, faults>>

-----------------------------------------------------------------------------
(* Failures: nothing is caught, and the connection closes, with a rollback *)

\* Two runners create the same table: the second waits, and then finds the
\* name taken in spite of its IF NOT EXISTS.
Collides(r) ==
    \/ /\ at[r] = "bootstrap" /\ ~tracking
       /\ \E s \in Runners \ {r} : at[s] = "bootstrap"
    \/ /\ at[r] = "apply"
       /\ \E f \in Files, s \in Runners \ {r} :
              /\ Reached(r, f) /\ Locks[f][taken[r] + 1] = "create"
              /\ Holds(s, f, "create") /\ ~(Adds[f] \subseteq schema)

\* A table the file alters does not exist.
TooEarly(r) ==
    at[r] = "apply" /\ \E f \in Files : Reached(r, f) /\ ~(Alters[f] \subseteq schema)

Raise(r) ==
    /\ ~TooEarly(r) => Collides(r)
    /\ Goto(r, "failed") /\ taken' = [taken EXCEPT ![r] = 0]
    /\ UNCHANGED <<database, runs, pending, launches, faults>>

\* Mutant: a file that fails is logged, and the next one tried.
Fail_GoesOn(r) ==
    /\ at[r] \in Running
    /\ faults < MaxFaults /\ faults' = faults + 1
    /\ IF at[r] \in {"apply", "commit"} THEN \E f \in Files : Reached(r, f) /\ Passed(r, f)
       ELSE Goto(r, "failed") /\ UNCHANGED <<pending, taken>>
    /\ UNCHANGED <<database, runs, launches>>

\* The process dies or the connection is lost; the commit under way may have
\* reached the server.
Fail(r) ==
    /\ at[r] \in Running
    /\ faults < MaxFaults /\ faults' = faults + 1
    /\ Goto(r, "failed") /\ taken' = [taken EXCEPT ![r] = 0]
    /\ \/ UNCHANGED database
       \/ at[r] = "bootstrap" /\ tracking' = TRUE /\ UNCHANGED <<schema, recorded>>
       \/ at[r] = "commit" /\ (\E f \in Files : Reached(r, f) /\ Commits(f)) /\ UNCHANGED tracking
    /\ UNCHANGED <<runs, pending, launches>>

Step(r) == Bootstrap(r) \/ Fetch(r) \/ Execute(r) \/ Commit(r) \/ Raise(r)

Next == \E r \in Runners : Launch(r) \/ Step(r) \/ Fail(r)

\* A runner that can go on does: the script waits for nothing but Postgres, and
\* a lock is free when the transaction that holds it ends.  Nobody has to run
\* the script.
Spec == Init /\ [][Next]_vars /\ \A r \in Runners : WF_vars(Step(r))

-----------------------------------------------------------------------------
\* Every variable keeps its type.
MigrationsTypeOK ==
    /\ tracking \in BOOLEAN
    /\ schema \subseteq Parts /\ recorded \subseteq Files
    /\ at \in [Runners -> Running \cup {"idle", "done", "failed"}]
    /\ files \in [Runners -> Files] /\ mode \in [Runners -> Modes]
    /\ pending \in [Runners -> SUBSET Files] /\ taken \in [Runners -> 0..5]
    /\ launches \in 0..MaxLaunches /\ faults \in 0..MaxFaults

\* "Each file is wrapped in a transaction" (migrate.py:10): whoever dies between
\* whichever two statements, what the database has is exactly what the recorded
\* files add.
SchemaIsRecorded == schema = UNION {Adds[f] : f \in recorded}

\* Files are recorded in their order: with one, all before it.
RecordedInOrder == \A f \in recorded : 1..f \subseteq recorded

\* A runner in the middle of its list: what it does not have to apply any more
\* is recorded.  The strengthening the proofs need.
Behind ==
    \A r \in Runners :
        /\ at[r] \in {"apply", "commit"} =>
               pending[r] \subseteq 1..files[r] /\ 1..files[r] \subseteq recorded \cup pending[r]
        /\ at[r] = "done" /\ mode[r] = "apply" => 1..files[r] \subseteq recorded

\* A file never runs before a table it alters exists, however old the list its
\* runner read and whatever the others did or left undone since.
NeverTooEarly == \A r \in Runners : ~TooEarly(r)

\* Where a runner is among the statements of its file.  What the proofs need of it.
Underway ==
    \A r \in Runners :
        /\ at[r] \notin {"apply", "commit"} => taken[r] = 0
        /\ \A f \in Files : Reached(r, f) =>
               /\ at[r] = "apply" => taken[r] < Len(Locks[f])
               /\ at[r] = "commit" => taken[r] = Len(Locks[f])

\* A run that ends well, with no option, leaves all it knows of in the schema: the
\* columns and tables the bot of that release reads and writes are there.
DoneMeansUpToDate ==
    \A r \in Runners : at[r] = "done" /\ mode[r] = "apply" =>
        \A f \in 1..files[r] : f \in recorded /\ Adds[f] \subseteq schema

\* Somebody in the middle of a run can take its next step.
Ready(r) ==
    \/ at[r] \in {"bootstrap", "fetch"}
    \/ at[r] = "apply" /\ \E f \in Files : Reached(r, f) /\ ~Waits(r, f) /\ Alters[f] \subseteq schema
    \/ at[r] = "commit" /\ \E f \in Files : Reached(r, f)

\* Runs never wait for each other in a circle, though each takes its locks one
\* after the other and holds them: somebody can always go on.
NoStandstill ==
    (\E r \in Runners : at[r] \in Running) => \E r \in Runners : Ready(r)

\* How many steps a run may still take: six for each file, the commit included.
StepsToGo(r) ==
    CASE at[r] = "bootstrap" -> 26
      [] at[r] = "fetch"     -> 25
      [] at[r] \in {"apply", "commit"} -> 6 * Cardinality(pending[r]) - taken[r]
      [] OTHER               -> 0

\* Each step of a run leaves fewer, and nobody else's step gives it more: only a
\* launch does.
RunsWindDown ==
    [][\A r \in Runners :
          \/ Launch(r)
          \/ /\ StepsToGo(r)' \in 0..StepsToGo(r)
             /\ Step(r) => StepsToGo(r)' < StepsToGo(r)]_vars

\* Whoever runs the script, the database goes from version to version, a file at
\* a time: SchemaVersions is what the runners implement together.
Versions == INSTANCE SchemaVersions WITH Last <- 4, version <- Cardinality(recorded)
VersionByVersion == Versions!Spec

\* Every run ends, whatever locks the others hold.
RunsEnd == \A r \in Runners : at[r] = "bootstrap" ~> at[r] \in {"done", "failed"}
=============================================================================
