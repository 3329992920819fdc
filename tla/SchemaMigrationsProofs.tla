------------------------ MODULE SchemaMigrationsProofs ------------------------
(***************************************************************************)
(* Any number of runners, from checkouts of any age, launched and dying    *)
(* any number of times.                                                    *)
(***************************************************************************)
EXTENDS SchemaMigrations, FiniteSetTheorems, TLAPS

IInv == MigrationsTypeOK /\ SchemaIsRecorded /\ RecordedInOrder /\ Behind /\ Underway

\* The one order in which every file takes its locks.
Rank == [create |-> 1, users |-> 2, groups |-> 3, group_memberships |-> 4,
         expenses_pending |-> 5, expenses_completed |-> 6, known_people |-> 7, record |-> 8]

LEMMA LocksInOrder ==
    ASSUME NEW f \in Files
    PROVE  /\ Len(Locks[f]) \in 1..5
           /\ \A i \in 1..Len(Locks[f]) : Rank[Locks[f][i]] \in 1..8
           /\ \A i, j \in 1..Len(Locks[f]) : i < j => Rank[Locks[f][i]] < Rank[Locks[f][j]]
<1>1. CASE f = 1
  BY <1>1 DEF Locks, Rank
<1>2. CASE f = 2
  BY <1>2 DEF Locks, Rank
<1>3. CASE f = 3
  BY <1>3 DEF Locks, Rank
<1>4. CASE f = 4
  BY <1>4 DEF Locks, Rank
<1> QED BY <1>1, <1>2, <1>3, <1>4 DEF Files

\* What a file alters is added by files before it.
LEMMA AltersEarlier ==
    ASSUME NEW f \in Files
    PROVE  Alters[f] \subseteq UNION {Adds[g] : g \in 1..(f - 1)}
<1>1. CASE f \in {1, 4}
  BY <1>1 DEF Alters
<1>2. CASE f \in {2, 3}
  <2>1. {"users", "groups", "expenses_completed"} \subseteq Adds[1]
    BY DEF Adds, InitialTables
  <2>2. 1 \in 1..(f - 1)
    BY <1>2
  <2>3. Alters[f] \subseteq Adds[1]
    BY <1>2, <2>1 DEF Alters
  <2> QED BY <2>2, <2>3
<1> QED BY <1>1, <1>2 DEF Files

\* With all files before it recorded, a file finds what it alters.
LEMMA Prepared ==
    ASSUME SchemaIsRecorded, NEW f \in Files, 1..(f - 1) \subseteq recorded
    PROVE  Alters[f] \subseteq schema
BY AltersEarlier DEF SchemaIsRecorded

\* The file a runner has reached comes right after files that are recorded.
LEMMA ReachedIsNext ==
    ASSUME MigrationsTypeOK, Behind, NEW r \in Runners, NEW f \in Files,
           at[r] \in {"apply", "commit"}, Reached(r, f)
    PROVE  1..(f - 1) \subseteq recorded
<1>1. f \in 1..files[r] /\ files[r] \in Nat
  BY DEF Behind, Reached, MigrationsTypeOK, Files
<1>2. ASSUME NEW g \in 1..(f - 1) PROVE g \in recorded
  <2>1. g \in 1..files[r] /\ g < f
    BY <1>1, <1>2 DEF Files
  <2>2. g \notin pending[r]
    BY <2>1 DEF Reached, Files
  <2> QED BY <2>1, <2>2 DEF Behind
<1> QED BY <1>2

\* The commit of a file whose predecessors are recorded keeps the schema what
\* the records say, and the records in order.
LEMMA CommitsInOrder ==
    ASSUME SchemaIsRecorded, RecordedInOrder, schema \subseteq Parts, recorded \subseteq Files,
           NEW f \in Files, 1..(f - 1) \subseteq recorded, Commits(f)
    PROVE  /\ SchemaIsRecorded' /\ RecordedInOrder'
           /\ schema' \subseteq Parts /\ recorded' \subseteq Files
           /\ recorded \subseteq recorded'
<1>1. schema' = UNION {Adds[g] : g \in recorded'}
  BY DEF SchemaIsRecorded, Commits
<1>2. 1..f \subseteq recorded'
  BY DEF Commits, Files
<1>3. RecordedInOrder'
  BY <1>2 DEF RecordedInOrder, Commits
<1>4. Adds[f] \subseteq Parts
  BY DEF Parts
<1> QED BY <1>1, <1>3, <1>4 DEF SchemaIsRecorded, Commits

\* A list has one first file.
LEMMA OneReached ==
    ASSUME NEW r \in Runners, NEW f \in Files, NEW g \in Files, Reached(r, f), Reached(r, g)
    PROVE  f = g
BY DEF Reached, Files

LEMMA InitInv ==
    ASSUME MigrationsAssumption, Init
    PROVE  IInv
<1>1. files \in [Runners -> Files]
  BY DEF MigrationsAssumption, Init
<1>2. MigrationsTypeOK
  <2>1. schema \subseteq Parts /\ recorded \subseteq Files /\ tracking \in BOOLEAN
    BY DEF Init
  <2>2. /\ at \in [Runners -> Running \cup {"idle", "done", "failed"}]
        /\ mode \in [Runners -> Modes] /\ pending \in [Runners -> SUBSET Files]
    BY DEF Init, Modes
  <2>3. taken \in [Runners -> 0..5]
    BY DEF Init
  <2>4. launches \in 0..MaxLaunches /\ faults \in 0..MaxFaults
    BY DEF Init, MigrationsAssumption
  <2> QED BY <1>1, <2>1, <2>2, <2>3, <2>4 DEF MigrationsTypeOK
<1>3. SchemaIsRecorded /\ RecordedInOrder
  BY DEF Init, SchemaIsRecorded, RecordedInOrder
<1>4. Behind
  BY DEF Init, Behind
<1>5. Underway
  BY DEF Init, Underway, Reached
<1> QED BY <1>2, <1>3, <1>4, <1>5 DEF IInv

\* One statement more of the file a runner has reached.
LEMMA TakesOneLock ==
    ASSUME MigrationsTypeOK, Underway, NEW r \in Runners, at[r] = "apply",
           NEW f \in Files, Reached(r, f), Takes(r, f)
    PROVE  /\ taken[r] \in 0..4 /\ taken' = [taken EXCEPT ![r] = taken[r] + 1]
           /\ \/ at' = [at EXCEPT ![r] = "apply"] /\ taken[r] + 1 < Len(Locks[f])
              \/ at' = [at EXCEPT ![r] = "commit"] /\ taken[r] + 1 = Len(Locks[f])
<1>1. /\ taken[r] \in 0..5 /\ Len(Locks[f]) \in 1..5 /\ taken[r] < Len(Locks[f])
  BY LocksInOrder DEF MigrationsTypeOK, Underway
<1>2. taken' = [taken EXCEPT ![r] = taken[r] + 1]
  BY DEF Takes
<1>3. taken[r] \in 0..4 /\ (taken[r] + 1 # Len(Locks[f]) => taken[r] + 1 < Len(Locks[f]))
  <2> DEFINE n == Len(Locks[f])  m == taken[r]
  <2>1. m \in 0..5 /\ n \in 1..5 /\ m < n
    BY <1>1
  <2> HIDE DEF n, m
  <2>2. m \in 0..4 /\ (m + 1 # n => m + 1 < n)
    BY <2>1
  <2> QED BY <2>2 DEF n, m
<1>4. at' = [at EXCEPT ![r] = IF taken[r] + 1 = Len(Locks[f]) THEN "commit" ELSE "apply"]
  BY DEF Takes, Goto
<1>5. CASE taken[r] + 1 = Len(Locks[f])
  BY <1>2, <1>3, <1>4, <1>5
<1>6. CASE taken[r] + 1 # Len(Locks[f])
  BY <1>2, <1>3, <1>4, <1>6
<1> QED BY <1>5, <1>6

\* Whatever a step does to one runner, the others are where they were.
LEMMA StepUnderway ==
    ASSUME MigrationsAssumption, MigrationsTypeOK, Underway, [Next]_vars
    PROVE  Underway'
<1> DEFINE Fine(r) == /\ at[r] \notin {"apply", "commit"} => taken[r] = 0
                      /\ \A f \in Files : Reached(r, f) =>
                             /\ at[r] = "apply" => taken[r] < Len(Locks[f])
                             /\ at[r] = "commit" => taken[r] = Len(Locks[f])
<1>0. \A f \in Files : 0 < Len(Locks[f])
  <2>1. ASSUME NEW f \in Files PROVE 0 < Len(Locks[f])
    <3>1. Len(Locks[f]) \in 1..5
      BY LocksInOrder
    <3> QED BY <3>1
  <2> QED BY <2>1
<1>1. ASSUME NEW r \in Runners, at'[r] = at[r], taken'[r] = taken[r], pending'[r] = pending[r]
      PROVE  Fine(r)'
  BY <1>1 DEF Underway, Reached
<1>2. ASSUME NEW r \in Runners, Launch(r) \/ Step(r) \/ Fail(r), NEW q \in Runners, q # r
      PROVE  at'[q] = at[q] /\ taken'[q] = taken[q] /\ pending'[q] = pending[q]
  BY <1>2 DEF Launch, Step, Bootstrap, Fetch, Execute, Takes, Commit, Passed, Raise, Fail, Goto,
              MigrationsTypeOK
<1>3. ASSUME NEW r \in Runners, Launch(r) \/ Bootstrap(r) PROVE Fine(r)'
  BY <1>3 DEF Launch, Bootstrap, Goto, MigrationsTypeOK, Underway, Running
<1>4. ASSUME NEW r \in Runners, Fetch(r) PROVE Fine(r)'
  <2>1. taken'[r] = 0 /\ at'[r] \in {"apply", "done"}
    BY <1>4 DEF Fetch, Goto, MigrationsTypeOK, Underway
  <2> QED BY <1>0, <2>1
<1>5. ASSUME NEW r \in Runners, Execute(r) PROVE Fine(r)'
  <2>1. PICK f \in Files : Reached(r, f) /\ Takes(r, f)
    BY <1>5 DEF Execute
  <2>2. \A g \in Files : Reached(r, g)' => g = f
    BY <1>5, <2>1, OneReached DEF Execute, Reached
  <2> QED BY <1>5, <2>1, <2>2, TakesOneLock DEF Execute, MigrationsTypeOK
<1>6. ASSUME NEW r \in Runners, Commit(r) PROVE Fine(r)'
  <2>1. taken'[r] = 0 /\ at'[r] \in {"apply", "done"}
    BY <1>6 DEF Commit, Passed, Goto, MigrationsTypeOK
  <2> QED BY <1>0, <2>1
<1>7. ASSUME NEW r \in Runners, Raise(r) \/ Fail(r) PROVE Fine(r)'
  BY <1>7 DEF Raise, Fail, Goto, MigrationsTypeOK
<1>8. CASE UNCHANGED vars
  BY <1>1, <1>8 DEF vars, Underway
<1>9. CASE Next
  <2>1. PICK r \in Runners : Launch(r) \/ Step(r) \/ Fail(r)
    BY <1>9 DEF Next
  <2>2. Fine(r)'
    BY <2>1, <1>3, <1>4, <1>5, <1>6, <1>7 DEF Step
  <2>3. \A q \in Runners : q # r => Fine(q)'
    BY <2>1, <1>1, <1>2
  <2> HIDE DEF Fine
  <2>4. \A q \in Runners : Fine(q)'
    BY <2>2, <2>3
  <2> QED BY <2>4 DEF Underway, Fine
<1> QED BY <1>8, <1>9

LEMMA StepInv ==
    ASSUME MigrationsAssumption, IInv, [Next]_vars
    PROVE  IInv'
<1> DEFINE Rest == MigrationsTypeOK /\ SchemaIsRecorded /\ RecordedInOrder /\ Behind
<1> SUFFICES Rest'
  BY StepUnderway DEF IInv
<1> USE DEF IInv
<1>1. ASSUME NEW r \in Runners, Launch(r) PROVE Rest'
  <2>1. MigrationsTypeOK'
    BY <1>1 DEF Launch, Goto, database, MigrationsTypeOK, MigrationsAssumption, Running, Modes,
                Files
  <2>2. Behind'
    BY <1>1 DEF Launch, Goto, database, MigrationsTypeOK, Behind, Running
  <2> QED BY <1>1, <2>1, <2>2 DEF Launch, database, SchemaIsRecorded, RecordedInOrder
<1>2. ASSUME NEW r \in Runners, Bootstrap(r) PROVE Rest'
  BY <1>2 DEF Bootstrap, Goto, runs, MigrationsTypeOK, Behind, SchemaIsRecorded,
              RecordedInOrder, Running
<1>3. ASSUME NEW r \in Runners, Fetch(r) PROVE Rest'
  <2>1. files[r] \in 1..4 /\ 1..files[r] \subseteq Files
    BY DEF MigrationsTypeOK, Files
  <2>2. MigrationsTypeOK'
    BY <1>3, <2>1 DEF Fetch, Goto, database, runs, MigrationsTypeOK, Running
  <2>3. Behind'
    BY <1>3, <2>1 DEF Fetch, Goto, database, runs, MigrationsTypeOK, Behind
  <2> QED BY <1>3, <2>2, <2>3 DEF Fetch, database, SchemaIsRecorded, RecordedInOrder
<1>4. ASSUME NEW r \in Runners, Execute(r) PROVE Rest'
  <2>1. PICK f \in Files : Reached(r, f) /\ Takes(r, f)
    BY <1>4 DEF Execute
  <2>2. /\ taken[r] \in 0..4 /\ taken' = [taken EXCEPT ![r] = taken[r] + 1]
        /\ at' = [at EXCEPT ![r] = "apply"] \/ at' = [at EXCEPT ![r] = "commit"]
    BY <1>4, <2>1, TakesOneLock DEF Execute
  <2> QED BY <1>4, <2>2 DEF Execute, database, runs, MigrationsTypeOK, Behind, SchemaIsRecorded,
              RecordedInOrder, Running
<1>5. ASSUME NEW r \in Runners, Commit(r) PROVE Rest'
  <2>1. PICK f \in Files : Reached(r, f) /\ Commits(f) /\ Passed(r, f)
    BY <1>5 DEF Commit
  <2>2. 1..(f - 1) \subseteq recorded
    BY <1>5, <2>1, ReachedIsNext DEF Commit
  <2>3. /\ SchemaIsRecorded' /\ RecordedInOrder'
        /\ schema' \subseteq Parts /\ recorded' \subseteq Files
        /\ recorded \subseteq recorded'
    BY <2>1, <2>2, CommitsInOrder DEF MigrationsTypeOK
  <2>4. MigrationsTypeOK'
    BY <1>5, <2>1, <2>3 DEF Commit, Passed, Goto, runs, MigrationsTypeOK, Running
  <2>5. Behind'
    BY <1>5, <2>1, <2>3 DEF Commit, Commits, Passed, Goto, runs, MigrationsTypeOK, Behind
  <2> QED BY <2>3, <2>4, <2>5
<1>6. ASSUME NEW r \in Runners, Raise(r) PROVE Rest'
  BY <1>6 DEF Raise, Goto, database, runs, MigrationsTypeOK, Behind, SchemaIsRecorded,
              RecordedInOrder, Running
<1>7. ASSUME NEW r \in Runners, Fail(r) PROVE Rest'
  <2>1. /\ SchemaIsRecorded' /\ RecordedInOrder'
        /\ schema' \subseteq Parts /\ recorded' \subseteq Files
        /\ recorded \subseteq recorded'
    <3>1. CASE UNCHANGED <<schema, recorded>>
      BY <3>1 DEF SchemaIsRecorded, RecordedInOrder, MigrationsTypeOK
    <3>2. CASE at[r] = "commit" /\ \E f \in Files : Reached(r, f) /\ Commits(f)
      <4>1. PICK f \in Files : Reached(r, f) /\ Commits(f)
        BY <3>2
      <4>2. 1..(f - 1) \subseteq recorded
        BY <3>2, <4>1, ReachedIsNext
      <4> QED BY <4>1, <4>2, CommitsInOrder DEF MigrationsTypeOK
    <3> QED BY <1>7, <3>1, <3>2 DEF Fail, database
  <2>2. MigrationsTypeOK'
    <3>1. faults' \in 0..MaxFaults
      BY <1>7 DEF Fail, MigrationsTypeOK, MigrationsAssumption
    <3>2. tracking' \in BOOLEAN
      <4>1. tracking' = tracking \/ tracking' = TRUE
        BY <1>7 DEF Fail, database
      <4> QED BY <4>1 DEF MigrationsTypeOK
    <3>3. /\ at' \in [Runners -> Running \cup {"idle", "done", "failed"}]
          /\ taken' \in [Runners -> 0..5]
      BY <1>7 DEF Fail, Goto, MigrationsTypeOK, Running
    <3> QED BY <1>7, <2>1, <3>1, <3>2, <3>3 DEF Fail, runs, MigrationsTypeOK
  <2>3. Behind'
    BY <1>7, <2>1 DEF Fail, Goto, runs, MigrationsTypeOK, Behind
  <2> QED BY <2>1, <2>2, <2>3
<1>8. CASE UNCHANGED vars
  BY <1>8 DEF vars, database, runs, MigrationsTypeOK, Behind, SchemaIsRecorded, RecordedInOrder
<1> QED BY <1>1, <1>2, <1>3, <1>4, <1>5, <1>6, <1>7, <1>8 DEF Next, Step

\* The invariant all the theorems below come from.
LEMMA Invariant ==
    ASSUME MigrationsAssumption
    PROVE  Spec => []IInv
BY InitInv, StepInv, PTL DEF Spec

\* Every variable of the migration model keeps its type.
THEOREM MigrationsTypeCorrect ==
    ASSUME MigrationsAssumption
    PROVE  Spec => []MigrationsTypeOK
<1>1. IInv => MigrationsTypeOK
  BY DEF IInv
<1> QED BY <1>1, Invariant, PTL

\* Whoever dies wherever, the schema is what the recorded files add.
THEOREM SchemaMatchesItsRecords ==
    ASSUME MigrationsAssumption
    PROVE  Spec => []SchemaIsRecorded
<1>1. IInv => SchemaIsRecorded
  BY DEF IInv
<1> QED BY <1>1, Invariant, PTL

\* The records have no gap, however runners of different age interleave.
THEOREM RecordsHaveNoGap ==
    ASSUME MigrationsAssumption
    PROVE  Spec => []RecordedInOrder
<1>1. IInv => RecordedInOrder
  BY DEF IInv
<1> QED BY <1>1, Invariant, PTL

\* No migration runs before a table it alters exists.
THEOREM MigrationsNeverTooEarly ==
    ASSUME MigrationsAssumption
    PROVE  Spec => []NeverTooEarly
<1>1. ASSUME IInv PROVE NeverTooEarly
  <2>1. ASSUME NEW r \in Runners, at[r] = "apply", NEW f \in Files, Reached(r, f)
        PROVE  Alters[f] \subseteq schema
    BY <1>1, <2>1, ReachedIsNext, Prepared DEF IInv
  <2> QED BY <2>1 DEF NeverTooEarly, TooEarly
<1> QED BY <1>1, Invariant, PTL

\* A run that ended well left everything its checkout knows of in the schema.
THEOREM DoneIsUpToDate ==
    ASSUME MigrationsAssumption
    PROVE  Spec => []DoneMeansUpToDate
<1>1. IInv => DoneMeansUpToDate
  BY DEF IInv, Behind, SchemaIsRecorded, DoneMeansUpToDate
<1> QED BY <1>1, Invariant, PTL

-----------------------------------------------------------------------------
(* Termination: its part that needs no fairness                            *)

\* Who is inside the list has something left of it.
Listed == \A r \in Runners : at[r] \in {"apply", "commit"} => pending[r] # {}

LEMMA StepListed ==
    ASSUME MigrationsTypeOK, Listed, [Next]_vars
    PROVE  Listed'
<1> USE DEF MigrationsTypeOK, Listed, Goto, database, runs, Running
<1>1. ASSUME NEW r \in Runners, Launch(r) PROVE Listed'
  BY <1>1 DEF Launch
<1>2. ASSUME NEW r \in Runners, Bootstrap(r) \/ Execute(r) \/ Raise(r) \/ Fail(r) PROVE Listed'
  BY <1>2 DEF Bootstrap, Execute, Takes, Raise, Fail
<1>3. ASSUME NEW r \in Runners, Fetch(r) PROVE Listed'
  BY <1>3 DEF Fetch
<1>4. ASSUME NEW r \in Runners, Commit(r) PROVE Listed'
  BY <1>4 DEF Commit, Passed
<1>5. CASE UNCHANGED vars
  BY <1>5 DEF vars
<1> QED BY <1>1, <1>2, <1>3, <1>4, <1>5 DEF Next, Step

LEMMA AlwaysListed ==
    ASSUME MigrationsAssumption
    PROVE  Spec => []Listed
<1>1. Init => Listed
  BY DEF Init, Listed
<1>2. IInv /\ Listed /\ [Next]_vars => Listed'
  BY StepListed DEF IInv
<1> QED BY <1>1, <1>2, Invariant, PTL DEF Spec

\* A list that is not empty has a first file.
LEMMA ReachedExists ==
    ASSUME MigrationsTypeOK, NEW r \in Runners, pending[r] # {}
    PROVE  \E f \in Files : Reached(r, f)
<1> DEFINE P == pending[r]
<1>1. P \subseteq {1, 2, 3, 4} /\ P # {}
  BY DEF MigrationsTypeOK, Files
<1>2. \E f \in P : \A g \in P : f <= g
  <2>1. CASE 1 \in P
    BY <1>1, <2>1
  <2>2. CASE 1 \notin P /\ 2 \in P
    BY <1>1, <2>2
  <2>3. CASE 1 \notin P /\ 2 \notin P /\ 3 \in P
    BY <1>1, <2>3
  <2>4. CASE P = {4}
    BY <2>4
  <2> QED BY <1>1, <2>1, <2>2, <2>3, <2>4
<1> QED BY <1>1, <1>2 DEF Reached, Files

\* Runner r waits for a lock of a rank of n or more.
WantsFrom(r, n) == /\ at[r] = "apply"
                   /\ \E f \in Files : Reached(r, f) /\ Rank[Locks[f][taken[r] + 1]] \in n..8

\* Who waits, waits for somebody that can go on or wants a lock of higher rank.
LEMMA WaitsUpwards ==
    ASSUME IInv, Listed, NEW r \in Runners, NEW n \in 1..8, WantsFrom(r, n)
    PROVE  \E s \in Runners : Ready(s) \/ WantsFrom(s, n + 1)
<1>1. PICK f \in Files : Reached(r, f) /\ Rank[Locks[f][taken[r] + 1]] \in n..8
  BY DEF WantsFrom
<1>2. Alters[f] \subseteq schema /\ at[r] = "apply"
  BY <1>1, ReachedIsNext, Prepared DEF IInv, WantsFrom
<1>3. CASE ~Waits(r, f)
  BY <1>1, <1>2, <1>3 DEF Ready
<1>4. CASE Waits(r, f)
  <2> DEFINE x == Locks[f][taken[r] + 1]
  <2>1. PICK s \in Runners \ {r}, g \in Files : Holds(s, g, x)
    BY <1>4 DEF Waits
  <2>2. PICK i \in 1..taken[s] : x = Locks[g][i]
    BY <2>1 DEF Holds
  <2>3. CASE at[s] = "commit"
    BY <2>1, <2>3 DEF Holds, Ready
  <2>4. CASE at[s] = "apply"
    <3>1. /\ taken[s] \in 0..5 /\ taken[s] < Len(Locks[g]) /\ Len(Locks[g]) \in 1..5
      BY <2>1, <2>4, LocksInOrder DEF IInv, MigrationsTypeOK, Underway, Holds
    <3>2. i \in 1..Len(Locks[g]) /\ taken[s] + 1 \in 1..Len(Locks[g]) /\ i < taken[s] + 1
      BY <3>1
    <3>3. /\ Rank[Locks[g][taken[s] + 1]] \in 1..8
          /\ Rank[x] < Rank[Locks[g][taken[s] + 1]]
      BY <2>2, <3>2, LocksInOrder
    <3>4. Rank[Locks[g][taken[s] + 1]] \in (n + 1)..8
      BY <1>1, <3>3
    <3> QED BY <2>1, <2>4, <3>4 DEF WantsFrom, Holds
  <2> QED BY <2>1, <2>3, <2>4 DEF Holds
<1> QED BY <1>3, <1>4

\* There is no deadlock among any number of runners, though each takes its locks one
\* by one and holds them: all files take them in one order, so whoever wants the
\* last lock of that order that anybody wants can have it.
THEOREM RunnersNeverStandStill ==
    ASSUME MigrationsAssumption
    PROVE  Spec => []NoStandstill
<1>1. ASSUME IInv, Listed, NEW r \in Runners, at[r] \in Running
      PROVE  \E s \in Runners : Ready(s)
  <2>1. ASSUME NEW n \in 1..8, NEW q \in Runners, WantsFrom(q, n)
        PROVE  \E s \in Runners : Ready(s) \/ WantsFrom(s, n + 1)
    BY <1>1, <2>1, WaitsUpwards
  <2>2. ~\E s \in Runners : WantsFrom(s, 9)
    BY DEF WantsFrom
  <2>3. ASSUME NEW q \in Runners, WantsFrom(q, 1) PROVE \E s \in Runners : Ready(s)
    <3> DEFINE Up(n) == \E s \in Runners : Ready(s) \/ WantsFrom(s, n)
    <3>1. \A n \in 1..8 : Up(n) => Up(n + 1)
      BY <2>1
    <3>2. Up(1)
      BY <2>3
    <3> HIDE DEF Up
    <3>3. Up(9)
      <4>1. Up(2) /\ Up(3)
        BY <3>1, <3>2
      <4>2. Up(4) /\ Up(5)
        BY <3>1, <4>1
      <4>3. Up(6) /\ Up(7)
        BY <3>1, <4>2
      <4> QED BY <3>1, <4>3
    <3> QED BY <2>2, <3>3 DEF Up
  <2>4. CASE at[r] \in {"apply", "commit"}
    <3>1. PICK f \in Files : Reached(r, f)
      BY <1>1, <2>4, ReachedExists DEF Listed, IInv
    <3>2. CASE at[r] = "commit"
      BY <3>1, <3>2 DEF Ready
    <3>3. CASE at[r] = "apply"
      <4>1. taken[r] + 1 \in 1..Len(Locks[f])
        BY <1>1, <3>1, <3>3, LocksInOrder DEF IInv, MigrationsTypeOK, Underway
      <4>2. WantsFrom(r, 1)
        BY <3>1, <3>3, <4>1, LocksInOrder DEF WantsFrom
      <4> QED BY <2>3, <4>2
    <3> QED BY <2>4, <3>2, <3>3
  <2> QED BY <1>1, <2>4 DEF Running, Ready
<1>2. IInv /\ Listed => NoStandstill
  BY <1>1 DEF NoStandstill
<1> QED BY <1>2, Invariant, AlwaysListed, PTL

\* What is left of a list.
LEMMA PendingCounted ==
    ASSUME NEW P \in SUBSET Files
    PROVE  /\ IsFiniteSet(P) /\ Cardinality(P) \in 0..4
           /\ P # {} => Cardinality(P) >= 1
           /\ \A f \in P : Cardinality(P \ {f}) = Cardinality(P) - 1
<1>1. IsFiniteSet(Files) /\ Cardinality(Files) = 4
  <2>1. \A n \in Nat : IsFiniteSet(1..n) /\ Cardinality(1..n) = n
    BY FS_Interval
  <2> QED BY <2>1 DEF Files
<1>2. IsFiniteSet(P) /\ Cardinality(P) \in Nat /\ Cardinality(P) <= 4
  BY <1>1, FS_Subset, FS_CardinalityType
<1>3. P # {} => Cardinality(P) >= 1
  BY <1>2, FS_EmptySet
<1>4. \A f \in P : Cardinality(P \ {f}) = Cardinality(P) - 1
  BY <1>2, FS_RemoveElement
<1> QED BY <1>2, <1>3, <1>4

\* The steps to go, place by place.
Counted(r) ==
    LET n == Cardinality(pending[r])
    IN  /\ n \in 0..4 /\ taken[r] \in 0..5 /\ StepsToGo(r) \in 0..26
        /\ at[r] = "bootstrap" => StepsToGo(r) = 26
        /\ at[r] = "fetch" => StepsToGo(r) = 25
        /\ at[r] \in {"apply", "commit"} => n >= 1 /\ StepsToGo(r) = 6 * n - taken[r]
        /\ at[r] \notin Running => StepsToGo(r) = 0

AllCounted == \A r \in Runners : Counted(r)

LEMMA StepsCounted ==
    ASSUME IInv, Listed, NEW r \in Runners
    PROVE  Counted(r)
<1>1. pending[r] \in SUBSET Files
  BY DEF IInv, MigrationsTypeOK
<1>2. Cardinality(pending[r]) \in 0..4
  BY <1>1, PendingCounted
<1>3. at[r] \in {"apply", "commit"} => Cardinality(pending[r]) >= 1
  BY <1>1, PendingCounted DEF Listed
<1>4. at[r] \in Running \cup {"idle", "done", "failed"}
  BY DEF IInv, MigrationsTypeOK
<1>5. taken[r] \in 0..5
  BY DEF IInv, MigrationsTypeOK
<1> QED BY <1>2, <1>3, <1>4, <1>5 DEF Counted, StepsToGo, Running

\* However many runners there are, whatever their age and whoever dies: a run takes
\* 26 steps at most, and no step of another one gives it more to do.
THEOREM RunsAlwaysWindDown ==
    ASSUME MigrationsAssumption
    PROVE  Spec => RunsWindDown
<1> DEFINE Down(r) == \/ Launch(r)
                      \/ /\ StepsToGo(r)' \in 0..StepsToGo(r)
                         /\ Step(r) => StepsToGo(r)' < StepsToGo(r)
<1>1. IInv /\ Listed => AllCounted
  BY StepsCounted DEF AllCounted
<1>2. ASSUME IInv, AllCounted, AllCounted', Next PROVE \A r \in Runners : Down(r)
  <2> SUFFICES ASSUME NEW r \in Runners, ~Launch(r)
               PROVE  /\ StepsToGo(r)' \in 0..StepsToGo(r)
                      /\ Step(r) => StepsToGo(r)' < StepsToGo(r)
    OBVIOUS
  <2> USE DEF Counted
  <2>1. Counted(r) /\ Counted(r)'
    BY <1>2 DEF AllCounted
  <2>2. CASE Step(r)
    <3>1. CASE Bootstrap(r)
      BY <1>2, <2>1, <3>1 DEF Bootstrap, Goto, IInv, MigrationsTypeOK
    <3>2. CASE Fetch(r)
      <4>1. taken'[r] = 0 /\ at'[r] \in {"apply", "done"} /\ at[r] = "fetch"
        BY <1>2, <3>2 DEF Fetch, Goto, IInv, MigrationsTypeOK, Underway
      <4> QED BY <2>1, <4>1 DEF Running
    <3>3. CASE Execute(r)
      <4>1. PICK f \in Files : Reached(r, f) /\ Takes(r, f) /\ at[r] = "apply"
        BY <3>3 DEF Execute
      <4>2. /\ taken[r] \in 0..4 /\ taken'[r] = taken[r] + 1 /\ at'[r] \in {"apply", "commit"}
            /\ pending'[r] = pending[r]
        BY <1>2, <3>3, <4>1, TakesOneLock DEF Execute, IInv, MigrationsTypeOK
      <4> QED BY <2>1, <4>1, <4>2
    <3>4. CASE Commit(r)
      <4>1. PICK f \in Files : f \in pending[r] /\ Passed(r, f) /\ at[r] = "commit"
        BY <3>4 DEF Commit, Reached
      <4>2. pending'[r] = pending[r] \ {f}
        BY <1>2, <4>1 DEF Passed, IInv, MigrationsTypeOK
      <4>3. Cardinality(pending'[r]) = Cardinality(pending[r]) - 1
        BY <1>2, <4>1, <4>2, PendingCounted DEF IInv, MigrationsTypeOK
      <4>4. at'[r] \in {"apply", "done"} /\ taken'[r] = 0
        BY <1>2, <4>1 DEF Passed, Goto, IInv, MigrationsTypeOK
      <4>5. StepsToGo(r)' \in 0..6 * (Cardinality(pending[r]) - 1)
        BY <2>1, <4>3, <4>4 DEF Running
      <4>6. StepsToGo(r) >= 6 * Cardinality(pending[r]) - 5 /\ Cardinality(pending[r]) \in 1..4
        BY <2>1, <4>1
      <4> QED BY <2>1, <4>5, <4>6
    <3>5. CASE Raise(r)
      BY <1>2, <2>1, <3>5 DEF Raise, Goto, TooEarly, Collides, IInv, MigrationsTypeOK, Running
    <3> QED BY <2>2, <3>1, <3>2, <3>3, <3>4, <3>5 DEF Step
  <2>3. CASE ~Step(r) /\ Fail(r)
    BY <1>2, <2>1, <2>3 DEF Fail, Goto, IInv, MigrationsTypeOK, Running
  <2>4. CASE ~Step(r) /\ ~Fail(r)
    <3>1. PICK s \in Runners : s # r /\ (Launch(s) \/ Step(s) \/ Fail(s))
      BY <1>2, <2>4 DEF Next
    <3>2. at'[r] = at[r] /\ pending'[r] = pending[r] /\ taken'[r] = taken[r]
      BY <1>2, <3>1 DEF Launch, Step, Bootstrap, Fetch, Execute, Takes, Commit, Passed, Raise, Fail,
                        Goto, IInv, MigrationsTypeOK
    <3>3. StepsToGo(r)' = StepsToGo(r)
      BY <3>2 DEF StepsToGo
    <3> QED BY <2>1, <2>4, <3>3
  <2> QED BY <2>2, <2>3, <2>4
<1>3. IInv /\ AllCounted /\ AllCounted' /\ [Next]_vars => [\A r \in Runners : Down(r)]_vars
  BY <1>2
<1> QED BY <1>1, <1>3, Invariant, AlwaysListed, PTL DEF Spec, RunsWindDown

-----------------------------------------------------------------------------
(* The runners together implement SchemaVersions                           *)

\* Files without a gap are those up to their number.
LEMMA FilesCounted ==
    ASSUME NEW S \in SUBSET Files, \A f \in S : 1..f \subseteq S
    PROVE  S = 1..Cardinality(S) /\ Cardinality(S) \in 0..4
<1>1. \A n \in Nat : Cardinality(1..n) = n
  BY FS_Interval
<1>2. \A f \in S : \A g \in Files : g <= f => g \in S
  BY DEF Files
<1>3. PICK n \in 0..4 : S = 1..n
  <2>1. S \subseteq {1, 2, 3, 4}
    BY DEF Files
  <2>2. (4 \in S => 3 \in S) /\ (3 \in S => 2 \in S) /\ (2 \in S => 1 \in S)
    BY <1>2 DEF Files
  <2>3. CASE 4 \in S
    <3>1. S = {1, 2, 3, 4}
      BY <2>1, <2>2, <2>3
    <3> QED BY <3>1
  <2>4. CASE 4 \notin S /\ 3 \in S
    <3>1. S = {1, 2, 3}
      BY <2>1, <2>2, <2>4
    <3> QED BY <3>1
  <2>5. CASE 4 \notin S /\ 3 \notin S /\ 2 \in S
    <3>1. S = {1, 2}
      BY <2>1, <2>2, <2>5
    <3> QED BY <3>1
  <2>6. CASE 4 \notin S /\ 3 \notin S /\ 2 \notin S /\ 1 \in S
    <3>1. S = {1}
      BY <2>1, <2>2, <2>6
    <3> QED BY <3>1
  <2>7. CASE 4 \notin S /\ 3 \notin S /\ 2 \notin S /\ 1 \notin S
    <3>1. S = 1..0
      BY <2>1, <2>2, <2>7
    <3> QED BY <3>1
  <2> QED BY <2>3, <2>4, <2>5, <2>6, <2>7
<1> QED BY <1>1, <1>3

\* A commit upgrades the database by one version, or finds it upgraded.
LEMMA CommitUpgrades ==
    ASSUME IInv, NEW f \in Files, 1..(f - 1) \subseteq recorded, Commits(f)
    PROVE  Versions!Upgrade \/ UNCHANGED <<Cardinality(recorded), schema>>
<1>1. recorded = 1..Cardinality(recorded) /\ Cardinality(recorded) \in 0..4
  BY FilesCounted DEF IInv, MigrationsTypeOK, RecordedInOrder
<1>2. CASE f \in recorded
  BY <1>2 DEF Commits, IInv, SchemaIsRecorded
<1>3. CASE f \notin recorded
  <2>1. Cardinality(recorded) = f - 1
    <3>1. ~(f <= Cardinality(recorded))
      BY <1>1, <1>3 DEF Files
    <3>2. CASE f = 1
      BY <1>1, <3>1, <3>2
    <3>3. CASE f # 1
      <4>1. f - 1 \in 1..(f - 1)
        BY <3>3 DEF Files
      <4>2. f - 1 <= Cardinality(recorded)
        BY <1>1, <4>1
      <4> QED BY <1>1, <3>1, <4>2 DEF Files
    <3> QED BY <3>2, <3>3
  <2>2. recorded' = 1..f
    BY <1>1, <2>1 DEF Commits, Files
  <2>3. Cardinality(recorded') = f
    <3>1. \A n \in Nat : Cardinality(1..n) = n
      BY FS_Interval
    <3> QED BY <2>2, <3>1 DEF Files
  <2>4. f <= 4 /\ f \in Nat /\ f - 1 < 4 /\ f - 1 + 1 = f
    BY DEF Files
  <2> QED BY <2>1, <2>3, <2>4 DEF Versions!Upgrade, Commits
<1> QED BY <1>2, <1>3

\* Each step of a runner upgrades the database by one version, or leaves it.
LEMMA StepUpgrades ==
    ASSUME IInv, [Next]_vars
    PROVE  Versions!Upgrade \/ UNCHANGED <<Cardinality(recorded), schema>>
<1>1. CASE UNCHANGED vars
  BY <1>1 DEF vars, database
<1>2. CASE Next
  <2> SUFFICES ASSUME NEW r \in Runners, Launch(r) \/ Step(r) \/ Fail(r)
               PROVE  Versions!Upgrade \/ UNCHANGED <<recorded, schema>>
                                       \/ UNCHANGED <<Cardinality(recorded), schema>>
    BY <1>2 DEF Next
  <2>1. CASE Launch(r) \/ Bootstrap(r) \/ Fetch(r) \/ Execute(r) \/ Raise(r)
    BY <2>1 DEF Launch, Bootstrap, Fetch, Execute, Raise, database
  <2>2. ASSUME NEW f \in Files, at[r] = "commit", Reached(r, f), Commits(f)
        PROVE  Versions!Upgrade \/ UNCHANGED <<Cardinality(recorded), schema>>
    <3>1. 1..(f - 1) \subseteq recorded
      BY <2>2, ReachedIsNext DEF IInv
    <3> QED BY <2>2, <3>1, CommitUpgrades
  <2>3. CASE Commit(r)
    BY <2>2, <2>3 DEF Commit
  <2>4. CASE Fail(r)
    BY <2>2, <2>4 DEF Fail, database
  <2> QED BY <2>1, <2>3, <2>4 DEF Step
<1> QED BY <1>1, <1>2

\* However many runners race, from checkouts of whatever age, and whenever they
\* die, together they upgrade the database one version at a time and never take
\* one back: _apply_one's one transaction per file, and the sorted list of run().
THEOREM RunnersImplementVersions ==
    ASSUME MigrationsAssumption
    PROVE  Spec => VersionByVersion
<1>1. Init => Versions!Init
  <2>1. Cardinality({}) = 0
    BY FS_EmptySet
  <2> QED BY <2>1 DEF Init, Versions!Init
<1>2. IInv /\ [Next]_vars => [Versions!Upgrade]_<<Cardinality(recorded), schema>>
  BY StepUpgrades
<1>3. Spec => []IInv
  BY Invariant
<1> QED BY <1>1, <1>2, <1>3, PTL DEF Spec, VersionByVersion, Versions!Spec
=============================================================================
