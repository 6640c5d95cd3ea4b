--------------------------- MODULE Operations_proofs ---------------------------
(***************************************************************************)
(* Type correctness, that the service never works with a checkpoint ahead of   *)
(* the branch, and that a cutover beside it leaves nothing out, for every       *)
(* number of changelists, commands and accidents.                            *)
(***************************************************************************)
EXTENDS OperationsProps, SequenceTheorems, WellFoundedInduction, TLAPS

\* The constants are numbers.
LEMMA BoundsAreNat ==
    /\ MaxCL \in Nat /\ MaxCommands \in Nat /\ MaxEvents \in Nat
    /\ CL \subseteq 1..MaxCL /\ 1..MaxCL \subseteq CL /\ \A n \in CL : n \in Int /\ n # 0 /\ n >= 1 /\ n \in 0..MaxCL
BY OperationsAssumption DEF CL

\* The empty commit, and one more changelist on a commit.
LEMMA CommitFacts ==
    /\ NoCommit \in Commit
    /\ \A c \in Commit : Len(c) \in Nat /\ DOMAIN c = 1..Len(c)
                         /\ \A k \in 1..Len(c) : c[k] \in CL
    /\ \A c \in Commit : c # NoCommit => Len(c) \in 1..Len(c) /\ Len(c) > 0
<1>1. NoCommit \in Commit
  BY EmptySeq DEF Commit, NoCommit
<1>2. \A c \in Commit : Len(c) \in Nat /\ DOMAIN c = 1..Len(c) /\ \A k \in 1..Len(c) : c[k] \in CL
  BY LenProperties, ElementOfSeq DEF Commit
<1>3. \A c \in Commit : c # NoCommit => Len(c) > 0
  BY <1>2, EmptySeq DEF Commit, NoCommit
<1> QED
  BY <1>1, <1>2, <1>3

\* What a commit on top of another has.
LEMMA AppendFacts ==
    ASSUME NEW c \in Commit, NEW n \in CL
    PROVE  /\ Append(c, n) \in Commit /\ Append(c, n) # NoCommit
           /\ Len(Append(c, n)) = Len(c) + 1
           /\ Append(c, n)[Len(c) + 1] = n
           /\ \A k \in 1..Len(c) : Append(c, n)[k] = c[k]
           /\ ToSet(Append(c, n)) = ToSet(c) \cup {n}
<1>1. /\ Append(c, n) \in Commit /\ Append(c, n) # NoCommit
      /\ Len(Append(c, n)) = Len(c) + 1 /\ Append(c, n)[Len(c) + 1] = n
      /\ \A k \in 1..Len(c) : Append(c, n)[k] = c[k]
      /\ DOMAIN Append(c, n) = 1..(Len(c) + 1)
  BY AppendProperties, CommitFacts DEF Commit, NoCommit
<1>2. Len(c) \in Nat /\ DOMAIN c = 1..Len(c)
  BY CommitFacts
<1>3. \A x : x \in ToSet(Append(c, n)) <=> x \in ToSet(c) \cup {n}
  BY <1>1, <1>2 DEF ToSet
<1>4. ToSet(Append(c, n)) = ToSet(c) \cup {n}
  BY <1>3, Zenon
<1> QED
  BY <1>1, <1>4

-----------------------------------------------------------------------------
(* The types of the databases.                                              *)

\* The fields of a database.
LEMMA DatabaseFields ==
    ASSUME NEW d \in DB
    PROVE  /\ d.lastCl \in 0..MaxCL /\ d.lastSha \in Commit /\ d.row \in [CL -> Commit]
           /\ d.status \in [CL -> {"none", "pending", "pushed", "failed"}]
           /\ d.old \subseteq CL /\ d.archived \subseteq CL /\ d.registered \in BOOLEAN
BY DEF DB

\* The commit to commit on.
LEMMA ParentType == ASSUME TypeOK PROVE ParentSha \in Commit
<1>1. db \in DB
  BY DEF TypeOK
<1>2. db.lastCl > 0 => db.lastCl \in CL
  BY <1>1, DatabaseFields, BoundsAreNat
<1> QED
  BY <1>1, <1>2, DatabaseFields, CommitFacts DEF ParentSha

\* What a commit leaves out.
LEMMA LeavesOutFacts ==
    ASSUME TypeOK, NEW n \in CL, NEW told \in BOOLEAN, LeavesOut(n, told)
    PROVE  /\ skipped \subseteq skipped' /\ skipped' \subseteq CL
           /\ unchecked => (1..(n - 1)) \ skipped' \subseteq ToSet(ParentSha)
           /\ told => (db.lastCl + 1)..(n - 1) \subseteq skipped'
<1>1. db.lastCl \in 0..MaxCL /\ n \in 1..MaxCL /\ skipped \subseteq CL
  BY DatabaseFields, BoundsAreNat DEF TypeOK
<1>2. (db.lastCl + 1)..(n - 1) \subseteq CL /\ 1..(n - 1) \subseteq CL
  BY <1>1, BoundsAreNat
<1>3. skipped' = skipped \cup (IF told THEN (db.lastCl + 1)..(n - 1) ELSE {})
                         \cup (IF unchecked THEN (1..(n - 1)) \ ToSet(ParentSha) ELSE {})
  BY DEF LeavesOut
<1> QED
  BY <1>1, <1>2, <1>3

\* What the service and the commands write.
LEMMA WritesType ==
    ASSUME NEW d \in DB, NEW n \in CL, NEW c \in Commit,
           NEW s \in {"pending", "pushed", "failed"}
    PROVE  /\ SetLastSynced(d, n, c) \in DB
           /\ UpdatePushStatus(d, n, s) \in DB
           /\ EmptyDB \in DB
<1>1. SetLastSynced(d, n, c) \in DB
  <2>1. n \in 0..MaxCL
    BY BoundsAreNat
  <2> QED
    BY <2>1, DatabaseFields DEF SetLastSynced, DB
<1>2. UpdatePushStatus(d, n, s) \in DB
  BY DatabaseFields DEF UpdatePushStatus, DB
<1>3. EmptyDB \in DB
  BY BoundsAreNat, CommitFacts DEF EmptyDB, DB
<1> QED
  BY <1>1, <1>2, <1>3

\* The row of a new commit.
LEMMA RecordType ==
    ASSUME db \in DB, NEW n \in CL, NEW c \in Commit
    PROVE  RecordCommit(n, c) \in DB
BY DatabaseFields DEF RecordCommit, DB

\* Every set of numbers has a least one.
LEMMA MinimumExists ==
    ASSUME NEW S \in SUBSET Nat, S # {}
    PROVE  \E m \in S : \A k \in S : m <= k
<1>1. PICK m \in S : \A k \in S : ~ (<<k, m>> \in OpToRel(<, Nat))
  BY NatLessThanWellFounded, WFMin
<1>2. \A k \in S : ~(k < m)
  BY <1>1 DEF OpToRel
<1> QED
  BY <1>2

\* The newest place of a changelist in the history.
LEMMA LastIndexFacts ==
    ASSUME history \in Commit, NEW n \in ToSet(history)
    PROVE  LastIndex(n) \in 1..Len(history) /\ history[LastIndex(n)] = n
<1> DEFINE places == {k \in 1..Len(history) : history[k] = n}
           fromEnd == {Len(history) - k : k \in places}
<1>1. Len(history) \in Nat /\ DOMAIN history = 1..Len(history)
  BY CommitFacts
<1>2. fromEnd # {} /\ fromEnd \in SUBSET Nat
  BY <1>1 DEF ToSet
<1>3. PICK least \in fromEnd : \A u \in fromEnd : least <= u
  BY <1>2, MinimumExists
<1>4. PICK k \in places : least = Len(history) - k
  BY <1>3
<1>5. ASSUME NEW j \in places PROVE j <= k
  <2>1. Len(history) - j \in fromEnd /\ j \in Int /\ k \in Int
    BY <1>1, <1>4
  <2>2. Len(history) - k <= Len(history) - j
    BY <1>3, <1>4, <2>1
  <2> HIDE DEF places, fromEnd
  <2> QED
    BY <1>1, <2>1, <2>2
<1>6. \E k1 \in DOMAIN history :
          history[k1] = n /\ \A j \in DOMAIN history : history[j] = n => j <= k1
  BY <1>1, <1>4, <1>5
<1>7. LastIndex(n) \in DOMAIN history /\ history[LastIndex(n)] = n
  BY <1>6 DEF LastIndex
<1> QED
  BY <1>1, <1>7

\* The rows of a rebuilt database are the beginnings of the history.
LEMMA RebuiltFacts ==
    ASSUME db \in DB, history \in Commit, history # NoCommit
    PROVE  /\ Rebuilt \in DB
           /\ Rebuilt.lastCl = history[Len(history)] /\ Rebuilt.lastCl \in ToSet(history)
           /\ Rebuilt.lastSha = history
           /\ \A n \in CL : Rebuilt.row[n] = IF n \in ToSet(history)
                                             THEN SubSeq(history, 1, LastIndex(n)) ELSE db.row[n]
<1> DEFINE rows == [n \in CL |-> IF n \in ToSet(history)
                                 THEN SubSeq(history, 1, LastIndex(n)) ELSE db.row[n]]
           statuses == [n \in CL |-> IF n \in ToSet(history) /\ db.status[n] = "none"
                                     THEN "pending" ELSE db.status[n]]
<1>1. /\ Len(history) \in 1..Len(history) /\ DOMAIN history = 1..Len(history)
      /\ Len(history) \in Nat /\ \A k \in 1..Len(history) : history[k] \in CL
  BY CommitFacts
<1>2. history[Len(history)] \in ToSet(history) /\ history[Len(history)] \in CL
  BY <1>1 DEF ToSet
<1>3. rows \in [CL -> Commit]
  <2>1. ASSUME NEW n \in CL, n \in ToSet(history)
        PROVE  SubSeq(history, 1, LastIndex(n)) \in Commit
    <3>1. LastIndex(n) \in 1..Len(history)
      BY <2>1, LastIndexFacts
    <3> QED
      BY <1>1, <3>1, SubSeqProperties DEF Commit
  <2> QED
    BY <2>1, DatabaseFields
<1>4. statuses \in [CL -> {"none", "pending", "pushed", "failed"}]
  BY DatabaseFields
<1>5. RebuiltRows = [db EXCEPT !.row = rows, !.status = statuses]
  <2>1. /\ db.row \in [CL -> Commit]
        /\ db.status \in [CL -> {"none", "pending", "pushed", "failed"}]
    BY DatabaseFields
  <2> QED
    BY <2>1 DEF RebuiltRows
<1> HIDE DEF rows, statuses
<1>6. /\ RebuiltRows \in DB /\ RebuiltRows.row = rows
  BY <1>3, <1>4, <1>5, DatabaseFields DEF DB
<1>7. history[Len(history)] \in 0..MaxCL
  BY <1>2, BoundsAreNat
<1>8. Rebuilt \in DB /\ Rebuilt.row = rows
      /\ Rebuilt.lastCl = history[Len(history)] /\ Rebuilt.lastSha = history
  BY <1>6, <1>7, DatabaseFields DEF Rebuilt, DB
<1> QED
  BY <1>2, <1>8 DEF rows

\* What the archive leaves of the database.
LEMMA ArchiveFacts ==
    ASSUME TypeOK, Archive
    PROVE  /\ db' \in DB /\ locked' \in BOOLEAN
           /\ db'.lastCl = db.lastCl /\ db'.lastSha = db.lastSha /\ db'.registered = db.registered
           /\ \A n \in CL : db'.row[n] \in {db.row[n], NoCommit}
<1>1. db \in DB
  BY DEF TypeOK
<1>2. CASE Expired # {} /\ Expired \cap db.archived = {}
  <2>1. Expired \subseteq CL
    BY <1>1, DatabaseFields DEF Expired
  <2>2. /\ [n \in CL |-> IF n \in Expired THEN NoCommit ELSE db.row[n]] \in [CL -> Commit]
        /\ [n \in CL |-> IF n \in Expired THEN "none" ELSE db.status[n]]
               \in [CL -> {"none", "pending", "pushed", "failed"}]
    BY <1>1, DatabaseFields, CommitFacts
  <2>3. db' = [db EXCEPT !.row = [n \in CL |-> IF n \in Expired THEN NoCommit ELSE db.row[n]],
                         !.status = [n \in CL |-> IF n \in Expired THEN "none" ELSE db.status[n]],
                         !.old = db.old \ Expired, !.archived = db.archived \cup Expired]
        /\ locked' = FALSE
    BY <1>1, <1>2, DatabaseFields DEF Archive
  <2>4. db.old \ Expired \subseteq CL /\ db.archived \cup Expired \subseteq CL
    BY <1>1, <2>1, DatabaseFields
  <2> QED
    BY <1>1, <2>2, <2>3, <2>4, DatabaseFields DEF DB
<1>3. CASE ~(Expired # {} /\ Expired \cap db.archived = {})
  BY <1>1, <1>3 DEF Archive
<1> QED
  BY <1>2, <1>3

\* A database whose pushes or rows' age have changed.
LEMMA StatusType ==
    ASSUME db \in DB, NEW st \in [CL -> {"none", "pending", "pushed", "failed"}],
           NEW old \in SUBSET CL
    PROVE  /\ [db EXCEPT !.status = st] \in DB
           /\ [db EXCEPT !.old = old] \in DB
BY DatabaseFields DEF DB

\* The service keeps the types.
LEMMA ServiceTypes ==
    ASSUME TypeInv, Start \/ Service \/ Kill \/ Backup \/ OperatorStops
    PROVE  TypeInv'
<1> USE DEF TypeInv
<1>1. db \in DB /\ ParentSha \in Commit /\ db.lastCl \in 0..MaxCL
  BY ParentType, DatabaseFields DEF TypeOK
<1>2. CASE Start
  <2>1. db' \in DB /\ origin' \in Commit
    <3>1. [n \in CL |-> IF n \in Pending THEN "pushed" ELSE db.status[n]]
              \in [CL -> {"none", "pending", "pushed", "failed"}]
      BY <1>1, DatabaseFields
    <3>2. db' = db \/ db' = [db EXCEPT !.status = [n \in CL |-> IF n \in Pending THEN "pushed"
                                                                ELSE db.status[n]]]
      BY <1>1, <1>2, DatabaseFields DEF Start
    <3>3. origin' \in {origin, main}
      BY <1>2 DEF Start
    <3>4. db' \in DB
      BY <1>1, <3>1, <3>2, StatusType
    <3> QED
      BY <3>3, <3>4 DEF TypeOK
  <2> QED
    BY <1>2, <2>1 DEF Start, TypeOK, commandVars, budget
<1>3. CASE BeginRound
  <2>1. db' \in DB /\ locked' \in BOOLEAN
    BY <1>3, ArchiveFacts DEF BeginRound
  <2>2. /\ pc' = "build" => cur' \in 1..last'
        /\ cur' \in 0..MaxCL /\ last' \in 0..MaxCL /\ pc' \in {"idle", "build"}
    <3>1. submitted \in 0..MaxCL /\ cur \in 0..MaxCL /\ last \in 0..MaxCL /\ pc = "idle"
      BY <1>3 DEF BeginRound, TypeOK
    <3>2. \/ /\ db.lastCl < submitted
             /\ cur' = db.lastCl + 1 /\ last' = submitted /\ pc' = "build"
          \/ cur' = cur /\ last' = last /\ pc' = pc
      BY <1>3 DEF BeginRound
    <3> QED
      BY <1>1, <3>1, <3>2, BoundsAreNat
  <2> QED
    BY <1>3, <2>1, <2>2 DEF BeginRound, TypeOK, gitVars, commandVars, budget
<1>4. CASE ServiceBuilds
  <2>1. cur \in CL
    BY <1>4, BoundsAreNat DEF ServiceBuilds, TypeOK, CL
  <2>2. main' \in Commit /\ sha' \in Commit /\ skipped' \subseteq CL
    BY <1>1, <1>4, <2>1, AppendFacts, LeavesOutFacts DEF ServiceBuilds
  <2> QED
    BY <1>4, <2>2 DEF ServiceBuilds, TypeOK, commandVars, budget
<1>5. CASE ServiceIsRefused
  BY <1>5 DEF ServiceIsRefused, TypeOK, gitVars, commandVars, budget
<1>6. CASE ServiceRecords
  <2>1. cur \in CL
    BY <1>6, BoundsAreNat DEF ServiceRecords, TypeOK, CL
  <2>2. db' \in DB
    BY <1>1, <1>6, <2>1, RecordType DEF ServiceRecords, TypeOK
  <2> QED
    BY <1>6, <2>2 DEF ServiceRecords, TypeOK, gitVars, commandVars, budget
<1>7. CASE ServiceAdvances
  <2>1. cur \in CL
    BY <1>7, BoundsAreNat DEF ServiceAdvances, TypeOK, CL
  <2>2. db' \in DB
    BY <1>1, <1>7, <2>1, WritesType DEF ServiceAdvances, TypeOK
  <2> QED
    BY <1>7, <2>2 DEF ServiceAdvances, TypeOK, gitVars, commandVars, budget
<1>8. CASE ServicePushes
  <2>1. cur \in CL /\ cur \in 1..last /\ last \in 0..MaxCL
    BY <1>8, BoundsAreNat DEF ServicePushes, TypeOK, CL
  <2>2. db' \in {UpdatePushStatus(db, cur, "pushed"), UpdatePushStatus(db, cur, "failed")}
        /\ origin' \in {origin, main}
    BY <1>8 DEF ServicePushes
  <2>3. db' \in DB /\ origin' \in Commit
    BY <1>1, <2>1, <2>2, WritesType, CommitFacts DEF TypeOK
  <2>4. commands' = commands /\ events' \in 0..MaxEvents
    <3>1. events' = events \/ (events < MaxEvents /\ events' = events + 1)
      BY <1>8 DEF ServicePushes, Event, budget
    <3> QED
      BY <1>8, <3>1, BoundsAreNat DEF ServicePushes, Event, budget, TypeOK
  <2>5. cur' \in 0..MaxCL /\ pc' \in {"build", "idle"} /\ (pc' = "build" => cur' \in 1..last)
        /\ last' = last
    BY <1>8, <2>1, BoundsAreNat DEF ServicePushes, NextOfBatch
  <2> QED
    BY <1>8, <2>3, <2>4, <2>5 DEF ServicePushes, TypeOK, commandVars
<1>9. CASE Kill \/ OperatorStops
  <2>1. commands' = commands /\ events' \in 0..MaxEvents
    <3>1. commands' = commands
          /\ (events' = events \/ (events < MaxEvents /\ events' = events + 1))
      BY <1>9 DEF Kill, OperatorStops, Event, budget
    <3> QED
      BY <3>1, BoundsAreNat DEF TypeOK
  <2>2. StopService
    BY <1>9 DEF Kill, OperatorStops
  <2>3. pc' = "down" /\ locked' = FALSE /\ cur' \in 0..MaxCL /\ last' \in 0..MaxCL /\ sha' \in Commit
    BY <2>2, BoundsAreNat, CommitFacts DEF StopService
  <2> QED
    BY <2>1, <2>2, <2>3 DEF StopService, TypeOK, gitVars, commandVars
<1>10. CASE Backup
  BY <1>10 DEF Backup, TypeOK, gitVars, serviceVars, commandVars, budget
<1> QED
  BY <1>2, <1>3, <1>4, <1>5, <1>6, <1>7, <1>8, <1>9, <1>10 DEF Service

\* A command that ends keeps the types.
LEMMA FailTypes ==
    ASSUME TypeOK, NEW result \in {"none", "completed", "failed"}, Fail(result)
    PROVE  /\ cmd' = "none" /\ step' = "none" /\ at' \in 0..MaxCL /\ to' \in 0..MaxCL
           /\ csha' \in Commit /\ history' \in Commit /\ listed' \in 0..MaxCL /\ first' \in 0..MaxCL
           /\ outcome' \in {"none", "completed", "failed"}
BY BoundsAreNat, CommitFacts DEF Fail, TypeOK

\* The commands keep the types.
LEMMA CommandTypes ==
    ASSUME TypeInv, Command \/ CommandKilled \/ StartCutover \/ \E a, b \in CL : Resync(a, b)
    PROVE  TypeInv'
<1> USE DEF TypeInv
<1>1. db \in DB /\ ParentSha \in Commit /\ db.lastCl \in 0..MaxCL
  BY ParentType, DatabaseFields DEF TypeOK
<1>2. CASE CommandBuilds
  <2>1. at \in CL
    BY <1>2, BoundsAreNat DEF CommandBuilds, TypeOK, CL
  <2>2. main' \in Commit /\ csha' \in Commit /\ skipped' \subseteq CL
    BY <1>1, <1>2, <2>1, AppendFacts, LeavesOutFacts DEF CommandBuilds
  <2> QED
    BY <1>2, <2>2 DEF CommandBuilds, TypeOK, serviceVars, budget
<1>3. CASE CommandRecords
  <2>1. at \in CL
    BY <1>3, BoundsAreNat DEF CommandRecords, TypeOK, CL
  <2>2. db' \in DB
    BY <1>1, <1>3, <2>1, RecordType DEF CommandRecords, TypeOK
  <2> QED
    BY <1>3, <2>2 DEF CommandRecords, TypeOK, gitVars, serviceVars, budget
<1>4. CASE CommandAdvances
  <2>1. at \in CL /\ at \in 1..to /\ to \in 0..MaxCL
    BY <1>4, BoundsAreNat DEF CommandAdvances, TypeOK, CL
  <2>2. db' \in DB
    BY <1>1, <1>4, <2>1, WritesType DEF CommandAdvances, TypeOK
  <2>3. /\ at' \in 0..MaxCL /\ to' = to /\ (step' = "build" => at' \in 1..to)
        /\ step' \in {"build", "push", "none"} /\ cmd' \in {cmd, "none"}
        /\ csha' \in {csha, NoCommit}
    BY <1>4, <2>1, BoundsAreNat DEF CommandAdvances
  <2>4. csha' \in Commit
    BY <2>3, CommitFacts DEF TypeOK
  <2> QED
    BY <1>4, <2>2, <2>3, <2>4 DEF CommandAdvances, TypeOK, gitVars, serviceVars, budget
<1>5. CASE CommandRaises \/ CommandKilled \/ FinalPush \/ (CheckPending /\ Pending # {})
           \/ (Verify /\ step' = "none")
  <2>1. \E result \in {"none", "completed", "failed"} : Fail(result)
    BY <1>5 DEF CommandRaises, CommandKilled, FinalPush, CheckPending, Verify, TypeOK
  <2>2. /\ cmd' = "none" /\ step' = "none" /\ at' \in 0..MaxCL /\ to' \in 0..MaxCL
        /\ csha' \in Commit /\ history' \in Commit /\ listed' \in 0..MaxCL /\ first' \in 0..MaxCL
        /\ outcome' \in {"none", "completed", "failed"}
    BY <2>1, FailTypes
  <2>3. commands' = commands /\ events' \in 0..MaxEvents
    <3>1. commands' = commands
          /\ (events' = events \/ (events < MaxEvents /\ events' = events + 1))
      BY <1>5 DEF CommandRaises, CommandKilled, FinalPush, CheckPending, Verify, Event, budget
    <3> QED
      BY <3>1, BoundsAreNat DEF TypeOK
  <2>4. /\ UNCHANGED <<submitted, main, unchecked, skipped, db, backup, locked, serviceVars>>
        /\ origin' \in {origin, main}
    BY <1>5 DEF CommandRaises, CommandKilled, FinalPush, CheckPending, Verify, gitVars
  <2> QED
    BY <2>2, <2>3, <2>4 DEF TypeOK, serviceVars
<1>6. CASE CutoverPushes
  BY <1>6 DEF CutoverPushes, TypeOK, serviceVars, budget
<1>7. CASE CutoverMarks
  <2>1. [n \in CL |-> IF n \in first..to /\ db.status[n] # "none" THEN "pushed" ELSE db.status[n]]
            \in [CL -> {"none", "pending", "pushed", "failed"}]
    BY <1>1, DatabaseFields
  <2>2. db' = [db EXCEPT !.status = [n \in CL |-> IF n \in first..to /\ db.status[n] # "none"
                                                  THEN "pushed" ELSE db.status[n]]]
    BY <1>1, <1>7, DatabaseFields DEF CutoverMarks
  <2>3. db' \in DB
    BY <1>1, <2>1, <2>2, StatusType
  <2> QED
    BY <1>7, <2>3 DEF CutoverMarks, TypeOK, gitVars, serviceVars, budget
<1>8. CASE (CheckPending /\ Pending = {}) \/ (Verify /\ step' = "finalpush")
  BY <1>8 DEF CheckPending, Verify, Fail, TypeOK, gitVars, serviceVars, budget
<1>9. CASE RebuildWrites
  <2>1. db' \in DB
    BY <1>1, <1>9, RebuiltFacts DEF RebuildWrites, TypeOK
  <2> QED
    BY <1>9, <2>1, CommitFacts DEF RebuildWrites, TypeOK, gitVars, serviceVars, budget
<1>10. CASE StartCutover
  <2>1. /\ commands < MaxCommands /\ commands' = commands + 1 /\ events' = events
    BY <1>10 DEF StartCutover, NewCommand
  <2>2. commands' \in 0..MaxCommands
    BY <2>1, BoundsAreNat DEF TypeOK
  <2>3. /\ at' \in 0..MaxCL /\ to' \in 0..MaxCL /\ (step' = "build" => at' \in 1..to')
        /\ step' \in {"build", "check"} /\ first' \in 0..MaxCL
    <3>1. submitted \in 0..MaxCL /\ at \in 0..MaxCL /\ to \in 0..MaxCL /\ first \in 0..MaxCL
      BY DEF TypeOK
    <3>2. \/ /\ db.lastCl < submitted
             /\ step' = "build" /\ at' = db.lastCl + 1 /\ to' = submitted /\ first' = at'
          \/ step' = "check" /\ at' = at /\ to' = to /\ first' = first
      BY <1>10 DEF StartCutover
    <3> QED
      BY <1>1, <3>1, <3>2, BoundsAreNat
  <2> QED
    BY <1>10, <2>1, <2>2, <2>3 DEF StartCutover, TypeOK, gitVars, serviceVars
<1>11. CASE \E a, b \in CL : Resync(a, b)
  <2> PICK a \in CL, b \in CL : Resync(a, b)
    BY <1>11
  <2>1. /\ commands < MaxCommands /\ commands' = commands + 1 /\ events' = events
    BY DEF Resync, NewCommand
  <2>2. commands' \in 0..MaxCommands
    BY <2>1, BoundsAreNat DEF TypeOK
  <2>3. at' \in 0..MaxCL /\ to' \in 0..MaxCL /\ at' \in 1..to'
    BY BoundsAreNat DEF Resync, CL
  <2> QED
    BY <2>1, <2>2, <2>3 DEF Resync, TypeOK, gitVars, serviceVars
<1> QED
  BY <1>2, <1>3, <1>4, <1>5, <1>6, <1>7, <1>8, <1>9, <1>10, <1>11 DEF Command, Verify, CheckPending, Fail

\* The accidents, the readers and time keep the types.
LEMMA OtherTypes ==
    ASSUME TypeInv,
           Submit \/ OperatorRebuilds \/ NeedlessRebuild \/ ReinitGit \/ LoseDB \/ Year
    PROVE  TypeInv'
<1> USE DEF TypeInv
<1>1. db \in DB /\ EmptyDB \in DB
  BY BoundsAreNat, CommitFacts DEF TypeOK, EmptyDB, DB
<1>2. CASE Submit
  <2>1. submitted' \in 0..MaxCL
    BY <1>2, BoundsAreNat DEF Submit, TypeOK
  <2> QED
    BY <1>2, <2>1 DEF Submit, TypeOK, gitVars, serviceVars, commandVars, budget
<1>3. CASE OperatorRebuilds \/ NeedlessRebuild
  <2>1. commands' \in 0..MaxCommands /\ events' = events
    <3>1. events' = events
          /\ (commands' = commands \/ (commands < MaxCommands /\ commands' = commands + 1))
      BY <1>3 DEF OperatorRebuilds, NeedlessRebuild, NewCommand, budget
    <3> QED
      BY <3>1, BoundsAreNat DEF TypeOK
  <2>2. ReadHistory
    BY <1>3 DEF OperatorRebuilds, NeedlessRebuild
  <2> QED
    BY <2>1, <2>2 DEF ReadHistory, TypeOK, gitVars, serviceVars
<1>4. CASE ReinitGit \/ LoseDB \/ Year
  <2>1. commands' = commands /\ events' \in 0..MaxEvents
    BY <1>4, BoundsAreNat DEF ReinitGit, LoseDB, Year, Event, TypeOK
  <2>2. db' \in DB
    <3>1. {n \in CL : HasRow(n)} \in SUBSET CL
      OBVIOUS
    <3>2. db' \in {db, EmptyDB, backup} \/ db' = [db EXCEPT !.old = {n \in CL : HasRow(n)}]
      BY <1>1, <1>4, DatabaseFields DEF ReinitGit, LoseDB, Year
    <3>3. [db EXCEPT !.old = {n \in CL : HasRow(n)}] \in DB
      BY <1>1, <3>1, DatabaseFields DEF DB
    <3> QED
      BY <1>1, <3>2, <3>3 DEF TypeOK
  <2>3. /\ main' \in {main, origin} /\ origin' = origin /\ skipped' = skipped
        /\ unchecked' \in BOOLEAN
    BY <1>4 DEF ReinitGit, LoseDB, Year, gitVars, TypeOK
  <2> QED
    BY <1>4, <2>1, <2>2, <2>3 DEF ReinitGit, LoseDB, Year, TypeOK, serviceVars, commandVars
<1> QED
  BY <1>2, <1>3, <1>4

\* The types, and that what is in work is in the range of the work.
LEMMA TypeInvariant == Spec => []TypeInv
<1>1. ASSUME Init PROVE TypeInv
  <2>1. EmptyDB \in DB /\ EmptyDB.registered = FALSE
    BY BoundsAreNat, CommitFacts DEF EmptyDB, DB
  <2>2. db \in DB /\ backup \in DB
    BY <1>1, <2>1 DEF Init, DB
  <2>3. 0 \in 0..MaxCL /\ 0 \in 0..MaxCommands /\ 0 \in 0..MaxEvents
    BY BoundsAreNat
  <2> QED
    BY <1>1, <2>2, <2>3, CommitFacts DEF Init, TypeInv, TypeOK
<1>2. ASSUME TypeInv, [Next]_vars PROVE TypeInv'
  <2>1. CASE UNCHANGED vars
    BY <1>2, <2>1 DEF vars, TypeInv, TypeOK, gitVars, serviceVars, commandVars, budget
  <2>2. CASE Next
    BY <1>2, <2>2, ServiceTypes, CommandTypes, OtherTypes DEF Next
  <2> QED
    BY <1>2, <2>1, <2>2
<1> QED
  BY <1>1, <1>2, PTL DEF Spec

\* The values of all variables are of their types, whatever command, restart or
\* accident comes between two steps of the service.
THEOREM OperationsTypeCorrect == Spec => []TypeOK
<1>1. TypeInv => TypeOK
  BY DEF TypeInv
<1> QED
  BY <1>1, TypeInvariant, PTL

-----------------------------------------------------------------------------
(* Whole commits.                                                           *)

\* The changelists of a commit.
LEMMA ToSetFacts ==
    ASSUME NEW c \in Commit
    PROVE  /\ \A x : x \in ToSet(c) <=> \E k \in 1..Len(c) : x = c[k]
           /\ ToSet(c) \subseteq CL
           /\ ToSet(NoCommit) = {} /\ \A some : WholeBut(NoCommit, some)
<1>1. DOMAIN c = 1..Len(c) /\ \A k \in 1..Len(c) : c[k] \in CL
  BY CommitFacts
<1>2. Len(NoCommit) = 0 /\ DOMAIN NoCommit = {}
  BY EmptySeq DEF NoCommit
<1>3. 1..0 = {}
  OBVIOUS
<1> QED
  BY <1>1, <1>2, <1>3 DEF ToSet, WholeBut

\* With a changelist, a whole commit has all the older ones.
LEMMA WholeHas ==
    ASSUME NEW c \in Commit, NEW some, WholeBut(c, some), NEW n \in ToSet(c)
    PROVE  (1..n) \ some \subseteq ToSet(c)
<1>1. PICK k \in 1..Len(c) : n = c[k]
  BY ToSetFacts
<1>2. (1..n) \ some \subseteq {c[j] : j \in 1..k}
  BY <1>1 DEF WholeBut
<1>3. Len(c) \in Nat
  BY CommitFacts
<1>4. \A j \in 1..k : c[j] \in ToSet(c)
  BY <1>1, <1>3, ToSetFacts
<1> QED
  BY <1>2, <1>4

\* What is whole stays so when more is left out.
LEMMA WholeMore ==
    ASSUME NEW some, NEW more, some \subseteq more
    PROVE  /\ \A c \in Commit : WholeBut(c, some) => WholeBut(c, more)
           /\ \A d \in DB : GoodBut(d, some) => GoodBut(d, more)
<1>1. \A c \in Commit : WholeBut(c, some) => WholeBut(c, more)
  <2> SUFFICES ASSUME NEW c \in Commit, WholeBut(c, some), NEW k \in 1..Len(c)
               PROVE  (1..c[k]) \ more \subseteq {c[j] : j \in 1..k}
    BY DEF WholeBut
  <2>1. (1..c[k]) \ some \subseteq {c[j] : j \in 1..k}
    BY DEF WholeBut
  <2> QED
    BY <2>1
<1>2. \A d \in DB : GoodBut(d, some) => GoodBut(d, more)
  BY <1>1, DatabaseFields DEF GoodBut
<1> QED
  BY <1>1, <1>2

\* The next changelist on a whole commit makes a whole commit.
LEMMA WholeAppend ==
    ASSUME NEW c \in Commit, NEW some, WholeBut(c, some), NEW n \in CL,
           (1..(n - 1)) \ some \subseteq ToSet(c)
    PROVE  WholeBut(Append(c, n), some)
<1> DEFINE d == Append(c, n)
<1>1. /\ Len(d) = Len(c) + 1 /\ d[Len(c) + 1] = n /\ \A k \in 1..Len(c) : d[k] = c[k]
      /\ Len(c) \in Nat
  BY AppendFacts, CommitFacts
<1> HIDE DEF d
<1>2. ASSUME NEW k \in 1..Len(c) PROVE (1..d[k]) \ some \subseteq {d[j] : j \in 1..k}
  <2>1. (1..c[k]) \ some \subseteq {c[j] : j \in 1..k}
    BY DEF WholeBut
  <2>2. d[k] = c[k] /\ \A j \in 1..k : d[j] = c[j]
    BY <1>1
  <2> QED
    BY <2>1, <2>2
<1>3. (1..n) \ some \subseteq {d[j] : j \in 1..(Len(c) + 1)}
  <2> SUFFICES ASSUME NEW x \in 1..n, x \notin some PROVE x \in {d[j] : j \in 1..(Len(c) + 1)}
    OBVIOUS
  <2>1. CASE x = n
    BY <1>1, <2>1
  <2>2. CASE x \in 1..(n - 1)
    <3>1. PICK j \in 1..Len(c) : x = c[j]
      BY <2>2, ToSetFacts
    <3> QED
      BY <1>1, <3>1
  <2> QED
    BY <2>1, <2>2, BoundsAreNat
<1>4. ASSUME NEW k \in 1..Len(d) PROVE (1..d[k]) \ some \subseteq {d[j] : j \in 1..k}
  <2>1. k \in 1..Len(c) \/ k = Len(c) + 1
    BY <1>1
  <2>2. CASE k = Len(c) + 1
    BY <1>1, <1>3, <2>2
  <2> QED
    BY <1>2, <2>1, <2>2
<1> QED
  BY <1>4 DEF WholeBut, d

\* The beginning of a whole commit is whole.
LEMMA WholePrefix ==
    ASSUME NEW c \in Commit, NEW some, WholeBut(c, some), NEW m \in 1..Len(c)
    PROVE  WholeBut(SubSeq(c, 1, m), some) /\ c[m] \in ToSet(SubSeq(c, 1, m))
<1> DEFINE d == SubSeq(c, 1, m)
<1>1. Len(c) \in Nat /\ c \in Seq(CL)
  BY CommitFacts DEF Commit
<1>2. d \in Seq(CL) /\ Len(d) = m /\ \A k \in 1..m : d[k] = c[k]
  BY <1>1, SubSeqProperties
<1> HIDE DEF d
<1>3. ASSUME NEW k \in 1..m PROVE (1..d[k]) \ some \subseteq {d[j] : j \in 1..k}
  <2>1. (1..c[k]) \ some \subseteq {c[j] : j \in 1..k}
    BY <1>1 DEF WholeBut
  <2>2. d[k] = c[k] /\ \A j \in 1..k : d[j] = c[j]
    BY <1>2
  <2> QED
    BY <2>1, <2>2
<1>4. WholeBut(d, some)
  BY <1>2, <1>3 DEF WholeBut
<1>5. c[m] \in ToSet(d)
  <2>1. d \in Commit /\ m \in 1..Len(d) /\ c[m] = d[m]
    BY <1>2 DEF Commit
  <2> QED
    BY <2>1, ToSetFacts
<1> QED
  BY <1>4, <1>5 DEF d

-----------------------------------------------------------------------------
(* Good databases.                                                          *)

\* A good database from which rows are archived, or of which only the pushes
\* change, is good, and so is one that is new.
LEMMA GoodLess ==
    ASSUME NEW d \in DB, NEW e \in DB, NEW some, GoodBut(d, some), e.lastCl = d.lastCl, e.lastSha = d.lastSha,
           \A n \in CL : e.row[n] \in {d.row[n], NoCommit}
    PROVE  GoodBut(e, some) /\ GoodBut(EmptyDB, some)
<1>1. WholeBut(NoCommit, some)
  BY CommitFacts, ToSetFacts
<1>2. GoodBut(EmptyDB, some)
  BY <1>1 DEF GoodBut, EmptyDB
<1>3. GoodBut(e, some)
  BY DEF GoodBut
<1> QED
  BY <1>2, <1>3

\* A new row and checkpoint of a whole commit.
LEMMA GoodWrites ==
    ASSUME db \in DB, NEW some, GoodBut(db, some), NEW n \in CL, NEW c \in Commit,
           WholeBut(c, some), n \in ToSet(c)
    PROVE  /\ GoodBut(RecordCommit(n, c), some) /\ RecordCommit(n, c).lastCl = db.lastCl
           /\ GoodBut(SetLastSynced(db, n, c), some) /\ SetLastSynced(db, n, c).lastCl = n
<1>1. /\ RecordCommit(n, c).row = [db.row EXCEPT ![n] = c]
      /\ RecordCommit(n, c).lastCl = db.lastCl /\ RecordCommit(n, c).lastSha = db.lastSha
  BY DatabaseFields DEF RecordCommit, DB
<1>2. db.row \in [CL -> Commit]
  BY DatabaseFields
<1>3. GoodBut(RecordCommit(n, c), some)
  BY <1>1, <1>2 DEF GoodBut
<1>4. /\ SetLastSynced(db, n, c).row = db.row
      /\ SetLastSynced(db, n, c).lastCl = n /\ SetLastSynced(db, n, c).lastSha = c
  BY DatabaseFields DEF SetLastSynced, DB
<1>5. GoodBut(SetLastSynced(db, n, c), some)
  BY <1>4 DEF GoodBut
<1> QED
  BY <1>1, <1>3, <1>4, <1>5

\* A rebuilt database is good.
LEMMA GoodRebuilt ==
    ASSUME db \in DB, NEW some, GoodBut(db, some), history \in Commit, history # NoCommit,
           WholeBut(history, some)
    PROVE  GoodBut(Rebuilt, some)
<1>1. /\ Rebuilt.lastCl \in ToSet(history) /\ Rebuilt.lastSha = history
      /\ \A n \in CL : Rebuilt.row[n] = IF n \in ToSet(history)
                                        THEN SubSeq(history, 1, LastIndex(n)) ELSE db.row[n]
  BY RebuiltFacts
<1>2. ASSUME NEW n \in CL, Rebuilt.row[n] # NoCommit
      PROVE  WholeBut(Rebuilt.row[n], some) /\ n \in ToSet(Rebuilt.row[n])
  <2>1. CASE n \in ToSet(history)
    BY <1>1, <2>1, LastIndexFacts, WholePrefix
  <2>2. CASE n \notin ToSet(history)
    BY <1>1, <1>2, <2>2 DEF GoodBut
  <2> QED
    BY <2>1, <2>2
<1> QED
  BY <1>1, <1>2 DEF GoodBut

\* From here on, whole and good are meant but for what is left out.
USE DEF Whole, GoodDB

\* A commit that is accepted is whole, and takes nothing from the branch.
LEMMA BuildFacts ==
    ASSUME IInv, CommitAccepted, NEW n \in CL, NEW told \in BOOLEAN, LeavesOut(n, told),
           told \/ unchecked \/ Has(n - 1) \/ Behind(n - 1)
    PROVE  /\ Append(ParentSha, n) \in Commit /\ Append(ParentSha, n) # NoCommit
           /\ WholeBut(Append(ParentSha, n), skipped') /\ n \in ToSet(Append(ParentSha, n))
           /\ ToSet(main) \subseteq ToSet(Append(ParentSha, n))
           /\ (1..n) \ skipped' \subseteq ToSet(Append(ParentSha, n))
           /\ skipped \subseteq skipped'
<1>1. /\ TypeOK /\ db \in DB /\ GoodBut(db, skipped) /\ ParentSha \in Commit /\ main \in Commit
      /\ db.lastCl \in 0..MaxCL /\ (db.lastCl > 0 => db.lastCl \in CL)
      /\ WholeBut(main, skipped)
  BY ParentType, DatabaseFields, BoundsAreNat DEF IInv, TypeInv, TypeOK
<1>2. /\ skipped \subseteq skipped'
      /\ unchecked => (1..(n - 1)) \ skipped' \subseteq ToSet(ParentSha)
      /\ told => (db.lastCl + 1)..(n - 1) \subseteq skipped'
  BY <1>1, LeavesOutFacts
<1>3. main = ParentSha
  BY DEF CommitAccepted
<1>4. WholeBut(ParentSha, skipped')
  BY <1>1, <1>2, <1>3, WholeMore
<1>5. (1..(n - 1)) \ skipped' \subseteq ToSet(ParentSha)
  <2>1. CASE unchecked
    BY <1>2, <2>1
  <2>2. CASE Has(n - 1)
    BY <1>2, <1>3, <2>2 DEF Has
  <2>3. CASE ~unchecked /\ (told \/ Behind(n - 1))
    <3>1. n \in Int /\ db.lastCl \in Nat
      BY <1>1, BoundsAreNat
    <3>2. \A x \in 1..(n - 1) : x \notin skipped' => x \in 1..db.lastCl
      <4>1. CASE told
        BY <1>2, <3>1, <4>1
      <4>2. CASE Behind(n - 1)
        BY <3>1, <4>2 DEF Behind
      <4> QED
        BY <2>3, <4>1, <4>2
    <3>3. CASE db.lastCl = 0
      <4>1. 1..db.lastCl = {}
        BY <3>3
      <4> QED
        BY <3>2, <4>1
    <3>4. CASE db.lastCl # 0
      <4>1. ParentSha = db.row[db.lastCl] /\ ParentSha # NoCommit /\ db.lastCl \in CL
        BY <1>1, <1>3, <2>3, <3>4, BoundsAreNat DEF IInv, EmptyInv, ParentSha
      <4>2. db.lastCl \in ToSet(ParentSha)
        BY <1>1, <4>1 DEF GoodBut
      <4>3. (1..db.lastCl) \ skipped' \subseteq ToSet(ParentSha)
        BY <1>1, <1>4, <4>2, WholeHas
      <4> QED
        BY <3>2, <4>3
    <3> QED
      BY <3>3, <3>4
  <2> QED
    BY <2>1, <2>2, <2>3
<1>6. WholeBut(Append(ParentSha, n), skipped')
  BY <1>1, <1>4, <1>5, WholeAppend
<1>7. /\ Append(ParentSha, n) \in Commit /\ Append(ParentSha, n) # NoCommit
      /\ ToSet(Append(ParentSha, n)) = ToSet(ParentSha) \cup {n}
  BY <1>1, AppendFacts
<1>8. (1..n) \ skipped' \subseteq ToSet(Append(ParentSha, n))
  BY <1>6, <1>7, WholeHas
<1> QED
  BY <1>2, <1>3, <1>6, <1>7, <1>8

-----------------------------------------------------------------------------
(* The steps.                                                              *)

\* What a command relies on survives what the service does to the branch: it only
\* grows, and a service that starts has compared it with the checkpoint.
LEMMA SameCommand ==
    ASSUME IInv, UNCHANGED commandVars, ToSet(main) \subseteq ToSet(main'),
           skipped \subseteq skipped', ~unchecked' => ~unchecked \/ cmd = "none",
           \/ unchecked'
           \/ (1..db.lastCl) \ skipped' \subseteq ToSet(main')
           \/ pc # "down"
           \/ pc' = "down" /\ db'.lastCl = db.lastCl
    PROVE  CommandInv' /\ BranchInv'
<1>1. ASSUME NEW n, Has(n) PROVE (Has(n))'
  BY <1>1 DEF Has
<1>2. db.lastCl \in Int
  BY DatabaseFields, BoundsAreNat DEF IInv, TypeInv, TypeOK
<1>3. ASSUME NEW n \in 0..MaxCL, Behind(n), ~unchecked' PROVE Has(n)' \/ Behind(n)'
  <2>1. pc = "down" /\ n <= db.lastCl
    BY <1>3 DEF Behind
  <2>2. CASE (1..db.lastCl) \ skipped' \subseteq ToSet(main')
    <3>1. 1..n \subseteq 1..db.lastCl
      BY <1>2, <2>1, BoundsAreNat
    <3> QED
      BY <2>2, <3>1 DEF Has
  <2>3. CASE pc' = "down" /\ db'.lastCl = db.lastCl
    BY <2>1, <2>3 DEF Behind
  <2> QED
    BY <1>3, <2>1, <2>2, <2>3
<1>4. step = "build" => at - 1 \in 0..MaxCL
  BY BoundsAreNat DEF IInv, TypeInv, TypeOK
<1>5. listed \in 0..MaxCL
  BY DEF IInv, TypeInv, TypeOK
<1>6. CommandInv /\ BranchInv
  BY DEF IInv
<1>7. UNCHANGED <<cmd, step, at, to, csha, listed, history>>
  BY DEF commandVars
<1>8. CommandInv'
  BY <1>6, <1>7 DEF CommandInv
<1>9. BranchInv'
  <2> SUFFICES ASSUME ~unchecked' PROVE BranchInv'
    BY DEF BranchInv
  <2>1. CASE cmd = "none"
    <3>1. step' = "none"
      BY <1>6, <1>7, <2>1 DEF CommandInv
    <3> QED
      BY <3>1 DEF BranchInv
  <2>2. CASE ~unchecked
    <3>1. step' = "build" /\ cmd' = "cutover" => Has(at - 1)' \/ Behind(at - 1)'
      <4>1. step = "build" /\ cmd = "cutover" => Has(at - 1) \/ Behind(at - 1)
        BY <1>6, <2>2 DEF BranchInv
      <4>2. CASE step = "build" /\ Has(at - 1)
        BY <1>7, <4>2 DEF Has
      <4>3. CASE step = "build" /\ Behind(at - 1)
        <5> DEFINE n == at - 1
        <5>1. n \in 0..MaxCL /\ Behind(n) /\ n' = n
          BY <1>4, <1>7, <4>3
        <5> HIDE DEF n
        <5>2. Has(n)' \/ Behind(n)'
          BY <1>3, <5>1 DEF Has, Behind
        <5> QED
          BY <5>1, <5>2 DEF Has, Behind, n
      <4> QED
        BY <1>7, <4>1, <4>2, <4>3
    <3>2. step' \in {"check", "verify", "finalpush"} => Has(listed)' \/ Behind(listed)'
      BY <1>3, <1>5, <1>6, <1>7, <2>2 DEF BranchInv, Has, Behind
    <3>3. /\ step' \in {"record", "advance"} => Has(at)'
          /\ step' \in {"push", "mark"} => Has(listed)'
          /\ step' = "write" => ToSet(history') \subseteq ToSet(main')
      BY <1>6, <1>7, <2>2 DEF BranchInv, Has
    <3> QED
      BY <3>1, <3>2, <3>3 DEF BranchInv
  <2> QED
    BY <2>1, <2>2
<1> QED
  BY <1>8, <1>9

\* What the service relies on survives what a command does to the branch.
LEMMA SameService ==
    ASSUME IInv, UNCHANGED <<unchecked, serviceVars>>, ToSet(main) \subseteq ToSet(main'),
           skipped \subseteq skipped',
           \/ unchecked \/ db'.lastCl = db.lastCl
           \/ (1..db'.lastCl) \ skipped' \subseteq ToSet(main')
    PROVE  ServiceInv'
<1>1. ServiceInv /\ UNCHANGED <<pc, cur, sha>>
  BY DEF IInv, serviceVars
<1> QED
  BY <1>1 DEF ServiceInv, Has

\* The first step of the service compares the branch with the checkpoint, or leaves
\* it unchecked.
LEMMA StartStep ==
    ASSUME IInv, Start
    PROVE  IInv'
<1>1. /\ UNCHANGED <<main, skipped, backup, cur, last, sha, commandVars>> /\ pc' = "idle"
      /\ origin' \in {origin, main} /\ (main = NoCommit => origin' = origin)
      /\ main = NoCommit \/ VerifyConsistency
      /\ ~unchecked' => ~unchecked \/ (main # NoCommit /\ cmd = "none")
      /\ ~unchecked' => db.registered \/ db.lastCl <= 0
      /\ unchecked' \in BOOLEAN
  BY BoundsAreNat, DatabaseFields DEF Start, IInv, TypeInv, TypeOK
<1>2. db \in DB /\ main \in Commit /\ db.lastCl \in 0..MaxCL
  BY DatabaseFields DEF IInv, TypeInv, TypeOK
<1>3. db'.row = db.row /\ db'.lastCl = db.lastCl /\ db'.lastSha = db.lastSha
  BY <1>2, DatabaseFields DEF Start, DB
<1>4. ~unchecked' => (1..db.lastCl) \ skipped' \subseteq ToSet(main')
  <2>1. CASE db.lastCl = 0
    BY <2>1
  <2>2. CASE db.lastCl # 0 /\ ~unchecked'
    <3>1. main # NoCommit
      BY <1>1, <2>2 DEF IInv, EmptyInv
    <3>2. main = db.lastSha /\ db.lastCl \in ToSet(db.lastSha)
      BY <1>1, <1>2, <2>2, <3>1, BoundsAreNat DEF IInv, GoodBut, VerifyConsistency
    <3> QED
      BY <1>1, <1>2, <3>2, WholeHas DEF IInv
  <2> QED
    BY <2>1, <2>2
<1>5. CommandInv' /\ BranchInv'
  BY <1>1, <1>4, SameCommand
<1>6. ServiceInv'
  BY <1>1, <1>3, <1>4 DEF ServiceInv, Has
<1>7. /\ Whole(main)' /\ Whole(origin)' /\ Whole(sha)' /\ Whole(csha)' /\ Whole(history)'
      /\ GoodDB(backup)' /\ EmptyInv'
  BY <1>1, <1>3 DEF IInv, EmptyInv, commandVars
<1>8. GoodDB(db)'
  BY <1>1, <1>3 DEF IInv, GoodBut
<1>9. TypeInv'
  BY ServiceTypes DEF IInv
<1> QED
  BY <1>5, <1>6, <1>7, <1>8, <1>9 DEF IInv

\* The steps of a running service.
LEMMA ServiceStep ==
    ASSUME IInv, Service \/ Backup
    PROVE  IInv'
<1>1. TypeInv' /\ TypeInv /\ TypeOK /\ db \in DB /\ backup \in DB /\ db' \in DB
  BY ServiceTypes DEF IInv, TypeInv, TypeOK
<1>2. CASE BeginRound
  <2>1. /\ UNCHANGED <<main, origin, unchecked, skipped, backup, sha, commandVars>> /\ Archive /\ pc = "idle"
        /\ \/ cur' = db.lastCl + 1 /\ pc' = "build"
           \/ pc' = "idle"
    BY <1>2 DEF BeginRound, gitVars
  <2>2. /\ db'.lastCl = db.lastCl /\ db'.lastSha = db.lastSha
        /\ \A n \in CL : db'.row[n] \in {db.row[n], NoCommit}
    BY <1>1, <2>1, ArchiveFacts
  <2>3. GoodBut(db', skipped)
    BY <1>1, <2>2, GoodLess DEF IInv
  <2>4. CommandInv' /\ BranchInv'
    BY <2>1, SameCommand
  <2>5. ServiceInv'
    <3>1. (~unchecked => Has(db.lastCl)) /\ db.lastCl \in Int
      BY <1>1, <2>1, DatabaseFields, BoundsAreNat DEF IInv, ServiceInv
    <3>2. db.lastCl + 1 - 1 = db.lastCl
      BY <3>1
    <3> QED
      BY <2>1, <2>2, <3>1, <3>2 DEF ServiceInv, Has
  <2> QED
    BY <1>1, <2>1, <2>2, <2>3, <2>4, <2>5 DEF IInv, EmptyInv, commandVars
<1>3. CASE ServiceBuilds
  <2>1. /\ pc = "build" /\ pc' = "record" /\ CommitAccepted /\ main' = Append(ParentSha, cur)
        /\ LeavesOut(cur, FALSE) /\ sha' = main'
        /\ UNCHANGED <<origin, unchecked, db, backup, cur, commandVars>>
    BY <1>3 DEF ServiceBuilds
  <2>2. cur \in CL /\ (unchecked \/ Has(cur - 1))
    BY <2>1, BoundsAreNat DEF IInv, TypeInv, TypeOK, ServiceInv, CL
  <2>3. /\ main' # NoCommit /\ WholeBut(main', skipped') /\ cur \in ToSet(main')
        /\ ToSet(main) \subseteq ToSet(main') /\ (1..cur) \ skipped' \subseteq ToSet(main')
        /\ skipped \subseteq skipped'
    BY <2>1, <2>2, BuildFacts
  <2>4. CommandInv' /\ BranchInv'
    BY <2>1, <2>3, SameCommand
  <2>5. ServiceInv'
    BY <2>1, <2>3 DEF IInv, ServiceInv, Has
  <2>6. /\ Whole(origin)' /\ Whole(csha)' /\ Whole(history)' /\ GoodDB(db)' /\ GoodDB(backup)'
    BY <1>1, <2>1, <2>3, WholeMore DEF IInv, TypeOK, commandVars
  <2> QED
    BY <1>1, <2>1, <2>3, <2>4, <2>5, <2>6 DEF IInv, EmptyInv
<1>4. CASE ServiceIsRefused \/ Backup
  <2>1. /\ UNCHANGED <<main, origin, unchecked, skipped, db, sha, cur, commandVars>> /\ backup' \in {backup, db}
        /\ pc # "down" /\ pc' = "idle"
    BY <1>4 DEF ServiceIsRefused, Backup, gitVars, serviceVars
  <2>2. CommandInv' /\ BranchInv'
    BY <2>1, SameCommand
  <2>3. ServiceInv'
    BY <2>1 DEF IInv, ServiceInv, Has
  <2> QED
    BY <1>1, <2>1, <2>2, <2>3 DEF IInv, EmptyInv, commandVars
<1>5. CASE ServiceRecords
  <2>1. /\ pc = "record" /\ pc' = "advance" /\ db' = RecordCommit(cur, sha)
        /\ UNCHANGED <<main, origin, unchecked, skipped, backup, cur, sha, commandVars>>
    BY <1>5 DEF ServiceRecords, gitVars
  <2>2. cur \in CL /\ sha \in Commit /\ Whole(sha) /\ cur \in ToSet(sha)
    BY <2>1, BoundsAreNat DEF IInv, TypeInv, TypeOK, ServiceInv, CL
  <2>3. GoodBut(db', skipped) /\ db'.lastCl = db.lastCl
    BY <1>1, <2>1, <2>2, GoodWrites DEF IInv
  <2>4. CommandInv' /\ BranchInv'
    BY <2>1, SameCommand
  <2>5. ServiceInv'
    BY <2>1, <2>3 DEF IInv, ServiceInv, Has
  <2> QED
    BY <1>1, <2>1, <2>3, <2>4, <2>5 DEF IInv, EmptyInv, commandVars
<1>6. CASE ServiceAdvances
  <2>1. /\ pc = "advance" /\ pc' = "push" /\ db' = SetLastSynced(db, cur, sha)
        /\ UNCHANGED <<main, origin, unchecked, skipped, backup, cur, sha, commandVars>>
    BY <1>6 DEF ServiceAdvances, gitVars
  <2>2. /\ cur \in CL /\ sha \in Commit /\ Whole(sha) /\ cur \in ToSet(sha)
        /\ unchecked \/ Has(cur)
    BY <2>1, BoundsAreNat DEF IInv, TypeInv, TypeOK, ServiceInv, CL
  <2>3. GoodBut(db', skipped) /\ db'.lastCl = cur
    BY <1>1, <2>1, <2>2, GoodWrites DEF IInv
  <2>4. unchecked \/ main # NoCommit
    BY <2>2, CommitFacts, ToSetFacts DEF IInv, EmptyInv
  <2>5. CommandInv' /\ BranchInv'
    BY <2>1, SameCommand
  <2>6. ServiceInv'
    BY <2>1, <2>2, <2>3 DEF IInv, ServiceInv, Has
  <2> QED
    BY <1>1, <2>1, <2>3, <2>4, <2>5, <2>6 DEF IInv, EmptyInv, commandVars
<1>7. CASE ServicePushes
  <2>1. /\ pc = "push" /\ UNCHANGED <<main, unchecked, skipped, backup, sha, commandVars>> /\ cur \in CL
        /\ origin' \in {origin, main}
        /\ db' \in {UpdatePushStatus(db, cur, "pushed"), UpdatePushStatus(db, cur, "failed")}
    BY <1>7, BoundsAreNat DEF ServicePushes, IInv, TypeInv, TypeOK, CL
  <2>2. /\ \/ cur' = cur + 1 /\ pc' = "build"
           \/ pc' = "idle"
        /\ cur + 1 - 1 = cur /\ cur \in 1..cur
    BY <1>7, <2>1, BoundsAreNat DEF ServicePushes, NextOfBatch
  <2>3. db'.row = db.row /\ db'.lastCl = db.lastCl /\ db'.lastSha = db.lastSha
    BY <1>1, <2>1, DatabaseFields DEF UpdatePushStatus, DB
  <2>4. unchecked \/ (Has(cur) /\ Has(db.lastCl))
    BY <2>1 DEF IInv, ServiceInv
  <2>5. main = NoCommit => origin' = origin
    BY <1>7 DEF ServicePushes, PushAccepted
  <2>6. CommandInv' /\ BranchInv'
    BY <2>1, SameCommand
  <2>7. ServiceInv'
    BY <2>1, <2>2, <2>3, <2>4 DEF ServiceInv, Has
  <2>8. GoodBut(db', skipped)
    BY <2>3 DEF IInv, GoodBut
  <2> QED
    BY <1>1, <2>1, <2>3, <2>5, <2>6, <2>7, <2>8 DEF IInv, EmptyInv, commandVars
<1> QED
  BY <1>2, <1>3, <1>4, <1>5, <1>6, <1>7 DEF Service

\* A service that stops, an accident while it is down, time, and changelists that
\* are submitted.
LEMMA QuietStep ==
    ASSUME IInv, Kill \/ OperatorStops \/ ReinitGit \/ LoseDB \/ Year \/ Submit
    PROVE  IInv'
<1>1. TypeInv' /\ TypeInv /\ TypeOK /\ db \in DB /\ backup \in DB /\ db' \in DB
  BY ServiceTypes, OtherTypes DEF IInv, TypeInv, TypeOK
<1>2. Whole(NoCommit)
  BY CommitFacts, ToSetFacts
<1>3. CASE Kill \/ OperatorStops
  <2>1. StopService /\ pc # "down"
    BY <1>3 DEF Kill, OperatorStops
  <2>2. /\ UNCHANGED <<main, origin, unchecked, skipped, db, backup, commandVars>> /\ pc' = "down" /\ sha' = NoCommit
    BY <2>1 DEF StopService, gitVars
  <2>3. CommandInv' /\ BranchInv'
    BY <2>1, <2>2, SameCommand
  <2>4. ServiceInv'
    BY <2>2 DEF ServiceInv
  <2> QED
    BY <1>1, <1>2, <2>2, <2>3, <2>4 DEF IInv, EmptyInv, commandVars
<1>4. CASE LoseDB
  <2>1. /\ pc' = "down" /\ cmd = "none" /\ db' \in {EmptyDB, backup}
        /\ UNCHANGED <<main, origin, unchecked, skipped, backup, serviceVars, commandVars>>
    BY <1>4 DEF LoseDB, gitVars, serviceVars
  <2>2. CommandInv' /\ BranchInv'
    <3>1. step' = "none" /\ cmd' = "none"
      BY <2>1 DEF IInv, CommandInv, commandVars
    <3> QED
      BY <3>1 DEF CommandInv, BranchInv
  <2>3. ServiceInv'
    BY <2>1 DEF ServiceInv
  <2>4. GoodBut(EmptyDB, skipped) /\ EmptyDB.lastCl = 0
    BY <1>1, GoodLess DEF IInv, EmptyDB
  <2> QED
    BY <1>1, <2>1, <2>2, <2>3, <2>4 DEF IInv, EmptyInv, commandVars, serviceVars
<1>5. CASE Year \/ Submit
  <2>1. UNCHANGED <<main, origin, unchecked, skipped, backup, serviceVars, commandVars>>
        /\ db'.row = db.row /\ db'.lastCl = db.lastCl /\ db'.lastSha = db.lastSha
    BY <1>1, <1>5, DatabaseFields DEF Year, Submit, gitVars, DB
  <2>2. CommandInv' /\ BranchInv'
    BY <2>1, SameCommand DEF serviceVars
  <2>3. ServiceInv'
    BY <2>1, SameService
  <2>4. GoodBut(db', skipped)
    BY <2>1 DEF IInv, GoodBut
  <2> QED
    BY <1>1, <2>1, <2>2, <2>3, <2>4 DEF IInv, EmptyInv, commandVars, serviceVars
<1>6. CASE ReinitGit
  <2>1. /\ main' = origin /\ unchecked'
        /\ UNCHANGED <<origin, skipped, db, backup, serviceVars, commandVars>>
    BY <1>6 DEF ReinitGit
  <2>2. CommandInv' /\ BranchInv' /\ ServiceInv' /\ EmptyInv'
    BY <2>1 DEF IInv, CommandInv, BranchInv, ServiceInv, EmptyInv, commandVars, serviceVars
  <2> QED
    BY <1>1, <2>1, <2>2 DEF IInv, commandVars, serviceVars
<1> QED
  BY <1>3, <1>4, <1>5, <1>6

\* A command that begins.
LEMMA BeginCommandStep ==
    ASSUME IInv, StartCutover \/ (\E a, b \in CL : Resync(a, b)) \/ OperatorRebuilds
                 \/ NeedlessRebuild
    PROVE  IInv'
<1>1. /\ TypeInv' /\ TypeInv /\ TypeOK /\ db \in DB /\ db.lastCl \in Int /\ submitted \in Int
      /\ CommandInv /\ ServiceInv
  BY CommandTypes, OtherTypes, DatabaseFields, BoundsAreNat DEF IInv, TypeInv, TypeOK
<1>2. ASSUME NEW n \in Int, n <= db.lastCl, ~unchecked PROVE Has(n) \/ Behind(n)
  <2>1. CASE pc = "down"
    BY <1>2, <2>1 DEF Behind
  <2>2. CASE pc # "down"
    <3>1. Has(db.lastCl) /\ 1..n \subseteq 1..db.lastCl
      BY <1>1, <1>2, <2>2 DEF ServiceInv
    <3> QED
      BY <3>1 DEF Has
  <2> QED
    BY <2>1, <2>2
<1>3. UNCHANGED <<main, origin, unchecked, skipped, db, backup, serviceVars, csha>> /\ history' \in {history, main}
  BY DEF StartCutover, Resync, OperatorRebuilds, NeedlessRebuild, ReadHistory, gitVars
<1>4. ServiceInv'
  BY <1>3, SameService
<1>5. CommandInv' /\ BranchInv'
  <2>1. CASE StartCutover
    <3>1. /\ cmd' = "cutover" /\ listed' = submitted
          /\ \/ db.lastCl < submitted /\ step' = "build" /\ at' = db.lastCl + 1 /\ to' = submitted
             \/ ~(db.lastCl < submitted) /\ step' = "check"
      BY <2>1 DEF StartCutover
    <3>2. /\ step' = "build" => at' - 1 = db.lastCl
          /\ step' = "check" => listed' <= db.lastCl /\ listed' \in Int
      BY <1>1, <3>1
    <3>3. ~unchecked =>
             /\ step' = "build" => Has(at - 1)' \/ Behind(at - 1)'
             /\ step' = "check" => Has(listed)' \/ Behind(listed)'
      BY <1>1, <1>2, <1>3, <3>2 DEF Has, Behind, serviceVars
    <3> QED
      BY <1>3, <3>1, <3>3 DEF CommandInv, BranchInv
  <2>2. CASE \E a, b \in CL : Resync(a, b)
    <3>1. cmd' = "resync" /\ step' = "build"
      BY <2>2 DEF Resync
    <3> QED
      BY <3>1 DEF CommandInv, BranchInv
  <2>3. CASE OperatorRebuilds \/ NeedlessRebuild
    <3>1. cmd' = "rebuild" /\ step' = "write" /\ history' = main
      BY <2>3 DEF OperatorRebuilds, NeedlessRebuild, ReadHistory
    <3> QED
      BY <1>3, <3>1 DEF CommandInv, BranchInv
  <2> QED
    BY <2>1, <2>2, <2>3
<1> QED
  BY <1>1, <1>3, <1>4, <1>5 DEF IInv, EmptyInv, serviceVars

\* The steps of a command that makes commits.
LEMMA CommitStep ==
    ASSUME IInv, CommandBuilds \/ CommandRecords \/ CommandAdvances
    PROVE  IInv'
<1>1. /\ TypeInv' /\ TypeInv /\ TypeOK /\ db \in DB /\ backup \in DB
      /\ CommandInv /\ BranchInv
  BY CommandTypes DEF IInv, TypeInv, TypeOK, Command
<1>2. at \in CL /\ at \in 1..to /\ at \in 1..at /\ to \in Int
  BY <1>1, BoundsAreNat DEF CommandBuilds, CommandRecords, CommandAdvances, TypeInv, TypeOK, CL
<1>3. CASE CommandBuilds
  <2>1. /\ step = "build" /\ step' = "record" /\ CommitAccepted /\ main' = Append(ParentSha, at)
        /\ csha' = main' /\ LeavesOut(at, cmd = "resync")
        /\ UNCHANGED <<origin, unchecked, db, backup, serviceVars, cmd, at, to, listed, history>>
    BY <1>3 DEF CommandBuilds
  <2>2. cmd = "resync" \/ unchecked \/ Has(at - 1) \/ Behind(at - 1)
    BY <1>1, <2>1 DEF CommandInv, BranchInv
  <2>3. /\ main' # NoCommit /\ WholeBut(main', skipped') /\ at \in ToSet(main')
        /\ ToSet(main) \subseteq ToSet(main') /\ (1..at) \ skipped' \subseteq ToSet(main')
        /\ skipped \subseteq skipped'
    <3> DEFINE told == cmd = "resync"
    <3>1. told \in BOOLEAN /\ LeavesOut(at, told) /\ (told \/ unchecked \/ Has(at - 1) \/ Behind(at - 1))
      BY <2>1, <2>2
    <3> HIDE DEF told
    <3> QED
      BY <1>2, <2>1, <3>1, BuildFacts
  <2>4. CommandInv' /\ BranchInv'
    BY <1>1, <2>1, <2>3 DEF CommandInv, BranchInv, Has
  <2>5. ServiceInv'
    BY <2>1, <2>3, SameService
  <2>6. /\ Whole(origin)' /\ Whole(sha)' /\ Whole(history)' /\ GoodDB(db)' /\ GoodDB(backup)'
    BY <1>1, <2>1, <2>3, WholeMore DEF IInv, TypeOK, serviceVars
  <2> QED
    BY <1>1, <2>1, <2>3, <2>4, <2>5, <2>6 DEF IInv, EmptyInv
<1>4. CASE CommandRecords
  <2>1. /\ step = "record" /\ step' = "advance" /\ db' = RecordCommit(at, csha)
        /\ UNCHANGED <<main, origin, unchecked, skipped, backup, serviceVars, cmd, at, to, csha, listed, history>>
    BY <1>4 DEF CommandRecords, gitVars
  <2>2. csha \in Commit /\ Whole(csha) /\ at \in ToSet(csha)
    BY <1>1, <2>1 DEF IInv, TypeOK, CommandInv
  <2>3. GoodBut(db', skipped) /\ db'.lastCl = db.lastCl
    BY <1>1, <1>2, <2>1, <2>2, GoodWrites DEF IInv
  <2>4. CommandInv' /\ BranchInv'
    BY <1>1, <2>1 DEF CommandInv, BranchInv, Has
  <2>5. ServiceInv'
    BY <2>1, <2>3, SameService
  <2> QED
    BY <1>1, <2>1, <2>3, <2>4, <2>5 DEF IInv, EmptyInv, serviceVars
<1>5. CASE CommandAdvances
  <2>1. /\ step = "advance" /\ db' = SetLastSynced(db, at, csha)
        /\ UNCHANGED <<main, origin, unchecked, skipped, backup, serviceVars, to, listed, history>>
        /\ \/ at < to /\ at' = at + 1 /\ step' = "build" /\ cmd' = cmd /\ csha' = csha
           \/ /\ ~(at < to) /\ at' = at /\ csha' = NoCommit
              /\ \/ cmd = "resync" /\ cmd' = "none" /\ step' = "none"
                 \/ cmd # "resync" /\ cmd' = cmd /\ step' = "push"
    BY <1>5 DEF CommandAdvances, gitVars
  <2>2. csha \in Commit /\ Whole(csha) /\ at \in ToSet(csha) /\ (unchecked \/ Has(at))
    BY <1>1, <2>1 DEF IInv, TypeOK, CommandInv, BranchInv
  <2>3. GoodBut(db', skipped) /\ db'.lastCl = at
    BY <1>1, <1>2, <2>1, <2>2, GoodWrites DEF IInv
  <2>4. unchecked \/ main # NoCommit
    BY <2>2, CommitFacts, ToSetFacts DEF IInv, EmptyInv
  <2>5. at + 1 - 1 = at /\ (~(at < to) => at = to)
    BY <1>2
  <2>6. cmd \in {"resync", "cutover"} /\ (cmd = "cutover" => to = listed)
    BY <1>1, <2>1 DEF CommandInv
  <2>7. CommandInv' /\ BranchInv'
    <3>1. CASE step' = "build"
      <4>1. at' = at + 1 /\ cmd' = cmd
        BY <2>1, <3>1
      <4>2. at' - 1 = at
        BY <1>2, <4>1, BoundsAreNat
      <4> QED
        BY <2>1, <2>2, <2>6, <3>1, <4>1, <4>2 DEF CommandInv, BranchInv, Has
    <3>2. CASE step' = "push"
      <4>1. cmd' = "cutover" /\ to' = listed' /\ (unchecked' \/ Has(listed)')
        BY <2>1, <2>2, <2>5, <2>6, <3>2 DEF Has
      <4> QED
        BY <3>2, <4>1 DEF CommandInv, BranchInv
    <3>3. CASE step' = "none"
      BY <2>1, <3>3 DEF CommandInv, BranchInv
    <3> QED
      BY <2>1, <3>1, <3>2, <3>3
  <2>8. ServiceInv'
    BY <2>1, <2>2, <2>3, SameService DEF Has
  <2>9. WholeBut(csha', skipped)
    BY <2>1, <2>2, CommitFacts, ToSetFacts
  <2> QED
    BY <1>1, <2>1, <2>3, <2>4, <2>7, <2>8, <2>9 DEF IInv, EmptyInv, serviceVars
<1> QED
  BY <1>3, <1>4, <1>5

\* The other steps of the cutover, the end of a command, and the rebuild.
LEMMA CutoverStep ==
    ASSUME IInv, Command \/ CommandKilled,
           ~CommandBuilds, ~CommandRecords, ~CommandAdvances
    PROVE  IInv'
<1>1. /\ TypeInv' /\ TypeInv /\ TypeOK /\ db \in DB /\ CommandInv /\ BranchInv /\ Whole(NoCommit)
  BY CommandTypes, CommitFacts, ToSetFacts DEF IInv, TypeInv, TypeOK
<1>2. CASE \E result : Fail(result) /\ UNCHANGED <<main, unchecked, skipped, db, backup, serviceVars>>
                       /\ origin' \in {origin, main} /\ (main = NoCommit => origin' = origin)
  <2>1. /\ cmd' = "none" /\ step' = "none" /\ csha' = NoCommit /\ history' = NoCommit
        /\ UNCHANGED <<main, unchecked, skipped, db, backup, serviceVars>>
        /\ origin' \in {origin, main} /\ (main = NoCommit => origin' = origin)
    BY <1>2 DEF Fail
  <2>2. CommandInv' /\ BranchInv'
    BY <2>1 DEF CommandInv, BranchInv
  <2>3. ServiceInv'
    BY <2>1, SameService
  <2> QED
    BY <1>1, <2>1, <2>2, <2>3 DEF IInv, EmptyInv, serviceVars
<1>3. CASE CommandRaises \/ CommandKilled \/ FinalPush \/ (CheckPending /\ Pending # {})
           \/ (Verify /\ step' = "none")
  BY <1>2, <1>3 DEF CommandRaises, CommandKilled, FinalPush, PushAccepted, CheckPending,
                    Verify, gitVars
<1>4. CASE CutoverPushes \/ CutoverMarks \/ (CheckPending /\ Pending = {})
           \/ (Verify /\ step' = "finalpush")
  <2>1. /\ UNCHANGED <<main, unchecked, skipped, backup, serviceVars, cmd, at, to, csha, listed, history>>
        /\ \/ step = "push" /\ step' = "mark"
           \/ step = "mark" /\ step' = "check"
           \/ step = "check" /\ step' = "verify"
           \/ step = "verify" /\ step' = "finalpush"
        /\ origin' \in {origin, main} /\ (main = NoCommit => origin' = origin)
    BY <1>4 DEF CutoverPushes, CutoverMarks, PushAccepted, CheckPending, Verify, Fail, gitVars
  <2>2. db'.row = db.row /\ db'.lastCl = db.lastCl /\ db'.lastSha = db.lastSha
    BY <1>1, <1>4, DatabaseFields DEF CutoverPushes, CutoverMarks, CheckPending, Verify, DB
  <2>3. CommandInv' /\ BranchInv'
    BY <1>1, <2>1, <2>2 DEF CommandInv, BranchInv, Has, Behind, serviceVars
  <2>4. ServiceInv'
    BY <2>1, <2>2, SameService
  <2>5. GoodBut(db', skipped)
    BY <2>2 DEF IInv, GoodBut
  <2> QED
    BY <1>1, <2>1, <2>2, <2>3, <2>4, <2>5 DEF IInv, EmptyInv, serviceVars
<1>5. CASE RebuildWrites
  <2>1. /\ step = "write" /\ db' = Rebuilt /\ cmd' = "none" /\ step' = "none"
        /\ history' = NoCommit /\ UNCHANGED <<main, origin, unchecked, skipped, backup, serviceVars, csha>>
    BY <1>5 DEF RebuildWrites, gitVars
  <2>2. /\ history \in Commit /\ history # NoCommit /\ Whole(history)
        /\ unchecked \/ ToSet(history) \subseteq ToSet(main)
    BY <1>1, <2>1 DEF IInv, TypeInv, TypeOK, BranchInv
  <2>3. GoodBut(db', skipped) /\ db'.lastCl \in ToSet(history)
    BY <1>1, <2>1, <2>2, GoodRebuilt, RebuiltFacts DEF IInv
  <2>4. unchecked \/ ((1..db'.lastCl) \ skipped \subseteq ToSet(main) /\ main # NoCommit)
    BY <2>2, <2>3, WholeHas, ToSetFacts
  <2>5. CommandInv' /\ BranchInv'
    BY <2>1 DEF CommandInv, BranchInv
  <2>6. ServiceInv'
    BY <2>1, <2>4, SameService
  <2> QED
    BY <1>1, <2>1, <2>3, <2>4, <2>5, <2>6 DEF IInv, EmptyInv, serviceVars
<1> QED
  BY <1>3, <1>4, <1>5 DEF Command, Verify, CheckPending, Fail

\* The invariant holds.
LEMMA OperationsInvariant == Spec => []IInv
<1>1. ASSUME Init, TypeInv PROVE IInv
  <2>1. Whole(NoCommit) /\ ToSet(NoCommit) = {}
    BY CommitFacts, ToSetFacts
  <2>2. /\ EmptyDB.lastCl = 0 /\ EmptyDB.lastSha = NoCommit
        /\ \A n \in CL : EmptyDB.row[n] = NoCommit
    BY DEF EmptyDB
  <2>3. /\ db.lastCl = 0 /\ db.lastSha = NoCommit /\ db.row = EmptyDB.row
    BY <1>1 DEF Init, EmptyDB
  <2>4. GoodDB(db) /\ GoodDB(backup)
    BY <1>1, <2>1, <2>2, <2>3 DEF Init, GoodBut
  <2>5. EmptyInv /\ ServiceInv /\ CommandInv /\ BranchInv
    BY <1>1, <2>1, <2>2, <2>3 DEF Init, EmptyInv, ServiceInv, CommandInv, BranchInv
  <2> QED
    BY <1>1, <2>1, <2>4, <2>5 DEF Init, IInv
<1>2. ASSUME IInv, TypeInv', [Next]_vars PROVE IInv'
  <2>1. CASE UNCHANGED vars
    <3>1. UNCHANGED <<main, origin, unchecked, skipped, db, backup, serviceVars, commandVars>>
      BY <2>1 DEF vars, gitVars
    <3>2. CommandInv' /\ BranchInv'
      <4>1. pc' = pc /\ db'.lastCl = db.lastCl
        BY <3>1 DEF serviceVars
      <4> QED
        BY <1>2, <3>1, <4>1, SameCommand
    <3>3. ServiceInv'
      BY <1>2, <3>1, SameService
    <3> QED
      BY <1>2, <3>1, <3>2, <3>3 DEF IInv, EmptyInv, serviceVars, commandVars
  <2>2. CASE Start
    BY <1>2, <2>2, StartStep
  <2>3. CASE Service \/ Backup
    BY <1>2, <2>3, ServiceStep
  <2>4. CASE Kill \/ OperatorStops \/ ReinitGit \/ LoseDB \/ Year \/ Submit
    BY <1>2, <2>4, QuietStep
  <2>5. CASE StartCutover \/ (\E a, b \in CL : Resync(a, b)) \/ OperatorRebuilds
             \/ NeedlessRebuild
    BY <1>2, <2>5, BeginCommandStep
  <2>6. CASE Command \/ CommandKilled
    BY <1>2, <2>6, CommitStep, CutoverStep
  <2> QED
    BY <1>2, <2>1, <2>2, <2>3, <2>4, <2>5, <2>6 DEF Next
<1> QED
  BY <1>1, <1>2, TypeInvariant, PTL DEF Spec

\* The service never works with a checkpoint that is ahead of the branch, whatever
\* the repository and the database went through while it was down.
THEOREM CheckpointsAreBacked == Spec => []CheckpointIsBehind
<1>1. IInv => CheckpointIsBehind
  BY DEF IInv, ServiceInv, CheckpointIsBehind
<1> QED
  BY <1>1, OperationsInvariant, PTL

\* A cutover beside a running service leaves no changelist out that was there when
\* it asked P4, whatever the service did to the checkpoint meanwhile.
THEOREM CutoversAreComplete == Spec => []CutoverIsComplete
<1>1. IInv => CutoverIsComplete
  BY DEF IInv, BranchInv, CutoverIsComplete, Behind
<1> QED
  BY <1>1, OperationsInvariant, PTL
=============================================================================
