------------------------------ MODULE Operations ------------------------------
(***************************************************************************)
(* The commands an operator runs beside the service, on the same repository   *)
(* and State DB: resync_range, rebuild_state_from_git and reinit_git          *)
(* (services/recovery.py), CutoverManager.execute, the backup and the archive  *)
(* of the database, its loss and its restore.                               *)
(*                                                                         *)
(* One stream, forward only, libgit2; the service pushes after every commit.   *)
(* A commit is the sequence of changelists on its chain, as in ForwardSync,     *)
(* where the service is modelled in more detail.  Every changelist has files   *)
(* of the stream, and they all change the same file: a branch is right when    *)
(* the newest changelist is at its tip.                                      *)
(***************************************************************************)
EXTENDS Integers, FiniteSets, SequencesExt

CONSTANTS
    MaxCL,      \* bound: changelists ever submitted
    MaxCommands, \* bound: resyncs, cutovers and rebuilds that nothing calls for
    MaxEvents   \* bound: kills, failed pushes, lost repositories and databases, years

ASSUME OperationsAssumption == MaxCL \in Nat /\ MaxCommands \in Nat /\ MaxEvents \in Nat

CL == 1..MaxCL
Commit == Seq(CL)
NoCommit == <<>>

VARIABLES
    submitted, \* P4: changelists 1..submitted
    main,      \* the branch in the local repository
    origin,    \* the branch in the remote
    unchecked, \* has the service not compared branch and checkpoint since the
               \* repository was exchanged, or since it started without doing so?
    skipped,   \* changelists left out by a resync or on such a repository
    db,        \* the State DB
    backup,    \* a copy of it
    locked,    \* the service's connection has a write transaction open
    pc, cur, last, sha,   \* the service and the batch it is in
    cmd, step, at, to, csha,  \* the command and the changelists it is at
    first,     \* the first changelist of a cutover
    listed,    \* changelists there were when the cutover asked for them
    outcome,   \* of the last cutover
    history,   \* the branch as rebuild-state has read it
    commands,  \* commands run so far
    events     \* accidents so far

gitVars == <<main, origin, unchecked, skipped>>
serviceVars == <<pc, cur, last, sha>>
commandVars == <<cmd, step, at, to, csha, first, listed, outcome, history>>
budget == <<commands, events>>
vars == <<submitted, gitVars, db, backup, locked, serviceVars, commandVars, budget>>

(***************************************************************************)
(* lastCl, lastSha: sync_state.  row, status: cl_commit_map.  old: changelists *)
(* whose row is past its retention.  archived: cl_commit_map_archive.         *)
(* registered: the stream has a row in stream_registry.                      *)
(***************************************************************************)
DB == [lastCl : 0..MaxCL, lastSha : Commit,
       row : [CL -> Commit], status : [CL -> {"none", "pending", "pushed", "failed"}],
       old : SUBSET CL, archived : SUBSET CL, registered : BOOLEAN]

EmptyDB == [lastCl |-> 0, lastSha |-> NoCommit,
            row |-> [n \in CL |-> NoCommit], status |-> [n \in CL |-> "none"],
            old |-> {}, archived |-> {}, registered |-> FALSE]

TypeOK ==
    /\ submitted \in 0..MaxCL
    /\ main \in Commit /\ origin \in Commit
    /\ unchecked \in BOOLEAN /\ skipped \subseteq CL
    /\ db \in DB /\ backup \in DB
    /\ locked \in BOOLEAN
    /\ pc \in {"down", "idle", "build", "record", "advance", "push"}
    /\ cur \in 0..MaxCL /\ last \in 0..MaxCL /\ sha \in Commit
    /\ cmd \in {"none", "resync", "cutover", "rebuild"}
    /\ step \in {"none", "build", "record", "advance", "push", "mark", "check", "verify",
                 "finalpush", "write"}
    /\ at \in 0..MaxCL /\ to \in 0..MaxCL /\ csha \in Commit
    /\ first \in 0..MaxCL /\ listed \in 0..MaxCL
    /\ outcome \in {"none", "completed", "failed"}
    /\ history \in Commit
    /\ commands \in 0..MaxCommands /\ events \in 0..MaxEvents

Init ==
    /\ submitted = 0
    /\ main = NoCommit /\ origin = NoCommit
    /\ unchecked = FALSE /\ skipped = {}
    /\ db = [EmptyDB EXCEPT !.registered = TRUE]
    /\ backup = EmptyDB
    /\ locked = FALSE
    /\ pc = "down" /\ cur = 0 /\ last = 0 /\ sha = NoCommit
    /\ cmd = "none" /\ step = "none" /\ at = 0 /\ to = 0 /\ csha = NoCommit
    /\ first = 0 /\ listed = 0 /\ outcome = "none" /\ history = NoCommit
    /\ commands = 0 /\ events = 0

Event == events < MaxEvents /\ events' = events + 1 /\ UNCHANGED commands

NewCommand ==
    /\ cmd = "none"
    /\ commands < MaxCommands
    /\ commands' = commands + 1
    /\ UNCHANGED events

Submit ==
    /\ submitted < MaxCL
    /\ submitted' = submitted + 1
    /\ UNCHANGED <<gitVars, db, backup, locked, serviceVars, commandVars, budget>>

-----------------------------------------------------------------------------
(* What the service and the commands do alike.                              *)

HasRow(n) == db.status[n] # "none"
ParentSha == IF db.lastCl > 0 THEN db.row[db.lastCl] ELSE NoCommit

\* Wrong: the branch would be set to any commit.
AnyCommitAccepted == TRUE

\* libgit2 moves the branch only from the first parent of the new commit, and
\* makes none on a parent the repository does not have.
CommitAccepted == main = ParentSha

\* Changelists a commit of n leaves out: those between the checkpoint and n when it
\* is told to, and on an exchanged repository all that its parent lacks.
LeavesOut(n, told) ==
    skipped' = skipped \cup (IF told THEN (db.lastCl + 1)..(n - 1) ELSE {})
                       \cup (IF unchecked THEN (1..(n - 1)) \ ToSet(ParentSha) ELSE {})

RecordCommit(n, c) ==
    [db EXCEPT !.row[n] = c, !.status[n] = IF @ = "none" THEN "pending" ELSE @]

\* Wrong: the checkpoint would be the changelist to come.
SetNextCL(d, n, c) == [d EXCEPT !.lastCl = n + 1, !.lastSha = c]

SetLastSynced(d, n, c) == [d EXCEPT !.lastCl = n, !.lastSha = c]

UpdatePushStatus(d, n, s) == IF HasRow(n) THEN [d EXCEPT !.status[n] = s] ELSE d

Pending == {n \in CL : db.status[n] \in {"pending", "failed"}}

PushAccepted == main # NoCommit /\ IsPrefix(origin, main)

-----------------------------------------------------------------------------
(* The service.                                                            *)

\* Wrong: nobody would compare the branch with the checkpoint.
VerifyNothing == TRUE

\* On a stream that is not registered it compares nothing.
VerifyConsistency == db.registered /\ db.lastCl > 0 => db.lastSha = main

\* An operator who rebuilds the database has stopped the service for good.
Start ==
    /\ pc = "down"
    /\ cmd # "rebuild"
    /\ main = NoCommit \/ VerifyConsistency
    /\ pc' = "idle"
    /\ IF main # NoCommit /\ Pending # {} /\ PushAccepted
       THEN /\ origin' = main
            /\ db' = [db EXCEPT !.status =
                         [n \in CL |-> IF n \in Pending THEN "pushed" ELSE @[n]]]
       ELSE UNCHANGED <<origin, db>>
    /\ unchecked' = \/ ~db.registered /\ db.lastCl > 0
                    \/ unchecked /\ (main = NoCommit \/ cmd # "none")
    /\ UNCHANGED <<submitted, main, skipped, backup, locked, cur, last, sha, commandVars, budget>>

\* archive_old_commit_maps.  Its INSERT opens a transaction that nobody ends when
\* no row is old, or when one of them is in the archive already.
Expired == {n \in db.old : db.status[n] = "pushed"}

Archive ==
    IF Expired # {} /\ Expired \cap db.archived = {}
    THEN /\ db' = [db EXCEPT !.row = [n \in CL |-> IF n \in Expired THEN NoCommit ELSE @[n]],
                             !.status = [n \in CL |-> IF n \in Expired THEN "none" ELSE @[n]],
                             !.old = @ \ Expired,
                             !.archived = @ \cup Expired]
         /\ locked' = FALSE
    ELSE UNCHANGED db /\ locked' = TRUE

\* One round: maintenance, then the changelists after the checkpoint.
BeginRound ==
    /\ pc = "idle"
    /\ Archive
    /\ IF db.lastCl < submitted
       THEN cur' = db.lastCl + 1 /\ last' = submitted /\ pc' = "build"
       ELSE UNCHANGED <<cur, last, pc>>
    /\ UNCHANGED <<submitted, gitVars, backup, sha, commandVars, budget>>

ServiceBuilds ==
    /\ pc = "build"
    /\ CommitAccepted
    /\ main' = Append(ParentSha, cur)
    /\ sha' = main'
    /\ LeavesOut(cur, FALSE)
    /\ pc' = "record"
    /\ UNCHANGED <<submitted, origin, unchecked, db, backup, locked, cur, last, commandVars, budget>>

\* The error is recorded, and with it the open transaction is committed.
ServiceIsRefused ==
    /\ pc = "build"
    /\ ~CommitAccepted
    /\ pc' = "idle"
    /\ locked' = FALSE
    /\ UNCHANGED <<submitted, gitVars, db, backup, cur, last, sha, commandVars, budget>>

ServiceRecords ==
    /\ pc = "record"
    /\ db' = RecordCommit(cur, sha)
    /\ locked' = FALSE
    /\ pc' = "advance"
    /\ UNCHANGED <<submitted, gitVars, backup, cur, last, sha, commandVars, budget>>

ServiceAdvances ==
    /\ pc = "advance"
    /\ db' = SetLastSynced(db, cur, sha)
    /\ locked' = FALSE
    /\ pc' = "push"
    /\ UNCHANGED <<submitted, gitVars, backup, cur, last, sha, commandVars, budget>>

NextOfBatch ==
    IF cur < last THEN cur' = cur + 1 /\ pc' = "build" ELSE cur' = cur /\ pc' = "idle"

ServicePushes ==
    /\ pc = "push"
    /\ \/ PushAccepted /\ origin' = main /\ db' = UpdatePushStatus(db, cur, "pushed")
          /\ UNCHANGED budget
       \/ PushAccepted /\ Event /\ db' = UpdatePushStatus(db, cur, "failed") /\ UNCHANGED origin
       \/ ~PushAccepted /\ db' = UpdatePushStatus(db, cur, "failed") /\ UNCHANGED <<origin, budget>>
    /\ locked' = FALSE
    /\ NextOfBatch
    /\ UNCHANGED <<submitted, main, unchecked, skipped, backup, last, sha, commandVars>>

StopService ==
    /\ pc' = "down"
    /\ locked' = FALSE
    /\ cur' = 0 /\ last' = 0 /\ sha' = NoCommit
    /\ UNCHANGED <<submitted, gitVars, db, backup, commandVars>>

Kill == pc # "down" /\ Event /\ StopService

\* DatabaseBackup: once a day, with SQLite's online backup.
Backup ==
    /\ pc = "idle"
    /\ backup' = db
    /\ UNCHANGED <<submitted, gitVars, db, locked, serviceVars, commandVars, budget>>

-----------------------------------------------------------------------------
(* A command that makes commits.  SQLite lets it wait five seconds for the   *)
(* other's transaction and then raises: "database is locked".  An idle        *)
(* service ends its transaction at the begin of a round and opens the next.    *)

MayWrite == ~locked \/ pc = "idle"

Fail(result) ==
    /\ cmd' = "none" /\ step' = "none" /\ at' = 0 /\ to' = 0 /\ csha' = NoCommit
    /\ first' = 0
    /\ outcome' = result
    /\ history' = NoCommit /\ UNCHANGED listed

CommandBuilds ==
    /\ step = "build"
    /\ CommitAccepted
    /\ main' = Append(ParentSha, at)
    /\ csha' = main'
    /\ LeavesOut(at, cmd = "resync")
    /\ step' = "record"
    /\ UNCHANGED <<submitted, origin, unchecked, db, backup, locked, serviceVars, cmd, at, to, first,
                   listed, outcome, history, budget>>

CommandRecords ==
    /\ step = "record"
    /\ MayWrite
    /\ db' = RecordCommit(at, csha)
    /\ step' = "advance"
    /\ UNCHANGED <<submitted, gitVars, backup, locked, serviceVars, cmd, at, to, csha, first, listed,
                   outcome, history, budget>>

CommandAdvances ==
    /\ step = "advance"
    /\ MayWrite
    /\ db' = SetLastSynced(db, at, csha)
    /\ IF at < to THEN at' = at + 1 /\ step' = "build" /\ UNCHANGED <<cmd, csha>>
       ELSE /\ at' = at /\ csha' = NoCommit
            /\ IF cmd = "resync" THEN cmd' = "none" /\ step' = "none"
                                 ELSE step' = "push" /\ UNCHANGED cmd
    /\ UNCHANGED <<submitted, gitVars, backup, locked, serviceVars, to, first, listed, outcome,
                   history, budget>>

CommandRaises ==
    /\ \/ step = "build" /\ ~CommitAccepted
       \/ step \in {"record", "advance", "mark", "write"} /\ locked
       \/ step \in {"push", "finalpush"} /\ ~PushAccepted
    /\ Fail(IF cmd = "cutover" THEN "failed" ELSE outcome)
    /\ UNCHANGED <<submitted, gitVars, db, backup, locked, serviceVars, budget>>

\* The operator gives up on it, or its connection to P4 is lost.
CommandKilled ==
    /\ cmd # "none"
    /\ Event
    /\ Fail(IF cmd = "cutover" THEN "failed" ELSE outcome)
    /\ UNCHANGED <<submitted, gitVars, db, backup, locked, serviceVars>>

\* resync --from a --to b: nothing stops a range that begins after the next
\* changelist, and what is left out is never synced.
Resync(a, b) ==
    /\ NewCommand
    /\ a <= b /\ b <= submitted
    /\ cmd' = "resync" /\ step' = "build" /\ at' = a /\ to' = b
    /\ UNCHANGED <<submitted, gitVars, db, backup, locked, serviceVars, csha, first, listed,
                   outcome, history>>

-----------------------------------------------------------------------------
(* CutoverManager.execute.                                                 *)

StartCutover ==
    /\ NewCommand
    /\ cmd' = "cutover" /\ outcome' = "none"
    /\ listed' = submitted
    /\ IF db.lastCl < submitted
       THEN step' = "build" /\ at' = db.lastCl + 1 /\ to' = submitted /\ first' = at'
       ELSE step' = "check" /\ UNCHANGED <<at, to, first>>
    /\ UNCHANGED <<submitted, gitVars, db, backup, locked, serviceVars, csha, history>>

CutoverPushes ==
    /\ step = "push"
    /\ PushAccepted
    /\ origin' = main
    /\ step' = "mark"
    /\ UNCHANGED <<submitted, main, unchecked, skipped, db, backup, locked, serviceVars, cmd, at, to, csha, first, listed,
                   outcome, history, budget>>

\* The changelists it has listed are marked, in one go here.
CutoverMarks ==
    /\ step = "mark"
    /\ MayWrite
    /\ db' = [db EXCEPT !.status =
                 [n \in CL |-> IF n \in first..to /\ @[n] # "none" THEN "pushed" ELSE @[n]]]
    /\ step' = "check"
    /\ UNCHANGED <<submitted, gitVars, backup, locked, serviceVars, cmd, at, to, csha, first, listed,
                   outcome, history, budget>>

\* "total_lag != 0"
CheckPending ==
    /\ step = "check"
    /\ IF Pending # {} THEN Fail("failed")
       ELSE step' = "verify" /\ UNCHANGED <<cmd, at, to, csha, first, listed, outcome, history>>
    /\ UNCHANGED <<submitted, gitVars, db, backup, locked, serviceVars, budget>>

\* verify_cutover: a sample may miss the difference, no file in Git passes.
Verify ==
    /\ step = "verify"
    /\ \/ step' = "finalpush" /\ UNCHANGED <<cmd, at, to, csha, first, listed, outcome, history>>
       \/ main # NoCommit /\ main[Len(main)] # submitted /\ Fail("failed")
    /\ UNCHANGED <<submitted, gitVars, db, backup, locked, serviceVars, budget>>

FinalPush ==
    /\ step = "finalpush"
    /\ PushAccepted
    /\ origin' = main
    /\ Fail("completed")
    /\ UNCHANGED <<submitted, main, unchecked, skipped, db, backup, locked, serviceVars, budget>>

-----------------------------------------------------------------------------
(* Repairs.                                                                *)

\* The service does not start, or makes no progress any more.
Broken ==
    \/ pc = "down" /\ main # NoCommit /\ ~VerifyConsistency
    \/ db.lastCl < submitted /\ ~CommitAccepted

OperatorStops ==
    /\ pc = "idle"
    /\ cmd = "none"
    /\ Broken
    /\ StopService
    /\ UNCHANGED budget

ReadHistory ==
    /\ main # NoCommit
    /\ cmd' = "rebuild" /\ step' = "write"
    /\ history' = main
    /\ UNCHANGED <<submitted, gitVars, db, backup, locked, serviceVars, at, to, csha, first,
                   listed, outcome>>

OperatorRebuilds == pc = "down" /\ cmd = "none" /\ Broken /\ ReadHistory /\ UNCHANGED budget
NeedlessRebuild == NewCommand /\ ReadHistory

LastIndex(n) == CHOOSE k \in DOMAIN history :
                    /\ history[k] = n
                    /\ \A j \in DOMAIN history : history[j] = n => j <= k

RebuiltRows == [db EXCEPT
    !.row = [n \in CL |-> IF n \in ToSet(history) THEN SubSeq(history, 1, LastIndex(n)) ELSE @[n]],
    !.status = [n \in CL |-> IF n \in ToSet(history) /\ @[n] = "none" THEN "pending" ELSE @[n]]]

Rebuilt == [RebuiltRows EXCEPT !.lastCl = history[Len(history)], !.lastSha = history]

\* rebuild_state_from_git writes in one transaction and deletes nothing.
RebuildWrites ==
    /\ step = "write"
    /\ MayWrite
    /\ db' = Rebuilt
    /\ cmd' = "none" /\ step' = "none" /\ history' = NoCommit
    /\ UNCHANGED <<submitted, gitVars, backup, locked, serviceVars, at, to, csha, first,
                   listed, outcome, budget>>

\* reinit_git clones the remote, with a commit or without, beside a service and a
\* command or not; what was not pushed is only in the copy it makes.
ReinitGit ==
    /\ Event
    /\ main' = origin
    /\ unchecked' = TRUE
    /\ UNCHANGED <<submitted, origin, skipped, db, backup, locked, serviceVars, commandVars>>

\* The State DB is lost or damaged, and maybe the backup put in its place.
LoseDB ==
    /\ pc = "down" /\ cmd = "none"
    /\ Event
    /\ db' \in {EmptyDB, backup}
    /\ UNCHANGED <<submitted, gitVars, backup, locked, serviceVars, commandVars>>

\* archive_retention passes.
Year ==
    /\ Event
    /\ db' = [db EXCEPT !.old = {n \in CL : HasRow(n)}]
    /\ UNCHANGED <<submitted, gitVars, backup, locked, serviceVars, commandVars>>

-----------------------------------------------------------------------------
Service ==
    \/ BeginRound
    \/ ServiceBuilds \/ ServiceIsRefused
    \/ ServiceRecords \/ ServiceAdvances
    \/ ServicePushes

Command ==
    \/ CommandBuilds \/ CommandRecords \/ CommandAdvances \/ CommandRaises
    \/ CutoverPushes \/ CutoverMarks \/ CheckPending \/ Verify \/ FinalPush
    \/ RebuildWrites

Next ==
    \/ Submit
    \/ Start \/ Service \/ Kill \/ Backup
    \/ \E a, b \in CL : Resync(a, b)
    \/ StartCutover \/ Command \/ CommandKilled
    \/ OperatorStops \/ OperatorRebuilds \/ NeedlessRebuild
    \/ ReinitGit \/ LoseDB \/ Year

Spec == Init /\ [][Next]_vars

(***************************************************************************)
(* The service is started again, its loop and a command go on; the operator   *)
(* stops a service that makes no progress and rebuilds the database, as the   *)
(* guide says.                                                             *)
(***************************************************************************)
Fairness ==
    /\ WF_vars(Start) /\ WF_vars(Service) /\ WF_vars(Command)
    /\ SF_vars(OperatorStops) /\ SF_vars(OperatorRebuilds)

FairSpec == Spec /\ Fairness
=============================================================================
