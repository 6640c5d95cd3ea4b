----------------------------- MODULE ForwardSync -----------------------------
(***************************************************************************)
(* The forward direction of P4GitSync for one stream: the polling loop of   *)
(* SyncOrchestrator, the rows it keeps in the StateStore (SQLite), the ref  *)
(* the Git operator moves, and the remote it pushes to.                    *)
(*                                                                         *)
(* Commits are written as in module Mirror: the sequence of changelists on  *)
(* the first-parent chain.  Author, time stamp and message are taken from   *)
(* the changelist, so committing the same changelist on the same parent     *)
(* yields the same commit, and "no row" or "" is written <<>>.             *)
(*                                                                         *)
(* One step per persistent write: the process may be killed between any two *)
(* of them.  A remote is configured, the stream is forward only, and the    *)
(* circuit breaker stays closed.  Left out: file contents, merge parents    *)
(* (first parents only), notifications, statistics, what git gc does, the   *)
(* archiving of old rows, a host that loses what SQLite has committed.      *)
(***************************************************************************)
EXTENDS Integers, FiniteSets, SequencesExt

CONSTANTS
    MaxCL,                 \* bound: changelists ever submitted
    ClKinds,               \* kinds of changelists, see Kinds
    Backend,               \* git.backend: "pygit2" or "cli"
    PushAfterEveryCommit,  \* sync.push_after_every_commit
    BatchSize,             \* sync.batch_size
    PushBatchSize,         \* sync.push_batch_size
    ErrorRetryThreshold,   \* sync.error_retry_threshold; retry counts saturate here
    Registered,            \* is the stream in stream_registry?
    Faults,                \* may P4, SQLite or Git raise for reasons of their own?
    RefFails,              \* may git update-ref fail (a lock file left behind, a full disk)?
    MaxCrashes             \* bound: times the process is killed

(***************************************************************************)
(* "file": the changelist changes files in the root directory of the stream. *)
(* "nested": it changes files in a directory below.                         *)
(* "empty": it is polled, but the virtual filter leaves no file of it.      *)
(* "marker": a reverse sync submitted it (GitCommit in its description) and  *)
(* its row was never written, or is in the database of another instance.    *)
(***************************************************************************)
Kinds == {"file", "nested", "empty", "marker"}

\* The kinds that become a commit.
CommitKinds == {"file", "nested"}

ASSUME ForwardSyncAssumption ==
    /\ MaxCL \in Nat
    /\ ClKinds \subseteq Kinds
    /\ Backend \in {"pygit2", "cli"}
    /\ PushAfterEveryCommit \in BOOLEAN
    /\ BatchSize \in Nat \ {0}
    /\ PushBatchSize \in Nat \ {0}
    /\ ErrorRetryThreshold \in Nat \ {0}
    /\ Registered \in BOOLEAN
    /\ Faults \in BOOLEAN
    /\ RefFails \in BOOLEAN
    /\ MaxCrashes \in Nat

CL == 1..MaxCL
Commit == Seq(CL)
NoCommit == <<>>

VARIABLES
    depot,        \* P4: the kind of each submitted changelist
    main,         \* refs/heads/<branch> of the local repository
    origin,       \* refs/heads/<branch> of the remote
    lastCl,       \* sync_state.last_cl, 0 when there is no row
    lastSha,      \* sync_state.commit_sha
    commitSha,    \* cl_commit_map: changelist -> commit, NoCommit when no row
    pushStatus,   \* cl_commit_map.git_push_status, "none" when no row
    retryCount,   \* sync_errors.retry_count of the unresolved error, 0 when none
    pc,           \* where the process is
    first, cur, last,  \* the polled batch first..last and the changelist in work
    sha,          \* the commit build_commit returned for cur
    todo,         \* changelists whose push (status) the current loop still handles
    unpushed,     \* _unpushed_commits, saturating at PushBatchSize
    timer,        \* _last_push_time: "unset", "running" or "elapsed"
    crashes       \* how often the process was killed

p4Vars == <<depot>>
gitVars == <<main, origin>>
stateVars == <<lastCl, lastSha>>
mapVars == <<commitSha, pushStatus>>
batchVars == <<first, cur, last>>
pushVars == <<todo, unpushed>>
vars == <<p4Vars, gitVars, stateVars, mapVars, retryCount, pc, batchVars, sha,
          pushVars, timer, crashes>>

\* "process" .. "mark": inside _process_changelist, for the changelist cur.
InProcessing == {"process", "record", "advance", "synced", "push", "mark"}

PC == {"down", "resume", "resumed", "idle", "tally", "batchpush", "markbatch"}
          \cup InProcessing

TypeOK ==
    /\ depot \in Seq(ClKinds) /\ Len(depot) <= MaxCL
    /\ main \in Commit /\ origin \in Commit
    /\ lastCl \in 0..MaxCL /\ lastSha \in Commit
    /\ commitSha \in [CL -> Commit]
    /\ pushStatus \in [CL -> {"none", "pending", "pushed", "failed"}]
    /\ retryCount \in [CL -> 0..ErrorRetryThreshold]
    /\ pc \in PC
    /\ first \in 0..MaxCL /\ cur \in 0..MaxCL /\ last \in 0..MaxCL
    /\ sha \in Commit
    /\ todo \subseteq CL
    /\ unpushed \in 0..PushBatchSize
    /\ timer \in {"unset", "running", "elapsed"}
    /\ crashes \in 0..MaxCrashes

Init ==
    /\ depot = <<>>
    /\ main = NoCommit /\ origin = NoCommit
    /\ lastCl = 0 /\ lastSha = NoCommit
    /\ commitSha = [n \in CL |-> NoCommit]
    /\ pushStatus = [n \in CL |-> "none"]
    /\ retryCount = [n \in CL |-> 0]
    /\ pc = "down"
    /\ first = 0 /\ cur = 0 /\ last = 0
    /\ sha = NoCommit
    /\ todo = {}
    /\ unpushed = 0
    /\ timer = "unset"
    /\ crashes = 0

-----------------------------------------------------------------------------
(* The environment: P4 users, the clock and the death of the process.       *)

Submit(kind) ==
    /\ Len(depot) < MaxCL
    /\ depot' = Append(depot, kind)
    /\ UNCHANGED <<gitVars, stateVars, mapVars, retryCount, pc, batchVars, sha,
                   pushVars, timer, crashes>>

\* push_interval_seconds pass since the last push.
Tick ==
    /\ timer = "running"
    /\ timer' = "elapsed"
    /\ UNCHANGED <<p4Vars, gitVars, stateVars, mapVars, retryCount, pc, batchVars,
                   sha, pushVars, crashes>>

\* The process dies, or stop() closes the database under its feet: what is
\* not in P4, Git or SQLite is gone.
Crash ==
    /\ pc # "down"
    /\ crashes < MaxCrashes
    /\ crashes' = crashes + 1
    /\ pc' = "down"
    /\ first' = 0 /\ cur' = 0 /\ last' = 0
    /\ sha' = NoCommit
    /\ todo' = {}
    /\ unpushed' = 0
    /\ timer' = "unset"
    /\ UNCHANGED <<p4Vars, gitVars, stateVars, mapVars, retryCount>>

-----------------------------------------------------------------------------
(* The Git remote and the push status rows.                                 *)

\* git push without --force: the branch exists and the remote fast-forwards.
PushAccepted == main # NoCommit /\ IsPrefix(origin, main)

PushBranch == PushAccepted /\ origin' = main

\* UPDATE cl_commit_map: nothing happens when the changelist has no row.
UpdatePushStatus(n, status) ==
    pushStatus' = IF pushStatus[n] = "none" THEN pushStatus
                  ELSE [pushStatus EXCEPT ![n] = status]

PendingPushes == {n \in CL : pushStatus[n] \in {"pending", "failed"}}

IsOldest(n, S) == n \in S /\ \A m \in S : n <= m

-----------------------------------------------------------------------------
(* Startup: _verify_on_startup.                                             *)

VerifyConsistency == Registered /\ lastCl > 0 => lastSha = main

\* A mismatch raises RuntimeError: the process never leaves "down".
Start ==
    /\ pc = "down"
    /\ \/ /\ main = NoCommit
          /\ pc' = "idle"
          /\ UNCHANGED todo
       \/ /\ main # NoCommit
          /\ VerifyConsistency
          /\ pc' = "resume"
          /\ todo' = PendingPushes
    /\ UNCHANGED <<p4Vars, gitVars, stateVars, mapVars, retryCount, batchVars, sha,
                   unpushed, timer, crashes>>

ResumePush ==
    /\ pc = "resume"
    /\ todo # {}
    /\ PushBranch
    /\ pc' = "resumed"
    /\ UNCHANGED <<p4Vars, main, stateVars, mapVars, retryCount, batchVars, sha,
                   pushVars, timer, crashes>>

ResumeMark ==
    /\ pc = "resumed"
    /\ \E n \in todo : /\ IsOldest(n, todo)
                       /\ UpdatePushStatus(n, "pushed")
                       /\ todo' = todo \ {n}
    /\ pc' = "resume"
    /\ UNCHANGED <<p4Vars, gitVars, stateVars, commitSha, retryCount, batchVars, sha,
                   unpushed, timer, crashes>>

\* The push of one row, or its update, fails: it is logged and the next is tried.
ResumePushFails ==
    /\ pc = "resume" \/ (Faults /\ pc = "resumed")
    /\ \E n \in todo : IsOldest(n, todo) /\ todo' = todo \ {n}
    /\ pc' = "resume"
    /\ UNCHANGED <<p4Vars, gitVars, stateVars, mapVars, retryCount, batchVars, sha,
                   unpushed, timer, crashes>>

EnterLoop ==
    /\ pc = "resume"
    /\ todo = {}
    /\ pc' = "idle"
    /\ UNCHANGED <<p4Vars, gitVars, stateVars, mapVars, retryCount, batchVars, sha,
                   pushVars, timer, crashes>>

-----------------------------------------------------------------------------
(* One round of _poll_and_sync.                                             *)

\* Wrong: the query would include last_cl itself.
FromLastCl == IF lastCl = 0 THEN 1 ELSE lastCl

\* get_changes_after asks P4 for the changelists from last_cl + 1 on.
FirstUnsynced == lastCl + 1

\* changes[:batch_size]: a slice ends where the list ends.
BatchEnd ==
    IF lastCl + BatchSize <= Len(depot) THEN lastCl + BatchSize ELSE Len(depot)

\* With nothing new the round returns at once, a stuttering step.
Poll ==
    /\ pc = "idle"
    /\ lastCl < Len(depot)
    /\ first' = FirstUnsynced
    /\ cur' = FirstUnsynced
    /\ last' = BatchEnd
    /\ pc' = "process"
    /\ UNCHANGED <<p4Vars, gitVars, stateVars, mapVars, retryCount, sha, pushVars,
                   timer, crashes>>

\* The for loop goes on to the next changelist of the batch, or ends.
NextChangelist ==
    IF cur < last THEN cur' = cur + 1 /\ pc' = "process"
                  ELSE cur' = cur /\ pc' = "tally"

SkipMarker ==
    /\ pc = "process"
    /\ depot[cur] = "marker"
    /\ lastCl' = cur
    /\ lastSha' = NoCommit
    /\ NextChangelist
    /\ UNCHANGED <<p4Vars, gitVars, mapVars, retryCount, first, last, sha, pushVars,
                   timer, crashes>>

\* build_commit finds no file to commit and returns "".
SkipEmpty ==
    /\ pc = "process"
    /\ depot[cur] = "empty"
    /\ sha' = NoCommit
    /\ pc' = "advance"
    /\ UNCHANGED <<p4Vars, gitVars, stateVars, mapVars, retryCount, batchVars, pushVars,
                   timer, crashes>>

\* Wrong: the next commit would build on the branch tip, recorded or not.
BranchTip == main

\* The parent is looked up by changelist number, not read from the branch.
ParentSha == IF lastCl > 0 THEN commitSha[lastCl] ELSE NoCommit

\* Wrong: every commit would be accepted, whatever the branch points to.
CommitUnchecked == TRUE

\* Wrong: the CLI backend would refuse what libgit2 refuses.
TipCheckedAlways == main \in {NoCommit, ParentSha}

\* The CLI backend gives git mktree whole paths, and mktree refuses a slash.
TreeAccepted == Backend = "cli" => depot[cur] # "nested"

\* libgit2 refuses to move a branch whose tip is not the first parent of the
\* new commit; git update-ref moves it whatever its tip is.
CommitAccepted ==
    /\ TreeAccepted
    /\ Backend = "pygit2" => main \in {NoCommit, ParentSha}

\* The CLI backend does not look at the exit code of git update-ref: the commit
\* counts as made although the branch stays.
MoveBranch(commit) ==
    \/ main' = commit
    \/ Backend = "cli" /\ RefFails /\ UNCHANGED main

BuildCommit ==
    /\ pc = "process"
    /\ depot[cur] \in CommitKinds
    /\ CommitAccepted
    /\ sha' = Append(ParentSha, cur)
    /\ MoveBranch(sha')
    /\ pc' = "record"
    /\ UNCHANGED <<p4Vars, origin, stateVars, mapVars, retryCount, batchVars, pushVars,
                   timer, crashes>>

\* INSERT ... ON CONFLICT DO UPDATE leaves the git_push_status of an old row.
RecordCommit ==
    /\ pc = "record"
    /\ commitSha' = [commitSha EXCEPT ![cur] = sha]
    /\ pushStatus' = [pushStatus EXCEPT ![cur] = IF @ = "none" THEN "pending" ELSE @]
    /\ pc' = "advance"
    /\ UNCHANGED <<p4Vars, gitVars, stateVars, retryCount, batchVars, sha, pushVars,
                   timer, crashes>>

SetLastSyncedCl ==
    /\ pc = "advance"
    /\ lastCl' = cur
    /\ lastSha' = sha
    /\ pc' = "synced"
    /\ UNCHANGED <<p4Vars, gitVars, mapVars, retryCount, batchVars, sha, pushVars,
                   timer, crashes>>

MaybeRunGc ==
    /\ pc = "synced"
    /\ IF PushAfterEveryCommit THEN pc' = "push" /\ UNCHANGED cur ELSE NextChangelist
    /\ UNCHANGED <<p4Vars, gitVars, stateVars, mapVars, retryCount, first, last, sha,
                   pushVars, timer, crashes>>

\* What leaves _process_changelist as an exception.  A failed push does not, but
\* the update of its row may.
Raised ==
    \/ Faults /\ pc \in InProcessing
    \/ pc = "process" /\ depot[cur] \in CommitKinds /\ ~CommitAccepted

\* Wrong: the loop would go on behind a changelist that failed.
SyncErrorSkips ==
    /\ Raised
    /\ retryCount' = [retryCount EXCEPT ![cur] =
                          IF @ < ErrorRetryThreshold THEN @ + 1 ELSE @]
    /\ NextChangelist
    /\ UNCHANGED <<p4Vars, gitVars, stateVars, mapVars, first, last, sha, pushVars,
                   timer, crashes>>

\* P4, Git or SQLite raises: the error is counted and the batch is left.
SyncError ==
    /\ Raised
    /\ retryCount' = [retryCount EXCEPT ![cur] =
                          IF @ < ErrorRetryThreshold THEN @ + 1 ELSE @]
    /\ pc' = "tally"
    /\ UNCHANGED <<p4Vars, gitVars, stateVars, mapVars, batchVars, sha, pushVars,
                   timer, crashes>>

\* SQLite is out of reach: the error cannot be recorded either, or last_cl cannot
\* be read, and the exception ends the round.
RoundAborts ==
    /\ Faults
    /\ pc \in InProcessing \cup {"tally"}
    /\ pc' = "idle"
    /\ UNCHANGED <<p4Vars, gitVars, stateVars, mapVars, retryCount, batchVars, sha,
                   pushVars, timer, crashes>>

-----------------------------------------------------------------------------
(* Pushing.                                                                 *)

PushCommit ==
    /\ pc = "push"
    /\ PushBranch
    /\ pc' = "mark"
    /\ UNCHANGED <<p4Vars, main, stateVars, mapVars, retryCount, batchVars, sha,
                   pushVars, timer, crashes>>

MarkPushed ==
    /\ pc = "mark"
    /\ UpdatePushStatus(cur, "pushed")
    /\ NextChangelist
    /\ UNCHANGED <<p4Vars, gitVars, stateVars, commitSha, retryCount, first, last, sha,
                   pushVars, timer, crashes>>

\* The push fails, or the row of a pushed commit cannot be marked.
PushCommitFails ==
    /\ pc = "push" \/ (Faults /\ pc = "mark")
    /\ UpdatePushStatus(cur, "failed")
    /\ NextChangelist
    /\ UNCHANGED <<p4Vars, gitVars, stateVars, commitSha, retryCount, first, last, sha,
                   pushVars, timer, crashes>>

\* The end of the round: all polled changelists count as unpushed commits, the
\* failed and the skipped ones too, and _should_batch_push decides.
Tally ==
    /\ pc = "tally"
    /\ IF PushAfterEveryCommit
       THEN pc' = "idle" /\ UNCHANGED <<unpushed, timer>>
       ELSE /\ LET count == unpushed + (last - first + 1)
               IN  unpushed' = IF count < PushBatchSize THEN count ELSE PushBatchSize
            /\ IF unpushed' = PushBatchSize
               THEN pc' = "batchpush" /\ UNCHANGED timer
               ELSE /\ timer' = IF timer = "unset" THEN "running" ELSE timer
                    /\ pc' = IF timer = "elapsed" THEN "batchpush" ELSE "idle"
    /\ UNCHANGED <<p4Vars, gitVars, stateVars, mapVars, retryCount, batchVars, sha,
                   todo, crashes>>

\* Wrong: one changelist too many would be marked.
BatchPushOneTooFar ==
    /\ pc = "batchpush"
    /\ PushBranch
    /\ todo' = first..(last + 1)
    /\ pc' = "markbatch"
    /\ UNCHANGED <<p4Vars, main, stateVars, mapVars, retryCount, batchVars, sha,
                   unpushed, timer, crashes>>

BatchPush ==
    /\ pc = "batchpush"
    /\ PushBranch
    /\ todo' = first..last
    /\ pc' = "markbatch"
    /\ UNCHANGED <<p4Vars, main, stateVars, mapVars, retryCount, batchVars, sha,
                   unpushed, timer, crashes>>

\* Wrong: a failed push would go unnoticed.
BatchPushFailsUnnoticed ==
    /\ pc = "batchpush"
    /\ todo' = first..last
    /\ pc' = "markbatch"
    /\ UNCHANGED <<p4Vars, gitVars, stateVars, mapVars, retryCount, batchVars, sha,
                   unpushed, timer, crashes>>

BatchPushFails ==
    /\ pc = "batchpush"
    /\ pc' = "idle"
    /\ UNCHANGED <<p4Vars, gitVars, stateVars, mapVars, retryCount, batchVars, sha,
                   pushVars, timer, crashes>>

\* _mark_batch_pushed: the rows of this round's batch, one UPDATE each; one that
\* fails is logged.
MarkBatch ==
    /\ pc = "markbatch"
    /\ \E n \in todo : /\ IsOldest(n, todo)
                       /\ \/ UpdatePushStatus(n, "pushed")
                          \/ Faults /\ UNCHANGED pushStatus
                       /\ todo' = todo \ {n}
    /\ UNCHANGED <<p4Vars, gitVars, stateVars, commitSha, retryCount, pc, batchVars, sha,
                   unpushed, timer, crashes>>

BatchDone ==
    /\ pc = "markbatch"
    /\ todo = {}
    /\ unpushed' = 0
    /\ timer' = "running"
    /\ pc' = "idle"
    /\ UNCHANGED <<p4Vars, gitVars, stateVars, mapVars, retryCount, batchVars, sha,
                   todo, crashes>>

-----------------------------------------------------------------------------
Environment == (\E kind \in ClKinds : Submit(kind)) \/ Tick \/ Crash

Startup == Start \/ ResumePush \/ ResumeMark \/ ResumePushFails \/ EnterLoop

Round ==
    \/ Poll
    \/ SkipMarker
    \/ SkipEmpty
    \/ BuildCommit
    \/ RecordCommit
    \/ SetLastSyncedCl
    \/ MaybeRunGc
    \/ SyncError
    \/ RoundAborts

Pushing ==
    \/ PushCommit
    \/ MarkPushed
    \/ PushCommitFails
    \/ Tally
    \/ BatchPush
    \/ BatchPushFails
    \/ MarkBatch
    \/ BatchDone

Next == Environment \/ Startup \/ Round \/ Pushing

Spec == Init /\ [][Next]_vars

(***************************************************************************)
(* The process supervisor restarts the process, the loop keeps running, the *)
(* clock moves (weak fairness), and an outage of P4, SQLite or the remote   *)
(* ends: a call that is retried for ever succeeds in the end (strong).      *)
(***************************************************************************)
Fairness ==
    /\ WF_vars(Startup) /\ WF_vars(Round) /\ WF_vars(Pushing) /\ WF_vars(Tick)
    /\ SF_vars(SkipMarker) /\ SF_vars(SkipEmpty) /\ SF_vars(BuildCommit)
    /\ SF_vars(RecordCommit) /\ SF_vars(SetLastSyncedCl)
    /\ SF_vars(ResumePush) /\ SF_vars(PushCommit) /\ SF_vars(BatchPush)

FairSpec == Spec /\ Fairness
=============================================================================
