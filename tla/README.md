# P4GitSync: specification

TLA+ models of P4GitSync, the service that mirrors Perforce streams into Git
branches (and, for bidirectional streams, Git commits back into Perforce).
Source paths are relative to `p4gitsync/src/p4gitsync/`.

## 1. The system

P4GitSync is one Python process. It has no server-side transaction that spans
its three stores, and that is where the difficulty lies:

* **P4**: numbered changelists, append only;
* **Git**: the local repository whose branch ref the service moves, and the
  remote it pushes to;
* **SQLite** (`state/state_store.py`): the checkpoint `sync_state(last_cl,
  commit_sha)`, the map `cl_commit_map(changelist -> commit, git_push_status)`,
  `sync_errors`, `stream_registry`, `conflict_state`, `reverse_sync_state`.

Every `StateStore` method commits on its own, so the process can die, or a call
can raise, between any two writes to any of the three.

### Inventory

| Component | State it keeps | Operations | What makes it correct |
|---|---|---|---|
| Forward sync loop (`services/sync_orchestrator.py`, `changelist_poller.py`, `commit_builder.py`) | place in the batch, unpushed count, time of last push | verify at startup, retry pushes, poll, build commit, record, move checkpoint, push | one commit per changelist, in order, none lost or repeated over crashes and errors |
| State database (`state/state_store.py`) | the tables above | one autocommitted statement per method | checkpoint, map and branch never contradict each other |
| Git operators (`git/pygit2_git_operator.py`, `git/git_cli_operator.py`) | branch refs | commit, push, fetch, branches | the branch only grows; both backends behave alike |
| Bidirectional sync (`sync_orchestrator.py:545-750`, `git_change_detector.py`, `conflict_detector.py`, `reverse_commit_builder.py`, `p4_submitter.py`) | conflict row, reverse checkpoint | fetch, detect, submit to P4, open and resolve conflicts | no echo, no commit submitted twice, no change overwritten unseen |
| Redis pipeline (`event_consumer.py`) | consumer group, pending messages, heartbeat | consume, acknowledge, claim stale, fall back to polling | at-least-once delivery with idempotent handling |
| Circuit breaker and integrity check (`circuit_breaker.py`, `integrity_checker.py`) | open or closed, schedule | compare P4 with Git, open, close | stops on real differences, and recovers |
| Multi-stream sync (`multi_stream_sync.py`, `event_collector.py`, `stream_watcher.py`) | registered streams, branches | merge events by number, create branches, sync each | parents before children, no stream blocks another |
| Initial import (`initial_importer.py`, `fast_importer.py`, `multi_stream_importer.py`) | queue of prefetched changelists, checkpoint | prefetch, write stream, checkpoint, resume | history complete over restarts |
| Merge analysis, tree building, LFS routing | none | pure functions | right parent, right tree, right storage |
| LFS pusher and store | object files, progress | store, push, resume | pointer never without its object |
| Cutover (`cutover.py`) | phase | freeze check, final sync, verify, switch | no step on an unmet condition |
| Recovery (`recovery.py`) | the database, the repository | rebuild, resync, reinit | the forward sync works afterwards |
| HTTP API, notifications, backup, CLI, provisioning, preview | none that matters here | status, alerts, dialogues | outside the model |

The components interact through the database (every one of them), the branch
refs (forward sync, bidirectional sync, import, recovery), the P4 change list,
one callback (Redis consumer thread into the orchestrator) and direct calls.

## 2. Modules

| Module | What it is |
|---|---|
| `Mirror` | Abstract specification: changelists are submitted, the oldest unmirrored one becomes a commit on top of the branch, the remote catches up. |
| `ForwardSync` | The single-stream forward sync, one action per persistent write. |
| `ForwardSyncProps` | Its invariants, liveness properties, the refinement mapping into `Mirror`, the inductive invariant. TLC checks this module. |
| `ForwardSync_proofs` | The theorems and their proofs. |
| `BidirectionalSync` | The loop of one stream with direction `bidirectional` or `git_to_p4`: conflict check, forward sync, reverse sync, beside P4 users and developers. |
| `BidirectionalSyncProps` | Its properties, the mapping of the reverse direction into `Mirror`, the inductive invariant. TLC checks this module. |
| `BidirectionalSync_proofs` | The theorems and their proofs. |
| `Integrity`, `IntegrityProps`, `Integrity_proofs` | The loop that watches itself: integrity checks, circuit breaker, silence detector, alerts. |
| `EventPipeline`, `EventPipelineProps`, `EventPipeline_proofs` | The Redis consumer thread beside the polling loop. |
| `MultiStream`, `MultiStreamProps`, `MultiStream_proofs` | Several streams: registration, queries, the common queue, branch creation, merge analysis. |
| `InitialImport`, `InitialImportProps`, `InitialImport_proofs` | The import of a history: worker threads, bounded window, fast-import, checkpoints, resumption. |
| `Operations`, `OperationsProps`, `Operations_proofs` | Resync, cutover, rebuild-state, reinit-git, archive and backup beside the service. |
| `Content`, `ContentProps`, `Content_proofs` | What a commit holds: routing to LFS, trees of both backends, uploads and pushes. |

`ForwardSync` looks at one direction write by write. `BidirectionalSync` takes
one changelist of the forward sync (commit, row, checkpoint) as one step and
spends its detail on the interplay: what is fetched and pushed when, what each
side has seen of the other, and every write of the reverse sync. `Mirror` is
implemented twice: by the forward sync, and by the reverse sync with developers
as those who submit and P4 as what is extended. The other modules each take the
forward sync as far as they need it and give their detail to one hazard field:
`Operations` keeps its three writes per changelist (commit, row, checkpoint)
because commands meet them half done; `MultiStream` makes a changelist one step,
with `KillInside` for a death between commit and record; `EventPipeline` and
`Integrity` reduce it to "the checkpoint moves on"; `Content` refines its
`BuildCommit` into what is read from P4, decided, written and uploaded.

### How the state of ForwardSync corresponds to the code

A commit is written as the sequence of the changelists on its first-parent
chain. Author, committer, time stamp and message all come from the changelist
(`commit_builder.py:98-105`, both operators set committer = author), so
committing the same changelist on the same parent again gives the same object:
that is what makes the CLI backend's repeated commit after a crash harmless,
and equality of sequences is the right equality. `IsPrefix` is ancestry.

| Model | Code |
|---|---|
| `depot` | submitted changelists; position = number, value = kind |
| `main`, `origin` | `refs/heads/<branch>` here and in the remote |
| `lastCl`, `lastSha` | the `sync_state` row |
| `commitSha`, `pushStatus` | `cl_commit_map` |
| `retryCount` | `sync_errors.retry_count` (nothing in the code resolves an error, so it never falls) |
| `pc`, `first`, `cur`, `last`, `sha`, `todo` | where `_verify_on_startup`, `_poll_and_sync` or `_process_changelist` stands, and its locals |
| `unpushed`, `timer` | `_unpushed_commits` and `_last_push_time` |

The four kinds of changelist are those the loop tells apart: `file`, with files
in the root directory only; `nested`, with a file in a directory; `empty`, whose
files the virtual filter all drops (`build_commit` returns `""`); `marker`, with
a `GitCommit` marker. The last two move the checkpoint and write no row.

The actions follow the calls in order. `Poll`; then for each changelist
`SkipMarker`, or `SkipEmpty`/`BuildCommit` (the ref moves), `RecordCommit`,
`SetLastSyncedCl`, `MaybeRunGc`, and with a push after every commit
`PushCommit`, `MarkPushed` or `PushCommitFails`; then `Tally` with the decision
of `_should_batch_push`, and `BatchPush`, `MarkBatch`, `BatchDone` or
`BatchPushFails`. `SyncError` is the `except` branch of the loop, `RoundAborts`
the one of `_start_single_stream`. `Start`, `ResumePush`, `ResumeMark`,
`ResumePushFails`, `EnterLoop` are the startup. `Crash` may happen anywhere.

The two backends differ in two places. `CommitAccepted`: libgit2 refuses to move
a branch whose tip is not the first parent of the new commit; the CLI backend
does not look, but gives full paths to `git mktree`, which refuses those with a
slash (`TreeAccepted`, `git_cli_operator.py:265-276`), so a changelist with a
file in a directory is never committed. `MoveBranch`: with the CLI backend the
exit code of `git update-ref` is dropped (`:225`), so with `RefFails` a commit is
returned, and recorded, that the branch does not have.

### How the state of BidirectionalSync corresponds to the code

A change is `<<"p4", n>>` or `<<"dev", k>>`, whose author made it; a commit is
the sequence of the changes on its first-parent chain. A changelist with
`git = k` carries the `GitCommit` marker of the k-th developer commit, and a
commit that ends in `<<"p4", n>>` carries the `P4CL` trailer. `CommitAt(i)` is
the commit at place i of the fetched branch.

| Model | Code |
|---|---|
| `depot` | submitted changelists: a file, and the commit the marker names |
| `pushed`, `origin`, `conflictHeads` | what developers did at the remote, its branch, its conflict branches |
| `deleting` | the changes of users and developers that delete their file |
| `tracking`, `conflictTracking` | `refs/remotes/origin/...` of the local repository |
| `main`, `conflictRefs` | `refs/heads/...` of the local repository |
| `lastCl`, `commitSha` | `sync_state.last_cl`, `cl_commit_map` |
| `lastReverse`, `conflict` | the rows of `reverse_sync_state` and `conflict_state` |
| `pc`, `last`, `primary`, `newCommits`, `submitted` | where `_start_single_stream` stands in a round, and the locals of the methods it calls |

A round is `Fetch` (or `FetchFails`), `CheckConflicts`, then `Poll`,
`SkipMarker`, `BuildCommit`, `SyncError`, `PushCommit` and `EndBatch`, then
`Fetch` again, `DetectNewCommits`, and for each commit `SubmitCommit`,
`RecordReverse`, `UpdateLastProcessed`, or `SubmitFails`. Both detections may
lead to `CreateConflictBranch`, `PushConflictBranch`, `RecordConflict`, or
`ConflictFails`. While a conflict is recorded a round is `CheckConflictResolved`.
`SubmitAnswerLost` is the submit that takes effect without the program learning
its number. `RoundAborts` is the `except` branch of the loop.

What Git and P4 do is modelled where the code depends on it: a push must
fast-forward, `git fetch` without `--prune` keeps remote-tracking branches, `git
log` cuts the list before it reverses it, `git diff-tree` lists nothing for a
first commit or a merge and quotes some names (`Quoted`; `git show` then fails
and the file is left out), P4 refuses a changelist without files. `Refused` is
what follows from `P4Submitter._apply_changes`: `p4 fstat` also finds a file whose
newest revision is a deletion, so a file that comes back is opened for edit, and
one that is already gone for delete, and P4 opens neither. `MoveBranch` is that of
`ForwardSync`.

### How the state of the other modules corresponds to the code

**Integrity.** A content of a file is the changelist that first wrote it; `head` is
P4, `tree` the mirrored branch. `SubmitChange` edits, deletes or rolls a file back
to what it was before (`Earlier`). `BeginCheck` is `check_due_schedule` and
`run_scheduled_check` with their three timers (`age`), over the files that
`git ls-tree HEAD` lists: all, when HEAD is on the configured branch
(`HeadOnBranch`), else none. `CompareFile` is one file of `_verify_slice`, which
decides nothing about one that is `Unreadable` in Git. `CheckRaises`, `CheckPasses`
and `Trip` are the end of `IntegrityCircuitBreaker.run_check` with the alert of
`_trip`; a message that Slack refuses counts as sent (`SendToChannel`).
`SilenceAlert` is the detector, `EndRound` the round that the breaker keeps from
polling. `Damage` is a file that goes wrong in Git; `Restart` forgets the timers and
the breaker.

**EventPipeline.** Messages are numbered in the order of publication and name a
changelist or an invalid one. `up` says whether Redis can be reached; `stream`,
`group`, `delivered`, `pending`, `idle` are what it keeps; `pc`, `batch` are the
consumer thread. `Start` needs Redis (`EventConsumer.connect` raises without it).
`Deliver` is `XREADGROUP`. `ClaimStalePending` is `XAUTOCLAIM`, which looks at the
first `ScanFactor * BatchSize` pending entries (`Seen`) and, as the code always
begins at `0-0`, never at others. `AckInvalid` and `HandlerRaises` are the processing of one
message: the callback uses the SQLite connection of the main thread, which SQLite
refuses, so a message that names a changelist always ends in the `except`.
`PollAndSync` is the main thread. `RedisStops` (with or without its data) and
`RedisStarts`, `ConnectionBreaks`, `HoursPass`, `Kill` and the trimming in `Publish`
(`MAXLEN`) are the environment; `Unreachable` and `Reconnect` are how the consumer
meets it.

**MultiStream.** A commit is again the sequence of its first-parent chain, kept
per stream in `branch`, and `second` is the merge parent. A round is
`BeginRound`, `RegisterStream` for each unknown stream, `QueryStream` for each
registered one, `SortAndCut`, then `HandleBranchCreate`, `HandleChangelist` or
`EventFails` for the smallest event, and `EndRound`. The merge analysis is part of
`HandleChangelist` (`Analyze`, `SecondParent`). `nested` are the changelists that
the CLI backend cannot commit (`TreeAccepted`), `behind` the streams whose last
`git update-ref` failed unseen. The pushes of the streams are left out.

**InitialImport.** `Extract` is a worker that has printed a chunk; `TakeChunk`,
`PutChangelist`, `PutSentinel` are the dispatcher and its bounded queue; `Get`,
`Write`, `FinishForCheckpoint`, `RecordState`, `RecordCommit`, `FinishForGood`,
`RecordFinal` the main thread; checkpoint and row are two writes with a kill
between them. `session` is what the running `git fast-import` has read; a
negative number is a changelist of which it got only a part. `branch` and
`objects` are what it has finished, `lost` what went down with a process that
failed (`FastImportFails`). `RecordState` writes last_written_cl with
whatever head the branch then has.

**Operations.** `db` is the State DB as a record (checkpoint, rows with status,
archive, registry), so that it can be backed up, lost, restored and rebuilt as
a whole; `locked` says that the service's connection has a write transaction
open (`archive_old_commit_maps` leaves one). `pc, cur, last, sha` are the
service, `cmd, step, at, to, csha` a command: `Resync(a, b)` of any range;
`StartCutover` and its phases `CutoverPushes`, `CutoverMarks` (the changelists from
`first` on), `Verify`, `FinalPush`; `ReadHistory` and `RebuildWrites`; `ReinitGit`,
at any time, also beside the service. `unchecked` says that the service has not
compared the repository with the database since it was exchanged, or never did,
because at its start the database did not know the stream (`Start`); `skipped` are the
changelists that were left out, by a resync that begins beyond the checkpoint or
by work on such a repository. Both only serve the properties. `OperatorStops` and
`OperatorRebuilds` are what the guide tells an operator to do with a service that
is refused. The dry run and the freeze of a cutover (a prompt) are left out.

**Content.** A path is a sequence of names; P4 is a virtual stream with one
directory that is excluded, one file of an LFS extension and one name that can
be a file or a directory. A file has a kind: one that P4 sizes and types tell
apart, or not (`odd`). `Describe` and `Extract(sized, sniffed)` are `build_commit`
(the choice of route, where the size and the sniff may fail, printing, LFS
objects). `Commit(read, moved)` is the tree of either backend and the branch:
without `read` the tree of the parent could not be listed, an error which both
backends swallow, and the commit holds the changed files only (`Base`; the others
are `lost`); without `moved` `git update-ref` failed unseen (`behind`). `Record` is
the row and the checkpoint; `Upload`, `Push`, `Batch` are the LFS upload of the service and
of `lfs-push`, which may run beside it. `CutoverOrService` changes what process
runs: a cutover has no LFS store, so its files are `plain`. `PushAlone` is the push
of a cutover or of a conflict branch, which uploads nothing; `ahead` are the
objects published that way.

Definitions whose comment starts with "Wrong:" are plausible mistakes in the
definition that follows them. They are not part of the model; substituting one
must break the property named beside it in `PROJECT.json`.

## 3. What TLC checks

| Run | Configuration | Shows |
|---|---|---|
| `forward_pygit2` | 3 changelists of all kinds but `nested`, libgit2, batch push, failing calls, 1 crash | the invariants of the forward sync, and refinement of `Mirror` |
| `forward_cli` | 2 changelists, `file`, `nested` or `empty`, CLI, push after every commit, failing calls, an update-ref that may fail unseen, 1 crash, fair | what holds of every history with this backend, and that all is synchronised that is before the first changelist `git mktree` refuses |
| `bidir_safe` | an imported changelist, 2 more of users, 2 developer commits, 2 files, a log query of 2, failing calls, 1 crash or lost answer | the invariants and action properties of the bidirectional sync, and that the reverse direction refines `Mirror` |
| `bidir_reverse_live` | `git_to_p4`, 2 developer commits with a merge, a deletion, a quoted name among the possible ones, failing calls, 1 crash or lost answer, fair | every developer commit gets to P4, unless one is refused for ever |
| `integrity` | 3 files, one of them never compared, 3 changelists, rollbacks, a sample of 1, a fault, a damage, a restart, fair | why the breaker is open, and that damage and the open breaker become known |
| `events` | 4 messages, a stream of 3, batches of 1, a claim window of 2, 2 faults, fair | no event is lost by the consumer, every one within its sight is tried |
| `multistream` | 2 imported streams, one created meanwhile, one ignored; 4 changelists, 1 merge, batches of 2, 1 fault, both backends, one changelist in a directory or none, fair | what the queue of several streams must keep, and why a changelist may stay |
| `import` | 6 changelists in chunks of 2, 2 workers, a checkpoint every 2, 1 fault, fair | order and completeness of what is written, what the checkpoint claims, and that the threads never block each other |
| `operations` | 2 changelists, 1 command, 2 events (death, backup, loss, archive, fault), fair | cutover and checkpoint, and that a rebuild repairs |
| `content` | 2 changelists over 3 paths and an excluded one, 2 kinds, cutovers and conflict branches, 1 fault, both backends | trees and LFS objects |
| `operations_locked` | as `operations`, no events | violation: a command beside an idle service cannot record its commit |
| `content_replaced` | pygit2, a directory that becomes a file | violation: the file is left out of the tree |

The properties, in short.

*Forward sync.* `OneCommitPerChangelist` (history in order, complete up to the
checkpoint, at most one commit ahead of it), `DatabaseAgrees` (a row names a
commit on the branch, no checkpoint without rows, never marked before pushed),
`ErrorsOnlyAtHead` (a failure stops the batch), `ImplementsMirror` (no step
rewrites, skips or repeats). With the CLI backend these need that `update-ref`
does not fail; `HistoryIsWhole` (branch, remote and every recorded commit hold
each changelist once, in order, without a hole) does not, and holds until a
changelist is skipped. `SyncedUnlessNested`.

*Bidirectional sync.* `NoEcho` (what crosses over does not come back),
`RepeatsNeedAccidents` (a commit is submitted again only after a crash or a lost
answer, and never gets two rows), `ReverseCheckpointBacked` (nothing before the
reverse checkpoint is missing in P4), `RowsJoinSameChange` (a row joins a
changelist with its own commit, whoever submits meanwhile), `RemoteOnlyGrows`,
`ConflictStopsBranch` (no change crosses over while a conflict is recorded),
`ConflictIsOpen` (a recorded conflict is between a changelist and a commit that
neither side has taken over), `ReverseImplementsMirror` (commits arrive in P4 in
the order of the branch, none before its ancestors; a repetition by an accident
counts once), `SubmittedUnlessRefused` (every commit gets to P4, unless it or one
before it is one for which the code makes a changelist that P4 does not take).

*Integrity.* `OpenMeansDifference` (an open breaker is over a difference, or over
one that P4 users took back by a rollback), `DamageIsNoticed` (the daily samples do
not put the weekly check off; the monthly one, itself a sample, does restart the
weekly timer, `integrity_checker.py:101-105`, but only once a month), `OpenIsAnnounced`.

*Events.* `NoEventForgotten` (Redis delivers it or has it pending),
`EveryEventTried` (also one whose delivery was lost, unless it stays behind a full
claim window).

*Several streams.* `NothingPassedOver`, `RecordedCommitsKept` (but for a stream
whose last `update-ref` failed unseen), `MergesHaveTheirSource` (a source that was
known when the round began becomes the second parent), `SyncedUnlessStuck` (a
changelist that is never synced is behind one of the named obstacles: a branch
that is elsewhere, a file in a directory with the CLI backend, a parent without a
commit).

*Import.* `WrittenInOrder`, `NothingPassedOver` (the checkpoint covers only
finished commits, but for those that went down with a fast-import), `EverythingImported` (also: no deadlock of the threads).

*Operations.* `CutoverIsComplete` (a cutover beside a running service comes to
its final push with every changelist on the branch), `CheckpointIsBehind` (the
service works with a checkpoint that the branch backs), but for changelists that a
resync was told to leave out (`skipped`) and for a repository that the service has
not compared with its database (`unchecked`); `RepairWorks`.

*Content.* `TreeIsView` (exactly the files of the stream, in the form the rules
give, but for those `lost` when a parent's tree could not be read and not changed
since), `PublishedPointersResolve` (no published pointer without its object, but for
what a cutover or a conflict branch published and no push of the service came after).

The two violations are reported as findings in `PROJECT.json`.

### What is stated and does not hold

The modules state more, and the models show that it does not hold. No run is
kept for these; each is violated under the settings named, the other constants as in
the run of the same module.

| Property | Settings | What happens |
|---|---|---|
| `EventuallySynced` | `forward_pygit2`, `FairSpec`, `ClKinds = {"file"}` | a crash between commit and row: the branch is one ahead, libgit2 refuses every later commit, nothing is repaired |
| `EventuallySynced` | the same, `ClKinds = {"file", "empty"}`, `MaxCrashes = 0` | after a skipped changelist the next parent is missing: refused for ever |
| `EventuallySynced` | `forward_cli`, `ClKinds = {"file", "nested"}`, `RefFails = FALSE`, `MaxCrashes = 0` | `git mktree` refuses the changelist with a file in a directory for ever; it and all behind it stay |
| `OneCommitPerChangelist` | `forward_cli`, `ClKinds = {"file", "empty"}`, `RefFails = FALSE`, `MaxCL = 3` | after a skipped changelist the CLI backend replaces the branch by a new root commit |
| `OneCommitPerChangelist`, `DatabaseAgrees` | `forward_cli`, `ClKinds = {"file"}` | `git update-ref` fails: row and checkpoint are written, the branch lacks the commit |
| `EventuallyPublished` | `forward_pygit2`, `FairSpec`, `Faults = FALSE` | the push interval is only looked at when a poll brings something new |
| `PendingIsLocal` | `forward_pygit2`, `Faults = FALSE` | a batch push publishes several rounds and marks the rows of one |
| `InSyncStarts` | `forward_pygit2`, `Registered = TRUE` | a skip leaves `""` in `sync_state`, and a registered stream refuses to start |
| `NoUnseenOverwrite` | `bidir_safe` | a changelist that is committed but could not be pushed is no longer compared, and a developer's commit overwrites it in P4 |
| `SubmittedOnce` | `bidir_safe` | a crash or a lost answer behind the submit submits a commit twice |
| `ForwardContinues` | `bidir_safe`, `FairSpec`, `Faults = FALSE`, `MaxDev = 1`, `MaxAccidents = 0` | after a submitted commit the next changelist has a parent the local branch does not have; libgit2 refuses it for ever |
| `ConflictEnds` | `bidir_safe`, `FairSpec` | a deleted conflict branch is not noticed (`fetch` without `--prune`) |
| `ConflictIsRecorded` | `bidir_safe`, `FairSpec`, `MaxUser = 2`, `MaxDev = 1` | a crash before the conflict is recorded: its branch can be neither used nor made again |
| `EventuallySubmitted` | `bidir_reverse_live`, `MaxDeletes = 0`, and only one of `Merges = TRUE`, `Imported = FALSE`, `Quoted = {q}` | a merge commit, the first commit of a repository, or a name that git quotes gives an empty changelist and blocks all commits behind it |
| `EventuallySubmitted` | `bidir_reverse_live`, `Merges = FALSE`, `Quoted = {}` | `MaxDeletes = 1`: a file that was deleted comes back, or is deleted again: P4 opens it neither for edit nor for delete |
| `EventuallySubmitted` | `bidir_reverse_live`, `Merges = FALSE`, `Quoted = {}`, `MaxDeletes = 0`, `Backend = "cli"` | the log query of the CLI backend always raises (a NUL byte in its format); with libgit2 the property holds here |
| `ReverseCheckpointBacked` | `bidir_safe`, `MaxDev = 3`, `MaxUser = 1` | more new commits than `max_count`: the oldest are passed over |
| `DamageIsNoticed` | `integrity`, `HeadOnBranch = FALSE` | the list of files is that of HEAD, which `init_repo` never points at the configured branch: it is empty and every check passes (`integrity_checker.py:396-402`) |
| `ComparedAtSyncedCl` | `integrity`, `MaxDamage = 0`, `MaxFaults = 0` | P4 is read at `#head` while changelists are on their way: a file that is right as of the synced changelist counts as different, although `Plans/P4GitSync/Phase3-Production.md:642-643` promises the comparison as of that changelist |
| `LossIsNoticed` | `integrity` | a blob that cannot be read, or a pointer that does not parse, is left out of every comparison without a word (`integrity_checker.py:291-300`) |
| `SyncGoesOn` | `integrity`, `MaxDamage = 0` | P4 is read at `#head` while changelists are still on their way; the breaker opens on that and stops the very sync that would remove the difference (`Documents/06-Operations-Guide.md:114-120`) |
| `EventsAcknowledged` | `events`, `MaxFaults = 0` | the handler always raises (SQLite's thread check), so no message that names a changelist is ever acknowledged |
| `StaleReclaimed` | `events`, `MaxFaults = 1` | `XAUTOCLAIM` begins at `0-0` each time and the handler never clears the window: a message whose delivery was lost behind it is never claimed (`event_consumer.py:145-152`) |
| `PolledWithoutRedis` | `events`, `ServiceSpec` | Redis is down when the service starts: `connect` raises, the service ends and nothing is polled (`sync_orchestrator.py:307-313`) |
| `EveryStreamSynced` | `multistream`, `MaxFaults = 0` | with libgit2 the first changelist of a new stream finds its branch already there and is refused for ever; it holds back all streams (with the CLI backend a file in a directory does) |
| `HistoryComplete` | `import` | every checkpoint starts a new fast-import, whose first commit gets no parent (`git/fast_importer.py:36`, no `from` line): the history before it is off the branch |
| `NothingLost` | `import` | a print thread that dies takes its files along, without an error; a fast-import that fails at a checkpoint or takes more than ten seconds to end counts as a success, and the checkpoint passes over its changelists |
| `CheckpointHasRow` | `import` | a kill between `set_last_synced_cl` and `record_commit`: a checkpoint without its row |
| `CutoverAloneIsComplete` | `operations` | a repository cloned anew lacks commits that were not pushed; the pushes that follow push what is there and the pending rows become pushed, so "total_lag=0" holds, and nobody compares the checkpoint with the branch |
| `AllPublishedResolve` | `content` | a cutover, or the push of a conflict branch, publishes pointers whose objects were never uploaded |
| `NothingLost` (of `ContentProps`) | `content` | the tree of the parent cannot be listed: both backends go on and commit the changed files only |
| `PointersHaveARule` | `content` | a pointer by automatic detection has no line in `.gitattributes` |

### Bounds

Three changelists with batches of two give a full batch, a clipped one, a
changelist before, in and after the one that fails, and a checkpoint strictly
inside the history. One crash is enough: a crash forgets all that is not in the
stores, and the stores' reachable states are then explored from a fresh start
with all faults; the proofs below have no such bound. `forward_cli` has two
changelists, so that one is refused, skipped or missing on the branch before or
behind another. Retry counts saturate at
`ErrorRetryThreshold` because the code only compares them with it, `unpushed`
at `PushBatchSize` for the same reason. `timer` has three values because the
code only asks whether the interval has passed. For the bidirectional sync, two
developer commits give an ancestor and a descendant; two changelists beside the
imported one give a conflict and one that comes after the check; two files tell
a conflict from unrelated changes. One accident is either a crash or a lost
answer. `MaxCL` is the sum of all that can be submitted, so it never holds
anything back. `LogLimit` stands for the 1000 of the code; in `bidir_safe` it is 2,
as many as there are developer commits, so that one more commit of the service on
the branch already makes the query cut its list.

`integrity`: a sample of one of two comparable files misses damage and finds it;
`Week = 2 < Month = 3` keeps the order of the three timers; three changelists are an
edit, another and the rollback to the first. `events`: a stream of three and four
messages make Redis trim one that is still pending; a claim window of two is the
code's `10 * batch_size`, so that a third message is out of sight and comes
into sight when an older one is trimmed. `multistream`: four changelists are one for
each imported stream, one for the new stream and one behind it; batches of two cut
the queue; a fault is a failing event, a kill or an `update-ref` that fails unseen.
`import`: six changelists are three chunks for two workers, so that a chunk waits, and with the window of 2 * workers
the queue is full; a checkpoint every two lies inside and at the end of a chunk.
`operations`: two events let a command meet a death and a lost, old or archived
database. `content`: the second changelist changes, moves or removes what the first
has added, possibly with another kind and route, and one path shares a directory's
name; the fault is one of every call that can fail, the kill included. The proofs of
section 4 lift these bounds for all of its three properties.

`CHECK_DEADLOCK FALSE` where the loop sleeps when nothing is new (a stuttering
step), where a service that is refused stays down, or where an import is over;
`integrity` and `events` check for deadlock.

### Fairness

`FairSpec` assumes that the supervisor restarts the process, that the loop
keeps running and time passes (weak fairness), and that an outage ends: each
call that is retried for ever succeeds in the end (strong fairness of the
individual write). Nothing is assumed of P4 users, developers, operators in
general, faults or crashes. `Integrity` needs strong fairness of `EndDay` and
`SyncChangelist`: days go by, and the sync of a round is not always cut short.
`EventPipeline` has weak fairness of both threads and of the restart
(`ServiceFairness`, all that `ServiceSpec` has), and for the run
`RedisFairness`: somebody brings Redis back, hours pass, and in the long run they
pass only when the consumer has claimed what it can. A round takes seconds and a
message is idle for hours, so this is how long things take; it says nothing of
messages the claim does not see. `MultiStream` and `InitialImport` only assume that
work that is possible is done (their faults are bounded, so outages end).
`Operations` assumes in addition that an operator stops a service that makes no
progress and rebuilds its database, as the guide says: without that `RepairWorks`
would say nothing.

## 4. What is proved

For every number of changelists, batch size, threshold and number of crashes
(`ForwardSyncAssumption` only says that they are numbers):

| Theorem | Statement |
|---|---|
| `TypeCorrect` | `Spec => []TypeOK` |
| `ErrorsStayAtHead` | `Spec => []ErrorsOnlyAtHead` |
| `Inductive` | `SafeConfig` implies `Spec => []IInv` |
| `MirrorIsFaithful` | `SafeConfig` implies `Spec => []OneCommitPerChangelist` |
| `DatabaseIsRight` | `SafeConfig` implies `Spec => []DatabaseAgrees` |
| `Refinement` | `SafeConfig` implies `Spec => ImplementsMirror` |
| `NoHistoryHasAHole` | `Spec => []HistoryIsWhole` |

`SafeConfig` says that the backend is libgit2, or that no changelist is skipped and
`git update-ref` does not fail; `OneCommitPerChangelist` in the table above shows
that neither can be dropped. `NoHistoryHasAHole` needs no such hypothesis: with an `update-ref` that fails unseen database and
branch do part, but the next commit is made on the recorded parent and not on the
branch, so it brings what the branch missed (`WholeInv`). With the CLI backend the
property ends with the first skipped changelist, behind which the next commit is made
without a parent.

The argument. The properties are not inductive on their own: that
`SetLastSyncedCl` keeps the history complete needs to know that the row of
`cur` was written (`InHandInv`), that `MarkPushed` is truthful needs that the
remote has the branch (`PushInv`), and all need the place in the batch
(`BatchInv`: `cur` is `lastCl + 1` until the checkpoint moves). `IInv` is their
conjunction. `Frame` says which actions write which store, so each invariant is
proved in a lemma of its own against those actions. The heart is `CommitStep`:
the parent found through the checkpoint lies on the branch and ends in `lastCl`
(`ParentOnBranch`), everything above it on the branch is later than `lastCl` and
at most `lastCl + 1`; so the branch is the parent, or the parent with `cur` on
top already, and the new commit extends the branch or equals it. libgit2 leaves
only the first case; without skipped changelists the parent is never missing, and
an `update-ref` that succeeds moves the branch to the new commit.
From `CommitStep` also follows that a step which moves the branch is
`M!Replicate`: `cur` is the least changelist that is not mirrored.

For the bidirectional sync, whatever the direction, the backend, the batch
size, the limit of the log query and the number of users' changelists,
developers' commits, crashes and lost answers:

| Theorem | Statement |
|---|---|
| `BidirTypeCorrect` | `Spec => []TypeOK` |
| `Inductive` | `Spec => []IInv` |
| `NothingEchoes` | `Spec => []NoEcho` |
| `RowsAreRight` | `Spec => []RowsJoinSameChange` |
| `ConflictStops` | `Spec => ConflictStopsBranch` |
| `RemoteIsKept` | `Spec => RemoteOnlyGrows` |
| `ReverseInductive` | `Spec => []ReverseInv` |
| `ConflictsAreReal` | `Spec => []ConflictIsOpen` |
| `RepeatsAreAccidents` | `Spec => []RepeatsNeedAccidents` |
| `CheckpointIsBacked` | `Spec /\ []BacklogFits => []ReverseCheckpointBacked` |
| `ReverseRefinement` | `Spec /\ []BacklogFits => ReverseImplementsMirror` |
| `NewCommitsFit` | `MaxDev <= LogLimit` implies `Spec => []BacklogFits` |

`BacklogFits` says that the log query lists every *new* commit behind the reverse
checkpoint: those a developer made and that have no row. Commits that came from
P4, an imported history of any length among them, and those that were submitted
do not count. It cannot be dropped: with more new commits than the limit the
table of section 3 shows the checkpoint passing over one. `NewCommitsFit` shows
that it is met whenever developers are never further ahead than the limit: the service puts
changelists only on top of commits that have their rows, so the new commits are the
newest of the branch (`NewOnTopInv`, `RowsUnder`) and the cut, which keeps the
newest, leaves them all in.

The argument, first the branches and the rows. Everything only grows:
changelists, developers' commits, the
checkpoint (`StepsGrow`), so a commit whose changes are all known and different
stays so (`StaysWellFormed`). Users, fetches and pushes only move a branch to
where another one is (`BranchesMove`); the three actions that make something
new put a change on top that is in no commit yet: the next developer commit,
the changelist behind the checkpoint (`BuiltWellFormed`), or they record a
commit that was fetched. The invariant must range over all branches and all
rows at once (`BranchInv`), because each of them becomes a parent or a branch
later. For the rows it needs the place in the loop (`PlaceInv`): between submit
and row, `submitted` is the number of the changelist made of the oldest commit
in hand. `ConflictStops` rests on `ConflictRestsInv`: the round that records a
conflict is over, and no later one gets past the check.

Then the reverse direction. `StepKinds` sorts the steps of the loop by what they
do to the stores; most of them only turn it. `ReverseInv` adds three things.
What was fetched is on the remote and the checkpoint lies behind it
(`FetchedInv`). What is in hand has no row yet, and neither has the changelist
submitted for it (`InHandInv`); hence a developer's row is written once, for the
commit in hand (`RecordedStep`), and two rows that name the same change name the
same commit (`SameChangeSameCommit`), which gives "no commit gets two rows". A
changelist without a row comes from a submit, and it leaves that state with its
row, or with a crash or a lost answer, which is the count of
`RepeatsNeedAccidents` (`UnrecordedStep`, `AccidentsNext`). Third, a conflict
that is being handled is as open as one that is recorded (`ConflictInv`): a
conflict found on a fetch that is out of date is open on the remote too, since
the remote only got longer, and until it is recorded nothing is mirrored.

`MirrorInv` adds, for the mirror, that what was fetched and has no row is in
hand (`CoveredInv`, where `BacklogFits` is needed), that commits come in the
order of the pushes on every branch (`OrderInv`), and that they came to P4 in
this order (`DepotInv`): what is before a commit in P4 has its row, and none
behind the one in hand was submitted. So the developers' commits in P4 are
always those with the numbers from 1 to some j (`SubmittedUpto`,
`DevelopersIs`; the last counts the first places of a sequence with a
bijection), a submit makes j the next number or repeats one that is there
(`SubmitCounts`), and the checkpoint moves to what is in P4 (`AdvanceCounts`):
`R!Replicate` or a stutter, and `R!Publish`.

For the other components, for every value of their constants (numbers of
changelists, streams, workers, files, messages, batches, faults, kills):

| Module | Theorem | Statement |
|---|---|---|
| `EventPipeline_proofs` | `EventsTypeCorrect` | `Spec => []TypeOK` |
| | `EventsAreKept` | `Spec => []NoEventForgotten` |
| `Integrity_proofs` | `IntegrityTypeCorrect` | `Spec => []TypeOK` |
| | `OpenHasReason` | `Spec => []OpenMeansDifference` |
| `MultiStream_proofs` | `StreamsTypeCorrect` | `Spec => []TypeOK` |
| | `StreamsPassNothingOver` | `Spec => []NothingPassedOver` |
| | `BranchesKeepCommits` | `Spec => []RecordedCommitsKept` |
| | `MergesGetTheirSource` | `Spec => MergesHaveTheirSource` |
| `InitialImport_proofs` | `ImportTypeCorrect` | `Spec => []TypeOK` |
| | `HistoryIsWrittenInOrder` | `Spec => []WrittenInOrder` |
| | `ImportPassesNothingOver` | `Spec => []NothingPassedOver` |
| `Operations_proofs` | `OperationsTypeCorrect` | `Spec => []TypeOK` |
| | `CheckpointsAreBacked` | `Spec => []CheckpointIsBehind` |
| | `CutoversAreComplete` | `Spec => []CutoverIsComplete` |
| `Content_proofs` | `ContentTypeCorrect` | `Spec => []TypeOK` |
| | `PointersResolve` | `Spec => []PublishedPointersResolve` |
| | `BranchShowsTheStream` | `~Replacing \/ Backends \subseteq {"cli"}` implies `Spec => []TreeIsView` |

The hypothesis of `BranchShowsTheStream` leaves out the case of the finding
(pygit2, a directory that becomes a file). All other
theorems of this table hold without any; the exemptions their properties name are those of
section 3. In each module `IInv`, in the module of properties, is
the inductive invariant, and there is one lemma for each action or group of actions.

*EventPipeline.* The group and the consumer only know messages that were
published (`KnownInv`), so a new message is behind what was delivered, also when
Redis has lost stream and group and both begin again.

*Integrity.* A file is only found different while Git lists it (`ComparedInv`).
What users submit behind the check either brings a content that Git cannot have
yet (`KnownContents`) or takes the file back to one it had before, which is the
rollback the property names (`StaysDifferent`); the sync, which alone could remove the
difference from the side of Git, does not work during a comparison nor while the
breaker is open (`OpenInv`).

*MultiStream.* The events of the common queue are due, and each comes with all
the older ones of its stream that are due (`EventsInv`); the cut and the end of a
round at a failure keep this, so a checkpoint never skips one. The commits of a
stream's rows are a chain up to the checkpoint, and a kill leaves at most one
more on top of it (`RowsInv`), which is what the next attempt records again; after an
`update-ref` that failed unseen the branch is somewhere below, until the next
one that succeeds puts it on the whole chain. For
`MergesHaveTheirSource` the queue also has every older due event of all the streams
that was there when the round began.

*InitialImport.* The queue holds exactly what is enqueued and not taken, in
order, then the sentinel (`QueueInv`), whatever order the workers end in. The
main thread has written every real changelist it has taken, but for the one in
work (`MainInv`), and what was written is finished, lost, or in the running
process (`WrittenInv`); a checkpoint comes when nothing is in the process.

*Operations.* Every commit has, before each of its changelists, all the older ones
that were not left out (`Whole`, by `WholeBut`); so have those in the rows and
checkpoints of the database and of its backup (`GoodDB`). What a step leaves out
goes into `skipped` as it happens, so a branch that has the checkpoint's changelist has all
older ones but these. `verify_consistency` gives this to the service at start
(`ServiceInv`). A start that compares nothing, because the stream is not registered,
and an exchange of the repository take it away from service and command alike, until
a start compares again: hence `~unchecked` in `ServiceInv` and `BranchInv`. A command may
work with a checkpoint ahead of the branch, but only while the service is down
(`Behind`), and then its check finds it (`CommandInv` has its place).

*Content.* One changelist is in work at a time, and row and checkpoint are one
write (`OneAtATime`). What was extracted is what the changelist does
(`ExtractedIsChange`), a recorded commit is the stream as of the checkpoint but for
what it has lost (`RecordedIsView`), and the edited tree of the one is the view of
the other (`EditedMirrors`), also when it is made on an empty base, which only adds to
`lost` (`BaseFacts`, `NewTreeMirrors`). Every pointer has its object, and a push of
the service follows an upload of all pointers of the branch, those included that
other pushes have published `ahead` (`ObjectsInv`).

Only model-checked: liveness, which needs `ENABLED` and is out of the prover's
reach (`SyncedUnlessNested`, `SubmittedUnlessRefused`, `DamageIsNoticed`,
`OpenIsAnnounced`, `EveryEventTried`, `SyncedUnlessStuck`, `EverythingImported` with
the absence of deadlocks, `RepairWorks`), and the
configurations that the hypotheses above leave out. Every invariant, action property
and refinement that a passing run checks is proved.

## 5. Plan

Done: all modules of section 2, and the proofs of their safety properties. Next,
in this order:

1. `MultiStreamImporter`, as a second importer with one fast-import per stream.
2. The normalisation of conflict paths, as a pure function.
3. The pushes of several streams, with the strategies of `ForwardSync` per stream.

## 6. Not modelled

* A host crash that loses SQLite transactions (`synchronous=NORMAL`): the
  process dies, the host does not.
* The pushes of several streams; the dry run and the freeze of a cutover; symbolic
  links and names that differ only in case.
* Operation without a remote: a push is then a no-op that reports success.
* Authors, committers, time stamps and messages of commits; bytes of files.
* `services/multi_stream_importer.py`: planned.
* The mapping of users (a lookup with a plugin), the bodies of MD5 and pointer
  parsing, the daily report and the texts of alerts, pack tuning.
* HTTP API, command line, dialogues, configuration parsing, provisioning of
  hosting services, preflight and import preview: output, one-shot calls or
  reports that the synchronisation does not read back.
