-------------------------- MODULE ForwardSyncProps --------------------------
(***************************************************************************)
(* What the forward sync must guarantee, whatever is submitted and whenever *)
(* the process dies, P4 or SQLite raises, or the remote refuses a push.     *)
(***************************************************************************)
EXTENDS ForwardSync

\* The configurations in which branch and database agree: libgit2 checks the
\* parent of every commit and fails if the branch does not move; the CLI backend
\* does neither, so that it needs a git update-ref that never fails and, without
\* skipped changelists, is always given the right parent.
SafeConfig == Backend = "pygit2" \/ (ClKinds \subseteq CommitKinds /\ ~RefFails)

Mirrored(n) == \E i \in 1..Len(main) : main[i] = n

(***************************************************************************)
(* README.md:7, "Changelist -> Commit 1:1": the branch holds one commit for *)
(* every file changelist up to last_cl, in order, none twice, and nothing   *)
(* else but possibly the changelist whose commit a crash or an error        *)
(* separated from its database rows.                                       *)
(***************************************************************************)
OneCommitPerChangelist ==
    /\ \A i, j \in 1..Len(main) : i < j => main[i] < main[j]
    /\ \A i \in 1..Len(main) : /\ main[i] <= Len(depot)
                               /\ main[i] <= lastCl + 1
                               /\ depot[main[i]] \in CommitKinds
    /\ \A n \in 1..lastCl : depot[n] \in CommitKinds => Mirrored(n)

(***************************************************************************)
(* A row of cl_commit_map names the commit of its own changelist, and that  *)
(* commit is still reachable from the branch.                              *)
(***************************************************************************)
MapMatchesHistory ==
    \A n \in CL :
        commitSha[n] # NoCommit =>
            /\ IsPrefix(commitSha[n], main)
            /\ commitSha[n][Len(commitSha[n])] = n

(***************************************************************************)
(* last_cl never runs ahead of cl_commit_map: every file changelist it      *)
(* covers has its row, so a restart neither skips nor forgets a commit.     *)
(***************************************************************************)
CheckpointBacked ==
    \A n \in 1..lastCl : depot[n] \in CommitKinds => commitSha[n] # NoCommit

(***************************************************************************)
(* A row marked "pushed" is never wrong: its commit is in the remote.       *)
(***************************************************************************)
PushedIsPublished ==
    \A n \in CL : pushStatus[n] = "pushed" => IsPrefix(commitSha[n], origin)

(***************************************************************************)
(* No history has a hole: a commit that the branch, the remote or a row     *)
(* names holds every changelist with files up to its own, in order, and a   *)
(* row names a commit of its own changelist.  The parent of a commit is     *)
(* looked up by number, so this stands even when git update-ref has left    *)
(* the branch behind its rows; with the CLI backend it ends at the first     *)
(* changelist that is skipped, whose successor gets no parent.              *)
(***************************************************************************)
IsWhole(c, d) ==
    /\ \A i, j \in 1..Len(c) : i < j => c[i] < c[j]
    /\ \A i \in 1..Len(c) : c[i] <= Len(d) /\ d[c[i]] \in CommitKinds
    /\ \A m \in 1..c[Len(c)] : d[m] \in CommitKinds => \E i \in 1..Len(c) : c[i] = m

WholeRow(n) == IsWhole(commitSha[n], depot) /\ commitSha[n][Len(commitSha[n])] = n

HistoriesAreWhole ==
    /\ main # NoCommit => IsWhole(main, depot)
    /\ origin # NoCommit => IsWhole(origin, depot)
    /\ \A n \in CL : commitSha[n] # NoCommit => WholeRow(n)

NothingSkipped == \A n \in 1..Len(depot) : depot[n] \in CommitKinds
HistoryIsWhole == Backend = "pygit2" \/ NothingSkipped => HistoriesAreWhole

\* What the State DB says of Git is so, through failing writes, skipped changelists
\* and a death between any two of record_commit, set_last_synced_cl and
\* update_push_status: the three invariants above.
DatabaseAgrees == MapMatchesHistory /\ CheckpointBacked /\ PushedIsPublished

(***************************************************************************)
(* A changelist that fails stops the batch: nothing later is even tried     *)
(* before it, so an error is never recorded past the head of the queue.     *)
(***************************************************************************)
ErrorsOnlyAtHead == \A n \in CL : retryCount[n] > 0 => n <= lastCl + 1

(***************************************************************************)
(* The loop implements the abstract mirror: every step submits one          *)
(* changelist, puts the oldest unmirrored one on top of the branch, brings  *)
(* the remote up to date, or is invisible.  In particular neither the       *)
(* branch nor the remote is ever rewritten.                                 *)
(***************************************************************************)
M == INSTANCE Mirror WITH mainline <- main, published <- origin

ImplementsMirror == M!MirrorSpec

(***************************************************************************)
(* Every submitted changelist is dealt with: the checkpoint reaches it.     *)
(* (Phase3-Production.md:330-333: after a crash the worker resumes from the *)
(* last changelist of the State DB and operates normally.)                  *)
(***************************************************************************)
EventuallySynced == \A n \in CL : n <= Len(depot) ~> lastCl >= n

(***************************************************************************)
(* So it is with the CLI backend, whose commits nothing refuses but git     *)
(* mktree: a changelist stays behind only if it is one, or is behind one,   *)
(* with a file in a directory.                                             *)
(***************************************************************************)
SyncedUnlessNested ==
    \A n \in CL : n <= Len(depot) ~>
        \/ lastCl >= n
        \/ Backend = "cli" /\ \E m \in 1..Len(depot) : m <= n /\ depot[m] = "nested"

(***************************************************************************)
(* 05-Sync-Mechanism.md:237-239: a batch push happens when enough commits   *)
(* are unpushed or when push_interval_seconds have passed.  So a commit     *)
(* does not stay local for ever.                                           *)
(***************************************************************************)
EventuallyPublished == \A n \in CL : Mirrored(n) ~> \E i \in 1..Len(origin) : origin[i] = n

(***************************************************************************)
(* Phase3-Production.md:386: "pending" is a commit that exists only         *)
(* locally.  So the row of a published commit does not stay pending.        *)
(***************************************************************************)
PendingIsLocal ==
    \A n \in CL : (pushStatus[n] = "pending" /\ IsPrefix(commitSha[n], origin))
                      ~> pushStatus[n] = "pushed"

(***************************************************************************)
(* 06-Operations-Guide.md, consistency check at startup: the service        *)
(* refuses to start when Git and the State DB disagree.  So it does start   *)
(* when the branch tip is the newest commit the database knows of and the   *)
(* checkpoint has reached it.                                              *)
(***************************************************************************)
InSyncStarts ==
    \A n \in 1..lastCl :
        /\ pc = "down"
        /\ commitSha[n] = main
        /\ \A m \in CL : commitSha[m] # NoCommit => m <= n
        => VerifyConsistency

-----------------------------------------------------------------------------
(***************************************************************************)
(* The inductive invariant behind the properties above: where the process   *)
(* stands in its batch, what it holds in hand, and what a push has done.    *)
(***************************************************************************)
BatchInv ==
    /\ lastCl <= Len(depot)
    /\ pc \in {"process", "record", "advance"} => cur = lastCl + 1
    /\ pc \in InProcessing \cup {"tally", "batchpush", "markbatch"} =>
          1 <= first /\ first <= cur /\ cur <= last /\ last <= Len(depot)
    /\ pc \in {"synced", "push", "mark"} => cur = lastCl

InHandInv ==
    /\ pc = "record" => sha = main /\ main # NoCommit /\ main[Len(main)] = cur
    /\ pc = "advance" /\ depot[cur] \in CommitKinds => commitSha[cur] # NoCommit

PushInv ==
    /\ pc \in {"resumed", "mark", "markbatch"} => origin = main
    /\ \A n \in CL : commitSha[n] = NoCommit => pushStatus[n] = "none"

IInv ==
    /\ TypeOK
    /\ BatchInv
    /\ InHandInv
    /\ PushInv
    /\ OneCommitPerChangelist
    /\ MapMatchesHistory
    /\ CheckpointBacked
    /\ PushedIsPublished
    /\ ErrorsOnlyAtHead

\* What is behind HistoryIsWhole while nothing is skipped.
WholeInHand ==
    /\ pc = "record" => /\ sha # NoCommit
                        /\ IsWhole(sha, depot)
                        /\ sha[Len(sha)] = cur
    /\ pc = "advance" /\ depot[cur] \in CommitKinds => commitSha[cur] # NoCommit

WholeInv ==
    /\ TypeOK
    /\ BatchInv
    /\ WholeInHand
    /\ CheckpointBacked
    /\ HistoriesAreWhole
=============================================================================
