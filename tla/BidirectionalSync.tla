-------------------------- MODULE BidirectionalSync --------------------------
(***************************************************************************)
(* One stream whose direction is "bidirectional" or "git_to_p4": the loop   *)
(* of SyncOrchestrator with the conflict check, the forward sync and the    *)
(* reverse sync (GitChangeDetector, ConflictDetector, ReverseCommitBuilder, *)
(* P4Submitter), while P4 users submit and developers push.                *)
(*                                                                         *)
(* A change is <<"p4", n>>, made by changelist n, or <<"dev", k>>, made by  *)
(* the k-th commit a developer pushed.  A commit is the sequence of the     *)
(* changes on its first-parent chain; a prefix is an ancestor.  A change    *)
(* writes or deletes one file, or touches none: the merge commits of          *)
(* developers, for which git diff-tree lists nothing.                       *)
(*                                                                         *)
(* Module ForwardSync looks into the forward sync write by write; here one  *)
(* changelist (commit, row, checkpoint) is one step, push apart, and when a *)
(* batch is pushed is left open.  A remote is configured, the stream is not *)
(* in stream_registry, the circuit breaker stays closed, SQLite works.      *)
(* Left out: what users are mapped to, LFS, alerts.                        *)
(***************************************************************************)
EXTENDS Integers, FiniteSets, SequencesExt

CONSTANTS
    Direction,             \* "bidirectional" or "git_to_p4"
    Backend,               \* git.backend: "pygit2" or "cli"
    Files,                 \* what changes touch
    NoFile,                \* what a merge commit touches
    Quoted,                \* those of Files whose names git diff-tree quotes
    Merges,                \* do developers push merge commits?
    Imported,              \* has an initial import mirrored the first changelist?
    PushAfterEveryCommit,  \* sync.push_after_every_commit
    BatchSize,             \* sync.batch_size
    LogLimit,              \* max_count of get_log_after
    Faults,                \* may P4, Git or the remote fail for reasons of their own?
    MaxUser,               \* bound: changelists P4 users submit
    MaxDev,                \* bound: commits developers push
    MaxDeletes,            \* bound: changes that delete their file
    MaxAccidents           \* bound: see accidents

ASSUME BidirectionalSyncAssumption ==
    /\ Direction \in {"bidirectional", "git_to_p4"}
    /\ Backend \in {"pygit2", "cli"}
    /\ NoFile \notin Files /\ Quoted \subseteq Files
    /\ Merges \in BOOLEAN
    /\ Imported \in BOOLEAN
    /\ PushAfterEveryCommit \in BOOLEAN
    /\ BatchSize \in Nat \ {0}
    /\ LogLimit \in Nat \ {0}
    /\ Faults \in BOOLEAN
    /\ MaxUser \in Nat /\ MaxDev \in Nat /\ MaxDeletes \in Nat /\ MaxAccidents \in Nat
    /\ Imported => MaxUser > 0

\* Each accident repeats at most one submit, so this bound is never in the way.
MaxCL == MaxUser + MaxDev + MaxAccidents

CL == 1..MaxCL
Dev == 1..MaxDev
Change == ({"p4"} \X CL) \cup ({"dev"} \X Dev)
Commit == Seq(Change)
NoCommit == <<>>

VARIABLES
    depot,          \* P4: file and GitCommit marker (0 for none) of each changelist
    pushed,         \* what each developer commit touches
    deleting,       \* the changes of users and developers that delete their file
    origin,         \* refs/heads/<branch> of the remote
    conflictHeads,  \* remote: changelists n with a branch conflict/<branch>/CL<n>
    tracking,       \* refs/remotes/origin/<branch>
    conflictTracking,  \* the remote-tracking refs of the conflict branches
    main,           \* refs/heads/<branch> of the local repository
    conflictRefs,   \* the local conflict branches
    lastCl,         \* sync_state.last_cl
    commitSha,      \* cl_commit_map, both directions
    lastReverse,    \* reverse_sync_state.last_commit_sha
    conflict,       \* conflict_state: n of the recorded conflict branch, 0 for no row
    pc,             \* where the loop is
    last,           \* end of the batch the forward sync polled
    primary,        \* primary_cl of the conflict being handled
    newCommits,     \* what the reverse sync has still to submit: places on tracking
    submitted,      \* submitted_cl
    accidents       \* times the process was killed or the answer to a submit lost

devVars == <<pushed, deleting>>
remoteVars == <<origin, conflictHeads>>
trackingVars == <<tracking, conflictTracking>>
localVars == <<main, conflictRefs>>
forwardVars == <<lastCl, last>>
reverseVars == <<lastReverse, newCommits, submitted>>
vars == <<depot, devVars, remoteVars, trackingVars, localVars, forwardVars,
          commitSha, reverseVars, conflict, primary, pc, accidents>>

PC == {"down", "idle", "check", "poll", "forward", "push", "tally", "refetch",
       "detect", "branch", "pushbranch", "recordconflict",
       "submit", "record", "advance"}

TypeOK ==
    /\ depot \in Seq([file : Files, git : 0..MaxDev])
    /\ Len(depot) <= MaxCL
    /\ pushed \in Seq(Files \cup {NoFile}) /\ Len(pushed) <= MaxDev
    /\ deleting \subseteq Change
    /\ origin \in Commit /\ tracking \in Commit /\ main \in Commit
    /\ conflictHeads \subseteq CL /\ conflictTracking \subseteq CL
    /\ conflictRefs \subseteq CL
    /\ lastCl \in {0} \cup CL /\ last \in {0} \cup CL
    /\ commitSha \in [CL -> Commit]
    /\ lastReverse \in Commit
    /\ conflict \in {0} \cup CL /\ primary \in {0} \cup CL
    /\ newCommits \subseteq 1..Len(tracking)
    /\ submitted \in {0} \cup CL
    /\ pc \in PC
    /\ accidents \in 0..MaxAccidents

\* An initial import leaves row, checkpoint and branch of what it imported.
Init ==
    /\ IF Imported
       THEN /\ \E f \in Files : depot = <<[file |-> f, git |-> 0]>>
            /\ origin = <<<<"p4", 1>>>>
            /\ lastCl = 1
       ELSE depot = <<>> /\ origin = NoCommit /\ lastCl = 0
    /\ pushed = <<>> /\ deleting = {}
    /\ tracking = origin /\ main = origin
    /\ conflictHeads = {} /\ conflictTracking = {} /\ conflictRefs = {}
    /\ last = 0
    /\ commitSha = [n \in CL |-> IF n = lastCl THEN origin ELSE NoCommit]
    /\ lastReverse = NoCommit /\ newCommits = {} /\ submitted = 0
    /\ conflict = 0 /\ primary = 0
    /\ pc = "down"
    /\ accidents = 0

-----------------------------------------------------------------------------
(* P4 users, developers, and the death of the process.                      *)

FromUser(n) == depot[n].git = 0
UserChangelists == {n \in 1..Len(depot) : FromUser(n)}

\* The change that a changelist brings, and the file that a change touches.
ChangeOf(n) == IF FromUser(n) THEN <<"p4", n>> ELSE <<"dev", depot[n].git>>
Touched(e) == IF e[1] = "p4" THEN depot[e[2]].file ELSE pushed[e[2]]

\* P4 has revisions of the file, and the newest is not a deletion.
RevisionsOf(f) == {n \in 1..Len(depot) : depot[n].file = f}
InP4Head(f) ==
    \E n \in RevisionsOf(f) : ChangeOf(n) \notin deleting /\ \A m \in RevisionsOf(f) : m <= n

\* The remote branch has the file.
InGitHead(f) ==
    \E i \in 1..Len(origin) :
        /\ Touched(origin[i]) = f /\ origin[i] \notin deleting
        /\ \A j \in (i + 1)..Len(origin) : Touched(origin[j]) # f

\* A new change may delete a file that is there.
WriteOrDelete(e, there) ==
    \/ UNCHANGED deleting
    \/ there /\ Cardinality(deleting) < MaxDeletes /\ deleting' = deleting \cup {e}

Submit(f) ==
    /\ Cardinality(UserChangelists) < MaxUser
    /\ Len(depot) < MaxCL
    /\ depot' = Append(depot, [file |-> f, git |-> 0])
    /\ WriteOrDelete(<<"p4", Len(depot) + 1>>, InP4Head(f))
    /\ UNCHANGED <<pushed, remoteVars, trackingVars, localVars, forwardVars, commitSha,
                   reverseVars, conflict, primary, pc, accidents>>

\* The remote takes a developer's push only on top of its branch.
Push(f) ==
    /\ Len(pushed) < MaxDev
    /\ pushed' = Append(pushed, f)
    /\ origin' = Append(origin, <<"dev", Len(pushed) + 1>>)
    /\ WriteOrDelete(<<"dev", Len(pushed) + 1>>, InGitHead(f))
    /\ UNCHANGED <<depot, conflictHeads, trackingVars, localVars, forwardVars, commitSha,
                   reverseVars, conflict, primary, pc, accidents>>

DeleteConflictBranch(n) ==
    /\ n \in conflictHeads
    /\ conflictHeads' = conflictHeads \ {n}
    /\ UNCHANGED <<depot, devVars, origin, trackingVars, localVars, forwardVars, commitSha,
                   reverseVars, conflict, primary, pc, accidents>>

\* Whatever the loop was about to do is forgotten.
Forget == last' = 0 /\ primary' = 0 /\ newCommits' = {} /\ submitted' = 0

Crash ==
    /\ pc # "down"
    /\ accidents < MaxAccidents
    /\ accidents' = accidents + 1
    /\ pc' = "down"
    /\ Forget
    /\ UNCHANGED <<depot, devVars, remoteVars, trackingVars, localVars, lastCl, commitSha,
                   lastReverse, conflict>>

\* The round ends; the loop sleeps and starts over.
EndRound == pc' = "idle" /\ Forget

-----------------------------------------------------------------------------
(* Git.                                                                     *)

\* Wrong: a push would overwrite what developers pushed.
PushForced == main # NoCommit /\ origin' = main /\ tracking' = main

\* git push of the branch: without --force, so the remote must fast-forward.
PushAccepted == main # NoCommit /\ IsPrefix(origin, main)

PushBranch == PushAccepted /\ origin' = main /\ tracking' = main

\* git fetch, without --prune: a tracking ref stays when its branch is deleted.
FetchRemote ==
    /\ tracking' = origin
    /\ conflictTracking' = conflictTracking \cup conflictHeads

\* Retrying the pushes that startup finds pending: the branch is pushed or not.
Start ==
    /\ pc = "down"
    /\ pc' = "idle"
    /\ \/ UNCHANGED <<origin, tracking>>
       \/ PushBranch /\ \E n \in CL : commitSha[n] # NoCommit
    /\ UNCHANGED <<depot, devVars, conflictHeads, conflictTracking, localVars, forwardVars,
                   commitSha, reverseVars, conflict, primary, accidents>>

-----------------------------------------------------------------------------
(* What is new on either side.                                              *)

BatchEnd ==
    IF lastCl + BatchSize <= Len(depot) THEN lastCl + BatchSize ELSE Len(depot)

\* _collect_p4_changes_with_files: one batch, without the reverse sync's own.
P4Changes == {n \in (lastCl + 1)..BatchEnd : FromUser(n)}

CommitAt(i) == SubSeq(tracking, 1, i)

FromDeveloper(i) == tracking[i][1] = "dev"

\* get_commit_sha_by_sha: some row of cl_commit_map names the commit.
Recorded(c) == \E n \in CL : commitSha[n] = c

\* Wrong: rows would be recorded and never consulted.
IsNewUnrecorded(i) == FromDeveloper(i)

\* Not a commit of the forward sync (P4CL trailer), and not yet in a row.
IsNew(i) == FromDeveloper(i) /\ ~Recorded(CommitAt(i))

\* git log <last_reverse>..origin/<branch> --reverse --max-count=<LogLimit>: git
\* cuts the list before it reverses it, so the newest are kept.
LogAfter ==
    {i \in 1..Len(tracking) : i > Len(lastReverse) /\ i > Len(tracking) - LogLimit}

NewCommits == {i \in LogAfter : IsNew(i)}

\* get_commit_files: without --root git diff-tree lists nothing for the first commit of
\* all; a name with unusual bytes it quotes, then git show does not find the file, and
\* the list goes without it.
FileOf(i) ==
    IF i = 1 \/ pushed[tracking[i][2]] \in Quoted THEN NoFile ELSE pushed[tracking[i][2]]

IsOldest(i, S) == i \in S /\ \A j \in S : i <= j

\* Wrong: changes on both sides would conflict, whatever they touch.
ConflictingAny == P4Changes # {} /\ NewCommits # {}

\* ConflictDetector.detect: some file is changed on both sides.  A git show that fails
\* leaves the file of a commit out, so a conflict may be missed.
Conflicting ==
    \E n \in P4Changes, i \in NewCommits : depot[n].file = FileOf(i)
NoneSeen == ~Conflicting \/ Faults

\* The CLI backend passes a NUL byte to git log and raises ValueError.
LogReadable == Backend = "pygit2"

-----------------------------------------------------------------------------
(* The round: fetch, and the conflict check before the forward sync.         *)

\* While a conflict is recorded nothing else happens.
CheckConflictResolved ==
    /\ pc = "idle"
    /\ conflict # 0
    /\ FetchRemote
    /\ conflict' = IF conflict \in conflictTracking' THEN conflict ELSE 0
    /\ UNCHANGED <<depot, devVars, remoteVars, localVars, forwardVars, commitSha,
                   reverseVars, primary, pc, accidents>>

Fetch ==
    /\ (pc = "idle" /\ conflict = 0) \/ pc = "refetch"
    /\ FetchRemote
    /\ pc' = IF pc = "idle" /\ Direction = "bidirectional" THEN "check" ELSE "detect"
    /\ UNCHANGED <<depot, devVars, remoteVars, localVars, forwardVars, commitSha,
                   reverseVars, conflict, primary, accidents>>

\* Wrong: the loop would fetch before it looks for a recorded conflict.
FetchFailsInConflict ==
    /\ Faults
    /\ \/ pc = "idle" /\ Direction = "bidirectional" /\ pc' = "poll"
       \/ pc = "refetch" /\ pc' = "idle"
    /\ UNCHANGED <<depot, devVars, remoteVars, trackingVars, localVars, forwardVars,
                   commitSha, reverseVars, conflict, primary, accidents>>

\* Before the forward sync a failed fetch lets the round go on, unchecked; before
\* the reverse sync it ends the round.
FetchFails ==
    /\ Faults
    /\ \/ pc = "idle" /\ conflict = 0 /\ Direction = "bidirectional" /\ pc' = "poll"
       \/ pc = "refetch" /\ pc' = "idle"
    /\ UNCHANGED <<depot, devVars, remoteVars, trackingVars, localVars, forwardVars,
                   commitSha, reverseVars, conflict, primary, accidents>>

\* The primary changelist names the conflict branch.
StartConflict ==
    /\ Conflicting
    /\ \E n \in P4Changes : IsOldest(n, P4Changes) /\ primary' = n
    /\ pc' = "branch"

CheckConflicts ==
    /\ pc = "check"
    /\ LogReadable
    /\ StartConflict \/ (NoneSeen /\ pc' = "poll" /\ UNCHANGED primary)
    /\ UNCHANGED <<depot, devVars, remoteVars, trackingVars, localVars, forwardVars,
                   commitSha, reverseVars, conflict, accidents>>

\* The exception ends the round: see the except branch of the loop.
RoundAborts ==
    /\ pc \in {"check", "poll", "detect"}
    /\ Faults \/ (pc # "poll" /\ ~LogReadable)
    /\ EndRound
    /\ UNCHANGED <<depot, devVars, remoteVars, trackingVars, localVars, lastCl, commitSha,
                   lastReverse, conflict, accidents>>

-----------------------------------------------------------------------------
(* The forward sync: _poll_and_sync.                                        *)

Poll ==
    /\ pc = "poll"
    /\ last' = BatchEnd
    /\ pc' = IF lastCl < Len(depot) THEN "forward" ELSE "refetch"
    /\ UNCHANGED <<depot, devVars, remoteVars, trackingVars, localVars, lastCl, commitSha,
                   reverseVars, conflict, primary, accidents>>

\* The changelist in work.
Current == lastCl + 1

\* A changelist the reverse sync submitted moves the checkpoint only.
SkipMarker ==
    /\ pc = "forward"
    /\ lastCl < last
    /\ ~FromUser(Current)
    /\ lastCl' = Current
    /\ UNCHANGED <<depot, devVars, remoteVars, trackingVars, localVars, last, commitSha,
                   reverseVars, conflict, primary, pc, accidents>>

\* The row of last_cl: the commit of a developer when last_cl is a marker.
ParentSha == IF lastCl > 0 THEN commitSha[lastCl] ELSE NoCommit

\* The commit of the changelist in work.
Built == Append(ParentSha, <<"p4", Current>>)

CommitAccepted == Backend = "pygit2" => main \in {NoCommit, ParentSha}

\* Wrong: the GitCommit marker would not be looked at.
BuildCommitOfMarker ==
    /\ pc = "forward"
    /\ lastCl < last
    /\ CommitAccepted
    /\ main' = Built
    /\ commitSha' = [commitSha EXCEPT ![Current] = Built]
    /\ lastCl' = Current
    /\ pc' = IF PushAfterEveryCommit THEN "push" ELSE "forward"
    /\ UNCHANGED <<depot, devVars, remoteVars, trackingVars, conflictRefs, last,
                   reverseVars, conflict, primary, accidents>>

\* The exit code of git update-ref is not looked at: the branch may stay behind.
MoveBranch(commit) ==
    main' = commit \/ (Backend = "cli" /\ Faults /\ UNCHANGED main)

BuildCommit ==
    /\ pc = "forward"
    /\ lastCl < last
    /\ FromUser(Current)
    /\ CommitAccepted
    /\ MoveBranch(Built)
    /\ commitSha' = [commitSha EXCEPT ![Current] = Built]
    /\ lastCl' = Current
    /\ pc' = IF PushAfterEveryCommit THEN "push" ELSE "forward"
    /\ UNCHANGED <<depot, devVars, remoteVars, trackingVars, conflictRefs, last,
                   reverseVars, conflict, primary, accidents>>

\* A changelist fails and the rest of the batch is left.
SyncError ==
    /\ pc = "forward"
    /\ lastCl < last
    /\ Faults \/ (FromUser(Current) /\ ~CommitAccepted)
    /\ pc' = "tally"
    /\ UNCHANGED <<depot, devVars, remoteVars, trackingVars, localVars, forwardVars,
                   commitSha, reverseVars, conflict, primary, accidents>>

PushCommit ==
    /\ pc = "push"
    /\ \/ PushBranch
       \/ (Faults \/ ~PushAccepted) /\ UNCHANGED <<origin, tracking>>
    /\ pc' = "forward"
    /\ UNCHANGED <<depot, devVars, conflictHeads, conflictTracking, localVars, forwardVars,
                   commitSha, reverseVars, conflict, primary, accidents>>

\* The batch is over; without a push per commit, this may be when to push.
EndBatch ==
    /\ pc = "tally" \/ (pc = "forward" /\ lastCl = last)
    /\ \/ UNCHANGED <<origin, tracking>>
       \/ ~PushAfterEveryCommit /\ PushBranch
    /\ pc' = "refetch"
    /\ UNCHANGED <<depot, devVars, conflictHeads, conflictTracking, localVars, forwardVars,
                   commitSha, reverseVars, conflict, primary, accidents>>

-----------------------------------------------------------------------------
(* A conflict: create_conflict_branch.  Any failure ends the round.         *)

\* The branch starts at the local head and gets one commit.  libgit2 refuses the
\* commit when an earlier attempt has made it already.
BranchCreatable == main # NoCommit /\ primary \notin conflictRefs

CreateConflictBranch ==
    /\ pc = "branch"
    /\ BranchCreatable
    /\ conflictRefs' = conflictRefs \cup {primary}
    /\ pc' = "pushbranch"
    /\ UNCHANGED <<depot, devVars, remoteVars, trackingVars, main, forwardVars, commitSha,
                   reverseVars, conflict, primary, accidents>>

PushConflictBranch ==
    /\ pc = "pushbranch"
    /\ conflictHeads' = conflictHeads \cup {primary}
    /\ conflictTracking' = conflictTracking \cup {primary}
    /\ pc' = "recordconflict"
    /\ UNCHANGED <<depot, devVars, origin, tracking, localVars, forwardVars, commitSha,
                   reverseVars, conflict, primary, accidents>>

RecordConflict ==
    /\ pc = "recordconflict"
    /\ conflict' = primary
    /\ EndRound
    /\ UNCHANGED <<depot, devVars, remoteVars, trackingVars, localVars, lastCl, commitSha,
                   lastReverse, accidents>>

ConflictFails ==
    /\ \/ pc = "branch" /\ (Faults \/ ~BranchCreatable)
       \/ pc = "pushbranch" /\ Faults
    /\ EndRound
    /\ UNCHANGED <<depot, devVars, remoteVars, trackingVars, localVars, lastCl, commitSha,
                   lastReverse, conflict, accidents>>

-----------------------------------------------------------------------------
(* The reverse sync: _poll_reverse_sync behind its fetch.                   *)

DetectNewCommits ==
    /\ pc = "detect"
    /\ LogReadable
    /\ \/ NewCommits = {} /\ pc' = "idle" /\ UNCHANGED <<newCommits, primary>>
       \/ Direction = "bidirectional" /\ StartConflict /\ UNCHANGED newCommits
       \/ /\ NewCommits # {}
          /\ Direction = "bidirectional" => NoneSeen
          /\ newCommits' = NewCommits
          /\ pc' = "submit"
          /\ UNCHANGED primary
    /\ UNCHANGED <<depot, devVars, remoteVars, trackingVars, localVars, forwardVars,
                   commitSha, lastReverse, submitted, conflict, accidents>>

\* What is tried next.
InHand(i) == IsOldest(i, newCommits)

\* _apply_changes: p4 fstat also finds a file whose newest revision is a deletion, and
\* such a file P4 opens neither for edit nor for delete; p4 add is for a file without
\* revisions, of which a deletion opens nothing.
P4Opens(e, f) == InP4Head(f) \/ (RevisionsOf(f) = {} /\ e \notin deleting)

\* P4 refuses a changelist without files.
Refused ==
    \E i \in newCommits :
        InHand(i) /\ (FileOf(i) = NoFile \/ ~P4Opens(tracking[i], FileOf(i)))

SubmitTakesEffect ==
    /\ pc = "submit"
    /\ ~Refused
    /\ Len(depot) < MaxCL
    /\ \E i \in newCommits :
           /\ InHand(i)
           /\ depot' = Append(depot, [file |-> FileOf(i), git |-> tracking[i][2]])

\* Wrong: the number would be guessed before the submit assigns it.
SubmitCommitNextNumber ==
    /\ SubmitTakesEffect
    /\ submitted' = Len(depot') + 1
    /\ pc' = "record"
    /\ UNCHANGED <<devVars, remoteVars, trackingVars, localVars, forwardVars, commitSha,
                   lastReverse, newCommits, conflict, primary, accidents>>

SubmitCommit ==
    /\ SubmitTakesEffect
    /\ submitted' = Len(depot')
    /\ pc' = "record"
    /\ UNCHANGED <<devVars, remoteVars, trackingVars, localVars, forwardVars, commitSha,
                   lastReverse, newCommits, conflict, primary, accidents>>

\* The connection breaks behind the submit: the retry of _auto_reconnect raises,
\* since the pending changelist is gone, and the loop over the commits ends.
SubmitAnswerLost ==
    /\ SubmitTakesEffect
    /\ accidents < MaxAccidents
    /\ accidents' = accidents + 1
    /\ EndRound
    /\ UNCHANGED <<devVars, remoteVars, trackingVars, localVars, lastCl, commitSha,
                   lastReverse, conflict>>

NextCommit ==
    /\ \E i \in newCommits : InHand(i) /\ newCommits' = newCommits \ {i}
    /\ pc' = IF newCommits' = {} THEN "idle" ELSE "submit"

\* Wrong: the commit would be passed over and the next one tried.
SubmitFailsAndGoesOn ==
    /\ pc = "submit"
    /\ Faults \/ Refused
    /\ NextCommit
    /\ UNCHANGED <<depot, devVars, remoteVars, trackingVars, localVars, forwardVars,
                   commitSha, lastReverse, submitted, conflict, primary, accidents>>

SubmitFails ==
    /\ pc = "submit"
    /\ Faults \/ Refused
    /\ EndRound
    /\ UNCHANGED <<depot, devVars, remoteVars, trackingVars, localVars, lastCl, commitSha,
                   lastReverse, conflict, accidents>>

\* Wrong: the row would carry the number the depot has reached by now.
RecordReverseLatest ==
    /\ pc = "record"
    /\ \E i \in newCommits :
           InHand(i) /\ commitSha' = [commitSha EXCEPT ![Len(depot)] = CommitAt(i)]
    /\ pc' = "advance"
    /\ UNCHANGED <<depot, devVars, remoteVars, trackingVars, localVars, forwardVars,
                   reverseVars, conflict, primary, accidents>>

RecordReverse ==
    /\ pc = "record"
    /\ \E i \in newCommits :
           InHand(i) /\ commitSha' = [commitSha EXCEPT ![submitted] = CommitAt(i)]
    /\ pc' = "advance"
    /\ UNCHANGED <<depot, devVars, remoteVars, trackingVars, localVars, forwardVars,
                   reverseVars, conflict, primary, accidents>>

\* Wrong: the checkpoint would jump to the head of the branch.
UpdateLastProcessedToHead ==
    /\ pc = "advance"
    /\ lastReverse' = tracking
    /\ NextCommit
    /\ UNCHANGED <<depot, devVars, remoteVars, trackingVars, localVars, forwardVars,
                   commitSha, submitted, conflict, primary, accidents>>

UpdateLastProcessed ==
    /\ pc = "advance"
    /\ \E i \in newCommits : InHand(i) /\ lastReverse' = CommitAt(i)
    /\ NextCommit
    /\ UNCHANGED <<depot, devVars, remoteVars, trackingVars, localVars, forwardVars,
                   commitSha, submitted, conflict, primary, accidents>>

-----------------------------------------------------------------------------
PushedFiles == IF Merges THEN Files \cup {NoFile} ELSE Files

Environment ==
    \/ \E f \in Files : Submit(f)
    \/ \E f \in PushedFiles : Push(f)
    \/ \E n \in CL : DeleteConflictBranch(n)
    \/ Crash

Checking == CheckConflictResolved \/ Fetch \/ FetchFails \/ CheckConflicts \/ RoundAborts

ForwardSync == Poll \/ SkipMarker \/ BuildCommit \/ SyncError \/ PushCommit \/ EndBatch

ConflictHandling ==
    CreateConflictBranch \/ PushConflictBranch \/ RecordConflict \/ ConflictFails

ReverseSync ==
    \/ DetectNewCommits
    \/ SubmitCommit
    \/ SubmitAnswerLost
    \/ SubmitFails
    \/ RecordReverse
    \/ UpdateLastProcessed

Next == Environment \/ Start \/ Checking \/ ForwardSync \/ ConflictHandling \/ ReverseSync

Spec == Init /\ [][Next]_vars

(***************************************************************************)
(* The supervisor restarts the process and the loop keeps running (weak     *)
(* fairness); P4 and the remote do not fail for ever (strong fairness of    *)
(* the calls that are tried again in every round).                         *)
(***************************************************************************)
Fairness ==
    /\ WF_vars(Start) /\ WF_vars(Checking) /\ WF_vars(ForwardSync) /\ WF_vars(ConflictHandling)
    /\ WF_vars(ReverseSync)
    /\ SF_vars(Fetch) /\ SF_vars(CheckConflicts) /\ SF_vars(DetectNewCommits)
    /\ SF_vars(Poll) /\ SF_vars(BuildCommit) /\ SF_vars(PushCommit)
    /\ SF_vars(CreateConflictBranch) /\ SF_vars(PushConflictBranch)
    /\ SF_vars(SubmitCommit) /\ SF_vars(RecordReverse) /\ SF_vars(UpdateLastProcessed)

FairSpec == Spec /\ Fairness
=============================================================================
