------------------------- MODULE ForwardSync_proofs -------------------------
EXTENDS ForwardSyncProps, SequenceTheorems, TLAPS

\* IsPrefix compares sequences element by element.
LEMMA PrefixPointwise ==
    ASSUME NEW S, NEW s \in Seq(S), NEW t \in Seq(S)
    PROVE  IsPrefix(s, t) <=> /\ Len(s) <= Len(t)
                              /\ \A i \in 1..Len(s) : s[i] = t[i]
BY DEF IsPrefix

-----------------------------------------------------------------------------
(* Type correctness needs the bounds of the batch: a batch push fills todo  *)
(* with first..last.                                                       *)

TypeAndBatch == TypeOK /\ BatchInv

\* The numeric constants are numbers.
LEMMA BoundsAreNat ==
    /\ MaxCL \in Nat /\ MaxCrashes \in Nat
    /\ BatchSize \in Nat \ {0} /\ PushBatchSize \in Nat \ {0}
    /\ ErrorRetryThreshold \in Nat \ {0}
BY ForwardSyncAssumption

\* The initial state is well typed, and no batch is in work.
LEMMA TypeAndBatchInit == Init => TypeAndBatch
BY BoundsAreNat DEF Init, TypeAndBatch, TypeOK, BatchInv, PC, InProcessing, CL, Commit,
                     NoCommit

\* The batch in work lies within the submitted changelists.
LEMMA CurInBounds ==
    ASSUME TypeOK, BatchInv,
           pc \in {"process", "record", "advance", "synced", "push", "mark", "tally",
                  "batchpush", "markbatch"}
    PROVE  /\ cur \in CL /\ first \in CL /\ last \in CL
           /\ cur \in 1..Len(depot)
<1>1. /\ 1 <= first /\ first <= cur /\ cur <= last /\ last <= Len(depot)
      /\ Len(depot) <= MaxCL /\ Len(depot) \in Nat
      /\ first \in Int /\ cur \in Int /\ last \in Int
  BY BoundsAreNat DEF TypeOK, BatchInv, InProcessing
<1> QED
  BY <1>1, BoundsAreNat DEF CL

\* The parent of the next commit is a commit or nothing.
LEMMA ParentShaType == TypeOK => ParentSha \in Commit
<1> SUFFICES ASSUME TypeOK PROVE ParentSha \in Commit
    OBVIOUS
<1>1. CASE lastCl > 0
  <2>1. lastCl \in CL
    BY <1>1, BoundsAreNat DEF TypeOK, CL
  <2> QED
    BY <1>1, <2>1 DEF TypeOK, ParentSha
<1>2. CASE ~(lastCl > 0)
  BY <1>2 DEF ParentSha, Commit, NoCommit
<1> QED
  BY <1>1, <1>2

\* Every step keeps the types.
LEMMA TypeNext == TypeOK /\ BatchInv /\ [Next]_vars => TypeOK'
<1> SUFFICES ASSUME TypeOK, BatchInv, [Next]_vars PROVE TypeOK'
    OBVIOUS
<1> USE BoundsAreNat DEF TypeOK, PC, InProcessing, p4Vars, gitVars, stateVars, mapVars, batchVars,
                         pushVars
<1>1. ASSUME NEW kind \in ClKinds, Submit(kind) PROVE TypeOK'
  BY <1>1 DEF Submit
<1>2. CASE Tick
  BY <1>2 DEF Tick
<1>3. CASE Crash
  BY <1>3 DEF Crash, Commit, NoCommit
<1>4. CASE Start
  BY <1>4 DEF Start, PendingPushes
<1>5. CASE ResumePush
  BY <1>5 DEF ResumePush, PushBranch
<1>6. CASE ResumeMark
  BY <1>6 DEF ResumeMark, UpdatePushStatus
<1>7. CASE ResumePushFails
  BY <1>7 DEF ResumePushFails
<1>8. CASE EnterLoop
  BY <1>8 DEF EnterLoop
<1>9. CASE Poll
  BY <1>9 DEF Poll, BatchEnd, FirstUnsynced
<1>10. CASE SkipMarker
  <2>1. CASE cur < last
    BY <1>10, <2>1 DEF BatchInv, SkipMarker, NextChangelist, Commit, NoCommit
  <2>2. CASE ~(cur < last)
    BY <1>10, <2>2 DEF BatchInv, SkipMarker, NextChangelist, Commit, NoCommit
  <2> QED
    BY <2>1, <2>2
<1>11. CASE SkipEmpty
  BY <1>11 DEF SkipEmpty, Commit, NoCommit
<1>12. CASE BuildCommit
  <2>1. cur \in CL /\ ParentSha \in Commit
    BY <1>12, CurInBounds, ParentShaType DEF BuildCommit
  <2>2. Append(ParentSha, cur) \in Commit
    BY <2>1 DEF Commit
  <2> QED
    BY <1>12, <2>2 DEF BuildCommit, MoveBranch
<1>13. CASE RecordCommit
  BY <1>13 DEF RecordCommit
<1>14. CASE SetLastSyncedCl
  <2>1. cur \in CL
    BY <1>14, CurInBounds DEF SetLastSyncedCl
  <2> QED
    BY <1>14, <2>1 DEF SetLastSyncedCl, CL
<1>15. CASE SyncError
  <2>1. cur \in CL
    BY <1>15, CurInBounds DEF SyncError, Raised
  <2>2. retryCount' \in [CL -> 0..ErrorRetryThreshold]
    BY <1>15, <2>1 DEF SyncError
  <2> QED
    BY <1>15, <2>2 DEF SyncError
<1>16. CASE PushCommit
  BY <1>16 DEF PushCommit, PushBranch
<1>17. CASE MarkPushed
  <2>1. pushStatus' \in [CL -> {"none", "pending", "pushed", "failed"}]
    BY <1>17 DEF MarkPushed, UpdatePushStatus
  <2>2. cur' \in 0..MaxCL /\ pc' \in PC
    BY <1>17 DEF MarkPushed, NextChangelist
  <2> QED
    BY <1>17, <2>1, <2>2 DEF MarkPushed
<1>18. CASE PushCommitFails
  <2>1. pushStatus' \in [CL -> {"none", "pending", "pushed", "failed"}]
    BY <1>18 DEF PushCommitFails, UpdatePushStatus
  <2>2. cur' \in 0..MaxCL /\ pc' \in PC
    BY <1>18 DEF PushCommitFails, NextChangelist
  <2> QED
    BY <1>18, <2>1, <2>2 DEF PushCommitFails
<1>19. CASE Tally
  BY <1>19 DEF BatchInv, Tally
<1>20. CASE BatchPush
  BY <1>20, CurInBounds DEF BatchPush, PushBranch, CL
<1>21. CASE BatchPushFails
  BY <1>21 DEF BatchPushFails
<1>22. CASE MarkBatch
  BY <1>22 DEF MarkBatch, UpdatePushStatus
<1>23. CASE BatchDone
  BY <1>23 DEF BatchDone
<1>24. CASE MaybeRunGc
  <2>1. cur' \in 0..MaxCL /\ pc' \in PC
    BY <1>24 DEF MaybeRunGc, NextChangelist
  <2> QED
    BY <1>24, <2>1 DEF MaybeRunGc
<1>25. CASE RoundAborts
  BY <1>25 DEF RoundAborts
<1>26. CASE UNCHANGED vars
  BY <1>26 DEF vars
<1> QED
  BY <1>1, <1>2, <1>3, <1>4, <1>5, <1>6, <1>7, <1>8, <1>9, <1>10, <1>11, <1>12, <1>13,
     <1>14, <1>15, <1>16, <1>17, <1>18, <1>19, <1>20, <1>21, <1>22, <1>23, <1>24, <1>25, <1>26
  DEF Next, Environment, Startup, Round, Pushing

\* Every step keeps the process's place in its batch.
LEMMA BatchNext == TypeOK /\ BatchInv /\ [Next]_vars => BatchInv'
<1> SUFFICES ASSUME TypeOK, BatchInv, [Next]_vars PROVE BatchInv'
    OBVIOUS
<1> USE BoundsAreNat
    DEF TypeOK, BatchInv, InProcessing, p4Vars, gitVars, stateVars, mapVars, batchVars, pushVars
<1>1. ASSUME NEW kind \in ClKinds, Submit(kind) PROVE BatchInv'
  BY <1>1 DEF Submit
<1>2. CASE Tick \/ Crash \/ Start \/ ResumePush \/ ResumeMark \/ ResumePushFails \/ EnterLoop
  BY <1>2 DEF Tick, Crash, Start, ResumePush, ResumeMark, ResumePushFails, EnterLoop
<1>3. CASE Poll
  BY <1>3 DEF Poll, BatchEnd, FirstUnsynced
<1>4. CASE SkipMarker \/ SkipEmpty
  <2>1. CASE SkipEmpty
    BY <2>1 DEF SkipEmpty
  <2>2. CASE SkipMarker /\ cur < last
    BY <2>2 DEF SkipMarker, NextChangelist
  <2>3. CASE SkipMarker /\ ~(cur < last)
    BY <2>3 DEF SkipMarker, NextChangelist
  <2> QED
    BY <1>4, <2>1, <2>2, <2>3
<1>5. CASE BuildCommit \/ RecordCommit \/ SyncError
  BY <1>5 DEF BuildCommit, RecordCommit, SyncError, Raised
<1>6. CASE SetLastSyncedCl
  BY <1>6 DEF SetLastSyncedCl
<1>7. CASE PushCommit
  BY <1>7 DEF PushCommit
<1>8. CASE MarkPushed \/ PushCommitFails \/ (MaybeRunGc /\ ~PushAfterEveryCommit)
  <2>1. /\ cur = lastCl /\ lastCl <= Len(depot) /\ cur <= last /\ last <= Len(depot)
        /\ 1 <= first /\ first <= cur
        /\ UNCHANGED <<depot, lastCl, first, last>> /\ NextChangelist
    BY <1>8 DEF MarkPushed, PushCommitFails, MaybeRunGc
  <2> QED
    BY <2>1 DEF NextChangelist
<1>9. CASE Tally
  BY <1>9 DEF Tally
<1>10. CASE BatchPush \/ BatchPushFails \/ MarkBatch \/ BatchDone
  BY <1>10 DEF BatchPush, BatchPushFails, MarkBatch, BatchDone
<1>11. CASE RoundAborts \/ (MaybeRunGc /\ PushAfterEveryCommit)
  BY <1>11 DEF RoundAborts, MaybeRunGc
<1>12. CASE UNCHANGED vars
  BY <1>12 DEF vars
<1> QED
  BY <1>1, <1>2, <1>3, <1>4, <1>5, <1>6, <1>7, <1>8, <1>9, <1>10, <1>11, <1>12
  DEF Next, Environment, Startup, Round, Pushing

\* Every state of the forward sync is well typed.
THEOREM TypeCorrect == Spec => []TypeOK
<1>1. TypeAndBatch /\ [Next]_vars => TypeAndBatch'
  BY TypeNext, BatchNext DEF TypeAndBatch
<1>2. TypeAndBatch => TypeOK
  BY DEF TypeAndBatch
<1> QED
  BY TypeAndBatchInit, <1>1, <1>2, PTL DEF Spec
-----------------------------------------------------------------------------
(* Commits as sequences.                                                    *)

\* A commit is a finite sequence of changelist numbers.
LEMMA CommitType ==
    ASSUME NEW s \in Commit
    PROVE  /\ Len(s) \in Nat
           /\ \A i \in 1..Len(s) : s[i] \in CL /\ s[i] \in 1..MaxCL
           /\ s = NoCommit <=> Len(s) = 0
<1>1. Len(s) \in Nat /\ \A i \in 1..Len(s) : s[i] \in CL
  BY DEF Commit
<1>2. s = <<>> <=> Len(s) = 0
  BY EmptySeq DEF Commit
<1> QED
  BY <1>1, <1>2 DEF CL, NoCommit

\* A commit on top of another holds what the other holds, and one more.
LEMMA AppendFacts ==
    ASSUME NEW s \in Commit, NEW n \in CL
    PROVE  /\ Append(s, n) \in Commit
           /\ Append(s, n) # NoCommit
           /\ Len(Append(s, n)) = Len(s) + 1
           /\ \A i \in 1..Len(s) : Append(s, n)[i] = s[i]
           /\ Append(s, n)[Len(s) + 1] = n
BY DEF Commit, NoCommit

\* Ancestry of commits, element by element.
LEMMA CommitPrefix ==
    ASSUME NEW s \in Commit, NEW t \in Commit
    PROVE  IsPrefix(s, t) <=> /\ Len(s) <= Len(t)
                              /\ \A i \in 1..Len(s) : s[i] = t[i]
BY PrefixPointwise DEF Commit

\* Every commit is its own ancestor, and nothing precedes everything.
LEMMA PrefixReflexive == \A s \in Commit : IsPrefix(s, s) /\ IsPrefix(NoCommit, s)
<1> TAKE s \in Commit
<1>1. NoCommit \in Commit /\ Len(NoCommit) = 0 /\ Len(s) \in Nat
  BY DEF Commit, NoCommit
<1> QED
  BY <1>1, CommitPrefix

\* Ancestry of commits is transitive.
LEMMA PrefixTransitive ==
    ASSUME NEW s \in Commit, NEW t \in Commit, NEW u \in Commit,
           IsPrefix(s, t), IsPrefix(t, u)
    PROVE  IsPrefix(s, u)
<1>1. Len(s) \in Nat /\ Len(t) \in Nat /\ Len(u) \in Nat
  BY CommitType
<1> QED
  BY <1>1, CommitPrefix

\* A commit's parent is its ancestor.
LEMMA PrefixOfAppend ==
    ASSUME NEW s \in Commit, NEW n \in CL
    PROVE  IsPrefix(s, Append(s, n))
<1>1. Len(s) \in Nat
  BY CommitType
<1>2. /\ Append(s, n) \in Commit
      /\ Len(Append(s, n)) = Len(s) + 1
      /\ \A i \in 1..Len(s) : Append(s, n)[i] = s[i]
  BY AppendFacts
<1>3. IsPrefix(s, Append(s, n)) <=> /\ Len(s) <= Len(Append(s, n))
                                   /\ \A i \in 1..Len(s) : s[i] = Append(s, n)[i]
  BY <1>2, CommitPrefix
<1>4. Len(s) <= Len(Append(s, n))
  BY <1>1, <1>2
<1> QED
  BY <1>2, <1>3, <1>4

\* Two commits of the same length with the same elements are the same commit.
LEMMA CommitEqual ==
    ASSUME NEW s \in Commit, NEW t \in Commit, Len(s) = Len(t),
           \A i \in 1..Len(s) : s[i] = t[i]
    PROVE  s = t
BY DEF Commit

-----------------------------------------------------------------------------
(* What a step may change.                                                  *)

\* Which actions write the branch, the remote, P4 and each table of the database.
LEMMA Frame ==
    ASSUME [Next]_vars
    PROVE  /\ BuildCommit \/ UNCHANGED main
           /\ (\E kind \in ClKinds : Submit(kind)) \/ UNCHANGED depot
           /\ SkipMarker \/ SetLastSyncedCl \/ UNCHANGED lastCl
           /\ RecordCommit \/ UNCHANGED commitSha
           /\ SyncError \/ UNCHANGED retryCount
           /\ ResumePush \/ PushCommit \/ BatchPush \/ UNCHANGED origin
           /\ RecordCommit \/ ResumeMark \/ MarkPushed \/ PushCommitFails \/ MarkBatch
                \/ UNCHANGED pushStatus
<1> USE DEF p4Vars, gitVars, stateVars, mapVars, batchVars, pushVars
<1>1. CASE Environment
  BY <1>1 DEF Environment, Submit, Tick, Crash
<1>2. CASE Startup
  BY <1>2 DEF Startup, Start, ResumePush, ResumeMark, ResumePushFails, EnterLoop
<1>3. CASE Round
  BY <1>3 DEF Round, Poll, SkipMarker, SkipEmpty, BuildCommit, RecordCommit,
              SetLastSyncedCl, MaybeRunGc, SyncError, RoundAborts
<1>4. CASE Pushing
  BY <1>4 DEF Pushing, PushCommit, MarkPushed, PushCommitFails, Tally, BatchPush,
              BatchPushFails, MarkBatch, BatchDone
<1>5. CASE UNCHANGED vars
  BY <1>5 DEF vars
<1> QED
  BY <1>1, <1>2, <1>3, <1>4, <1>5 DEF Next

\* Submitting a changelist leaves the earlier ones alone.
LEMMA SubmitExtends ==
    ASSUME TypeOK, NEW kind \in ClKinds, Submit(kind)
    PROVE  Len(depot') = Len(depot) + 1 /\ \A n \in 1..Len(depot) : depot'[n] = depot[n]
BY DEF TypeOK, Submit

-----------------------------------------------------------------------------
(* The commit step: the parent is a part of the branch, and the branch gets *)
(* the new commit on top, or has it already.                               *)

\* The parent that the checkpoint names lies on the branch.
LEMMA ParentOnBranch ==
    ASSUME TypeOK, MapMatchesHistory, OneCommitPerChangelist
    PROVE  /\ ParentSha \in Commit
           /\ IsPrefix(ParentSha, main)
           /\ ParentSha # NoCommit => ParentSha[Len(ParentSha)] = lastCl
           /\ \A i \in 1..Len(ParentSha) : main[i] <= lastCl
<1>1. ParentSha \in Commit /\ main \in Commit /\ lastCl \in Nat
  BY ParentShaType, BoundsAreNat DEF TypeOK
<1>2. /\ IsPrefix(ParentSha, main)
      /\ ParentSha # NoCommit => ParentSha[Len(ParentSha)] = lastCl
  <2>1. CASE ParentSha = NoCommit
    BY <1>1, <2>1, PrefixReflexive
  <2>2. CASE ParentSha # NoCommit
    <3>1. lastCl \in CL /\ ParentSha = commitSha[lastCl]
      BY <2>2, BoundsAreNat DEF TypeOK, ParentSha, CL
    <3> QED
      BY <2>2, <3>1 DEF MapMatchesHistory
  <2> QED
    BY <2>1, <2>2
<1>3. ASSUME NEW i \in 1..Len(ParentSha) PROVE main[i] <= lastCl
  <2> DEFINE k == Len(ParentSha)
  <2>1. k \in Nat /\ k <= Len(main) /\ Len(main) \in Nat /\ k # 0 /\ main[k] = ParentSha[k]
    BY <1>1, <1>2, <1>3, CommitType, CommitPrefix
  <2>2. main[k] = lastCl
    BY <1>1, <1>2, <2>1, CommitType
  <2>3. i < k => main[i] < main[k]
    BY <1>3, <2>1 DEF OneCommitPerChangelist
  <2>4. i \in Nat /\ main[i] \in Int
    BY <1>1, <1>3, <2>1, CommitType
  <2> QED
    BY <1>1, <1>3, <2>1, <2>2, <2>3, <2>4
<1> QED
  BY <1>1, <1>2, <1>3

\* A new commit goes on top of the branch, unless the branch has it already.
LEMMA CommitStep ==
    ASSUME SafeConfig, TypeOK, BatchInv, OneCommitPerChangelist, MapMatchesHistory,
           CheckpointBacked, BuildCommit
    PROVE  /\ sha' = main' /\ main' \in Commit /\ main' # NoCommit
           /\ main'[Len(main')] = cur
           /\ \/ main' = main
              \/ main' = Append(main, cur) /\ \A i \in 1..Len(main) : main[i] <= lastCl
<1> DEFINE P == ParentSha
           k == Len(ParentSha)
<1>1. /\ cur \in CL /\ cur = lastCl + 1 /\ cur \in 1..Len(depot) /\ depot[cur] \in CommitKinds
      /\ main' = Append(P, cur) /\ sha' = main'
      /\ CommitAccepted
  BY CurInBounds DEF BuildCommit, MoveBranch, BatchInv, SafeConfig
<1>2. main \in Commit /\ P \in Commit /\ IsPrefix(P, main) /\ lastCl \in Nat
      /\ \A i \in 1..k : main[i] <= lastCl
  BY ParentOnBranch, BoundsAreNat DEF TypeOK
<1>3. k \in Nat /\ Len(main) \in Nat /\ k <= Len(main) /\ \A i \in 1..k : P[i] = main[i]
  BY <1>2, CommitType, CommitPrefix
<1>4. /\ main' \in Commit /\ main' # NoCommit /\ main'[Len(main')] = cur
      /\ Len(main') = k + 1 /\ \A i \in 1..k : main'[i] = P[i]
  BY <1>1, <1>2, AppendFacts
<1>5. CASE k = Len(main)
  <2>1. P = main
    BY <1>2, <1>3, <1>5, CommitEqual
  <2> QED
    BY <1>1, <1>2, <1>4, <1>5, <2>1
<1>6. CASE k < Len(main)
  <2>1. Backend # "pygit2"
    BY <1>1, <1>2, <1>3, <1>6, CommitType DEF CommitAccepted
  <2>2. ClKinds \subseteq CommitKinds
    BY <2>1 DEF SafeConfig
  <2>3. k = 0 => lastCl = 0
    <3>1. ASSUME lastCl > 0 PROVE k # 0
      <4>1. lastCl \in 1..Len(depot) /\ lastCl \in 1..lastCl
        BY <1>2, <3>1 DEF BatchInv, TypeOK
      <4>2. depot[lastCl] \in CommitKinds
        <5>1. depot[lastCl] \in ClKinds
          BY <4>1, ElementOfSeq DEF TypeOK
        <5> QED
          BY <2>2, <5>1
      <4>3. P # NoCommit
        BY <3>1, <4>1, <4>2 DEF CheckpointBacked, ParentSha
      <4> QED
        BY <1>2, <4>3, CommitType
    <3> QED
      BY <1>2, <3>1
  <2>4. k > 0 => main[k] = lastCl
    BY <1>2, <1>3, ParentOnBranch, CommitType
  <2>5. ASSUME NEW i \in 1..Len(main), i > k PROVE main[i] = cur
    <3>1. main[i] <= lastCl + 1 /\ main[i] \in CL /\ main[i] \in Int /\ main[i] >= 1
      BY <1>2, <2>5, CommitType DEF OneCommitPerChangelist
    <3>2. main[i] > lastCl
      <4>1. CASE k = 0
        BY <2>3, <3>1, <4>1
      <4>2. CASE k > 0
        BY <1>3, <2>4, <2>5, <4>2 DEF OneCommitPerChangelist
      <4> QED
        BY <1>3, <4>1, <4>2
    <3> QED
      BY <1>1, <1>2, <3>1, <3>2
  <2>6. Len(main) = k + 1
    <3>1. SUFFICES ASSUME Len(main) > k + 1 PROVE FALSE
      BY <1>3, <1>6
    <3>2. main[k + 1] = cur /\ main[k + 2] = cur
      BY <1>3, <2>5, <3>1
    <3>3. main[k + 1] < main[k + 2]
      BY <1>3, <3>1 DEF OneCommitPerChangelist
    <3> QED
      BY <1>1, <1>2, <3>2, <3>3
  <2>7. \A i \in 1..Len(main) : main'[i] = main[i]
    <3> TAKE i \in 1..Len(main)
    <3>1. CASE i \in 1..k
      BY <1>3, <1>4, <3>1
    <3>2. CASE i = k + 1
      BY <1>3, <1>4, <2>5, <2>6, <3>2
    <3> QED
      BY <1>3, <2>6, <3>1, <3>2
  <2>8. main' = main
    BY <1>2, <1>4, <2>6, <2>7, CommitEqual
  <2> QED
    BY <1>1, <1>4, <2>8
<1> QED
  BY <1>3, <1>5, <1>6

-----------------------------------------------------------------------------
(* The invariants, one lemma each.                                          *)

\* Every step keeps the errors at the head of the queue.
LEMMA ErrorsNext ==
    ASSUME TypeOK, BatchInv, ErrorsOnlyAtHead, [Next]_vars
    PROVE  ErrorsOnlyAtHead'
<1> USE BoundsAreNat DEF TypeOK, ErrorsOnlyAtHead, CL
<1>1. CASE SyncError
  <2>1. cur \in CL /\ cur <= lastCl + 1 /\ UNCHANGED lastCl
    BY <1>1, CurInBounds DEF BatchInv, InProcessing, SyncError, Raised, stateVars
  <2>2. \A n \in CL : n # cur => retryCount'[n] = retryCount[n]
    BY <1>1 DEF SyncError
  <2> QED
    BY <2>1, <2>2
<1>2. CASE SkipMarker \/ SetLastSyncedCl
  <2>1. lastCl' = lastCl + 1 /\ UNCHANGED retryCount
    BY <1>2 DEF BatchInv, SkipMarker, SetLastSyncedCl
  <2> QED
    BY <2>1
<1>3. CASE UNCHANGED <<retryCount, lastCl>>
  BY <1>3
<1> QED
  BY <1>1, <1>2, <1>3, Frame DEF SyncError, stateVars

\* What BuildCommit does to the branch, in the terms of the invariants.
LEMMA BranchGrows ==
    ASSUME SafeConfig, IInv, [Next]_vars
    PROVE  /\ main \in Commit /\ main' \in Commit
           /\ IsPrefix(main, main')
<1>1. main \in Commit /\ main' \in Commit
  BY TypeNext DEF IInv, TypeOK
<1>2. CASE UNCHANGED main
  BY <1>1, <1>2, PrefixReflexive
<1>3. CASE BuildCommit
  <2>1. main' = main \/ main' = Append(main, cur)
    BY <1>3, CommitStep DEF IInv
  <2>2. cur \in CL
    BY <1>3, CurInBounds DEF IInv, BuildCommit
  <2> QED
    BY <1>1, <2>1, <2>2, PrefixReflexive, PrefixOfAppend
<1> QED
  BY <1>1, <1>2, <1>3, Frame

\* Every step keeps what the process holds between commit, row and checkpoint.
LEMMA InHandNext ==
    ASSUME SafeConfig, IInv, [Next]_vars
    PROVE  InHandInv'
<1> USE BoundsAreNat DEF IInv, InHandInv
<1>1. CASE BuildCommit
  BY <1>1, CommitStep DEF BuildCommit, batchVars
<1>2. CASE RecordCommit
  <2>1. cur \in CL /\ commitSha'[cur] = sha /\ sha # NoCommit /\ UNCHANGED cur
    BY <1>2, CurInBounds DEF RecordCommit, TypeOK, batchVars
  <2> QED
    BY <1>2, <2>1 DEF RecordCommit
<1>3. CASE SkipEmpty
  BY <1>3 DEF SkipEmpty, p4Vars, batchVars, CommitKinds
<1>4. ASSUME NEW kind \in ClKinds, Submit(kind) PROVE InHandInv'
  <2>1. pc \in {"record", "advance"} => depot'[cur] = depot[cur]
    BY <1>4, CurInBounds, SubmitExtends
  <2> QED
    BY <1>4, <2>1 DEF Submit, gitVars, mapVars, batchVars
<1>5. CASE pc' \notin {"record", "advance"}
  BY <1>5
<1>6. CASE UNCHANGED <<pc, sha, main, cur, depot, commitSha>>
  BY <1>6
<1>7. \/ BuildCommit \/ RecordCommit \/ SkipEmpty \/ (\E kind \in ClKinds : Submit(kind))
      \/ pc' \notin {"record", "advance"}
      \/ UNCHANGED <<pc, sha, main, cur, depot, commitSha>>
  <2> USE DEF p4Vars, gitVars, stateVars, mapVars, batchVars, pushVars
  <2>1. CASE Environment
    BY <2>1 DEF Environment, Tick, Crash
  <2>2. CASE Startup
    BY <2>2 DEF Startup, Start, ResumePush, ResumeMark, ResumePushFails, EnterLoop
  <2>3. CASE Round
    BY <2>3 DEF Round, Poll, SkipMarker, SetLastSyncedCl, MaybeRunGc, SyncError,
                RoundAborts, NextChangelist
  <2>4. CASE Pushing
    BY <2>4 DEF Pushing, PushCommit, MarkPushed, PushCommitFails, Tally, BatchPush,
                BatchPushFails, MarkBatch, BatchDone, NextChangelist
  <2>5. CASE UNCHANGED vars
    BY <2>5 DEF vars
  <2> QED
    BY <2>1, <2>2, <2>3, <2>4, <2>5 DEF Next
<1> QED
  BY <1>1, <1>2, <1>3, <1>4, <1>5, <1>6, <1>7

\* Every step keeps the branch in step with the changelists.
LEMMA HistoryNext ==
    ASSUME SafeConfig, IInv, [Next]_vars
    PROVE  OneCommitPerChangelist'
<1> USE BoundsAreNat DEF IInv
<1>1. /\ main \in Commit /\ lastCl \in Nat /\ lastCl <= Len(depot) /\ Len(depot) \in Nat
      /\ Len(main) \in Nat /\ \A i \in 1..Len(main) : main[i] \in 1..Len(depot)
  <2>1. main \in Commit /\ lastCl \in Nat /\ lastCl <= Len(depot) /\ Len(depot) \in Nat
    BY DEF TypeOK, BatchInv
  <2> QED
    BY <2>1, CommitType DEF OneCommitPerChangelist
<1>2. ASSUME NEW kind \in ClKinds, Submit(kind) PROVE OneCommitPerChangelist'
  <2>1. UNCHANGED <<main, lastCl>>
    BY <1>2 DEF Submit, gitVars, stateVars
  <2>2. Len(depot') = Len(depot) + 1 /\ \A n \in 1..Len(depot) : depot'[n] = depot[n]
    BY <1>2, SubmitExtends
  <2>3. \A i \in 1..Len(main) : /\ main[i] <= Len(depot')
                                /\ main[i] <= lastCl + 1
                                /\ depot'[main[i]] \in CommitKinds
    BY <1>1, <2>2 DEF OneCommitPerChangelist
  <2>4. \A n \in 1..lastCl : depot'[n] \in CommitKinds => Mirrored(n)
    BY <1>1, <2>2 DEF OneCommitPerChangelist
  <2> QED
    BY <2>1, <2>3, <2>4 DEF OneCommitPerChangelist, Mirrored
<1>3. CASE SkipMarker \/ SetLastSyncedCl
  <2>1. lastCl' = lastCl + 1 /\ cur = lastCl + 1 /\ cur \in CL /\ UNCHANGED <<main, depot>>
    BY <1>3, CurInBounds DEF BatchInv, SkipMarker, SetLastSyncedCl, p4Vars, gitVars
  <2>2. depot[cur] \in CommitKinds => Mirrored(cur)
    <3> SUFFICES ASSUME depot[cur] \in CommitKinds PROVE Mirrored(cur)
        OBVIOUS
    <3>1. commitSha[cur] # NoCommit /\ commitSha[cur] \in Commit
      BY <1>3, <2>1 DEF SkipMarker, SetLastSyncedCl, InHandInv, TypeOK, CommitKinds
    <3> DEFINE k == Len(commitSha[cur])
    <3>2. k \in Nat /\ k # 0 /\ k <= Len(main) /\ commitSha[cur][k] = main[k]
          /\ commitSha[cur][k] = cur
      BY <1>1, <2>1, <3>1, CommitType, CommitPrefix DEF MapMatchesHistory
    <3>3. k \in 1..Len(main) /\ main[k] = cur
      BY <1>1, <3>2
    <3> QED
      BY <3>3 DEF Mirrored
  <2> QED
    BY <1>1, <2>1, <2>2 DEF OneCommitPerChangelist, Mirrored
<1>4. CASE BuildCommit /\ main' # main
  <2>1. /\ UNCHANGED <<depot, lastCl>> /\ depot[cur] \in CommitKinds
        /\ cur = lastCl + 1 /\ cur \in CL /\ cur \in 1..Len(depot)
    BY <1>4, CurInBounds DEF BatchInv, BuildCommit, p4Vars, stateVars
  <2>2. main' = Append(main, cur) /\ \A i \in 1..Len(main) : main[i] <= lastCl
    BY <1>4, CommitStep
  <2>3. /\ Len(main') = Len(main) + 1
        /\ \A i \in 1..Len(main) : main'[i] = main[i]
        /\ main'[Len(main) + 1] = cur
    BY <1>1, <2>1, <2>2, AppendFacts
  <2>4. \A i, j \in 1..Len(main') : i < j => main'[i] < main'[j]
    <3> TAKE i, j \in 1..Len(main')
    <3> HAVE i < j
    <3>1. i \in 1..Len(main)
      BY <1>1, <2>3
    <3>2. CASE j \in 1..Len(main)
      BY <2>3, <3>1, <3>2 DEF OneCommitPerChangelist
    <3>3. CASE j = Len(main) + 1
      BY <1>1, <2>1, <2>2, <2>3, <3>1, <3>3
    <3> QED
      BY <1>1, <2>3, <3>2, <3>3
  <2>5. \A i \in 1..Len(main') : /\ main'[i] <= Len(depot)
                                 /\ main'[i] <= lastCl + 1
                                 /\ depot[main'[i]] \in CommitKinds
    <3> TAKE i \in 1..Len(main')
    <3>1. CASE i \in 1..Len(main)
      BY <2>3, <3>1 DEF OneCommitPerChangelist
    <3>2. CASE i = Len(main) + 1
      BY <1>1, <2>1, <2>3, <3>2
    <3> QED
      BY <1>1, <2>3, <3>1, <3>2
  <2>6. ASSUME NEW n \in 1..lastCl, depot[n] \in CommitKinds
        PROVE  \E i \in 1..Len(main') : main'[i] = n
    <3>1. PICK i \in 1..Len(main) : main[i] = n
      BY <2>6 DEF OneCommitPerChangelist, Mirrored
    <3>2. i \in 1..Len(main') /\ main'[i] = n
      BY <1>1, <2>3, <3>1
    <3> QED
      BY <3>2
  <2> QED
    BY <2>1, <2>4, <2>5, <2>6 DEF OneCommitPerChangelist, Mirrored
<1>5. CASE UNCHANGED <<main, depot, lastCl>>
  BY <1>5 DEF OneCommitPerChangelist, Mirrored
<1> QED
  BY <1>2, <1>3, <1>4, <1>5, Frame
  DEF BuildCommit, SkipMarker, SetLastSyncedCl, Submit, p4Vars, gitVars, stateVars

\* Every step keeps a row for each file changelist of the checkpoint.
LEMMA CheckpointNext ==
    ASSUME SafeConfig, IInv, [Next]_vars
    PROVE  CheckpointBacked'
<1> USE BoundsAreNat DEF IInv
<1>1. lastCl \in Nat /\ lastCl <= Len(depot) /\ Len(depot) \in Nat /\ Len(depot) <= MaxCL
  BY DEF TypeOK, BatchInv
<1>2. ASSUME NEW kind \in ClKinds, Submit(kind) PROVE CheckpointBacked'
  <2>1. \A n \in 1..Len(depot) : depot'[n] = depot[n]
    BY <1>2, SubmitExtends
  <2> QED
    BY <1>1, <1>2, <2>1 DEF CheckpointBacked, Submit, stateVars, mapVars
<1>3. CASE SkipMarker \/ SetLastSyncedCl
  <2>1. lastCl' = lastCl + 1 /\ cur = lastCl + 1 /\ UNCHANGED <<commitSha, depot>>
    BY <1>3 DEF BatchInv, SkipMarker, SetLastSyncedCl, p4Vars, mapVars
  <2>2. depot[cur] \in CommitKinds => commitSha[cur] # NoCommit
    BY <1>3 DEF SkipMarker, SetLastSyncedCl, InHandInv, CommitKinds
  <2> QED
    BY <1>1, <2>1, <2>2 DEF CheckpointBacked
<1>4. CASE RecordCommit
  <2>1. sha # NoCommit /\ commitSha' = [commitSha EXCEPT ![cur] = sha]
        /\ UNCHANGED <<lastCl, depot>> /\ cur = lastCl + 1
    BY <1>4 DEF RecordCommit, InHandInv, BatchInv, p4Vars, stateVars
  <2> QED
    BY <1>1, <2>1 DEF CheckpointBacked, TypeOK, CL
<1>5. CASE UNCHANGED <<commitSha, depot, lastCl>>
  BY <1>5 DEF CheckpointBacked
<1> QED
  BY <1>2, <1>3, <1>4, <1>5, Frame
  DEF RecordCommit, SkipMarker, SetLastSyncedCl, Submit, p4Vars, mapVars, stateVars

\* Every step keeps the rows of cl_commit_map in line with the branch.
LEMMA MapNext ==
    ASSUME SafeConfig, IInv, [Next]_vars
    PROVE  MapMatchesHistory'
<1> USE BoundsAreNat DEF IInv
<1>1. main \in Commit /\ main' \in Commit /\ IsPrefix(main, main')
  BY BranchGrows
<1>2. commitSha \in [CL -> Commit]
  BY DEF TypeOK
<1>3. CASE RecordCommit
  <2>1. /\ cur \in CL /\ commitSha' = [commitSha EXCEPT ![cur] = main] /\ main' = main
        /\ main[Len(main)] = cur
    BY <1>3, CurInBounds DEF RecordCommit, InHandInv, gitVars
  <2>2. IsPrefix(main, main)
    BY <1>1, PrefixReflexive
  <2> QED
    BY <1>2, <2>1, <2>2 DEF MapMatchesHistory
<1>4. CASE UNCHANGED commitSha
  <2> SUFFICES ASSUME NEW n \in CL, commitSha[n] # NoCommit
               PROVE  /\ IsPrefix(commitSha[n], main')
                      /\ commitSha[n][Len(commitSha[n])] = n
    BY <1>4 DEF MapMatchesHistory
  <2>1. /\ commitSha[n] \in Commit
        /\ IsPrefix(commitSha[n], main) /\ commitSha[n][Len(commitSha[n])] = n
    BY <1>2 DEF MapMatchesHistory
  <2>2. IsPrefix(commitSha[n], main')
    BY <1>1, <2>1, PrefixTransitive
  <2> QED
    BY <2>1, <2>2
<1> QED
  BY <1>3, <1>4, Frame

\* Every step keeps what a push has established until its rows are marked.
LEMMA PushInvNext ==
    ASSUME SafeConfig, IInv, [Next]_vars
    PROVE  PushInv'
<1> USE BoundsAreNat DEF IInv
<1>1. (pc \in {"resumed", "mark", "markbatch"} => origin = main)'
  <2> USE DEF PushInv, p4Vars, gitVars, stateVars, mapVars, batchVars, pushVars
  <2>1. CASE Environment
    BY <2>1 DEF Environment, Submit, Tick, Crash
  <2>2. CASE Startup
    BY <2>2 DEF Startup, Start, ResumePush, ResumeMark, ResumePushFails, EnterLoop,
                PushBranch
  <2>3. CASE Round
    BY <2>3 DEF Round, Poll, SkipMarker, SkipEmpty, BuildCommit, RecordCommit,
                SetLastSyncedCl, MaybeRunGc, SyncError,
                RoundAborts, NextChangelist
  <2>4. CASE Pushing
    BY <2>4 DEF Pushing, PushCommit, MarkPushed, PushCommitFails, Tally, BatchPush,
                BatchPushFails, MarkBatch, BatchDone, NextChangelist, PushBranch
  <2>5. CASE UNCHANGED vars
    BY <2>5 DEF vars
  <2> QED
    BY <2>1, <2>2, <2>3, <2>4, <2>5 DEF Next
<1>2. (\A n \in CL : commitSha[n] = NoCommit => pushStatus[n] = "none")'
  <2>1. CASE RecordCommit
    <3>1. sha # NoCommit /\ cur \in CL
      BY <2>1, CurInBounds DEF RecordCommit, InHandInv
    <3> QED
      BY <2>1, <3>1 DEF RecordCommit, PushInv, TypeOK
  <2>2. CASE UNCHANGED commitSha /\ \E n \in CL, status \in {"pushed", "failed"} :
                                        UpdatePushStatus(n, status)
    BY <2>2 DEF UpdatePushStatus, PushInv, TypeOK
  <2>3. CASE UNCHANGED mapVars
    BY <2>3 DEF mapVars, PushInv
  <2>4. CASE MarkPushed \/ PushCommitFails \/ ResumeMark \/ MarkBatch
    <3>1. CASE MarkPushed \/ PushCommitFails
      BY <2>2, <2>4, <3>1, CurInBounds DEF MarkPushed, PushCommitFails
    <3>2. CASE ResumeMark \/ MarkBatch
      <4>1. \/ \E n \in CL : UpdatePushStatus(n, "pushed")
            \/ UNCHANGED pushStatus
        BY <3>2 DEF ResumeMark, MarkBatch, IsOldest, TypeOK
      <4>2. UNCHANGED commitSha
        BY <3>2 DEF ResumeMark, MarkBatch, mapVars
      <4> QED
        BY <2>2, <2>3, <4>1, <4>2 DEF mapVars
    <3> QED
      BY <2>4, <3>1, <3>2
  <2> QED
    BY <2>1, <2>3, <2>4, Frame DEF mapVars
<1> QED
  BY <1>1, <1>2 DEF PushInv

\* Every step keeps the rows marked pushed truthful.
LEMMA PublishedNext ==
    ASSUME SafeConfig, IInv, [Next]_vars
    PROVE  PushedIsPublished'
<1> USE BoundsAreNat DEF IInv
<1>1. /\ main \in Commit /\ origin \in Commit /\ commitSha \in [CL -> Commit]
      /\ pushStatus \in [CL -> {"none", "pending", "pushed", "failed"}]
  BY DEF TypeOK
<1>2. CASE RecordCommit
  <2>1. /\ cur \in CL /\ commitSha' = [commitSha EXCEPT ![cur] = main]
        /\ main # NoCommit /\ main[Len(main)] = cur
        /\ origin' = origin
    BY <1>2, CurInBounds DEF RecordCommit, InHandInv, gitVars
  <2>2. \A n \in CL : pushStatus'[n] = "pushed" => pushStatus[n] = "pushed"
    BY <1>1, <1>2, <2>1 DEF RecordCommit
  <2>3. ASSUME pushStatus[cur] = "pushed" PROVE commitSha[cur] = main
    <3> DEFINE k == Len(commitSha[cur])
               l == Len(main)
    <3>1. commitSha[cur] \in Commit /\ commitSha[cur] # NoCommit
      BY <1>1, <2>1, <2>3 DEF PushInv
    <3>2. /\ k \in Nat /\ k # 0 /\ k <= l /\ l \in Nat
          /\ \A i \in 1..k : commitSha[cur][i] = main[i]
          /\ main[k] = cur /\ main[l] = cur
      BY <1>1, <2>1, <3>1, CommitType, CommitPrefix DEF MapMatchesHistory
    <3>3. ~(k < l)
      <4> SUFFICES ASSUME k < l PROVE FALSE
          OBVIOUS
      <4>1. main[k] < main[l]
        BY <3>2 DEF OneCommitPerChangelist
      <4> QED
        BY <2>1, <3>2, <4>1 DEF CL
    <3> QED
      BY <1>1, <3>1, <3>2, <3>3, CommitEqual
  <2> QED
    BY <1>1, <2>1, <2>2, <2>3 DEF PushedIsPublished
<1>3. CASE ResumePush \/ PushCommit \/ BatchPush
  <2>1. IsPrefix(origin, main) /\ origin' = main /\ UNCHANGED <<commitSha, pushStatus>>
    BY <1>3 DEF ResumePush, PushCommit, BatchPush, PushBranch, PushAccepted, mapVars
  <2> SUFFICES ASSUME NEW n \in CL, pushStatus[n] = "pushed"
               PROVE  IsPrefix(commitSha[n], main)
    BY <2>1 DEF PushedIsPublished
  <2> QED
    BY <1>1, <2>1, PrefixTransitive DEF PushedIsPublished
<1>4. CASE ResumeMark \/ MarkPushed \/ MarkBatch
  <2>1. origin = main /\ UNCHANGED <<origin, commitSha>>
    BY <1>4 DEF ResumeMark, MarkPushed, MarkBatch, PushInv, gitVars
  <2>2. \A n \in CL : IsPrefix(commitSha[n], origin)
    BY <1>1, <2>1, PrefixReflexive DEF MapMatchesHistory
  <2> QED
    BY <2>1, <2>2 DEF PushedIsPublished
<1>5. CASE PushCommitFails
  <2>1. /\ UNCHANGED <<origin, commitSha>>
        /\ \A n \in CL : pushStatus'[n] = "pushed" => pushStatus[n] = "pushed"
    BY <1>1, <1>5 DEF PushCommitFails, UpdatePushStatus, gitVars
  <2> QED
    BY <2>1 DEF PushedIsPublished
<1>6. CASE UNCHANGED <<origin, commitSha, pushStatus>>
  BY <1>6 DEF PushedIsPublished
<1> QED
  BY <1>2, <1>3, <1>4, <1>5, <1>6, Frame
  DEF RecordCommit, ResumePush, PushCommit, BatchPush, ResumeMark, MarkPushed, MarkBatch,
      PushCommitFails, gitVars, mapVars

-----------------------------------------------------------------------------
(* The theorems.                                                            *)

\* The invariant holds before the first start.
LEMMA IInvInit == Init => IInv
<1> SUFFICES ASSUME Init PROVE IInv
    OBVIOUS
<1>1. TypeOK /\ BatchInv
  BY TypeAndBatchInit DEF TypeAndBatch
<1>2. main = <<>> /\ Len(main) = 0 /\ lastCl = 0 /\ pc = "down"
      /\ \A n \in CL : commitSha[n] = NoCommit /\ pushStatus[n] = "none" /\ retryCount[n] = 0
  BY EmptySeq DEF Init, NoCommit
<1>3. InHandInv /\ PushInv
  BY <1>2 DEF InHandInv, PushInv
<1>4. OneCommitPerChangelist /\ MapMatchesHistory /\ CheckpointBacked
  BY <1>2 DEF OneCommitPerChangelist, MapMatchesHistory, CheckpointBacked
<1>5. PushedIsPublished /\ ErrorsOnlyAtHead
  BY <1>2 DEF PushedIsPublished, ErrorsOnlyAtHead
<1> QED
  BY <1>1, <1>3, <1>4, <1>5 DEF IInv

\* In a safe configuration every step keeps the invariant.
LEMMA IInvNext == SafeConfig /\ IInv /\ [Next]_vars => IInv'
<1> SUFFICES ASSUME SafeConfig, IInv, [Next]_vars PROVE IInv'
    OBVIOUS
<1>1. TypeOK /\ BatchInv /\ ErrorsOnlyAtHead
  BY DEF IInv
<1>2. TypeOK' /\ BatchInv' /\ ErrorsOnlyAtHead'
  BY <1>1, TypeNext, BatchNext, ErrorsNext
<1>3. InHandInv' /\ PushInv' /\ OneCommitPerChangelist' /\ MapMatchesHistory'
  BY InHandNext, PushInvNext, HistoryNext, MapNext
<1>4. CheckpointBacked' /\ PushedIsPublished'
  BY CheckpointNext, PublishedNext
<1> QED
  BY <1>2, <1>3, <1>4 DEF IInv

\* The inductive invariant holds in every reachable state of a safe
\* configuration (libgit2, or the CLI backend when nothing is skipped and git
\* update-ref does not fail).
THEOREM Inductive == ASSUME SafeConfig PROVE Spec => []IInv
<1>1. IInv /\ [Next]_vars => IInv'
  BY IInvNext
<1> QED
  BY IInvInit, <1>1, PTL DEF Spec

\* The branch holds one commit per file changelist, in order.
THEOREM MirrorIsFaithful ==
    ASSUME SafeConfig
    PROVE  Spec => []OneCommitPerChangelist
<1>1. IInv => OneCommitPerChangelist
  BY DEF IInv
<1> QED
  BY Inductive, <1>1, PTL

\* The commit map, the checkpoint and the push status of the State DB agree with
\* the branch and the remote.
THEOREM DatabaseIsRight ==
    ASSUME SafeConfig
    PROVE  Spec => []DatabaseAgrees
<1>1. IInv => DatabaseAgrees
  BY DEF IInv, DatabaseAgrees
<1> QED
  BY Inductive, <1>1, PTL

\* An error is only ever recorded for the changelist after the checkpoint, in
\* every configuration.
THEOREM ErrorsStayAtHead == Spec => []ErrorsOnlyAtHead
<1> DEFINE ErrInv == TypeOK /\ BatchInv /\ ErrorsOnlyAtHead
<1>1. Init => ErrInv
  BY IInvInit DEF IInv
<1>2. ErrInv /\ [Next]_vars => ErrInv'
  BY TypeNext, BatchNext, ErrorsNext
<1>3. ErrInv => ErrorsOnlyAtHead
  OBVIOUS
<1> QED
  BY <1>1, <1>2, <1>3, PTL DEF Spec

-----------------------------------------------------------------------------
(* No history has a hole, also when git update-ref fails.                    *)

\* A history that is whole stays whole when a changelist is submitted.
LEMMA WholeStays ==
    ASSUME NEW c \in Commit, c # NoCommit, NEW d \in Seq(ClKinds), NEW kind \in ClKinds,
           IsWhole(c, d)
    PROVE  IsWhole(c, Append(d, kind))
<1> DEFINE e == Append(d, kind)
<1>1. /\ Len(d) \in Nat /\ Len(e) = Len(d) + 1
      /\ \A n \in 1..Len(d) : e[n] = d[n]
  OBVIOUS
<1>2. /\ Len(c) \in Nat /\ Len(c) # 0
      /\ \A i \in 1..Len(c) : c[i] \in Nat /\ c[i] >= 1
  BY BoundsAreNat, CommitType
<1>3. \A i \in 1..Len(c) : c[i] \in 1..Len(d) /\ d[c[i]] \in CommitKinds
  BY <1>1, <1>2 DEF IsWhole
<1>4. c[Len(c)] \in 1..Len(d)
  BY <1>2, <1>3
<1>5. \A i \in 1..Len(c) : c[i] <= Len(e) /\ e[c[i]] \in CommitKinds
  BY <1>1, <1>3
<1>6. \A m \in 1..c[Len(c)] : m \in 1..Len(d) /\ e[m] = d[m]
  BY <1>1, <1>4
<1>7. IsWhole(c, e)
  <2> HIDE DEF e
  <2> QED
    BY <1>5, <1>6 DEF IsWhole
<1> QED
  BY <1>7

\* A commit on a parent that is whole up to the changelist before is whole.
LEMMA WholeGrows ==
    ASSUME NEW c \in Commit, NEW d \in Seq(ClKinds), NEW n \in CL,
           n <= Len(d), d[n] \in CommitKinds,
           c = NoCommit => n = 1,
           c # NoCommit => IsWhole(c, d) /\ c[Len(c)] = n - 1
    PROVE  IsWhole(Append(c, n), d)
<1> DEFINE e == Append(c, n)
<1>1. /\ Len(c) \in Nat /\ Len(e) = Len(c) + 1 /\ e[Len(e)] = n /\ n \in Nat
      /\ \A i \in 1..Len(c) : e[i] = c[i]
  BY AppendFacts, CommitType, BoundsAreNat DEF CL
<1>2. \A i \in 1..Len(c) : c[i] \in Int
  BY CommitType, BoundsAreNat
<1>3. ASSUME NEW i \in 1..Len(c)
      PROVE  c[i] < n /\ c[i] <= Len(d) /\ d[c[i]] \in CommitKinds
  <2>1. c # NoCommit /\ Len(c) \in 1..Len(c)
    BY <1>1, <1>3, CommitType
  <2>2. c[Len(c)] = n - 1 /\ (i < Len(c) => c[i] < c[Len(c)])
    BY <1>3, <2>1 DEF IsWhole
  <2>3. c[i] < n
    BY <1>1, <1>2, <1>3, <2>1, <2>2
  <2> QED
    BY <1>3, <2>1, <2>3 DEF IsWhole
<1>4. \A i, j \in 1..Len(e) : i < j => e[i] < e[j]
  <2> TAKE i, j \in 1..Len(e)
  <2> HAVE i < j
  <2>1. i \in 1..Len(c)
    BY <1>1
  <2>2. CASE j \in 1..Len(c)
    <3>1. c # NoCommit
      BY <1>1, <2>1, CommitType
    <3> QED
      BY <1>1, <2>1, <2>2, <3>1 DEF IsWhole
  <2>3. CASE j = Len(c) + 1
    BY <1>1, <1>3, <2>1, <2>3
  <2> QED
    BY <1>1, <2>2, <2>3
<1>5. \A i \in 1..Len(e) : e[i] <= Len(d) /\ d[e[i]] \in CommitKinds
  <2> TAKE i \in 1..Len(e)
  <2>1. CASE i \in 1..Len(c)
    BY <1>1, <1>3, <2>1
  <2>2. CASE i = Len(c) + 1
    BY <1>1, <2>2
  <2> QED
    BY <1>1, <2>1, <2>2
<1>6. ASSUME NEW m \in 1..n, d[m] \in CommitKinds
      PROVE  \E i \in 1..Len(e) : e[i] = m
  <2>1. CASE m = n
    BY <1>1, <2>1
  <2>2. CASE m \in 1..(n - 1)
    <3>1. c # NoCommit
      BY <1>1, <2>2
    <3>2. PICK i \in 1..Len(c) : c[i] = m
      BY <1>6, <2>2, <3>1 DEF IsWhole
    <3>3. i \in 1..Len(e) /\ e[i] = m
      BY <1>1, <3>2
    <3> QED
      BY <3>3
  <2> QED
    BY <1>1, <1>6, <2>1, <2>2
<1>7. IsWhole(e, d)
  <2> HIDE DEF e
  <2> QED
    BY <1>1, <1>4, <1>5, <1>6 DEF IsWhole
<1> QED
  BY <1>7

\* When nothing is skipped, the commit that is built is whole.
LEMMA CommitIsWhole ==
    ASSUME NothingSkipped, WholeInv, BuildCommit
    PROVE  /\ sha' \in Commit /\ sha' # NoCommit
           /\ IsWhole(sha', depot) /\ sha'[Len(sha')] = cur
<1>1. /\ cur \in CL /\ cur = lastCl + 1 /\ cur <= Len(depot) /\ lastCl \in Nat
      /\ depot[cur] \in CommitKinds /\ sha' = Append(ParentSha, cur)
      /\ depot \in Seq(ClKinds) /\ Len(depot) \in Nat /\ ParentSha \in Commit
  BY CurInBounds, ParentShaType, BoundsAreNat DEF WholeInv, TypeOK, BatchInv, BuildCommit
<1>2. CASE lastCl = 0
  <2>1. ParentSha = NoCommit /\ cur = 1
    BY <1>1, <1>2 DEF ParentSha
  <2> QED
    BY <1>1, <2>1, WholeGrows, AppendFacts, CommitType
<1>3. CASE lastCl > 0
  <2>1. lastCl \in 1..Len(depot) /\ lastCl \in 1..lastCl /\ lastCl \in CL
    BY <1>1, <1>3, BoundsAreNat DEF WholeInv, TypeOK, CL
  <2>2. depot[lastCl] \in CommitKinds
    BY <2>1 DEF NothingSkipped
  <2>3. ParentSha = commitSha[lastCl] /\ ParentSha # NoCommit
    BY <1>3, <2>1, <2>2 DEF WholeInv, CheckpointBacked, ParentSha
  <2>4. IsWhole(ParentSha, depot) /\ ParentSha[Len(ParentSha)] = lastCl
    BY <2>1, <2>3 DEF WholeInv, HistoriesAreWhole, WholeRow
  <2>5. lastCl = cur - 1
    BY <1>1
  <2>6. IsWhole(Append(ParentSha, cur), depot)
    BY <1>1, <2>3, <2>4, <2>5, WholeGrows
  <2> QED
    BY <1>1, <2>6, AppendFacts, CommitType
<1> QED
  BY <1>1, <1>2, <1>3

\* Every step keeps what the process holds, whatever became of the branch.
LEMMA WholeInHandNext ==
    ASSUME NothingSkipped, WholeInv, [Next]_vars
    PROVE  WholeInHand'
<1> USE BoundsAreNat DEF WholeInv
<1>1. CASE BuildCommit
  <2>1. /\ sha' # NoCommit /\ IsWhole(sha', depot) /\ sha'[Len(sha')] = cur
        /\ UNCHANGED <<cur, depot>> /\ pc' = "record"
    BY <1>1, CommitIsWhole DEF BuildCommit, batchVars, p4Vars
  <2> QED
    BY <2>1 DEF WholeInHand
<1>2. CASE RecordCommit
  <2>1. cur \in CL /\ commitSha'[cur] = sha /\ sha # NoCommit /\ UNCHANGED cur
    BY <1>2, CurInBounds DEF RecordCommit, TypeOK, batchVars, WholeInHand
  <2> QED
    BY <1>2, <2>1 DEF RecordCommit, WholeInHand
<1>3. CASE SkipEmpty
  BY <1>3 DEF SkipEmpty, p4Vars, batchVars, CommitKinds, WholeInHand
<1>4. ASSUME NEW kind \in ClKinds, Submit(kind) PROVE WholeInHand'
  <2>1. pc \in {"record", "advance"} => depot'[cur] = depot[cur]
    BY <1>4, CurInBounds, SubmitExtends
  <2>2. UNCHANGED <<pc, cur, sha, commitSha>> /\ depot' = Append(depot, kind)
    BY <1>4 DEF Submit, mapVars, batchVars
  <2>3. pc = "record" => IsWhole(sha, depot')
    BY <2>2, WholeStays DEF TypeOK, WholeInHand
  <2> QED
    BY <2>1, <2>2, <2>3 DEF WholeInHand
<1>5. CASE pc' \notin {"record", "advance"}
  BY <1>5 DEF WholeInHand
<1>6. CASE UNCHANGED <<pc, sha, cur, depot, commitSha>>
  BY <1>6 DEF WholeInHand, IsWhole
<1>7. \/ BuildCommit \/ RecordCommit \/ SkipEmpty \/ (\E kind \in ClKinds : Submit(kind))
      \/ pc' \notin {"record", "advance"}
      \/ UNCHANGED <<pc, sha, cur, depot, commitSha>>
  <2> USE DEF p4Vars, gitVars, stateVars, mapVars, batchVars, pushVars
  <2>1. CASE Environment
    BY <2>1 DEF Environment, Tick, Crash
  <2>2. CASE Startup
    BY <2>2 DEF Startup, Start, ResumePush, ResumeMark, ResumePushFails, EnterLoop
  <2>3. CASE Round
    BY <2>3 DEF Round, Poll, SkipMarker, SetLastSyncedCl, MaybeRunGc, SyncError,
                RoundAborts, NextChangelist
  <2>4. CASE Pushing
    BY <2>4 DEF Pushing, PushCommit, MarkPushed, PushCommitFails, Tally, BatchPush,
                BatchPushFails, MarkBatch, BatchDone, NextChangelist
  <2>5. CASE UNCHANGED vars
    BY <2>5 DEF vars
  <2> QED
    BY <2>1, <2>2, <2>3, <2>4, <2>5 DEF Next
<1> QED
  BY <1>1, <1>2, <1>3, <1>4, <1>5, <1>6, <1>7

\* Every step keeps a row for each changelist of the checkpoint.
LEMMA WholeCheckpointNext ==
    ASSUME NothingSkipped, WholeInv, [Next]_vars
    PROVE  CheckpointBacked'
<1> USE BoundsAreNat DEF WholeInv
<1>1. lastCl \in Nat /\ lastCl <= Len(depot) /\ Len(depot) \in Nat /\ Len(depot) <= MaxCL
  BY DEF TypeOK, BatchInv
<1>2. ASSUME NEW kind \in ClKinds, Submit(kind) PROVE CheckpointBacked'
  <2>1. \A n \in 1..Len(depot) : depot'[n] = depot[n]
    BY <1>2, SubmitExtends
  <2> QED
    BY <1>1, <1>2, <2>1 DEF CheckpointBacked, Submit, stateVars, mapVars
<1>3. CASE SkipMarker \/ SetLastSyncedCl
  <2>1. lastCl' = lastCl + 1 /\ cur = lastCl + 1 /\ UNCHANGED <<commitSha, depot>>
    BY <1>3 DEF BatchInv, SkipMarker, SetLastSyncedCl, p4Vars, mapVars
  <2>2. depot[cur] \in CommitKinds => commitSha[cur] # NoCommit
    BY <1>3 DEF SkipMarker, SetLastSyncedCl, WholeInHand, CommitKinds
  <2> QED
    BY <1>1, <2>1, <2>2 DEF CheckpointBacked
<1>4. CASE RecordCommit
  <2>1. sha # NoCommit /\ commitSha' = [commitSha EXCEPT ![cur] = sha]
        /\ UNCHANGED <<lastCl, depot>> /\ cur = lastCl + 1
    BY <1>4 DEF RecordCommit, WholeInHand, BatchInv, p4Vars, stateVars
  <2> QED
    BY <1>1, <2>1 DEF CheckpointBacked, TypeOK, CL
<1>5. CASE UNCHANGED <<commitSha, depot, lastCl>>
  BY <1>5 DEF CheckpointBacked
<1> QED
  BY <1>2, <1>3, <1>4, <1>5, Frame
  DEF RecordCommit, SkipMarker, SetLastSyncedCl, Submit, p4Vars, mapVars, stateVars

\* When nothing is skipped, every step keeps all histories whole.
LEMMA WholeHistoryNext ==
    ASSUME NothingSkipped, WholeInv, [Next]_vars
    PROVE  HistoriesAreWhole'
<1> USE DEF WholeInv, HistoriesAreWhole, WholeRow
<1>1. ASSUME NEW kind \in ClKinds, Submit(kind) PROVE HistoriesAreWhole'
  <2>1. UNCHANGED <<main, origin, commitSha>> /\ depot' = Append(depot, kind)
    BY <1>1 DEF Submit, gitVars, mapVars
  <2>2. \A c \in Commit : c # NoCommit /\ IsWhole(c, depot) => IsWhole(c, Append(depot, kind))
    BY WholeStays DEF TypeOK
  <2>3. main \in Commit /\ origin \in Commit /\ \A n \in CL : commitSha[n] \in Commit
    BY DEF TypeOK
  <2> QED
    BY <2>1, <2>2, <2>3
<1>2. CASE BuildCommit
  <2>1. /\ IsWhole(sha', depot) /\ (main' = sha' \/ main' = main)
        /\ UNCHANGED <<origin, commitSha, depot>>
    BY <1>2, CommitIsWhole DEF BuildCommit, MoveBranch, p4Vars, mapVars
  <2> QED
    BY <2>1
<1>3. CASE RecordCommit
  <2>1. /\ sha # NoCommit /\ IsWhole(sha, depot) /\ sha[Len(sha)] = cur
        /\ commitSha' = [commitSha EXCEPT ![cur] = sha]
        /\ UNCHANGED <<main, origin, depot>>
    BY <1>3 DEF RecordCommit, WholeInHand, p4Vars, gitVars
  <2> QED
    BY <2>1 DEF TypeOK
<1>4. CASE ResumePush \/ PushCommit \/ BatchPush
  <2>1. origin' = main /\ UNCHANGED <<main, commitSha, depot>>
    BY <1>4 DEF ResumePush, PushCommit, BatchPush, PushBranch, p4Vars, mapVars
  <2> QED
    BY <2>1
<1>5. CASE UNCHANGED <<main, origin, commitSha, depot>>
  BY <1>5
<1> QED
  BY <1>1, <1>2, <1>3, <1>4, <1>5, Frame
  DEF BuildCommit, RecordCommit, ResumePush, PushCommit, BatchPush, p4Vars, gitVars, mapVars

\* With libgit2 what lies on the branch is whole up to its last changelist.
LEMMA PrefixIsWhole ==
    ASSUME IInv, NEW c \in Commit, c # NoCommit, IsPrefix(c, main)
    PROVE  IsWhole(c, depot)
<1> DEFINE k == Len(c)
           l == Len(main)
<1>1. main \in Commit /\ lastCl \in Nat
  BY BoundsAreNat DEF IInv, TypeOK
<1>2. /\ k \in Nat /\ k # 0 /\ l \in Nat /\ k <= l
      /\ \A i \in 1..k : c[i] = main[i] /\ c[i] \in Int
  BY <1>1, CommitType, CommitPrefix, BoundsAreNat
<1>3. /\ \A i, j \in 1..l : i < j => main[i] < main[j]
      /\ \A i \in 1..l : main[i] <= Len(depot) /\ main[i] <= lastCl + 1
                         /\ depot[main[i]] \in CommitKinds /\ main[i] \in Int
      /\ \A n \in 1..lastCl : depot[n] \in CommitKinds => Mirrored(n)
  BY <1>1, CommitType, BoundsAreNat DEF IInv, OneCommitPerChangelist
<1>4. ASSUME NEW m \in 1..c[k], depot[m] \in CommitKinds
      PROVE  \E i \in 1..k : c[i] = m
  <2>1. k \in 1..k /\ k \in 1..l /\ c[k] = main[k] /\ m \in Int /\ m <= main[k]
    BY <1>2, <1>4
  <2>2. CASE m = main[k]
    BY <2>1, <2>2
  <2>3. CASE m < main[k]
    <3>1. m \in 1..lastCl
      BY <1>1, <1>3, <1>4, <2>1, <2>3
    <3>2. PICK i \in 1..l : main[i] = m
      BY <1>3, <1>4, <3>1 DEF Mirrored
    <3>3. ~(k < i) /\ i # k
      BY <1>3, <2>1, <2>3, <3>2
    <3>4. i \in 1..k
      BY <1>2, <3>2, <3>3
    <3> QED
      BY <1>2, <3>2, <3>4
  <2> QED
    BY <1>3, <2>1, <2>2, <2>3
<1>5. \A i, j \in 1..k : i < j => c[i] < c[j]
  BY <1>2, <1>3
<1>6. \A i \in 1..k : c[i] <= Len(depot) /\ depot[c[i]] \in CommitKinds
  BY <1>2, <1>3
<1> QED
  BY <1>4, <1>5, <1>6 DEF IsWhole

\* In a safe configuration every step leaves the remote at a part of the branch.
LEMMA OriginNext ==
    ASSUME SafeConfig, IInv, IsPrefix(origin, main), [Next]_vars
    PROVE  IsPrefix(origin, main)'
<1>1. main \in Commit /\ main' \in Commit /\ IsPrefix(main, main') /\ origin \in Commit
  BY BranchGrows DEF IInv, TypeOK
<1>2. CASE ResumePush \/ PushCommit \/ BatchPush
  <2>1. origin' = main /\ main' = main
    BY <1>2 DEF ResumePush, PushCommit, BatchPush, PushBranch
  <2> QED
    BY <1>1, <2>1, PrefixReflexive
<1>3. CASE UNCHANGED origin
  BY <1>1, <1>3, PrefixTransitive
<1> QED
  BY <1>2, <1>3, Frame

\* A safe configuration keeps all histories whole.
LEMMA SafeIsWhole == IInv /\ IsPrefix(origin, main) => HistoriesAreWhole
<1> SUFFICES ASSUME IInv, IsPrefix(origin, main) PROVE HistoriesAreWhole
    OBVIOUS
<1>1. main \in Commit /\ origin \in Commit /\ \A n \in CL : commitSha[n] \in Commit
  BY DEF IInv, TypeOK
<1>2. IsPrefix(main, main)
  BY <1>1, PrefixReflexive
<1>3. \A n \in CL : commitSha[n] # NoCommit =>
                    IsPrefix(commitSha[n], main) /\ commitSha[n][Len(commitSha[n])] = n
  BY DEF IInv, MapMatchesHistory
<1>4. \A n \in CL : commitSha[n] # NoCommit => IsWhole(commitSha[n], depot)
  BY <1>1, <1>3, PrefixIsWhole
<1> QED
  BY <1>1, <1>2, <1>3, <1>4, PrefixIsWhole DEF HistoriesAreWhole, WholeRow

\* What the invariant is with the CLI backend: it holds until something is skipped.
LEMMA WholeNext ==
    ASSUME TypeOK, BatchInv, NothingSkipped => WholeInv, [Next]_vars
    PROVE  NothingSkipped' => WholeInv'
<1> SUFFICES ASSUME NothingSkipped' PROVE WholeInv'
    OBVIOUS
<1>1. NothingSkipped
  <2>1. ASSUME NEW kind \in ClKinds, Submit(kind) PROVE NothingSkipped
    <3>1. \A n \in 1..Len(depot) : depot'[n] = depot[n] /\ n \in 1..Len(depot')
      BY <2>1, SubmitExtends DEF TypeOK
    <3> QED
      BY <3>1 DEF NothingSkipped
  <2>2. CASE UNCHANGED depot
    BY <2>2 DEF NothingSkipped
  <2> QED
    BY <2>1, <2>2, Frame
<1>2. WholeInv
  BY <1>1
<1>3. TypeOK' /\ BatchInv'
  BY TypeNext, BatchNext DEF WholeInv
<1>4. WholeInHand' /\ CheckpointBacked' /\ HistoriesAreWhole'
  BY <1>1, <1>2, WholeInHandNext, WholeCheckpointNext, WholeHistoryNext
<1> QED
  BY <1>3, <1>4 DEF WholeInv

\* No commit that the branch, the remote or a row names has a hole: with libgit2,
\* and with the CLI backend while nothing has been skipped, even when git
\* update-ref fails and leaves the branch behind its rows.
THEOREM NoHistoryHasAHole == Spec => []HistoryIsWhole
<1>1. CASE Backend = "pygit2"
  <2> DEFINE J == IInv /\ IsPrefix(origin, main)
  <2>1. SafeConfig
    BY <1>1 DEF SafeConfig
  <2>2. Init => J
    <3> SUFFICES ASSUME Init PROVE IsPrefix(origin, main)
      BY IInvInit
    <3>1. NoCommit \in Commit /\ origin = NoCommit /\ main = NoCommit
      BY DEF Init, Commit, NoCommit
    <3> QED
      BY <3>1, PrefixReflexive
  <2>3. J /\ [Next]_vars => J'
    BY <2>1, IInvNext, OriginNext
  <2>4. J => HistoryIsWhole
    BY SafeIsWhole DEF HistoryIsWhole
  <2> QED
    BY <2>2, <2>3, <2>4, PTL DEF Spec
<1>2. CASE Backend # "pygit2"
  <2> DEFINE K == TypeOK /\ BatchInv /\ (NothingSkipped => WholeInv)
  <2>1. Init => K
    BY TypeAndBatchInit
    DEF TypeAndBatch, Init, WholeInv, WholeInHand, CheckpointBacked, HistoriesAreWhole
  <2>2. K /\ [Next]_vars => K'
    BY TypeNext, BatchNext, WholeNext
  <2>3. K => HistoryIsWhole
    BY <1>2 DEF WholeInv, HistoryIsWhole
  <2> QED
    BY <2>1, <2>2, <2>3, PTL DEF Spec
<1> QED
  BY <1>1, <1>2

-----------------------------------------------------------------------------
(* Refinement.                                                              *)

\* In a safe configuration every step is a step of the mirror, or invisible to it.
LEMMA MirrorStep ==
    ASSUME SafeConfig, IInv, [Next]_vars
    PROVE  [M!MirrorNext]_M!mirrorVars
<1> USE DEF M!mirrorVars, p4Vars, gitVars
<1>1. ASSUME NEW kind \in ClKinds, Submit(kind) PROVE M!MirrorNext
  BY <1>1 DEF Submit, M!MirrorNext, M!SubmitChange
<1>2. CASE BuildCommit
  <2>1. CASE main' = main
    BY <1>2, <2>1 DEF BuildCommit
  <2>2. CASE main' # main
    <3>1. /\ cur \in 1..Len(depot) /\ cur = lastCl + 1 /\ lastCl \in Nat
          /\ depot[cur] \in CommitKinds /\ UNCHANGED <<depot, origin>>
      BY <1>2, CurInBounds, BoundsAreNat DEF IInv, TypeOK, BatchInv, BuildCommit
    <3>2. main' = Append(main, cur) /\ \A i \in 1..Len(main) : main[i] <= lastCl
      BY <1>2, <2>2, CommitStep DEF IInv
    <3>3. main \in Commit /\ \A i \in 1..Len(main) : main[i] \in Nat
      BY BoundsAreNat, CommitType DEF IInv, TypeOK
    <3>4. cur \in M!Unmirrored
      BY <3>1, <3>2, <3>3 DEF M!Unmirrored
    <3>5. ASSUME NEW m \in M!Unmirrored PROVE cur <= m
      <4>1. /\ m \in 1..Len(depot) /\ depot[m] \in CommitKinds
            /\ \A i \in 1..Len(main) : main[i] < m
        BY DEF M!Unmirrored
      <4>2. m \notin 1..lastCl
        <5> SUFFICES ASSUME m \in 1..lastCl PROVE FALSE
            OBVIOUS
        <5>1. PICK i \in 1..Len(main) : main[i] = m
          BY <4>1 DEF IInv, OneCommitPerChangelist, Mirrored
        <5> QED
          BY <3>3, <4>1, <5>1
      <4> QED
        BY <3>1, <4>1, <4>2
    <3>6. M!Replicate
      BY <3>1, <3>2, <3>4, <3>5 DEF M!Replicate
    <3> QED
      BY <3>6 DEF M!MirrorNext
  <2> QED
    BY <2>1, <2>2
<1>3. CASE ResumePush \/ PushCommit \/ BatchPush
  <2>1. M!Publish
    BY <1>3 DEF ResumePush, PushCommit, BatchPush, PushBranch, M!Publish
  <2> QED
    BY <2>1 DEF M!MirrorNext
<1>4. CASE UNCHANGED <<depot, main, origin>>
  BY <1>4
<1> QED
  BY <1>1, <1>2, <1>3, <1>4, Frame

\* In a safe configuration the forward sync implements the abstract mirror: no
\* step rewrites the branch or the remote, skips a changelist or repeats one.
THEOREM Refinement == ASSUME SafeConfig PROVE Spec => ImplementsMirror
<1>1. Init => M!MirrorInit
  BY DEF Init, M!MirrorInit, NoCommit
<1>2. IInv /\ [Next]_vars => [M!MirrorNext]_M!mirrorVars
  BY MirrorStep
<1> QED
  BY Inductive, <1>1, <1>2, PTL DEF Spec, ImplementsMirror, M!MirrorSpec
=============================================================================
