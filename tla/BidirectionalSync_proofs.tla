---------------------- MODULE BidirectionalSync_proofs ----------------------
(***************************************************************************)
(* The bidirectional sync for every number of changelists, commits, files   *)
(* and accidents: branches, rows, conflicts, the remote, the reverse        *)
(* checkpoint, and that the reverse direction implements Mirror.           *)
(***************************************************************************)
EXTENDS BidirectionalSyncProps, SequenceTheorems, FiniteSetTheorems,
        FunctionTheorems, WellFoundedInduction, TLAPS

\* The numeric constants are numbers, and so is their sum.
LEMMA BoundsAreNat ==
    /\ MaxUser \in Nat /\ MaxDev \in Nat /\ MaxAccidents \in Nat
    /\ MaxCL \in Nat /\ BatchSize \in Nat \ {0} /\ NoFile \notin Files
BY BidirectionalSyncAssumption DEF MaxCL

\* What a fetched branch leads to at place i is a commit whose last change is
\* the one at i.
LEMMA CommitAtType ==
    ASSUME TypeOK, NEW i \in 1..Len(tracking)
    PROVE  /\ CommitAt(i) \in Commit
           /\ Len(CommitAt(i)) = i /\ CommitAt(i) # NoCommit
           /\ CommitAt(i)[i] = tracking[i]
<1>1. tracking \in Seq(Change) /\ i \in 1..Len(tracking)
  BY DEF TypeOK, Commit
<1>2. SubSeq(tracking, 1, i) \in Seq(Change) /\ Len(SubSeq(tracking, 1, i)) = i
  BY <1>1, SubSeqProperties
<1>3. \A j \in 1..i : SubSeq(tracking, 1, i)[j] = tracking[j]
  BY <1>1, SubSeqProperties
<1> QED
  BY <1>1, <1>2, <1>3 DEF CommitAt, Commit, NoCommit

\* Places on the fetched branch carry changes.
LEMMA ChangeAt ==
    ASSUME TypeOK, NEW i \in 1..Len(tracking)
    PROVE  /\ tracking[i] \in Change
           /\ FromDeveloper(i) => tracking[i][2] \in Dev /\ tracking[i] = <<"dev", tracking[i][2]>>
<1>1. tracking[i] \in Change
  BY DEF TypeOK, Commit
<1> QED
  BY <1>1 DEF Change, FromDeveloper

-----------------------------------------------------------------------------
(* Types, and the place in the loop.  BranchInv is among the hypotheses: it  *)
(* bounds the developer commits that a branch can hold.                     *)

\* Nothing is in work when the service is installed.
LEMMA TypeAndPlaceInit == Init => TypeOK /\ PlaceInv
<1> SUFFICES ASSUME Init PROVE TypeOK /\ PlaceInv
    OBVIOUS
<1> USE BoundsAreNat
<1>1. /\ depot \in Seq([file : Files, git : 0..MaxDev])
      /\ Len(depot) <= MaxCL /\ Len(depot) = lastCl
      /\ lastCl \in {0} \cup CL
      /\ origin \in Commit
  <2>1. CASE Imported
    <3>1. PICK f \in Files : depot = <<[file |-> f, git |-> 0]>>
      BY <2>1 DEF Init
    <3>2. [file |-> f, git |-> 0] \in [file : Files, git : 0..MaxDev]
      OBVIOUS
    <3>3. 1 \in CL
      BY <2>1, BidirectionalSyncAssumption DEF CL, MaxCL
    <3>4. <<"p4", 1>> \in Change
      BY <3>3 DEF Change
    <3>5. <<<<"p4", 1>>>> \in Seq(Change) /\ <<[file |-> f, git |-> 0]>> \in Seq([file : Files, git : 0..MaxDev])
      BY <3>2, <3>4
    <3> QED
      BY <2>1, <3>1, <3>3, <3>5 DEF Init, CL, Commit
  <2>2. CASE ~Imported
    BY <2>2 DEF Init, Commit, NoCommit
  <2> QED
    BY <2>1, <2>2
<1>2. commitSha \in [CL -> Commit]
  BY <1>1 DEF Init, Commit, NoCommit
<1>3. NoCommit \in Commit /\ pushed \in Seq(Files \cup {NoFile}) /\ Len(pushed) <= MaxDev
  BY DEF Init, Commit, NoCommit
<1> QED
  BY <1>1, <1>2, <1>3 DEF Init, TypeOK, PlaceInv, Reversing, PC

\* The parent of the next commit is a commit or nothing.
LEMMA ParentShaType == TypeOK => ParentSha \in Commit
BY BoundsAreNat DEF TypeOK, ParentSha, CL, Commit, NoCommit

\* The changelist in work has been submitted.
LEMMA CurrentInBounds ==
    ASSUME TypeOK, PlaceInv, lastCl < last
    PROVE  Current \in CL /\ Current \in 1..Len(depot)
<1>1. /\ lastCl \in Int /\ last \in Int /\ lastCl >= 0 /\ last <= Len(depot)
      /\ Len(depot) \in Nat /\ Len(depot) <= MaxCL
  BY BoundsAreNat DEF TypeOK, PlaceInv, CL
<1> QED
  BY <1>1, BoundsAreNat DEF Current, CL

\* The end of the batch is a submitted changelist, or there is none.
LEMMA BatchEndInBounds ==
    ASSUME TypeOK, PlaceInv
    PROVE  BatchEnd \in 0..Len(depot) /\ BatchEnd \in {0} \cup CL
<1>1. lastCl \in Nat /\ lastCl <= Len(depot) /\ Len(depot) \in Nat /\ Len(depot) <= MaxCL
  BY BoundsAreNat DEF TypeOK, PlaceInv, CL
<1> QED
  BY <1>1, BoundsAreNat DEF BatchEnd, CL

\* A commit in hand is known, so what it touches is a file unless P4 refuses it.
LEMMA InHandType ==
    ASSUME TypeOK, PlaceInv, WellFormed(tracking), NEW i \in newCommits
    PROVE  /\ i \in 1..Len(tracking)
           /\ tracking[i][2] \in Dev /\ tracking[i] = <<"dev", tracking[i][2]>>
           /\ FileOf(i) \in Files \cup {NoFile}
<1>1. i \in 1..Len(tracking) /\ FromDeveloper(i)
  BY DEF TypeOK, PlaceInv
<1>2. tracking[i][2] \in Dev /\ tracking[i] = <<"dev", tracking[i][2]>>
  BY <1>1, ChangeAt
<1>3. tracking[i][2] <= Len(pushed)
  BY <1>1 DEF WellFormed, Known, FromDeveloper
<1>4. tracking[i][2] \in 1..Len(pushed)
  BY <1>2, <1>3, BoundsAreNat DEF Dev, TypeOK
<1> QED
  BY <1>1, <1>2, <1>4 DEF FileOf, TypeOK

\* What a submit appends is the change of the commit in hand.
LEMMA SubmitType ==
    ASSUME TypeOK, PlaceInv, WellFormed(tracking), SubmitTakesEffect
    PROVE  /\ depot' \in Seq([file : Files, git : 0..MaxDev])
           /\ Len(depot') = Len(depot) + 1 /\ Len(depot') <= MaxCL
           /\ \A n \in 1..Len(depot) : depot'[n] = depot[n]
           /\ \A i \in newCommits : InHand(i) => depot'[Len(depot')].git = tracking[i][2]
<1>1. PICK i \in newCommits :
          /\ InHand(i)
          /\ depot' = Append(depot, [file |-> FileOf(i), git |-> tracking[i][2]])
  BY DEF SubmitTakesEffect
<1>2. FileOf(i) \in Files
  BY <1>1, InHandType DEF SubmitTakesEffect, Refused
<1>3. tracking[i][2] \in 0..MaxDev
  BY InHandType, BoundsAreNat DEF Dev
<1>4. [file |-> FileOf(i), git |-> tracking[i][2]] \in [file : Files, git : 0..MaxDev]
  BY <1>2, <1>3
<1>5. /\ depot \in Seq([file : Files, git : 0..MaxDev])
      /\ Len(depot) \in Nat /\ Len(depot) < MaxCL
  BY DEF TypeOK, SubmitTakesEffect
<1>6. \A j \in newCommits : InHand(j) => j = i
  <2>1. \A j \in newCommits : j \in Int
    BY DEF TypeOK
  <2> QED
    BY <1>1, <2>1 DEF InHand, IsOldest
<1>7. /\ depot' \in Seq([file : Files, git : 0..MaxDev])
      /\ Len(depot') = Len(depot) + 1
      /\ \A n \in 1..Len(depot) : depot'[n] = depot[n]
      /\ depot'[Len(depot) + 1] = [file |-> FileOf(i), git |-> tracking[i][2]]
  BY <1>1, <1>4, <1>5, AppendProperties
<1>8. Len(depot') <= MaxCL
  BY <1>5, <1>7, BoundsAreNat
<1> QED
  BY <1>6, <1>7, <1>8

\* A changelist of a user is appended.
LEMMA UserSubmitType ==
    ASSUME TypeOK, NEW f \in Files, Submit(f)
    PROVE  /\ deleting' \subseteq Change
           /\ depot' \in Seq([file : Files, git : 0..MaxDev])
           /\ Len(depot') = Len(depot) + 1 /\ Len(depot') <= MaxCL
           /\ \A n \in 1..Len(depot) : depot'[n] = depot[n]
<1>1. [file |-> f, git |-> 0] \in [file : Files, git : 0..MaxDev]
  BY BoundsAreNat
<1>2. /\ depot \in Seq([file : Files, git : 0..MaxDev])
      /\ Len(depot) \in Nat /\ Len(depot) < MaxCL
      /\ depot' = Append(depot, [file |-> f, git |-> 0])
  BY DEF TypeOK, Submit
<1>3. /\ depot' \in Seq([file : Files, git : 0..MaxDev])
      /\ Len(depot') = Len(depot) + 1
      /\ \A n \in 1..Len(depot) : depot'[n] = depot[n]
  BY <1>1, <1>2, AppendProperties
<1>4. <<"p4", Len(depot) + 1>> \in Change
  BY <1>2, BoundsAreNat DEF Change, CL
<1>5. deleting' \subseteq Change
  BY <1>4 DEF Submit, WriteOrDelete, TypeOK
<1> QED
  BY <1>2, <1>3, <1>5, BoundsAreNat

\* A developer's push appends the next change to the remote branch.
LEMMA PushType ==
    ASSUME TypeOK, NEW f \in PushedFiles, Push(f)
    PROVE  /\ pushed' \in Seq(Files \cup {NoFile})
           /\ Len(pushed') = Len(pushed) + 1 /\ Len(pushed') <= MaxDev
           /\ \A k \in 1..Len(pushed) : pushed'[k] = pushed[k]
           /\ <<"dev", Len(pushed) + 1>> \in Change
           /\ origin' = Append(origin, <<"dev", Len(pushed) + 1>>)
           /\ origin' \in Commit /\ deleting' \subseteq Change
<1>1. f \in Files \cup {NoFile}
  BY DEF PushedFiles
<1>2. /\ pushed \in Seq(Files \cup {NoFile}) /\ Len(pushed) \in Nat
      /\ Len(pushed) < MaxDev /\ pushed' = Append(pushed, f)
  BY DEF TypeOK, Push
<1>3. /\ pushed' \in Seq(Files \cup {NoFile})
      /\ Len(pushed') = Len(pushed) + 1
      /\ \A k \in 1..Len(pushed) : pushed'[k] = pushed[k]
  BY <1>1, <1>2, AppendProperties
<1>4. Len(pushed) + 1 \in Dev
  BY <1>2, BoundsAreNat DEF Dev
<1>5. <<"dev", Len(pushed) + 1>> \in Change
  BY <1>4 DEF Change
<1>6. origin' = Append(origin, <<"dev", Len(pushed) + 1>>) /\ origin' \in Commit
  BY <1>5, AppendProperties DEF Push, TypeOK, Commit
<1>7. deleting' \subseteq Change
  BY <1>5 DEF Push, WriteOrDelete, TypeOK
<1> QED
  BY <1>2, <1>3, <1>5, <1>6, <1>7, BoundsAreNat

\* The changelists of a conflict have been submitted.
LEMMA P4ChangesType == TypeOK /\ PlaceInv => P4Changes \subseteq CL
<1> SUFFICES ASSUME TypeOK, PlaceInv, NEW n \in P4Changes PROVE n \in CL
    OBVIOUS
<1>1. n \in (lastCl + 1)..BatchEnd
  BY DEF P4Changes
<1>2. lastCl \in Nat /\ BatchEnd \in 0..Len(depot) /\ Len(depot) \in Nat /\ Len(depot) <= MaxCL
  BY BatchEndInBounds, BoundsAreNat DEF TypeOK, CL
<1> QED
  BY <1>1, <1>2, BoundsAreNat DEF CL

\* Every step keeps the types.
LEMMA TypeNext == TypeOK /\ PlaceInv /\ WellFormed(tracking) /\ [Next]_vars => TypeOK'
<1> SUFFICES ASSUME TypeOK, PlaceInv, WellFormed(tracking), [Next]_vars PROVE TypeOK'
    OBVIOUS
<1> USE BoundsAreNat DEF TypeOK, PC, devVars, remoteVars, trackingVars, localVars,
                         forwardVars, reverseVars
<1>1. ASSUME NEW f \in Files, Submit(f) PROVE TypeOK'
  <2>1. /\ depot' \in Seq([file : Files, git : 0..MaxDev]) /\ Len(depot') <= MaxCL
        /\ Len(depot') = Len(depot) + 1 /\ deleting' \subseteq Change
    BY <1>1, UserSubmitType
  <2>2. UNCHANGED <<pushed, remoteVars, trackingVars, localVars, forwardVars, commitSha,
                    reverseVars, conflict, primary, pc, accidents>>
    BY <1>1 DEF Submit
  <2> QED
    BY <2>1, <2>2
<1>2. ASSUME NEW f \in PushedFiles, Push(f) PROVE TypeOK'
  <2>1. /\ pushed' \in Seq(Files \cup {NoFile}) /\ Len(pushed') <= MaxDev
        /\ origin' \in Commit /\ deleting' \subseteq Change
    BY <1>2, PushType
  <2>2. UNCHANGED <<depot, conflictHeads, trackingVars, localVars, forwardVars, commitSha,
                    reverseVars, conflict, primary, pc, accidents>>
    BY <1>2 DEF Push
  <2> QED
    BY <2>1, <2>2
<1>3. ASSUME NEW n \in CL, DeleteConflictBranch(n) PROVE TypeOK'
  BY <1>3 DEF DeleteConflictBranch
<1>4. CASE Crash
  BY <1>4 DEF Crash, Forget
<1>5. CASE Start
  <2>1. newCommits = {}
    BY <1>5 DEF Start, PlaceInv, Reversing
  <2> QED
    BY <1>5, <2>1 DEF Start, PushBranch
<1>6. CASE CheckConflictResolved
  <2>1. newCommits = {}
    BY <1>6 DEF CheckConflictResolved, PlaceInv, Reversing
  <2> QED
    BY <1>6, <2>1 DEF CheckConflictResolved, FetchRemote
<1>7. CASE Fetch
  <2>1. newCommits = {}
    BY <1>7 DEF Fetch, PlaceInv, Reversing
  <2> QED
    BY <1>7, <2>1 DEF Fetch, FetchRemote
<1>8. CASE FetchFails
  BY <1>8 DEF FetchFails
<1>9. CASE CheckConflicts
  <2>1. primary' \in {0} \cup CL
    BY <1>9, P4ChangesType DEF CheckConflicts, StartConflict
  <2> QED
    BY <1>9, <2>1 DEF CheckConflicts, StartConflict
<1>10. CASE RoundAborts
  BY <1>10 DEF RoundAborts, EndRound, Forget
<1>11. CASE Poll
  BY <1>11, BatchEndInBounds DEF Poll
<1>12. CASE SkipMarker
  BY <1>12, CurrentInBounds DEF SkipMarker
<1>13. CASE BuildCommit
  <2>1. Current \in CL /\ ParentSha \in Commit
    BY <1>13, CurrentInBounds, ParentShaType DEF BuildCommit
  <2>2. <<"p4", Current>> \in Change
    BY <2>1 DEF Change
  <2>3. Built \in Commit
    BY <2>1, <2>2, AppendProperties DEF Built, Commit
  <2>4. main' \in Commit /\ commitSha' \in [CL -> Commit]
    BY <1>13, <2>3 DEF BuildCommit, MoveBranch
  <2>5. lastCl' \in CL
    BY <1>13, <2>1 DEF BuildCommit
  <2>6. /\ pc' \in {"push", "forward"}
        /\ UNCHANGED <<depot, devVars, remoteVars, trackingVars, conflictRefs, last,
                       reverseVars, conflict, primary, accidents>>
    BY <1>13 DEF BuildCommit
  <2> QED
    BY <2>4, <2>5, <2>6
<1>14. CASE SyncError
  BY <1>14 DEF SyncError
<1>15. CASE PushCommit
  <2>1. newCommits = {}
    BY <1>15 DEF PushCommit, PlaceInv, Reversing
  <2> QED
    BY <1>15, <2>1 DEF PushCommit, PushBranch
<1>16. CASE EndBatch
  <2>1. newCommits = {}
    BY <1>16 DEF EndBatch, PlaceInv, Reversing
  <2> QED
    BY <1>16, <2>1 DEF EndBatch, PushBranch
<1>17. CASE CreateConflictBranch
  BY <1>17 DEF CreateConflictBranch, PlaceInv
<1>18. CASE PushConflictBranch
  BY <1>18 DEF PushConflictBranch, PlaceInv
<1>19. CASE RecordConflict
  BY <1>19 DEF RecordConflict, EndRound, Forget
<1>20. CASE ConflictFails
  BY <1>20 DEF ConflictFails, EndRound, Forget
<1>21. CASE DetectNewCommits
  <2>1. primary' \in {0} \cup CL
    BY <1>21, P4ChangesType DEF DetectNewCommits, StartConflict
  <2>2. newCommits' \subseteq 1..Len(tracking)
    BY <1>21 DEF DetectNewCommits, NewCommits, LogAfter
  <2>3. pc' \in PC
    BY <1>21 DEF DetectNewCommits, StartConflict
  <2> QED
    BY <1>21, <2>1, <2>2, <2>3 DEF DetectNewCommits
<1>22. CASE SubmitCommit
  <2>1. SubmitTakesEffect
    BY <1>22 DEF SubmitCommit
  <2>2. Len(depot') \in CL
    BY <2>1, SubmitType DEF CL
  <2> QED
    BY <1>22, <2>1, <2>2, SubmitType DEF SubmitCommit
<1>23. CASE SubmitAnswerLost
  <2>1. SubmitTakesEffect
    BY <1>23 DEF SubmitAnswerLost
  <2> QED
    BY <1>23, <2>1, SubmitType DEF SubmitAnswerLost, EndRound, Forget
<1>24. CASE SubmitFails
  BY <1>24 DEF SubmitFails, EndRound, Forget
<1>25. CASE RecordReverse
  <2>1. PICK i \in newCommits : commitSha' = [commitSha EXCEPT ![submitted] = CommitAt(i)]
    BY <1>25 DEF RecordReverse
  <2>2. CommitAt(i) \in Commit
    BY CommitAtType
  <2>3. commitSha' \in [CL -> Commit]
    BY <2>1, <2>2
  <2> QED
    BY <1>25, <2>3 DEF RecordReverse
<1>26. CASE UpdateLastProcessed
  <2>1. PICK i \in newCommits : lastReverse' = CommitAt(i)
    BY <1>26 DEF UpdateLastProcessed
  <2>2. CommitAt(i) \in Commit
    BY CommitAtType
  <2>3. newCommits' \subseteq 1..Len(tracking) /\ pc' \in PC
    BY <1>26 DEF UpdateLastProcessed, NextCommit
  <2> QED
    BY <1>26, <2>1, <2>2, <2>3 DEF UpdateLastProcessed
<1>27. CASE UNCHANGED vars
  BY <1>27 DEF vars
<1> QED
  BY <1>1, <1>2, <1>3, <1>4, <1>5, <1>6, <1>7, <1>8, <1>9, <1>10, <1>11, <1>12, <1>13, <1>14, <1>15, <1>16, <1>17, <1>18, <1>19, <1>20, <1>21, <1>22, <1>23, <1>24, <1>25, <1>26, <1>27
     DEF Next, Environment, Checking, ForwardSync, ConflictHandling, ReverseSync

\* The checkpoint and the batch end at changelists that have been submitted.
LEMMA LenFacts ==
    TypeOK /\ PlaceInv => /\ Len(depot) \in Nat /\ Len(pushed) \in Nat
                          /\ lastCl \in Nat /\ last \in Nat
                          /\ last <= Len(depot) /\ lastCl <= Len(depot)
BY BoundsAreNat DEF TypeOK, PlaceInv, CL

\* Every step keeps place, batch and the commit in hand together.
LEMMA PlaceNext == TypeOK /\ PlaceInv /\ WellFormed(tracking) /\ [Next]_vars => PlaceInv'
<1> SUFFICES ASSUME TypeOK, PlaceInv, WellFormed(tracking), [Next]_vars PROVE PlaceInv'
    OBVIOUS
<1> USE DEF PlaceInv, Reversing, FromDeveloper, InHand, IsOldest, devVars, remoteVars,
            trackingVars, localVars, forwardVars, reverseVars
<1>0. last \in Nat /\ lastCl \in Nat /\ Len(depot) \in Nat
  BY LenFacts
<1>1. ASSUME NEW f \in Files, Submit(f) PROVE PlaceInv'
  <2>1. Len(depot') = Len(depot) + 1 /\ \A n \in 1..Len(depot) : depot'[n] = depot[n]
    BY <1>1, UserSubmitType
  <2>2. last <= Len(depot') /\ lastCl <= Len(depot')
    BY <2>1, LenFacts
  <2>3. 1..Len(depot) \subseteq 1..Len(depot')
    BY <2>1, LenFacts
  <2> QED
    BY <1>1, <2>1, <2>2, <2>3 DEF Submit
<1>2. ASSUME NEW f \in PushedFiles, Push(f) PROVE PlaceInv'
  BY <1>0, <1>2 DEF Push
<1>3. ASSUME NEW n \in CL, DeleteConflictBranch(n) PROVE PlaceInv'
  BY <1>0, <1>3 DEF DeleteConflictBranch
<1>4. CASE Crash
  BY <1>0, <1>4 DEF Crash, Forget
<1>5. CASE Start
  <2>1. newCommits = {}
    BY <1>5 DEF Start
  <2> QED
    BY <1>5, <2>1 DEF Start
<1>6. CASE CheckConflictResolved
  <2>1. newCommits = {}
    BY <1>6 DEF CheckConflictResolved
  <2> QED
    BY <1>6, <2>1 DEF CheckConflictResolved
<1>7. CASE Fetch
  <2>1. newCommits = {}
    BY <1>7 DEF Fetch
  <2> QED
    BY <1>7, <2>1 DEF Fetch
<1>8. CASE FetchFails
  BY <1>0, <1>8 DEF FetchFails
<1>9. CASE CheckConflicts
  <2>1. CASE StartConflict
    <3>1. primary' \in CL
      BY <2>1, P4ChangesType DEF StartConflict
    <3>2. primary' # 0
      BY <3>1, BoundsAreNat DEF CL
    <3> QED
      BY <1>9, <2>1, <3>2 DEF CheckConflicts, StartConflict
  <2>2. CASE ~StartConflict
    BY <1>9, <2>2 DEF CheckConflicts
  <2> QED
    BY <2>1, <2>2
<1>10. CASE RoundAborts
  BY <1>0, <1>10 DEF RoundAborts, EndRound, Forget
<1>11. CASE Poll
  BY <1>11, BatchEndInBounds DEF Poll
<1>12. CASE SkipMarker
  BY <1>12, CurrentInBounds DEF SkipMarker
<1>13. CASE BuildCommit
  BY <1>13, CurrentInBounds DEF BuildCommit
<1>14. CASE SyncError
  BY <1>0, <1>14 DEF SyncError
<1>15. CASE PushCommit
  <2>1. newCommits = {}
    BY <1>15 DEF PushCommit
  <2> QED
    BY <1>15, <2>1 DEF PushCommit
<1>16. CASE EndBatch
  <2>1. newCommits = {}
    BY <1>16 DEF EndBatch
  <2> QED
    BY <1>16, <2>1 DEF EndBatch
<1>17. CASE CreateConflictBranch
  BY <1>0, <1>17 DEF CreateConflictBranch
<1>18. CASE PushConflictBranch
  BY <1>0, <1>18 DEF PushConflictBranch
<1>19. CASE RecordConflict
  BY <1>0, <1>19 DEF RecordConflict, EndRound, Forget
<1>20. CASE ConflictFails
  BY <1>0, <1>20 DEF ConflictFails, EndRound, Forget
<1>21. CASE DetectNewCommits
  <2>1. CASE StartConflict /\ UNCHANGED newCommits
    <3>1. primary' \in CL
      BY <2>1, P4ChangesType DEF StartConflict
    <3>2. primary' # 0
      BY <3>1, BoundsAreNat DEF CL
    <3> QED
      BY <1>21, <2>1, <3>2 DEF DetectNewCommits, StartConflict
  <2>2. CASE newCommits' = NewCommits /\ pc' = "submit"
    <3>1. \A i \in NewCommits : FromDeveloper(i)
      BY DEF NewCommits, IsNew
    <3> QED
      BY <1>21, <2>2, <3>1 DEF DetectNewCommits, FromDeveloper
  <2>3. CASE pc' = "idle" /\ UNCHANGED <<newCommits, primary>>
    BY <1>21, <2>3 DEF DetectNewCommits
  <2> QED
    BY <1>21, <2>1, <2>2, <2>3 DEF DetectNewCommits
<1>22. CASE SubmitCommit
  <2>1. SubmitTakesEffect
    BY <1>22 DEF SubmitCommit
  <2>2. /\ Len(depot') = Len(depot) + 1
        /\ \A i \in newCommits : InHand(i) => depot'[Len(depot')].git = tracking[i][2]
    BY <2>1, SubmitType
  <2>3. \A i \in newCommits : InHand(i)' <=> InHand(i)
    BY <1>22 DEF SubmitCommit, InHand, IsOldest
  <2>4. last <= Len(depot') /\ lastCl <= Len(depot') /\ Len(depot') \in 1..Len(depot')
    BY <2>2, LenFacts
  <2> QED
    BY <1>22, <2>2, <2>3, <2>4 DEF SubmitCommit
<1>23. CASE SubmitAnswerLost
  <2>1. Len(depot') = Len(depot) + 1
    BY <1>23, SubmitType DEF SubmitAnswerLost
  <2>2. lastCl <= Len(depot') /\ 0 <= Len(depot')
    BY <2>1, LenFacts
  <2> QED
    BY <1>23, <2>2 DEF SubmitAnswerLost, EndRound, Forget
<1>24. CASE SubmitFails
  BY <1>0, <1>24 DEF SubmitFails, EndRound, Forget
<1>25. CASE RecordReverse
  BY <1>0, <1>25 DEF RecordReverse
<1>26. CASE UpdateLastProcessed
  <2>1. newCommits' \subseteq newCommits /\ pc' \in {"idle", "submit"}
        /\ (pc' = "idle" => newCommits' = {})
    BY <1>26 DEF UpdateLastProcessed, NextCommit
  <2> QED
    BY <1>26, <2>1 DEF UpdateLastProcessed
<1>27. CASE UNCHANGED vars
  BY <1>27 DEF vars
<1> QED
  BY <1>1, <1>2, <1>3, <1>4, <1>5, <1>6, <1>7, <1>8, <1>9, <1>10, <1>11, <1>12, <1>13, <1>14, <1>15, <1>16, <1>17, <1>18, <1>19, <1>20, <1>21, <1>22, <1>23, <1>24, <1>25, <1>26, <1>27
     DEF Next, Environment, Checking, ForwardSync, ConflictHandling, ReverseSync

-----------------------------------------------------------------------------
(* What a step leaves behind of P4, the developers' commits and the         *)
(* checkpoint: all three only grow.                                        *)

Grows ==
    /\ Len(pushed) <= Len(pushed') /\ lastCl <= lastCl'
    /\ Len(depot) <= Len(depot')
    /\ \A n \in 1..Len(depot) : depot'[n] = depot[n]

\* No step takes back a changelist, a developer's commit or the checkpoint.
LEMMA StepsGrow == TypeOK /\ PlaceInv /\ WellFormed(tracking) /\ [Next]_vars => Grows
<1> SUFFICES ASSUME TypeOK, PlaceInv, WellFormed(tracking), [Next]_vars PROVE Grows
    OBVIOUS
<1> USE DEF Grows, devVars, remoteVars, trackingVars, localVars, forwardVars, reverseVars
<1>0. lastCl \in Nat /\ Len(depot) \in Nat /\ Len(pushed) \in Nat
  BY LenFacts
<1>1. ASSUME NEW f \in Files, Submit(f) PROVE Grows
  BY <1>0, <1>1, UserSubmitType DEF Submit
<1>2. ASSUME NEW f \in PushedFiles, Push(f) PROVE Grows
  BY <1>0, <1>2, PushType DEF Push
<1>3. ASSUME NEW n \in CL, DeleteConflictBranch(n) PROVE Grows
  BY <1>0, <1>3 DEF DeleteConflictBranch
<1>4. CASE Crash
  BY <1>0, <1>4 DEF Crash, Forget
<1>5. CASE Start
  BY <1>0, <1>5 DEF Start
<1>6. CASE CheckConflictResolved
  BY <1>0, <1>6 DEF CheckConflictResolved
<1>7. CASE Fetch
  BY <1>0, <1>7 DEF Fetch
<1>8. CASE FetchFails
  BY <1>0, <1>8 DEF FetchFails
<1>9. CASE CheckConflicts
  BY <1>0, <1>9 DEF CheckConflicts
<1>10. CASE RoundAborts
  BY <1>0, <1>10 DEF RoundAborts, EndRound, Forget
<1>11. CASE Poll
  BY <1>0, <1>11 DEF Poll
<1>12. CASE SkipMarker
  BY <1>0, <1>12 DEF SkipMarker, Current
<1>13. CASE BuildCommit
  BY <1>0, <1>13 DEF BuildCommit, Current
<1>14. CASE SyncError
  BY <1>0, <1>14 DEF SyncError
<1>15. CASE PushCommit
  BY <1>0, <1>15 DEF PushCommit
<1>16. CASE EndBatch
  BY <1>0, <1>16 DEF EndBatch
<1>17. CASE CreateConflictBranch
  BY <1>0, <1>17 DEF CreateConflictBranch
<1>18. CASE PushConflictBranch
  BY <1>0, <1>18 DEF PushConflictBranch
<1>19. CASE RecordConflict
  BY <1>0, <1>19 DEF RecordConflict, EndRound, Forget
<1>20. CASE ConflictFails
  BY <1>0, <1>20 DEF ConflictFails, EndRound, Forget
<1>21. CASE DetectNewCommits
  BY <1>0, <1>21 DEF DetectNewCommits
<1>22. CASE SubmitCommit
  BY <1>0, <1>22, SubmitType DEF SubmitCommit
<1>23. CASE SubmitAnswerLost
  BY <1>0, <1>23, SubmitType DEF SubmitAnswerLost, EndRound, Forget
<1>24. CASE SubmitFails
  BY <1>0, <1>24 DEF SubmitFails, EndRound, Forget
<1>25. CASE RecordReverse
  BY <1>0, <1>25 DEF RecordReverse
<1>26. CASE UpdateLastProcessed
  BY <1>0, <1>26 DEF UpdateLastProcessed
<1>27. CASE UNCHANGED vars
  BY <1>0, <1>27 DEF vars
<1> QED
  BY <1>1, <1>2, <1>3, <1>4, <1>5, <1>6, <1>7, <1>8, <1>9, <1>10, <1>11, <1>12, <1>13, <1>14, <1>15, <1>16, <1>17, <1>18, <1>19, <1>20, <1>21, <1>22, <1>23, <1>24, <1>25, <1>26, <1>27
     DEF Next, Environment, Checking, ForwardSync, ConflictHandling, ReverseSync

\* A commit that is well formed stays so.
LEMMA StaysWellFormed ==
    ASSUME TypeOK, PlaceInv, Grows, TypeOK', NEW c \in Commit, WellFormed(c)
    PROVE  WellFormed(c)'
<1>1. ASSUME NEW i \in 1..Len(c) PROVE Known(c[i])'
  <2>1. c[i] \in Change
    BY DEF Commit
  <2>2. CASE c[i][1] = "dev"
    <3>1. c[i][2] \in Int /\ c[i][2] <= Len(pushed)
      BY <2>1, <2>2, BoundsAreNat DEF WellFormed, Known, Change, Dev
    <3>2. Len(pushed) \in Nat /\ Len(pushed') \in Nat
      BY DEF TypeOK
    <3> QED
      BY <2>2, <3>1, <3>2 DEF Known, Grows
  <2>3. CASE c[i][1] = "p4"
    <3>1. c[i][2] \in CL /\ c[i][2] <= lastCl /\ FromUser(c[i][2])
      BY <2>1, <2>3 DEF WellFormed, Known, Change
    <3>2. lastCl \in Nat /\ lastCl <= Len(depot) /\ Len(depot) \in Nat /\ lastCl' \in Nat
      <4>1. lastCl' \in {0} \cup CL
        BY DEF TypeOK
      <4>2. lastCl' \in Nat
        BY <4>1, BoundsAreNat DEF CL
      <4> QED
        BY <4>2, LenFacts
    <3>3. c[i][2] \in 1..Len(depot) /\ c[i][2] <= lastCl'
      <4>1. lastCl <= lastCl' /\ c[i][2] \in 1..MaxCL
        BY <3>1 DEF Grows, CL
      <4>2. \A x, y, z, d \in Nat : x \in 1..d /\ x <= y /\ y <= z => x <= z
        OBVIOUS
      <4>3. c[i][2] \in Nat /\ 1 <= c[i][2]
        BY <4>1, BoundsAreNat
      <4>4. c[i][2] \in 1..Len(depot)
        BY <3>1, <3>2, <4>3
      <4> QED
        BY <3>1, <3>2, <4>1, <4>2, <4>3, <4>4
    <3> QED
      BY <2>3, <3>1, <3>3 DEF Known, FromUser, Grows
  <2> QED
    BY <2>1, <2>2, <2>3 DEF Change
<1> QED
  BY <1>1 DEF WellFormed

\* Git pushes, fetches and the work of users and developers move branches to
\* where another one is; only three actions make something new.
LEMMA BranchesMove ==
    ASSUME [Next]_vars
    PROVE  \/ \E f \in PushedFiles : Push(f)
           \/ BuildCommit
           \/ RecordReverse
           \/ /\ origin' \in {origin, main}
              /\ tracking' \in {tracking, origin, main}
              /\ UNCHANGED <<main, commitSha>>
<1> DEFINE Moves == /\ origin' \in {origin, main}
                    /\ tracking' \in {tracking, origin, main}
                    /\ UNCHANGED <<main, commitSha>>
           Makes == (\E f \in PushedFiles : Push(f)) \/ BuildCommit \/ RecordReverse
<1> SUFFICES Makes \/ Moves
    OBVIOUS
<1> USE DEF devVars, remoteVars, trackingVars, localVars, forwardVars, reverseVars
<1>1. ASSUME NEW f \in Files, Submit(f) PROVE Makes \/ Moves
  BY <1>1 DEF Submit
<1>2. ASSUME NEW f \in PushedFiles, Push(f) PROVE Makes \/ Moves
  BY <1>2
<1>3. ASSUME NEW n \in CL, DeleteConflictBranch(n) PROVE Makes \/ Moves
  BY <1>3 DEF DeleteConflictBranch
<1>4. CASE Crash
  BY <1>4 DEF Crash, Forget
<1>5. CASE Start
  BY <1>5 DEF Start, PushBranch
<1>6. CASE CheckConflictResolved
  BY <1>6 DEF CheckConflictResolved, FetchRemote
<1>7. CASE Fetch
  BY <1>7 DEF Fetch, FetchRemote
<1>8. CASE FetchFails
  BY <1>8 DEF FetchFails
<1>9. CASE CheckConflicts
  BY <1>9 DEF CheckConflicts
<1>10. CASE RoundAborts
  BY <1>10 DEF RoundAborts, EndRound, Forget
<1>11. CASE Poll
  BY <1>11 DEF Poll
<1>12. CASE SkipMarker
  BY <1>12 DEF SkipMarker
<1>13. CASE BuildCommit
  BY <1>13
<1>14. CASE SyncError
  BY <1>14 DEF SyncError
<1>15. CASE PushCommit
  BY <1>15 DEF PushCommit, PushBranch
<1>16. CASE EndBatch
  BY <1>16 DEF EndBatch, PushBranch
<1>17. CASE CreateConflictBranch
  BY <1>17 DEF CreateConflictBranch
<1>18. CASE PushConflictBranch
  BY <1>18 DEF PushConflictBranch
<1>19. CASE RecordConflict
  BY <1>19 DEF RecordConflict, EndRound, Forget
<1>20. CASE ConflictFails
  BY <1>20 DEF ConflictFails, EndRound, Forget
<1>21. CASE DetectNewCommits
  BY <1>21 DEF DetectNewCommits
<1>22. CASE SubmitCommit
  BY <1>22 DEF SubmitCommit
<1>23. CASE SubmitAnswerLost
  BY <1>23 DEF SubmitAnswerLost, EndRound, Forget
<1>24. CASE SubmitFails
  BY <1>24 DEF SubmitFails, EndRound, Forget
<1>25. CASE RecordReverse
  BY <1>25
<1>26. CASE UpdateLastProcessed
  BY <1>26 DEF UpdateLastProcessed
<1>27. CASE UNCHANGED vars
  BY <1>27 DEF vars
<1> QED
  BY <1>1, <1>2, <1>3, <1>4, <1>5, <1>6, <1>7, <1>8, <1>9, <1>10, <1>11, <1>12, <1>13, <1>14, <1>15, <1>16, <1>17, <1>18, <1>19, <1>20, <1>21, <1>22, <1>23, <1>24, <1>25, <1>26, <1>27
     DEF Next, Environment, Checking, ForwardSync, ConflictHandling, ReverseSync

-----------------------------------------------------------------------------
(* No change comes twice onto a branch: the invariant BranchInv.            *)

\* A commit on top of a well formed one is well formed if its change is new.
LEMMA ExtendedWellFormed ==
    ASSUME NEW c \in Commit, NEW e \in Change, WellFormed(c)', Known(e)',
           \A i \in 1..Len(c) : c[i] # e
    PROVE  Append(c, e) \in Commit /\ WellFormed(Append(c, e))'
<1> DEFINE d == Append(c, e)
<1>1. /\ d \in Commit /\ Len(d) = Len(c) + 1 /\ Len(c) \in Nat
      /\ \A i \in 1..Len(c) : d[i] = c[i]
      /\ d[Len(c) + 1] = e
  BY AppendProperties DEF Commit
<1> HIDE DEF d
<1>2. \A i \in 1..Len(d) : i \in 1..Len(c) \/ i = Len(c) + 1
  BY <1>1
<1>3. \A i \in 1..Len(d) : Known(d[i])'
  BY <1>1, <1>2 DEF WellFormed, Known
<1>4. \A i, j \in 1..Len(d) : i # j => d[i] # d[j]
  BY <1>1, <1>2 DEF WellFormed
<1> QED
  BY <1>1, <1>3, <1>4 DEF WellFormed, d

\* So is a commit further down.
LEMMA PrefixWellFormed ==
    ASSUME NEW c \in Commit, WellFormed(c)', NEW i \in 1..Len(c)
    PROVE  WellFormed(SubSeq(c, 1, i))'
<1> DEFINE d == SubSeq(c, 1, i)
<1>1. Len(d) = i /\ \A j \in 1..i : d[j] = c[j]
  BY SubSeqProperties DEF Commit
<1>2. \A j \in 1..i : j \in 1..Len(c)
  BY DEF Commit
<1> HIDE DEF d
<1>3. \A j \in 1..Len(d) : Known(d[j])'
  BY <1>1, <1>2 DEF WellFormed, Known
<1>4. \A j, k \in 1..Len(d) : j # k => d[j] # d[k]
  BY <1>1, <1>2 DEF WellFormed
<1> QED
  BY <1>3, <1>4 DEF WellFormed, d

\* The parent of the next commit is well formed.
LEMMA ParentShaWellFormed == TypeOK /\ BranchInv => WellFormed(ParentSha)
<1> SUFFICES ASSUME TypeOK, BranchInv PROVE WellFormed(ParentSha)
    OBVIOUS
<1>1. CASE lastCl > 0
  <2>1. lastCl \in CL
    BY <1>1 DEF TypeOK
  <2> QED
    BY <1>1, <2>1 DEF ParentSha, BranchInv
<1>2. CASE ~(lastCl > 0)
  BY <1>2 DEF ParentSha, NoCommit, WellFormed
<1> QED
  BY <1>1, <1>2

\* What the forward sync makes of a changelist is well formed.
LEMMA BuiltWellFormed ==
    ASSUME TypeOK, PlaceInv, BranchInv, TypeOK', Grows, BuildCommit
    PROVE  /\ WellFormed(main)'
           /\ \A c \in Commit : c = Built => WellFormed(c)'
<1>0. main' = Built \/ main' = main
  BY DEF BuildCommit, MoveBranch
<1>1. lastCl < last /\ FromUser(Current) /\ lastCl' = Current /\ depot' = depot
  BY DEF BuildCommit
<1>2. Current \in CL /\ Current = lastCl + 1 /\ lastCl \in Nat
  BY <1>1, CurrentInBounds, LenFacts DEF Current
<1>3. <<"p4", Current>> \in Change
  BY <1>2 DEF Change
<1>4. ParentSha \in Commit /\ WellFormed(ParentSha)
  BY ParentShaType, ParentShaWellFormed
<1> DEFINE c == ParentSha
<1>5. ASSUME NEW i \in 1..Len(c) PROVE c[i] # <<"p4", Current>>
  <2>1. c[i] \in Change /\ Known(c[i])
    BY <1>4 DEF WellFormed, Commit
  <2> HIDE DEF c
  <2>2. CASE c[i][1] = "dev"
    BY <2>2
  <2>3. CASE c[i][1] = "p4"
    <3>1. c[i][2] <= lastCl
      BY <2>1, <2>3 DEF Known
    <3> QED
      BY <3>1, <1>2
  <2> QED
    BY <2>1, <2>2, <2>3 DEF Change
<1>6. ASSUME NEW k \in Commit, NEW e \in Change, k = ParentSha, e = <<"p4", Current>>
      PROVE  WellFormed(Append(k, e))'
  <2>1. WellFormed(k)
    BY <1>4, <1>6
  <2>2. WellFormed(k)'
    BY <2>1, StaysWellFormed
  <2>3. Known(e)'
    BY <1>1, <1>2, <1>6 DEF Known, FromUser
  <2>4. \A i \in 1..Len(k) : k[i] # e
    BY <1>5, <1>6
  <2> QED
    BY <2>2, <2>3, <2>4, ExtendedWellFormed
<1>7. ASSUME NEW b \in Commit, b = Built PROVE WellFormed(b)'
  BY <1>3, <1>4, <1>6, <1>7 DEF Built
<1>8. ASSUME main' = Built PROVE WellFormed(main)'
  BY <1>7, <1>8 DEF TypeOK, WellFormed, Known, FromUser
<1>9. ASSUME main' = main PROVE WellFormed(main)'
  <2>1. main \in Commit /\ WellFormed(main)
    BY DEF TypeOK, BranchInv
  <2>2. ASSUME NEW k \in Commit, k = main PROVE WellFormed(k)'
    BY <2>1, <2>2, StaysWellFormed
  <2> QED
    BY <1>9, <2>1, <2>2 DEF WellFormed, Known, FromUser
<1>10. WellFormed(main)'
  BY <1>0, <1>8, <1>9
<1> QED
  BY <1>7, <1>10

\* What a developer pushes is well formed.
LEMMA PushedWellFormed ==
    ASSUME TypeOK, PlaceInv, BranchInv, TypeOK', Grows, NEW f \in PushedFiles, Push(f)
    PROVE  WellFormed(origin)'
<1>1. /\ Len(pushed') = Len(pushed) + 1 /\ Len(pushed) \in Nat
      /\ <<"dev", Len(pushed) + 1>> \in Change
      /\ origin' = Append(origin, <<"dev", Len(pushed) + 1>>)
  BY PushType, LenFacts
<1>2. origin \in Commit /\ WellFormed(origin)
  BY DEF TypeOK, BranchInv
<1>3. ASSUME NEW k \in Commit, NEW e \in Change, k = origin, e = <<"dev", Len(pushed) + 1>>
      PROVE  WellFormed(Append(k, e))'
  <2>1. WellFormed(k)
    BY <1>2, <1>3
  <2>2. WellFormed(k)'
    BY <2>1, StaysWellFormed
  <2>3. Known(e)'
    BY <1>1, <1>3 DEF Known
  <2>4. ASSUME NEW i \in 1..Len(k) PROVE k[i] # e
    <3>1. k[i] \in Change /\ Known(k[i])
      BY <2>1 DEF WellFormed, Commit
    <3>2. CASE k[i][1] = "dev"
      <4>1. k[i][2] <= Len(pushed)
        BY <3>1, <3>2 DEF Known
      <4> QED
        BY <4>1, <1>1, <1>3
    <3>3. CASE k[i][1] = "p4"
      BY <3>3, <1>3
    <3> QED
      BY <3>1, <3>2, <3>3 DEF Change
  <2> QED
    BY <2>2, <2>3, <2>4, ExtendedWellFormed
<1> QED
  BY <1>1, <1>2, <1>3 DEF WellFormed, Known, FromUser

\* Every step keeps every branch and every row free of what does not belong there.
LEMMA BranchNext ==
    TypeOK /\ PlaceInv /\ BranchInv /\ [Next]_vars /\ TypeOK' => BranchInv'
<1> SUFFICES ASSUME TypeOK, PlaceInv, BranchInv, [Next]_vars, TypeOK' PROVE BranchInv'
    OBVIOUS
<1>1. Grows
  BY StepsGrow DEF BranchInv
<1>2. \A c \in Commit : WellFormed(c) => WellFormed(c)'
  BY <1>1, StaysWellFormed
<1>3. /\ origin \in Commit /\ tracking \in Commit /\ main \in Commit
      /\ \A n \in CL : commitSha[n] \in Commit
  BY DEF TypeOK
<1>4. ASSUME origin' = origin \/ origin' = main PROVE WellFormed(origin)'
  <2>1. ASSUME NEW c \in Commit, WellFormed(c)', origin' = c PROVE WellFormed(origin)'
    BY <2>1 DEF WellFormed, Known, FromUser
  <2>2. \A c \in {origin, main} : c \in Commit /\ WellFormed(c)
    BY <1>3 DEF BranchInv
  <2>3. ASSUME NEW c \in Commit, WellFormed(c), origin' = c PROVE WellFormed(origin)'
    BY <1>2, <2>1, <2>3
  <2> QED
    BY <1>4, <2>2, <2>3
<1>5. ASSUME tracking' \in {tracking, origin, main} PROVE WellFormed(tracking)'
  <2>1. ASSUME NEW c \in Commit, WellFormed(c)', tracking' = c PROVE WellFormed(tracking)'
    BY <2>1 DEF WellFormed, Known, FromUser
  <2>2. \A c \in {tracking, origin, main} : c \in Commit /\ WellFormed(c)
    BY <1>3 DEF BranchInv
  <2>3. ASSUME NEW c \in Commit, WellFormed(c), tracking' = c PROVE WellFormed(tracking)'
    BY <1>2, <2>1, <2>3
  <2> QED
    BY <1>5, <2>2, <2>3
<1>6. ASSUME UNCHANGED main PROVE WellFormed(main)'
  BY <1>2, <1>3, <1>6 DEF BranchInv, WellFormed, Known, FromUser
<1>7. ASSUME NEW n \in CL, commitSha'[n] = commitSha[n] PROVE WellFormed(commitSha[n])'
  <2>1. ASSUME NEW c \in Commit, c = commitSha[n] PROVE WellFormed(c)'
    BY <2>1, <1>2 DEF BranchInv
  <2>2. commitSha[n] \in Commit
    BY <1>3
  <2> QED
    BY <2>1, <2>2, <1>7 DEF WellFormed, Known, FromUser
<1> USE DEF devVars, remoteVars, trackingVars, localVars, forwardVars, reverseVars
<1>8. ASSUME NEW f \in PushedFiles, Push(f) PROVE BranchInv'
  <2>1. WellFormed(origin)'
    BY <1>1, <1>8, PushedWellFormed
  <2>2. UNCHANGED <<tracking, main, commitSha>>
    BY <1>8 DEF Push
  <2>3. WellFormed(tracking)' /\ WellFormed(main)'
    BY <2>2, <1>5, <1>6
  <2>4. \A n \in CL : WellFormed(commitSha[n])'
    BY <2>2, <1>7
  <2> QED
    BY <2>1, <2>3, <2>4 DEF BranchInv
<1>9. CASE BuildCommit
  <2>1. WellFormed(main)'
    BY <1>1, <1>9, BuiltWellFormed
  <2>2. UNCHANGED <<tracking, origin>> /\ commitSha' = [commitSha EXCEPT ![Current] = Built]
    BY <1>9 DEF BuildCommit
  <2>3. ASSUME NEW n \in CL PROVE WellFormed(commitSha[n])'
    <3>1. CASE n = Current
      <4>1. commitSha'[n] = Built /\ commitSha'[n] \in Commit
        BY <1>1, <2>2, <3>1 DEF TypeOK
      <4>2. ASSUME NEW c \in Commit, c = Built PROVE WellFormed(c)'
        BY <1>1, <1>9, <4>2, BuiltWellFormed
      <4> QED
        BY <4>1, <4>2 DEF WellFormed, Known, FromUser
    <3>2. CASE n # Current
      <4>1. commitSha'[n] = commitSha[n]
        BY <2>2, <3>2 DEF TypeOK
      <4> QED
        BY <4>1, <1>7
    <3> QED
      BY <3>1, <3>2
  <2> QED
    BY <2>1, <2>2, <2>3, <1>4, <1>5 DEF BranchInv
<1>10. CASE RecordReverse
  <2>1. PICK i \in newCommits : commitSha' = [commitSha EXCEPT ![submitted] = CommitAt(i)]
    BY <1>10 DEF RecordReverse
  <2>2. UNCHANGED <<origin, tracking, main>>
    BY <1>10 DEF RecordReverse
  <2>3. ASSUME NEW c \in Commit, c = tracking PROVE WellFormed(SubSeq(c, 1, i))'
    <3>1. WellFormed(c)'
      BY <2>3, <1>2 DEF BranchInv
    <3>2. i \in 1..Len(c)
      BY <2>3 DEF TypeOK
    <3> QED
      BY <3>1, <3>2, PrefixWellFormed
  <2>4. ASSUME NEW n \in CL PROVE WellFormed(commitSha[n])'
    <3>1. CASE n = submitted
      <4>1. commitSha'[n] = SubSeq(tracking, 1, i)
        BY <2>1, <3>1 DEF TypeOK, CommitAt
      <4>2. ASSUME NEW c, WellFormed(c)', commitSha'[n] = c PROVE WellFormed(commitSha[n])'
        BY <4>2 DEF WellFormed, Known, FromUser
      <4>3. ASSUME NEW c, c = SubSeq(tracking, 1, i) PROVE WellFormed(c)'
        <5>1. ASSUME NEW d \in Commit, d = tracking PROVE WellFormed(c)'
          BY <2>3, <4>3, <5>1
        <5> QED
          BY <1>3, <5>1
      <4> QED
        BY <4>1, <4>2, <4>3
    <3>2. CASE n # submitted
      <4>1. commitSha'[n] = commitSha[n]
        BY <2>1, <3>2 DEF TypeOK
      <4> QED
        BY <4>1, <1>7
    <3> QED
      BY <3>1, <3>2
  <2> QED
    BY <2>2, <2>4, <1>4, <1>5, <1>6 DEF BranchInv
<1>11. CASE /\ origin' \in {origin, main}
            /\ tracking' \in {tracking, origin, main}
            /\ UNCHANGED <<main, commitSha>>
  BY <1>11, <1>4, <1>5, <1>6, <1>7 DEF BranchInv
<1> QED
  BY <1>8, <1>9, <1>10, <1>11, BranchesMove

-----------------------------------------------------------------------------
(* A row of cl_commit_map joins a changelist with the commit of the same    *)
(* change.                                                                 *)

\* One row: changelist n is submitted, and c ends with its change.
Joined(n, c) ==
    /\ n \in 1..Len(depot)
    /\ Origin(<<"p4", n>>) = c[Len(c)]

\* A row that was right stays right.
LEMMA StaysJoined ==
    ASSUME TypeOK, PlaceInv, Grows, TypeOK', NEW n \in CL, NEW c \in Commit, Joined(n, c)
    PROVE  Joined(n, c)'
<1>1. Len(depot) \in Nat /\ n \in 1..Len(depot)
  BY LenFacts DEF Joined
<1>2. depot' \in Seq([file : Files, git : 0..MaxDev])
  BY DEF TypeOK
<1>3. Len(depot') \in Nat
  BY <1>2
<1>4. depot'[n] = depot[n] /\ n \in 1..Len(depot')
  BY <1>1, <1>3 DEF Grows
<1> QED
  BY <1>1, <1>4 DEF Joined, Origin, FromUser

\* Both directions write right rows.
LEMMA RowsNext ==
    TypeOK /\ PlaceInv /\ BranchInv /\ RowsJoinSameChange /\ [Next]_vars /\ TypeOK'
        => RowsJoinSameChange'
<1> SUFFICES ASSUME TypeOK, PlaceInv, BranchInv, RowsJoinSameChange, [Next]_vars, TypeOK',
                    NEW n \in CL, commitSha'[n] # NoCommit
             PROVE  /\ n \in 1..Len(depot')
                    /\ Origin(<<"p4", n>>)' = commitSha'[n][Len(commitSha'[n])]
    BY DEF RowsJoinSameChange
<1>1. Grows
  BY StepsGrow DEF BranchInv
<1>2. CASE commitSha'[n] = commitSha[n]
  <2>1. commitSha[n] \in Commit
    BY DEF TypeOK
  <2>2. Joined(n, commitSha[n])
    BY <1>2 DEF Joined, RowsJoinSameChange
  <2>3. \A c \in Commit : Joined(n, c) => Joined(n, c)'
    BY <1>1, StaysJoined
  <2> QED
    BY <1>2, <2>1, <2>2, <2>3 DEF Joined, Origin, FromUser
<1>3. CASE BuildCommit /\ n = Current
  <2>1. /\ lastCl < last /\ FromUser(n) /\ UNCHANGED depot
        /\ Built = Append(ParentSha, <<"p4", n>>)
        /\ commitSha' = [commitSha EXCEPT ![n] = Built]
    BY <1>3 DEF BuildCommit, Built
  <2>2. n \in 1..Len(depot) /\ commitSha'[n] = Built
    BY <1>3, <2>1, CurrentInBounds DEF TypeOK
  <2>3. ParentSha \in Seq(Change) /\ <<"p4", n>> \in Change
    BY ParentShaType DEF Commit, Change
  <2>4. Built[Len(Built)] = <<"p4", n>>
    BY <2>1, <2>3, AppendProperties
  <2> QED
    BY <2>1, <2>2, <2>4 DEF Origin, FromUser
<1>4. CASE RecordReverse /\ n = submitted
  <2>1. PICK i \in newCommits : InHand(i) /\ commitSha' = [commitSha EXCEPT ![n] = CommitAt(i)]
    BY <1>4 DEF RecordReverse
  <2>2. UNCHANGED depot /\ pc = "record"
    BY <1>4 DEF RecordReverse
  <2>3. n \in 1..Len(depot) /\ depot[n].git = tracking[i][2]
    BY <1>4, <2>1, <2>2 DEF PlaceInv
  <2>4. tracking[i] = <<"dev", tracking[i][2]>> /\ tracking[i][2] \in Dev
        /\ i \in 1..Len(tracking)
    BY InHandType DEF BranchInv
  <2>5. depot[n].git # 0
    BY <2>3, <2>4, BoundsAreNat DEF Dev
  <2>6. commitSha'[n] = CommitAt(i) /\ CommitAt(i)[Len(CommitAt(i))] = tracking[i]
    BY <2>1, <2>4, CommitAtType DEF TypeOK
  <2> QED
    BY <2>2, <2>3, <2>4, <2>5, <2>6 DEF Origin, FromUser
<1>5. ASSUME BuildCommit, n # Current PROVE commitSha'[n] = commitSha[n]
  BY <1>5 DEF BuildCommit, TypeOK
<1>6. ASSUME RecordReverse, n # submitted PROVE commitSha'[n] = commitSha[n]
  BY <1>6 DEF RecordReverse, TypeOK
<1>7. ASSUME NEW f \in PushedFiles, Push(f) PROVE commitSha'[n] = commitSha[n]
  BY <1>7 DEF Push
<1> QED
  BY <1>2, <1>3, <1>4, <1>5, <1>6, <1>7, BranchesMove

-----------------------------------------------------------------------------
(* The theorems.                                                            *)

\* When the service is installed, rows and branches hold the imported changelist
\* or nothing.
LEMMA BranchAndRowsInit == Init => BranchInv /\ RowsJoinSameChange
<1> SUFFICES ASSUME Init PROVE BranchInv /\ RowsJoinSameChange
    OBVIOUS
<1>1. WellFormed(NoCommit)
  BY DEF WellFormed, NoCommit
<1>2. CASE Imported
  <2>1. /\ origin = <<<<"p4", 1>>>> /\ lastCl = 1 /\ FromUser(1) /\ Len(depot) = 1
        /\ tracking = origin /\ main = origin
        /\ commitSha = [n \in CL |-> IF n = 1 THEN origin ELSE NoCommit]
    BY <1>2 DEF Init, FromUser
  <2>2. Len(origin) = 1 /\ origin[1] = <<"p4", 1>>
    BY <2>1
  <2>3. WellFormed(origin)
    BY <2>1, <2>2 DEF WellFormed, Known
  <2>4. RowsJoinSameChange
    BY <2>1, <2>2 DEF RowsJoinSameChange, Origin
  <2> QED
    BY <2>1, <2>3, <2>4, <1>1 DEF BranchInv
<1>3. CASE ~Imported
  <2>1. /\ origin = NoCommit /\ tracking = NoCommit /\ main = NoCommit
        /\ \A n \in CL : commitSha[n] = NoCommit
    BY <1>3 DEF Init
  <2> QED
    BY <2>1, <1>1 DEF BranchInv, RowsJoinSameChange
<1> QED
  BY <1>2, <1>3

\* The invariant of the bidirectional sync, whatever the order in which users,
\* developers, the loop, crashes and lost answers take their turns.
THEOREM Inductive == Spec => []IInv
<1>1. Init => IInv
  BY TypeAndPlaceInit, BranchAndRowsInit DEF IInv
<1>2. IInv /\ [Next]_vars => IInv'
  <2> SUFFICES ASSUME IInv, [Next]_vars PROVE IInv'
      OBVIOUS
  <2>1. TypeOK' /\ PlaceInv'
    BY TypeNext, PlaceNext DEF IInv, BranchInv
  <2>2. BranchInv' /\ RowsJoinSameChange'
    BY <2>1, BranchNext, RowsNext DEF IInv
  <2> QED
    BY <2>1, <2>2 DEF IInv
<1> QED
  BY <1>1, <1>2, PTL DEF Spec

\* All variables keep their types.
THEOREM BidirTypeCorrect == Spec => []TypeOK
<1>1. IInv => TypeOK
  BY DEF IInv
<1> QED
  BY <1>1, Inductive, PTL

\* README.md:303-306: what travels to the other side does not come back, and
\* no change is on a branch twice.
THEOREM NothingEchoes == Spec => []NoEcho
<1>1. IInv => NoEcho
  <2> SUFFICES ASSUME IInv, NEW b \in {main, origin}
               PROVE  /\ \A i \in 1..Len(b) : b[i][1] = "p4" => FromUser(b[i][2])
                      /\ \A i, j \in 1..Len(b) : i # j => b[i] # b[j]
      BY DEF NoEcho
  <2>1. WellFormed(b)
    BY DEF IInv, BranchInv
  <2> QED
    BY <2>1 DEF WellFormed, Known
<1> QED
  BY <1>1, Inductive, PTL

\* A row joins a changelist and a commit that are the same change, also when P4
\* users submit between a developer's commit, its submit and its row.
THEOREM RowsAreRight == Spec => []RowsJoinSameChange
<1>1. IInv => RowsJoinSameChange
  BY DEF IInv
<1> QED
  BY <1>1, Inductive, PTL

-----------------------------------------------------------------------------
(* A conflict that is recorded stops the branch.                            *)

\* A changelist that a step adds while a conflict is recorded is a user's.
Stopped ==
    /\ UNCHANGED <<main, lastCl, commitSha, lastReverse>>
    /\ \A n \in 1..Len(depot') : n > Len(depot) => depot'[n].git = 0

\* Where nothing is submitted there is no new changelist.
LEMMA NothingSubmitted ==
    ASSUME TypeOK, UNCHANGED depot
    PROVE  \A n \in 1..Len(depot') : n > Len(depot) => depot'[n].git = 0
<1>1. Len(depot) \in Nat /\ Len(depot') = Len(depot)
  BY DEF TypeOK
<1> QED
  BY <1>1

\* As long as a conflict is recorded the loop gets no further than the check for
\* its conflict branch.
LEMMA ConflictRests ==
    TypeOK /\ ConflictRestsInv /\ [Next]_vars
        => ConflictRestsInv' /\ (conflict # 0 => Stopped)
<1> SUFFICES ASSUME TypeOK, ConflictRestsInv, [Next]_vars
             PROVE  ConflictRestsInv' /\ (conflict # 0 => Stopped)
    OBVIOUS
<1> DEFINE Goal == ConflictRestsInv' /\ (conflict # 0 => Stopped)
<1> USE DEF ConflictRestsInv, Stopped, devVars, remoteVars, trackingVars, localVars,
            forwardVars, reverseVars
<1>1. ASSUME NEW f \in Files, Submit(f) PROVE Goal
  <2>1. depot' = Append(depot, [file |-> f, git |-> 0])
    BY <1>1 DEF Submit
  <2>2. depot \in Seq([file : Files, git : 0..MaxDev]) /\ Len(depot) \in Nat
    BY DEF TypeOK
  <2>3. [file |-> f, git |-> 0] \in [file : Files, git : 0..MaxDev]
    BY BoundsAreNat
  <2>4. Len(depot') = Len(depot) + 1 /\ depot'[Len(depot) + 1] = [file |-> f, git |-> 0]
    BY <2>1, <2>2, <2>3, AppendProperties
  <2>5. \A n \in 1..Len(depot') : n > Len(depot) => depot'[n].git = 0
    BY <2>2, <2>4
  <2> QED
    BY <1>1, <2>5 DEF Submit
<1>2. ASSUME NEW f \in PushedFiles, Push(f) PROVE Goal
  BY NothingSubmitted, <1>2 DEF Push
<1>3. ASSUME NEW n \in CL, DeleteConflictBranch(n) PROVE Goal
  BY NothingSubmitted, <1>3 DEF DeleteConflictBranch
<1>4. CASE Crash
  BY NothingSubmitted, <1>4 DEF Crash, Forget
<1>5. CASE Start
  BY NothingSubmitted, <1>5 DEF Start
<1>6. CASE CheckConflictResolved
  BY NothingSubmitted, <1>6 DEF CheckConflictResolved
<1>7. CASE Fetch
  BY NothingSubmitted, <1>7 DEF Fetch
<1>8. CASE FetchFails
  BY NothingSubmitted, <1>8 DEF FetchFails
<1>9. CASE CheckConflicts
  BY NothingSubmitted, <1>9 DEF CheckConflicts
<1>10. CASE RoundAborts
  BY NothingSubmitted, <1>10 DEF RoundAborts, EndRound, Forget
<1>11. CASE Poll
  BY NothingSubmitted, <1>11 DEF Poll
<1>12. CASE SkipMarker
  BY NothingSubmitted, <1>12 DEF SkipMarker
<1>13. CASE BuildCommit
  BY NothingSubmitted, <1>13 DEF BuildCommit
<1>14. CASE SyncError
  BY NothingSubmitted, <1>14 DEF SyncError
<1>15. CASE PushCommit
  BY NothingSubmitted, <1>15 DEF PushCommit
<1>16. CASE EndBatch
  BY NothingSubmitted, <1>16 DEF EndBatch
<1>17. CASE CreateConflictBranch
  BY NothingSubmitted, <1>17 DEF CreateConflictBranch
<1>18. CASE PushConflictBranch
  BY NothingSubmitted, <1>18 DEF PushConflictBranch
<1>19. CASE RecordConflict
  BY NothingSubmitted, <1>19 DEF RecordConflict, EndRound, Forget
<1>20. CASE ConflictFails
  BY NothingSubmitted, <1>20 DEF ConflictFails, EndRound, Forget
<1>21. CASE DetectNewCommits
  BY NothingSubmitted, <1>21 DEF DetectNewCommits
<1>22. CASE SubmitCommit
  BY <1>22 DEF SubmitCommit, SubmitTakesEffect
<1>23. CASE SubmitAnswerLost
  BY <1>23 DEF SubmitAnswerLost, SubmitTakesEffect, EndRound, Forget
<1>24. CASE SubmitFails
  BY NothingSubmitted, <1>24 DEF SubmitFails, EndRound, Forget
<1>25. CASE RecordReverse
  BY NothingSubmitted, <1>25 DEF RecordReverse
<1>26. CASE UpdateLastProcessed
  BY NothingSubmitted, <1>26 DEF UpdateLastProcessed
<1>27. CASE UNCHANGED vars
  BY NothingSubmitted, <1>27 DEF vars
<1> QED
  BY <1>1, <1>2, <1>3, <1>4, <1>5, <1>6, <1>7, <1>8, <1>9, <1>10, <1>11, <1>12, <1>13, <1>14, <1>15, <1>16, <1>17, <1>18, <1>19, <1>20, <1>21, <1>22, <1>23, <1>24, <1>25, <1>26, <1>27
     DEF Next, Environment, Checking, ForwardSync, ConflictHandling, ReverseSync

\* README.md:312: nothing is mirrored, in either direction, as long as a conflict
\* is recorded.
THEOREM ConflictStops == Spec => ConflictStopsBranch
<1>1. Init => ConflictRestsInv
  BY DEF Init, ConflictRestsInv
<1>2. TypeOK /\ ConflictRestsInv /\ [Next]_vars => ConflictRestsInv'
  BY ConflictRests
<1>3. TypeOK /\ ConflictRestsInv /\ [Next]_vars
         => [conflict # 0 =>
                /\ UNCHANGED <<main, lastCl, commitSha, lastReverse>>
                /\ \A n \in 1..Len(depot') : n > Len(depot) => depot'[n].git = 0]_vars
  BY ConflictRests DEF Stopped
<1> QED
  BY <1>1, <1>2, <1>3, BidirTypeCorrect, PTL DEF Spec, ConflictStopsBranch

-----------------------------------------------------------------------------
(* Branches that grow.                                                      *)

\* A commit is an ancestor of another when it agrees with its beginning.
LEMMA PrefixFacts ==
    ASSUME NEW c \in Commit, NEW d \in Commit
    PROVE  IsPrefix(c, d) <=> Len(c) <= Len(d) /\ \A i \in 1..Len(c) : c[i] = d[i]
BY DEF IsPrefix, Commit

\* A branch is an ancestor of itself.
LEMMA PrefixReflexive == \A c \in Commit : IsPrefix(c, c)
<1> SUFFICES ASSUME NEW c \in Commit PROVE IsPrefix(c, c)
    OBVIOUS
<1>1. Len(c) \in Nat
  BY DEF Commit
<1> QED
  BY <1>1, PrefixFacts

\* An ancestor of an ancestor is an ancestor.
LEMMA PrefixTransitive ==
    ASSUME NEW c \in Commit, NEW d \in Commit, NEW e \in Commit,
           IsPrefix(c, d), IsPrefix(d, e)
    PROVE  IsPrefix(c, e)
<1>1. Len(c) \in Nat /\ Len(d) \in Nat /\ Len(e) \in Nat
  BY DEF Commit
<1>2. /\ Len(c) <= Len(d) /\ \A i \in 1..Len(c) : c[i] = d[i]
      /\ Len(d) <= Len(e) /\ \A i \in 1..Len(d) : d[i] = e[i]
  BY PrefixFacts
<1>3. Len(c) <= Len(e) /\ \A i \in 1..Len(c) : c[i] = e[i]
  BY <1>1, <1>2
<1> QED
  BY <1>3, PrefixFacts

\* Two branches with a common ancestor have the same commits below it.
LEMMA SameBelow ==
    ASSUME NEW c \in Commit, NEW d \in Commit, IsPrefix(c, d), NEW i \in 1..Len(c)
    PROVE  i \in 1..Len(d) /\ c[i] = d[i] /\ SubSeq(c, 1, i) = SubSeq(d, 1, i)
<1>1. /\ Len(c) \in Nat /\ Len(d) \in Nat /\ Len(c) <= Len(d)
      /\ \A j \in 1..Len(c) : c[j] = d[j]
  BY PrefixFacts DEF Commit
<1>2. /\ Len(SubSeq(c, 1, i)) = i /\ SubSeq(c, 1, i) \in Seq(Change)
      /\ Len(SubSeq(d, 1, i)) = i /\ SubSeq(d, 1, i) \in Seq(Change)
      /\ \A j \in 1..i : SubSeq(c, 1, i)[j] = c[j] /\ SubSeq(d, 1, i)[j] = d[j]
  BY <1>1, SubSeqProperties DEF Commit
<1>3. \A j \in 1..i : SubSeq(c, 1, i)[j] = SubSeq(d, 1, i)[j]
  BY <1>1, <1>2
<1> QED
  BY <1>1, <1>2, <1>3, SeqEqual

\* What a commit of a branch looks like.
LEMMA BelowFacts ==
    ASSUME NEW c \in Commit, NEW i \in 1..Len(c)
    PROVE  /\ SubSeq(c, 1, i) \in Commit
           /\ Len(SubSeq(c, 1, i)) = i
           /\ \A j \in 1..i : SubSeq(c, 1, i)[j] = c[j]
           /\ SubSeq(c, 1, i) # NoCommit
           /\ IsPrefix(SubSeq(c, 1, i), c)
<1>1. /\ Len(c) \in Nat
      /\ SubSeq(c, 1, i) \in Commit
      /\ Len(SubSeq(c, 1, i)) = i
      /\ \A j \in 1..i : SubSeq(c, 1, i)[j] = c[j]
  BY SubSeqProperties DEF Commit
<1>2. SubSeq(c, 1, i) # NoCommit
  BY <1>1 DEF NoCommit
<1>3. i \in Nat /\ i <= Len(c)
  BY <1>1
<1>4. ASSUME NEW d \in Commit, Len(d) = i, \A j \in 1..i : d[j] = c[j] PROVE IsPrefix(d, c)
  BY <1>3, <1>4, PrefixFacts
<1> QED
  BY <1>1, <1>2, <1>4

-----------------------------------------------------------------------------
(* What a step may be.  Most of them only turn the loop.                    *)

devRefVars == <<pushed, origin, tracking, main, commitSha, lastReverse>>

\* Nothing is in hand any more.
Elsewhere == newCommits' = {} /\ pc' \notin {"submit", "record", "advance"}

Turns ==
    /\ UNCHANGED <<depot, devRefVars>>
    /\ \/ UNCHANGED <<pc, newCommits, submitted, accidents>>
       \/ Elsewhere /\ accidents' = accidents /\ pc # "record"
       \/ Elsewhere /\ accidents' = accidents + 1

Fetches ==
    /\ ~Reversing /\ Elsewhere
    /\ tracking' = origin
    /\ UNCHANGED <<depot, pushed, origin, main, commitSha, lastReverse, accidents>>

Publishes ==
    /\ ~Reversing /\ Elsewhere
    /\ PushBranch
    /\ UNCHANGED <<depot, pushed, main, commitSha, lastReverse, accidents>>

Lists ==
    /\ pc = "detect" /\ pc' = "submit" /\ newCommits' = NewCommits
    /\ UNCHANGED <<depot, devRefVars, accidents>>

Kinds ==
    \/ \E f \in Files : Submit(f)
    \/ \E f \in PushedFiles : Push(f)
    \/ BuildCommit
    \/ Turns \/ Fetches \/ Publishes \/ Lists
    \/ SubmitCommit \/ SubmitAnswerLost \/ RecordReverse \/ UpdateLastProcessed

\* Every step is one of these.
LEMMA StepKinds == TypeOK /\ PlaceInv /\ [Next]_vars => Kinds
<1> SUFFICES ASSUME TypeOK, PlaceInv, [Next]_vars PROVE Kinds
    OBVIOUS
<1> USE DEF Elsewhere, devRefVars, devVars, remoteVars, trackingVars, localVars,
            forwardVars, reverseVars
<1>0. ~Reversing => newCommits = {}
  BY DEF PlaceInv
<1>1. ASSUME NEW f \in Files, Submit(f) PROVE Kinds
  BY <1>1 DEF Kinds
<1>2. ASSUME NEW f \in PushedFiles, Push(f) PROVE Kinds
  BY <1>2 DEF Kinds
<1>3. ASSUME NEW n \in CL, DeleteConflictBranch(n) PROVE Turns
  BY <1>3 DEF DeleteConflictBranch, Turns
<1>4. CASE Crash
  <2>1. Turns
    BY <1>4 DEF Crash, Forget, Turns
  <2> QED
    BY <2>1 DEF Kinds
<1>5. CASE Start
  <2>1. ~Reversing /\ Elsewhere
    BY <1>0, <1>5 DEF Start, Reversing
  <2>2. Turns \/ Publishes
    BY <1>5, <2>1 DEF Start, Turns, Publishes, Reversing
  <2> QED
    BY <2>2 DEF Kinds
<1>6. CASE CheckConflictResolved
  <2>1. ~Reversing /\ Elsewhere
    BY <1>0, <1>6 DEF CheckConflictResolved, Reversing
  <2>2. Fetches
    BY <1>6, <2>1 DEF CheckConflictResolved, FetchRemote, Fetches, Reversing
  <2> QED
    BY <2>2 DEF Kinds
<1>7. CASE Fetch
  <2>1. ~Reversing /\ Elsewhere
    BY <1>0, <1>7 DEF Fetch, Reversing
  <2>2. Fetches
    BY <1>7, <2>1 DEF Fetch, FetchRemote, Fetches, Reversing
  <2> QED
    BY <2>2 DEF Kinds
<1>8. CASE FetchFails
  BY <1>0, <1>8 DEF FetchFails, Turns, Kinds, Reversing
<1>9. CASE CheckConflicts
  BY <1>0, <1>9 DEF CheckConflicts, StartConflict, Turns, Kinds, Reversing
<1>10. CASE RoundAborts
  BY <1>0, <1>10 DEF RoundAborts, EndRound, Forget, Turns, Kinds
<1>11. CASE Poll
  BY <1>0, <1>11 DEF Poll, Turns, Kinds, Reversing
<1>12. CASE SkipMarker
  BY <1>0, <1>12 DEF SkipMarker, Turns, Kinds, Reversing
<1>13. CASE BuildCommit
  BY <1>13 DEF Kinds
<1>14. CASE SyncError
  BY <1>0, <1>14 DEF SyncError, Turns, Kinds, Reversing
<1>15. CASE PushCommit
  <2>1. ~Reversing /\ Elsewhere /\ pc # "record"
    BY <1>0, <1>15 DEF PushCommit, Reversing
  <2>2. Turns \/ Publishes
    BY <1>15, <2>1 DEF PushCommit, Turns, Publishes
  <2> QED
    BY <2>2 DEF Kinds
<1>16. CASE EndBatch
  <2>1. ~Reversing /\ Elsewhere /\ pc # "record"
    BY <1>0, <1>16 DEF EndBatch, Reversing
  <2>2. Turns \/ Publishes
    BY <1>16, <2>1 DEF EndBatch, Turns, Publishes
  <2> QED
    BY <2>2 DEF Kinds
<1>17. CASE CreateConflictBranch
  BY <1>0, <1>17 DEF CreateConflictBranch, Turns, Kinds, Reversing
<1>18. CASE PushConflictBranch
  BY <1>0, <1>18 DEF PushConflictBranch, Turns, Kinds, Reversing
<1>19. CASE RecordConflict
  BY <1>0, <1>19 DEF RecordConflict, EndRound, Forget, Turns, Kinds
<1>20. CASE ConflictFails
  BY <1>0, <1>20 DEF ConflictFails, EndRound, Forget, Turns, Kinds
<1>21. CASE DetectNewCommits
  <2>1. newCommits = {} /\ pc = "detect"
    BY <1>0, <1>21 DEF DetectNewCommits, Reversing
  <2>2. Turns \/ Lists
    BY <1>21, <2>1 DEF DetectNewCommits, StartConflict, Turns, Lists
  <2> QED
    BY <2>2 DEF Kinds
<1>22. CASE SubmitCommit
  BY <1>22 DEF Kinds
<1>23. CASE SubmitAnswerLost
  BY <1>23 DEF Kinds
<1>24. CASE SubmitFails
  BY <1>0, <1>24 DEF SubmitFails, EndRound, Forget, Turns, Kinds
<1>25. CASE RecordReverse
  BY <1>25 DEF Kinds
<1>26. CASE UpdateLastProcessed
  BY <1>26 DEF Kinds
<1>27. CASE UNCHANGED vars
  BY <1>27 DEF vars, Turns, Kinds
<1> QED
  BY <1>1, <1>2, <1>3, <1>4, <1>5, <1>6, <1>7, <1>8, <1>9, <1>10, <1>11, <1>12, <1>13, <1>14, <1>15, <1>16, <1>17, <1>18, <1>19, <1>20, <1>21, <1>22, <1>23, <1>24, <1>25, <1>26, <1>27
     DEF Next, Environment, Checking, ForwardSync, ConflictHandling, ReverseSync, Kinds

\* The remote branch gets a push of a developer on top, or one of the service
\* that the remote accepts.
LEMMA RemoteGrows ==
    ASSUME TypeOK, PlaceInv, TypeOK', [Next]_vars
    PROVE  IsPrefix(origin, origin')
<1> USE DEF devRefVars, devVars, remoteVars, trackingVars, localVars, forwardVars, reverseVars
<1>1. origin \in Commit /\ origin' \in Commit
  BY DEF TypeOK
<1>2. ASSUME UNCHANGED origin PROVE IsPrefix(origin, origin')
  BY <1>1, <1>2, PrefixReflexive
<1>3. ASSUME NEW f \in PushedFiles, Push(f) PROVE IsPrefix(origin, origin')
  <2>1. <<"dev", Len(pushed) + 1>> \in Change /\ origin' = Append(origin, <<"dev", Len(pushed) + 1>>)
    BY <1>3, PushType
  <2>2. Len(origin) \in Nat /\ Len(origin') = Len(origin) + 1
        /\ \A i \in 1..Len(origin) : origin'[i] = origin[i]
    BY <1>1, <2>1, AppendProperties DEF Commit
  <2> QED
    BY <1>1, <2>2, PrefixFacts
<1>4. CASE Publishes
  BY <1>4 DEF Publishes, PushBranch, PushAccepted
<1>5. ASSUME NEW f \in Files, Submit(f) PROVE UNCHANGED origin
  BY <1>5 DEF Submit
<1>6. CASE Turns \/ Fetches \/ Lists
  BY <1>2, <1>6 DEF Turns, Fetches, Lists
<1>7. CASE BuildCommit \/ SubmitCommit \/ SubmitAnswerLost \/ RecordReverse \/ UpdateLastProcessed
  BY <1>2, <1>7 DEF BuildCommit, SubmitCommit, SubmitAnswerLost, RecordReverse, UpdateLastProcessed
<1> QED
  BY <1>2, <1>3, <1>4, <1>5, <1>6, <1>7, StepKinds DEF Kinds

\* The service never takes back what developers have pushed, even when they push
\* between its fetch and its push.
THEOREM RemoteIsKept == Spec => RemoteOnlyGrows
<1>1. IInv /\ IInv' /\ [Next]_vars => [IsPrefix(origin, origin')]_vars
  BY RemoteGrows DEF IInv
<1> QED
  BY <1>1, Inductive, PTL DEF Spec, RemoteOnlyGrows

-----------------------------------------------------------------------------
(* Rows of the reverse direction, and what is in hand.                      *)

\* Only one place is in hand.
LEMMA OneInHand ==
    ASSUME TypeOK, NEW i \in newCommits, NEW j \in newCommits, InHand(i), InHand(j)
    PROVE  i = j
<1>1. i \in Int /\ j \in Int
  BY DEF TypeOK
<1> QED
  BY <1>1 DEF InHand, IsOldest

\* A row for a developer's commit is written by the reverse sync, for the commit
\* in hand, and never written over.
LEMMA RecordedStep ==
    ASSUME IInv, IInv', InHandInv, [Next]_vars,
           NEW c \in Commit, c # NoCommit, c[Len(c)][1] = "dev"
    PROVE  /\ Recorded(c) => Recorded(c)'
           /\ Recorded(c)' /\ ~Recorded(c)
                  => RecordReverse /\ \E i \in newCommits : InHand(i) /\ c = CommitAt(i)
<1> DEFINE Goal == /\ Recorded(c) => Recorded(c)'
                   /\ Recorded(c)' /\ ~Recorded(c)
                          => RecordReverse /\ \E i \in newCommits : InHand(i) /\ c = CommitAt(i)
<1>1. TypeOK /\ TypeOK' /\ PlaceInv /\ RowsJoinSameChange /\ commitSha \in [CL -> Commit]
  BY DEF IInv, TypeOK
<1>2. CASE RecordReverse
  <2>1. PICK i \in newCommits : InHand(i) /\ commitSha' = [commitSha EXCEPT ![submitted] = CommitAt(i)]
    BY <1>2 DEF RecordReverse
  <2>2. commitSha[submitted] = NoCommit
    BY <1>2 DEF RecordReverse, InHandInv
  <2>3. \A n \in CL : commitSha'[n] = IF n = submitted THEN CommitAt(i) ELSE commitSha[n]
    BY <1>1, <2>1
  <2> QED
    BY <1>2, <2>1, <2>2, <2>3 DEF Recorded
<1>3. CASE BuildCommit
  <2>1. /\ lastCl < last /\ FromUser(Current)
        /\ Built = Append(ParentSha, <<"p4", Current>>)
        /\ commitSha' = [commitSha EXCEPT ![Current] = Built]
    BY <1>3 DEF BuildCommit, Built
  <2>2. Current \in CL
    BY <1>1, <2>1, CurrentInBounds
  <2>3. ParentSha \in Seq(Change) /\ <<"p4", Current>> \in Change
    BY <1>1, <2>2, ParentShaType DEF Commit, Change
  <2>4. Built[Len(Built)] = <<"p4", Current>>
    BY <2>1, <2>3, AppendProperties
  <2>5. Built # c
    BY <2>4
  <2>6. commitSha[Current] # c
    <3>1. ASSUME commitSha[Current] = c PROVE FALSE
      <4>1. Origin(<<"p4", Current>>) = c[Len(c)]
        BY <1>1, <2>2, <3>1 DEF RowsJoinSameChange
      <4>2. Origin(<<"p4", Current>>) = <<"p4", Current>>
        BY <2>1 DEF Origin
      <4> QED
        BY <4>1, <4>2
    <3> QED
      BY <3>1
  <2>7. \A n \in CL : commitSha'[n] = c <=> commitSha[n] = c
    BY <1>1, <2>1, <2>5, <2>6
  <2> QED
    BY <2>7 DEF Recorded
<1>4. ASSUME UNCHANGED commitSha PROVE Goal
  BY <1>4 DEF Recorded
<1>5. ASSUME NEW f \in PushedFiles, Push(f) PROVE UNCHANGED commitSha
  BY <1>5 DEF Push
<1> QED
  BY <1>2, <1>3, <1>4, <1>5, BranchesMove

\* What was fetched stays on the remote, what is behind the checkpoint was fetched.
LEMMA FetchedNext ==
    ASSUME IInv, IInv', FetchedInv, [Next]_vars
    PROVE  FetchedInv'
<1> USE DEF devRefVars, devVars, remoteVars, trackingVars, localVars, forwardVars, reverseVars
<1>1. /\ TypeOK /\ TypeOK' /\ PlaceInv /\ BranchInv
      /\ origin \in Commit /\ tracking \in Commit /\ lastReverse \in Commit
      /\ origin' \in Commit /\ tracking' \in Commit /\ lastReverse' \in Commit
  BY DEF IInv, TypeOK
<1>2. IsPrefix(origin, origin')
  BY <1>1, RemoteGrows
<1>3. IsPrefix(lastReverse, tracking) /\ IsPrefix(tracking, origin)
  BY DEF FetchedInv
<1>4. IsPrefix(tracking, origin') /\ IsPrefix(lastReverse, origin')
  <2>1. IsPrefix(tracking, origin')
    BY <1>1, <1>2, <1>3, PrefixTransitive
  <2> QED
    BY <1>1, <1>3, <2>1, PrefixTransitive
<1>5. ASSUME UNCHANGED <<tracking, lastReverse>> PROVE FetchedInv'
  BY <1>3, <1>4, <1>5 DEF FetchedInv
<1>6. ASSUME tracking' = origin', UNCHANGED lastReverse PROVE FetchedInv'
  BY <1>1, <1>4, <1>6, PrefixReflexive DEF FetchedInv
<1>7. CASE UpdateLastProcessed
  <2>1. PICK i \in newCommits : lastReverse' = CommitAt(i)
    BY <1>7 DEF UpdateLastProcessed
  <2>2. i \in 1..Len(tracking) /\ UNCHANGED tracking
    BY <1>1, <1>7, <2>1 DEF UpdateLastProcessed, TypeOK
  <2>3. IsPrefix(lastReverse', tracking)
    BY <1>1, <2>1, <2>2, BelowFacts DEF CommitAt
  <2> QED
    BY <1>4, <2>2, <2>3 DEF FetchedInv
<1>8. ASSUME NEW f \in Files, Submit(f) PROVE FetchedInv'
  BY <1>5, <1>8 DEF Submit
<1>9. ASSUME NEW f \in PushedFiles, Push(f) PROVE FetchedInv'
  BY <1>5, <1>9 DEF Push
<1>10. CASE Turns \/ Lists
  BY <1>5, <1>10 DEF Turns, Lists
<1>11. CASE Fetches \/ Publishes
  BY <1>6, <1>11 DEF Fetches, Publishes, PushBranch
<1>12. CASE BuildCommit \/ SubmitCommit \/ SubmitAnswerLost \/ RecordReverse
  BY <1>5, <1>12 DEF BuildCommit, SubmitCommit, SubmitAnswerLost, RecordReverse
<1> QED
  BY <1>1, <1>7, <1>8, <1>9, <1>10, <1>11, <1>12, StepKinds DEF Kinds

\* A row of the reverse sync stays a commit of the remote.
LEMMA RowsOnRemoteNext ==
    ASSUME IInv, IInv', FetchedInv, InHandInv, [Next]_vars
    PROVE  (\A n \in Markers : commitSha[n] # NoCommit => IsPrefix(commitSha[n], origin))'
<1>1. /\ TypeOK /\ TypeOK' /\ PlaceInv /\ BranchInv /\ RowsJoinSameChange
      /\ commitSha \in [CL -> Commit] /\ commitSha' \in [CL -> Commit]
      /\ origin \in Commit /\ tracking \in Commit /\ origin' \in Commit
  BY DEF IInv, TypeOK
<1>2. IsPrefix(origin, origin') /\ IsPrefix(tracking, origin) /\ Grows
  BY <1>1, RemoteGrows, StepsGrow DEF FetchedInv, BranchInv
<1>3. ASSUME NEW n \in 1..Len(depot'), depot'[n].git # 0, commitSha'[n] # NoCommit
      PROVE  IsPrefix(commitSha'[n], origin')
  <2>0. n \in CL
    BY <1>1, BoundsAreNat DEF TypeOK, CL
  <2>1. CASE commitSha'[n] = commitSha[n]
    <3>1. n \in 1..Len(depot)
      BY <1>1, <1>3, <2>0, <2>1 DEF RowsJoinSameChange
    <3>2. n \in Markers
      BY <1>2, <1>3, <3>1 DEF Markers, FromUser, Grows
    <3>3. IsPrefix(commitSha[n], origin) /\ commitSha[n] \in Commit
      BY <1>1, <1>3, <2>0, <2>1, <3>2 DEF InHandInv
    <3>4. IsPrefix(commitSha[n], origin')
      BY <1>1, <1>2, <3>3, PrefixTransitive
    <3> QED
      BY <2>1, <3>4
  <2>2. CASE RecordReverse /\ n = submitted
    <3>1. PICK i \in newCommits : commitSha' = [commitSha EXCEPT ![submitted] = CommitAt(i)]
      BY <2>2 DEF RecordReverse
    <3>2. commitSha'[n] = CommitAt(i) /\ i \in 1..Len(tracking)
      BY <1>1, <2>0, <2>2, <3>1 DEF TypeOK
    <3>3. CommitAt(i) \in Commit /\ IsPrefix(CommitAt(i), tracking)
      BY <1>1, <3>2, BelowFacts DEF CommitAt
    <3>4. IsPrefix(CommitAt(i), origin)
      BY <1>1, <1>2, <3>3, PrefixTransitive
    <3>5. IsPrefix(CommitAt(i), origin')
      BY <1>1, <1>2, <3>3, <3>4, PrefixTransitive
    <3> QED
      BY <3>2, <3>5
  <2>3. CASE BuildCommit /\ n = Current
    BY <1>3, <2>3 DEF BuildCommit, FromUser
  <2>4. ASSUME BuildCommit, n # Current PROVE commitSha'[n] = commitSha[n]
    BY <1>1, <2>0, <2>4 DEF BuildCommit
  <2>5. ASSUME RecordReverse, n # submitted PROVE commitSha'[n] = commitSha[n]
    BY <1>1, <2>0, <2>5 DEF RecordReverse
  <2>6. ASSUME NEW f \in PushedFiles, Push(f) PROVE commitSha'[n] = commitSha[n]
    BY <2>6 DEF Push, forwardVars
  <2> QED
    BY <2>1, <2>2, <2>3, <2>4, <2>5, <2>6, BranchesMove
<1> QED
  BY <1>3 DEF Markers, FromUser

\* Places in hand are commits whose last change is a developer's.
LEMMA InHandCommit ==
    ASSUME TypeOK, PlaceInv, NEW i \in newCommits
    PROVE  /\ i \in 1..Len(tracking) /\ FromDeveloper(i)
           /\ CommitAt(i) \in Commit /\ CommitAt(i) # NoCommit
           /\ CommitAt(i)[Len(CommitAt(i))][1] = "dev"
           /\ \A j \in newCommits : CommitAt(i) = CommitAt(j) => i = j
<1>1. \A j \in newCommits : j \in 1..Len(tracking) /\ FromDeveloper(j)
  BY DEF TypeOK, PlaceInv
<1>2. \A j \in newCommits : Len(CommitAt(j)) = j
  BY <1>1, CommitAtType
<1> QED
  BY <1>1, <1>2, CommitAtType DEF FromDeveloper

\* A commit is listed for submission when it has no row, and its row is the last
\* thing before it is taken off the list.
LEMMA UnrecordedNext ==
    ASSUME IInv, IInv', InHandInv, [Next]_vars
    PROVE  (\A i \in newCommits : Recorded(CommitAt(i)) => pc = "advance" /\ InHand(i))'
<1> DEFINE Goal == (\A i \in newCommits : Recorded(CommitAt(i)) => pc = "advance" /\ InHand(i))'
<1> USE DEF devRefVars, devVars, remoteVars, trackingVars, localVars, forwardVars, reverseVars
<1>1. TypeOK /\ TypeOK' /\ PlaceInv /\ PlaceInv'
  BY DEF IInv
<1>2. \A i \in newCommits : Recorded(CommitAt(i)) => pc = "advance" /\ InHand(i)
  BY DEF InHandInv
<1>3. ASSUME newCommits' = {} PROVE Goal
  BY <1>3
<1>4. ASSUME UNCHANGED <<newCommits, tracking, commitSha, pc>> PROVE Goal
  BY <1>2, <1>4 DEF Recorded, CommitAt, InHand, IsOldest
<1>5. CASE Lists
  <2>1. \A i \in NewCommits : ~Recorded(CommitAt(i))
    BY DEF NewCommits, IsNew
  <2> QED
    BY <1>5, <2>1 DEF Lists, Recorded, CommitAt
<1>6. CASE SubmitCommit
  <2>1. pc = "submit" /\ UNCHANGED <<newCommits, tracking, commitSha>>
    BY <1>6 DEF SubmitCommit, SubmitTakesEffect
  <2> QED
    BY <1>2, <2>1 DEF Recorded, CommitAt
<1>7. CASE RecordReverse
  <2>1. pc = "record" /\ pc' = "advance" /\ UNCHANGED <<newCommits, tracking>>
    BY <1>7 DEF RecordReverse
  <2>2. ASSUME NEW i \in newCommits, Recorded(CommitAt(i))' PROVE InHand(i)
    <3>1. ~Recorded(CommitAt(i))
      BY <1>2, <2>1
    <3>2. ASSUME NEW c \in Commit, c = CommitAt(i) PROVE InHand(i)
      <4>1. Recorded(c)' /\ ~Recorded(c) /\ c # NoCommit /\ c[Len(c)][1] = "dev"
        BY <1>1, <2>1, <2>2, <3>1, <3>2, InHandCommit DEF Recorded, CommitAt
      <4>2. PICK j \in newCommits : InHand(j) /\ c = CommitAt(j)
        BY <4>1, RecordedStep
      <4> QED
        BY <1>1, <3>2, <4>2, InHandCommit
    <3> QED
      BY <1>1, <3>2, InHandCommit
  <2> QED
    BY <2>1, <2>2 DEF InHand, IsOldest
<1>8. CASE UpdateLastProcessed
  <2>1. PICK i \in newCommits : InHand(i) /\ newCommits' = newCommits \ {i}
    BY <1>8 DEF UpdateLastProcessed, NextCommit
  <2>2. UNCHANGED <<tracking, commitSha>>
    BY <1>8 DEF UpdateLastProcessed
  <2>3. \A j \in newCommits : Recorded(CommitAt(j)) => j = i
    BY <1>1, <1>2, <2>1, OneInHand
  <2> QED
    BY <2>1, <2>2, <2>3 DEF Recorded, CommitAt
<1>9. CASE BuildCommit
  <2>1. newCommits' = {}
    BY <1>1, <1>9 DEF BuildCommit, PlaceInv, Reversing
  <2> QED
    BY <2>1
<1>10. ASSUME NEW f \in Files, Submit(f) PROVE Goal
  BY <1>4, <1>10 DEF Submit
<1>11. ASSUME NEW f \in PushedFiles, Push(f) PROVE Goal
  BY <1>4, <1>11 DEF Push
<1>12. CASE Turns
  BY <1>3, <1>4, <1>12 DEF Turns, Elsewhere
<1>13. CASE Fetches \/ Publishes \/ SubmitAnswerLost
  BY <1>3, <1>13 DEF Fetches, Publishes, Elsewhere, SubmitAnswerLost, EndRound, Forget
<1> QED
  BY <1>1, <1>5, <1>6, <1>7, <1>8, <1>9, <1>10, <1>11, <1>12, <1>13, StepKinds DEF Kinds

\* Between submit and row, the changelist that was submitted has no row.
LEMMA SubmittedNext ==
    ASSUME IInv, IInv', InHandInv, [Next]_vars
    PROVE  (pc = "record" => commitSha[submitted] = NoCommit)'
<1> DEFINE Goal == (pc = "record" => commitSha[submitted] = NoCommit)'
<1> USE DEF devRefVars, devVars, remoteVars, trackingVars, localVars, forwardVars, reverseVars
<1>1. TypeOK /\ TypeOK' /\ PlaceInv /\ RowsJoinSameChange
  BY DEF IInv
<1>2. ASSUME UNCHANGED <<commitSha, submitted, pc>> PROVE Goal
  BY <1>2 DEF InHandInv
<1>3. ASSUME pc' # "record" PROVE Goal
  BY <1>3
<1>4. CASE SubmitCommit
  <2>1. submitted' = Len(depot') /\ UNCHANGED commitSha /\ Len(depot') = Len(depot) + 1
    BY <1>1, <1>4, SubmitType DEF SubmitCommit, IInv, BranchInv
  <2>2. Len(depot) \in Nat /\ Len(depot') <= MaxCL
    BY <1>1 DEF TypeOK
  <2>3. submitted' \in CL /\ submitted' \notin 1..Len(depot)
    BY <2>1, <2>2, BoundsAreNat DEF CL
  <2>4. commitSha[submitted'] = NoCommit
    BY <1>1, <2>3 DEF RowsJoinSameChange
  <2> QED
    BY <2>1, <2>4
<1>5. ASSUME NEW f \in Files, Submit(f) PROVE Goal
  BY <1>2, <1>5 DEF Submit
<1>6. ASSUME NEW f \in PushedFiles, Push(f) PROVE Goal
  BY <1>2, <1>6 DEF Push
<1>7. CASE Turns
  BY <1>2, <1>3, <1>7 DEF Turns, Elsewhere
<1>8. CASE Fetches \/ Publishes \/ Lists \/ SubmitAnswerLost \/ RecordReverse
  BY <1>3, <1>8 DEF Fetches, Publishes, Lists, Elsewhere, SubmitAnswerLost, EndRound, RecordReverse
<1>9. CASE BuildCommit \/ UpdateLastProcessed
  BY <1>3, <1>9 DEF BuildCommit, UpdateLastProcessed, NextCommit
<1> QED
  BY <1>1, <1>4, <1>5, <1>6, <1>7, <1>8, <1>9, StepKinds DEF Kinds

\* The three together.
LEMMA InHandNext ==
    ASSUME IInv, IInv', FetchedInv, InHandInv, [Next]_vars
    PROVE  InHandInv'
BY UnrecordedNext, SubmittedNext, RowsOnRemoteNext DEF InHandInv

-----------------------------------------------------------------------------
(* Open conflicts.                                                          *)

\* What a developer's commit touches does not change.
LEMMA PushedStays ==
    ASSUME TypeOK, PlaceInv, [Next]_vars, NEW k \in 1..Len(pushed)
    PROVE  pushed'[k] = pushed[k]
<1> USE DEF devRefVars, devVars, remoteVars, trackingVars, localVars, forwardVars, reverseVars
<1>1. ASSUME NEW f \in Files, Submit(f) PROVE UNCHANGED pushed
  BY <1>1 DEF Submit
<1>2. ASSUME NEW f \in PushedFiles, Push(f) PROVE pushed'[k] = pushed[k]
  BY <1>2, PushType
<1>3. CASE Turns \/ Fetches \/ Publishes \/ Lists
  BY <1>3 DEF Turns, Fetches, Publishes, Lists
<1>4. CASE BuildCommit \/ SubmitCommit \/ SubmitAnswerLost \/ RecordReverse \/ UpdateLastProcessed
  BY <1>4 DEF BuildCommit, SubmitCommit, SubmitAnswerLost, RecordReverse, UpdateLastProcessed
<1> QED
  BY <1>1, <1>2, <1>3, <1>4, StepKinds DEF Kinds

\* A conflict stays open while neither direction mirrors anything.
LEMMA StaysOpen ==
    ASSUME IInv, IInv', Open, [Next]_vars, UNCHANGED <<lastCl, commitSha>>
    PROVE  Open'
<1>1. /\ TypeOK /\ TypeOK' /\ PlaceInv /\ BranchInv
      /\ origin \in Commit /\ origin' \in Commit
      /\ Len(depot) \in Nat /\ Len(depot') \in Nat
      /\ Len(pushed) \in Nat /\ Len(pushed') \in Nat
  BY DEF IInv, TypeOK
<1>2. IsPrefix(origin, origin') /\ Grows
  BY <1>1, RemoteGrows, StepsGrow DEF BranchInv
<1>3. PICK n \in 1..Len(depot), i \in 1..Len(origin) :
          /\ FromUser(n) /\ n > lastCl /\ origin[i][1] = "dev"
          /\ depot[n].file = pushed[origin[i][2]]
          /\ ~Recorded(SubSeq(origin, 1, i))
  BY DEF Open
<1>4. n \in 1..Len(depot') /\ depot'[n] = depot[n]
  BY <1>1, <1>2 DEF Grows
<1>5. i \in 1..Len(origin') /\ origin'[i] = origin[i] /\ SubSeq(origin', 1, i) = SubSeq(origin, 1, i)
  BY <1>1, <1>2, SameBelow
<1>6. origin[i][2] \in 1..Len(pushed)
  <2>1. origin[i] \in Change
    BY <1>1 DEF Commit
  <2>2. origin[i][2] \in Dev /\ origin[i][2] <= Len(pushed)
    BY <1>1, <1>3, <2>1 DEF BranchInv, WellFormed, Known, Change
  <2> QED
    BY <1>1, <2>2, BoundsAreNat DEF Dev
<1>7. pushed'[origin[i][2]] = pushed[origin[i][2]]
  BY <1>1, <1>6, PushedStays
<1>8. ~\E m \in CL : commitSha'[m] = SubSeq(origin', 1, i)
  BY <1>3, <1>5 DEF Recorded
<1>9. /\ depot'[n].git = 0 /\ n > lastCl' /\ origin'[i][1] = "dev"
      /\ depot'[n].file = pushed'[origin'[i][2]]
  BY <1>3, <1>4, <1>5, <1>7 DEF FromUser
<1> QED
  BY <1>4, <1>5, <1>8, <1>9 DEF Open, FromUser, Recorded
\* A file that the conflict check finds changed on both sides is one: what it
\* compares are a changelist behind the checkpoint and a commit without a row.
LEMMA ConflictFound ==
    ASSUME IInv, FetchedInv, Conflicting
    PROVE  Open
<1>1. /\ TypeOK /\ PlaceInv /\ origin \in Commit /\ tracking \in Commit
      /\ Len(depot) \in Nat /\ lastCl \in Nat /\ Len(tracking) \in Nat
  BY LenFacts DEF IInv, TypeOK, Commit
<1>2. PICK n \in P4Changes, i \in NewCommits : depot[n].file = FileOf(i)
  BY DEF Conflicting
<1>3. n \in 1..Len(depot) /\ n > lastCl /\ FromUser(n)
  BY <1>1, <1>2, BatchEndInBounds DEF P4Changes
<1>4. i \in 1..Len(tracking) /\ FromDeveloper(i) /\ ~Recorded(CommitAt(i))
  BY <1>2 DEF NewCommits, LogAfter, IsNew
<1>5. depot[n].file \in Files
  <2>1. depot[n] \in [file : Files, git : 0..MaxDev]
    <3>1. depot \in Seq([file : Files, git : 0..MaxDev])
      BY <1>1 DEF TypeOK
    <3> QED
      BY <1>3, <3>1, ElementOfSeq
  <2> QED
    BY <2>1
<1>6. depot[n].file = pushed[tracking[i][2]]
  BY <1>2, <1>5, BoundsAreNat DEF FileOf
<1>7. i \in 1..Len(origin) /\ origin[i] = tracking[i] /\ SubSeq(origin, 1, i) = CommitAt(i)
  BY <1>1, <1>4, SameBelow DEF FetchedInv, CommitAt
<1> QED
  BY <1>3, <1>4, <1>6, <1>7 DEF Open, FromDeveloper

\* A round gets to a conflict only by finding one, and mirrors nothing until it
\* has recorded it.
LEMMA ConflictSteps ==
    ASSUME [Next]_vars, conflict = 0, conflict' # 0 \/ Handling'
    PROVE  /\ UNCHANGED <<lastCl, commitSha>>
           /\ Handling \/ Conflicting
<1> DEFINE Goal == /\ UNCHANGED <<lastCl, commitSha>>
                   /\ Handling \/ Conflicting
<1> USE DEF Handling, devVars, remoteVars, trackingVars, localVars, forwardVars, reverseVars
<1>1. ASSUME NEW f \in Files, Submit(f) PROVE Goal
  BY <1>1 DEF Submit
<1>2. ASSUME NEW f \in PushedFiles, Push(f) PROVE Goal
  BY <1>2 DEF Push
<1>3. ASSUME NEW n \in CL, DeleteConflictBranch(n) PROVE Goal
  BY <1>3 DEF DeleteConflictBranch
<1>4. CASE Crash \/ Start \/ CheckConflictResolved
  BY <1>4 DEF Crash, Start, CheckConflictResolved
<1>5. CASE Fetch \/ FetchFails \/ RoundAborts
  BY <1>5 DEF Fetch, FetchFails, RoundAborts, EndRound
<1>6. CASE CheckConflicts
  BY <1>6 DEF CheckConflicts, StartConflict
<1>7. CASE Poll \/ SkipMarker \/ BuildCommit
  BY <1>7 DEF Poll, SkipMarker, BuildCommit
<1>8. CASE SyncError \/ PushCommit \/ EndBatch
  BY <1>8 DEF SyncError, PushCommit, EndBatch
<1>9. CASE CreateConflictBranch \/ PushConflictBranch
  BY <1>9 DEF CreateConflictBranch, PushConflictBranch
<1>10. CASE RecordConflict \/ ConflictFails
  BY <1>10 DEF RecordConflict, ConflictFails, EndRound
<1>11. CASE DetectNewCommits
  BY <1>11 DEF DetectNewCommits, StartConflict
<1>12. CASE SubmitCommit \/ SubmitAnswerLost \/ SubmitFails
  BY <1>12 DEF SubmitCommit, SubmitAnswerLost, SubmitFails, EndRound
<1>13. CASE RecordReverse \/ UpdateLastProcessed
  BY <1>13 DEF RecordReverse, UpdateLastProcessed, NextCommit
<1>14. CASE UNCHANGED vars
  BY <1>14 DEF vars
<1> QED
  BY <1>1, <1>2, <1>3, <1>4, <1>5, <1>6, <1>7, <1>8, <1>9, <1>10, <1>11, <1>12, <1>13, <1>14
     DEF Next, Environment, Checking, ForwardSync, ConflictHandling, ReverseSync

\* Every step keeps the conflict that is handled or recorded open.
LEMMA ConflictNext ==
    ASSUME IInv, IInv', FetchedInv, ConflictInv, [Next]_vars
    PROVE  ConflictInv'
<1>1. ConflictRestsInv' /\ (conflict # 0 => UNCHANGED <<lastCl, commitSha>>)
  BY ConflictRests DEF ConflictInv, IInv, Stopped
<1>2. ASSUME conflict' # 0 \/ Handling' PROVE Open'
  <2>1. CASE conflict # 0
    BY <1>1, <2>1, StaysOpen DEF ConflictInv
  <2>2. CASE conflict = 0
    <3>1. UNCHANGED <<lastCl, commitSha>> /\ (Handling \/ Conflicting)
      BY <1>2, <2>2, ConflictSteps
    <3>2. Open
      BY <3>1, ConflictFound DEF ConflictInv
    <3> QED
      BY <3>1, <3>2, StaysOpen
  <2> QED
    BY <2>1, <2>2
<1> QED
  BY <1>1, <1>2 DEF ConflictInv

\* When the service is installed nothing has been submitted for developers.
LEMMA ReverseInit == Init => ReverseInv
<1> SUFFICES ASSUME Init PROVE ReverseInv
    OBVIOUS
<1>1. IInv
  BY TypeAndPlaceInit, BranchAndRowsInit DEF IInv
<1>2. origin \in Commit /\ tracking = origin /\ lastReverse = NoCommit
  BY <1>1 DEF Init, IInv, TypeOK
<1>3. NoCommit \in Commit /\ IsPrefix(NoCommit, tracking)
  <2>1. NoCommit \in Commit /\ Len(NoCommit) = 0 /\ Len(tracking) \in Nat
    BY <1>2 DEF NoCommit, Commit
  <2> QED
    BY <1>2, <2>1, PrefixFacts
<1>4. FetchedInv
  BY <1>2, <1>3, PrefixReflexive DEF FetchedInv
<1>5. Markers = {}
  <2>1. \A n \in 1..Len(depot) : depot[n].git = 0
    BY DEF Init
  <2> QED
    BY <2>1 DEF Markers, FromUser
<1>6. InHandInv
  BY <1>5 DEF Init, InHandInv
<1>7. ConflictInv
  BY DEF Init, ConflictInv, ConflictRestsInv, Handling
<1> QED
  BY <1>1, <1>4, <1>6, <1>7 DEF ReverseInv

\* The invariant of the reverse direction.
THEOREM ReverseInductive == Spec => []ReverseInv
<1>1. ReverseInv /\ IInv' /\ [Next]_vars => ReverseInv'
  BY FetchedNext, InHandNext, ConflictNext DEF ReverseInv
<1> QED
  BY <1>1, ReverseInit, Inductive, PTL DEF Spec

\* README.md:312: a conflict that is recorded is real; what is on both sides is
\* not overwritten while it waits to be resolved.
THEOREM ConflictsAreReal == Spec => []ConflictIsOpen
<1>1. ReverseInv => ConflictIsOpen
  <2> SUFFICES ASSUME ReverseInv, conflict # 0 PROVE ConflictIsOpen
      BY DEF ConflictIsOpen
  <2>1. PICK n \in 1..Len(depot), i \in 1..Len(origin) :
            /\ FromUser(n) /\ n > lastCl /\ origin[i][1] = "dev"
            /\ depot[n].file = pushed[origin[i][2]]
            /\ ~Recorded(SubSeq(origin, 1, i))
    BY DEF ReverseInv, ConflictInv, Open
  <2>2. 1..Len(depot) \subseteq CL
    BY BoundsAreNat DEF ReverseInv, IInv, TypeOK, CL
  <2>3. ~\E m \in 1..Len(depot) : commitSha[m] = SubSeq(origin, 1, i)
    BY <2>1, <2>2 DEF Recorded
  <2> QED
    BY <2>1, <2>3 DEF ConflictIsOpen
<1> QED
  BY <1>1, ReverseInductive, PTL

-----------------------------------------------------------------------------
(* Commits that are submitted twice.                                        *)

\* Rows for the same developer commit name the same commit: they are commits of
\* the remote branch, which holds no change twice.
LEMMA SameChangeSameCommit ==
    ASSUME IInv, NEW c \in Commit, NEW d \in Commit, c # NoCommit, d # NoCommit,
           IsPrefix(c, origin), IsPrefix(d, origin), c[Len(c)] = d[Len(d)]
    PROVE  c = d
<1>1. origin \in Commit /\ WellFormed(origin)
  BY DEF IInv, TypeOK, BranchInv
<1>2. /\ Len(c) \in Nat /\ Len(d) \in Nat /\ Len(c) <= Len(origin) /\ Len(d) <= Len(origin)
      /\ \A i \in 1..Len(c) : c[i] = origin[i]
      /\ \A i \in 1..Len(d) : d[i] = origin[i]
      /\ c \in Seq(Change) /\ d \in Seq(Change) /\ Len(origin) \in Nat
  BY <1>1, PrefixFacts DEF Commit
<1>3. Len(c) # 0 /\ Len(d) # 0
  BY <1>2, EmptySeq DEF NoCommit
<1>4. Len(c) \in 1..Len(origin) /\ Len(d) \in 1..Len(origin)
      /\ c[Len(c)] = origin[Len(c)] /\ d[Len(d)] = origin[Len(d)]
  BY <1>2, <1>3
<1>5. Len(c) = Len(d)
  BY <1>1, <1>4 DEF WellFormed
<1>6. \A i \in 1..Len(c) : c[i] = d[i]
  BY <1>2, <1>5
<1> QED
  BY <1>2, <1>5, <1>6, SeqEqual

OneRowEach ==
    \A m, n \in Markers :
        m # n /\ depot[m].git = depot[n].git => commitSha[m] = NoCommit \/ commitSha[n] = NoCommit

\* The row of a marker names a commit of the remote that ends in its change.
LEMMA MarkerRow ==
    ASSUME ReverseInv, NEW n \in Markers, commitSha[n] # NoCommit
    PROVE  /\ n \in CL /\ commitSha[n] \in Commit /\ IsPrefix(commitSha[n], origin)
           /\ commitSha[n][Len(commitSha[n])] = <<"dev", depot[n].git>>
<1>1. n \in 1..Len(depot) /\ ~FromUser(n)
  BY DEF Markers
<1>2. n \in CL
  BY <1>1, BoundsAreNat DEF ReverseInv, IInv, TypeOK, CL
<1>3. commitSha[n][Len(commitSha[n])] = Origin(<<"p4", n>>)
  BY <1>2 DEF ReverseInv, IInv, RowsJoinSameChange
<1> QED
  BY <1>1, <1>2, <1>3 DEF ReverseInv, IInv, TypeOK, InHandInv, Origin

\* No step gives a commit a second row.
LEMMA OneRowEachNext ==
    ASSUME ReverseInv, ReverseInv', OneRowEach, [Next]_vars
    PROVE  OneRowEach'
<1>1. /\ IInv /\ TypeOK /\ TypeOK' /\ PlaceInv /\ BranchInv /\ RowsJoinSameChange /\ InHandInv
      /\ commitSha \in [CL -> Commit] /\ commitSha' \in [CL -> Commit]
      /\ origin \in Commit /\ tracking \in Commit
  BY DEF ReverseInv, IInv, TypeOK
<1>2. Grows
  BY <1>1, StepsGrow DEF BranchInv
<1>3. ASSUME NEW n \in Markers', commitSha'[n] # NoCommit
      PROVE  /\ n \in CL
             /\ \/ n \in Markers /\ commitSha'[n] = commitSha[n]
                \/ RecordReverse /\ n = submitted
  <2>1. n \in 1..Len(depot') /\ depot'[n].git # 0
    BY DEF Markers, FromUser
  <2>2. n \in CL
    BY <1>1, <2>1, BoundsAreNat DEF TypeOK, CL
  <2>3. CASE commitSha'[n] = commitSha[n]
    <3>1. n \in 1..Len(depot)
      BY <1>1, <1>3, <2>2, <2>3 DEF RowsJoinSameChange
    <3> QED
      BY <1>2, <2>1, <2>2, <2>3, <3>1 DEF Markers, FromUser, Grows
  <2>4. CASE BuildCommit /\ n = Current
    BY <2>1, <2>4 DEF BuildCommit, FromUser
  <2>5. ASSUME BuildCommit, n # Current PROVE commitSha'[n] = commitSha[n]
    BY <1>1, <2>2, <2>5 DEF BuildCommit
  <2>6. ASSUME RecordReverse, n # submitted PROVE commitSha'[n] = commitSha[n]
    BY <1>1, <2>2, <2>6 DEF RecordReverse
  <2>7. ASSUME NEW f \in PushedFiles, Push(f) PROVE commitSha'[n] = commitSha[n]
    BY <2>7 DEF Push
  <2> QED
    BY <2>2, <2>3, <2>4, <2>5, <2>6, <2>7, BranchesMove
<1>4. ASSUME RecordReverse, NEW m \in Markers, m # submitted, commitSha[m] # NoCommit,
             depot[m].git = depot[submitted].git
      PROVE  FALSE
  <2>1. PICK i \in newCommits : InHand(i)
    BY <1>4 DEF RecordReverse
  <2>2. pc = "record" /\ depot[submitted].git = tracking[i][2]
    BY <1>1, <1>4, <2>1 DEF RecordReverse, PlaceInv
  <2>3. /\ i \in 1..Len(tracking) /\ tracking[i] = <<"dev", tracking[i][2]>>
        /\ CommitAt(i) \in Commit /\ CommitAt(i) # NoCommit
        /\ CommitAt(i)[Len(CommitAt(i))] = tracking[i]
    BY <1>1, InHandType, CommitAtType DEF BranchInv
  <2>4. IsPrefix(CommitAt(i), origin)
    <3>1. IsPrefix(CommitAt(i), tracking)
      BY <1>1, <2>3, BelowFacts DEF CommitAt
    <3> QED
      BY <1>1, <2>3, <3>1, PrefixTransitive DEF ReverseInv, FetchedInv
  <2>5. commitSha[m] = CommitAt(i)
    <3>1. /\ commitSha[m] \in Commit /\ IsPrefix(commitSha[m], origin)
          /\ commitSha[m][Len(commitSha[m])] = <<"dev", depot[m].git>>
      BY <1>4, MarkerRow
    <3>2. commitSha[m][Len(commitSha[m])] = CommitAt(i)[Len(CommitAt(i))]
      BY <1>4, <2>2, <2>3, <3>1
    <3> HIDE DEF OneRowEach
    <3> QED
      BY <1>1, <1>4, <2>3, <2>4, <3>1, <3>2, SameChangeSameCommit
  <2>6. Recorded(CommitAt(i))
    BY <1>4, <2>5, MarkerRow DEF Recorded
  <2> QED
    BY <1>1, <2>2, <2>6 DEF InHandInv
<1>5. ASSUME NEW m \in Markers', NEW n \in Markers', m # n, depot'[m].git = depot'[n].git,
             commitSha'[m] # NoCommit, commitSha'[n] # NoCommit
      PROVE  FALSE
  <2>1. CASE m \in Markers /\ n \in Markers /\ commitSha'[m] = commitSha[m]
             /\ commitSha'[n] = commitSha[n]
    <3>1. depot[m].git = depot[n].git
      BY <1>2, <1>5, <2>1 DEF Markers, Grows
    <3> QED
      BY <1>5, <2>1, <3>1 DEF OneRowEach
  <2>2. ASSUME NEW x \in Markers', NEW y \in Markers', x # y, depot'[x].git = depot'[y].git,
               commitSha'[x] # NoCommit, RecordReverse, y = submitted
        PROVE  FALSE
    <3>1. x \in Markers /\ commitSha'[x] = commitSha[x]
      BY <1>3, <2>2
    <3>2. UNCHANGED depot
      BY <2>2 DEF RecordReverse
    <3> QED
      BY <1>4, <2>2, <3>1, <3>2
  <2> QED
    BY <1>3, <1>5, <2>1, <2>2
<1> QED
  BY <1>5 DEF OneRowEach

\* The changelists of the reverse sync without a row.
Unrecorded == {n \in Markers : commitSha[n] = NoCommit}

\* They are finitely many.
LEMMA FinitelyMany ==
    ASSUME NEW N \in Nat, NEW S, S \subseteq 1..N
    PROVE  IsFiniteSet(S) /\ Cardinality(S) \in Nat
<1>1. IsFiniteSet(1..N)
  BY FS_Interval
<1>2. S \in SUBSET (1..N)
  OBVIOUS
<1>3. IsFiniteSet(S)
  BY <1>1, <1>2, FS_Subset
<1> QED
  BY <1>3, FS_CardinalityType

\* A submit makes one more, its row one fewer; no other step makes any.
LEMMA UnrecordedStep ==
    ASSUME ReverseInv, ReverseInv', [Next]_vars
    PROVE  \/ /\ SubmitCommit \/ SubmitAnswerLost
              /\ Unrecorded' \subseteq Unrecorded \cup {Len(depot) + 1}
           \/ /\ RecordReverse
              /\ Unrecorded' \subseteq Unrecorded \ {submitted} /\ submitted \in Unrecorded
           \/ /\ Unrecorded' \subseteq Unrecorded
              /\ \/ pc' = pc /\ accidents' = accidents
                 \/ pc # "record" /\ accidents' = accidents
                 \/ accidents' = accidents + 1
<1> USE DEF devRefVars, devVars, remoteVars, trackingVars, localVars, forwardVars, reverseVars
<1>1. /\ TypeOK /\ TypeOK' /\ PlaceInv /\ BranchInv /\ InHandInv
      /\ commitSha \in [CL -> Commit] /\ Len(depot) \in Nat
  BY DEF ReverseInv, IInv, TypeOK
<1>2. 1..Len(depot) \subseteq CL
  BY <1>1, BoundsAreNat DEF TypeOK, CL
<1>3. ASSUME UNCHANGED <<depot, commitSha>> PROVE Unrecorded' \subseteq Unrecorded
  BY <1>3 DEF Unrecorded, Markers, FromUser
<1>4. CASE SubmitCommit \/ SubmitAnswerLost
  <2>1. Len(depot') = Len(depot) + 1 /\ \A n \in 1..Len(depot) : depot'[n] = depot[n]
    BY <1>1, <1>4, SubmitType DEF SubmitCommit, SubmitAnswerLost, BranchInv
  <2>2. UNCHANGED commitSha
    BY <1>4 DEF SubmitCommit, SubmitAnswerLost
  <2>3. ASSUME NEW n \in Unrecorded' PROVE n \in Unrecorded \cup {Len(depot) + 1}
    <3>1. n \in 1..Len(depot') /\ depot'[n].git # 0 /\ commitSha[n] = NoCommit
      BY <2>2 DEF Unrecorded, Markers, FromUser
    <3>2. n \in 1..Len(depot) \/ n = Len(depot) + 1
      BY <1>1, <2>1, <3>1
    <3> QED
      BY <2>1, <3>1, <3>2 DEF Unrecorded, Markers, FromUser
  <2> QED
    BY <1>4, <2>3
<1>5. CASE RecordReverse
  <2>1. PICK i \in newCommits : InHand(i) /\ commitSha' = [commitSha EXCEPT ![submitted] = CommitAt(i)]
    BY <1>5 DEF RecordReverse
  <2>2. /\ pc = "record" /\ UNCHANGED depot
        /\ submitted \in 1..Len(depot) /\ depot[submitted].git = tracking[i][2]
        /\ commitSha[submitted] = NoCommit
    BY <1>1, <1>5, <2>1 DEF RecordReverse, PlaceInv, InHandInv
  <2>3. tracking[i][2] # 0 /\ CommitAt(i) # NoCommit
    <3>1. tracking[i][2] \in Dev /\ i \in 1..Len(tracking)
      BY <1>1, InHandType DEF BranchInv
    <3> QED
      BY <1>1, <3>1, CommitAtType, BoundsAreNat DEF Dev
  <2>4. submitted \in Unrecorded
    BY <2>2, <2>3 DEF Unrecorded, Markers, FromUser
  <2>5. ASSUME NEW n \in Unrecorded' PROVE n \in Unrecorded \ {submitted}
    <3>1. n \in 1..Len(depot) /\ depot[n].git # 0 /\ commitSha'[n] = NoCommit
      BY <2>2 DEF Unrecorded, Markers, FromUser
    <3>2. n # submitted
      BY <1>1, <1>2, <2>1, <2>3, <3>1
    <3>3. commitSha[n] = NoCommit
      BY <1>1, <1>2, <2>1, <3>1, <3>2
    <3> QED
      BY <3>1, <3>2, <3>3 DEF Unrecorded, Markers, FromUser
  <2> QED
    BY <1>5, <2>4, <2>5
<1>6. CASE BuildCommit
  <2>1. /\ FromUser(Current) /\ UNCHANGED <<depot, accidents>> /\ pc = "forward"
        /\ commitSha' = [commitSha EXCEPT ![Current] = Built]
    BY <1>6 DEF BuildCommit
  <2>2. ASSUME NEW n \in Unrecorded' PROVE n \in Unrecorded
    <3>1. n \in 1..Len(depot) /\ depot[n].git # 0 /\ commitSha'[n] = NoCommit
      BY <2>1 DEF Unrecorded, Markers, FromUser
    <3>2. commitSha[n] = NoCommit
      BY <1>1, <1>2, <2>1, <3>1 DEF FromUser
    <3> QED
      BY <3>1, <3>2 DEF Unrecorded, Markers, FromUser
  <2> QED
    BY <2>1, <2>2
<1>7. ASSUME NEW f \in Files, Submit(f) PROVE Unrecorded' \subseteq Unrecorded /\ pc' = pc /\ accidents' = accidents
  <2>1. UNCHANGED <<commitSha, pc, accidents>> /\ depot' = Append(depot, [file |-> f, git |-> 0])
    BY <1>7 DEF Submit
  <2>2. \A n \in 1..Len(depot') : n > Len(depot) => depot'[n].git = 0
    <3>1. [file |-> f, git |-> 0] \in [file : Files, git : 0..MaxDev]
      BY BoundsAreNat
    <3>2. Len(depot') = Len(depot) + 1 /\ depot'[Len(depot) + 1] = [file |-> f, git |-> 0]
      BY <1>1, <2>1, <3>1, AppendProperties DEF TypeOK
    <3> QED
      BY <1>1, <3>2
  <2>3. ASSUME NEW n \in Unrecorded' PROVE n \in Unrecorded
    <3>1. n \in 1..Len(depot') /\ depot'[n].git # 0 /\ commitSha[n] = NoCommit
      BY <2>1 DEF Unrecorded, Markers, FromUser
    <3>2. n \in 1..Len(depot)
      BY <1>1, <2>2, <3>1
    <3>3. depot'[n] = depot[n]
      BY <1>1, <1>7, <3>2, UserSubmitType
    <3> QED
      BY <3>1, <3>2, <3>3 DEF Unrecorded, Markers, FromUser
  <2> QED
    BY <2>1, <2>3
<1>8. ASSUME NEW f \in PushedFiles, Push(f) PROVE Unrecorded' \subseteq Unrecorded /\ pc' = pc /\ accidents' = accidents
  BY <1>3, <1>8 DEF Push
<1>9. CASE Turns
  BY <1>3, <1>9 DEF Turns
<1>10. CASE Fetches \/ Publishes \/ Lists
  BY <1>3, <1>10 DEF Fetches, Publishes, Lists, Reversing
<1>11. CASE UpdateLastProcessed
  BY <1>3, <1>11 DEF UpdateLastProcessed
<1> QED
  BY <1>1, <1>4, <1>5, <1>6, <1>7, <1>8, <1>9, <1>10, <1>11, StepKinds DEF Kinds

\* At most one for each accident, and one that is in work.
FewUnrecorded ==
    /\ pc = "record" => Cardinality(Unrecorded) <= accidents + 1
    /\ pc # "record" => Cardinality(Unrecorded) <= accidents

\* Only an accident leaves one behind.
LEMMA AccidentsNext ==
    ASSUME ReverseInv, ReverseInv', [Next]_vars, FewUnrecorded
    PROVE  FewUnrecorded'
<1>1. accidents \in Nat /\ accidents' \in Nat
  BY BoundsAreNat DEF ReverseInv, IInv, TypeOK
<1>2. /\ IsFiniteSet(Unrecorded) /\ Cardinality(Unrecorded) \in Nat
      /\ IsFiniteSet(Unrecorded') /\ Cardinality(Unrecorded') \in Nat
  <2>1. Len(depot) \in Nat /\ Len(depot') \in Nat
    BY DEF ReverseInv, IInv, TypeOK
  <2>2. Unrecorded \subseteq 1..Len(depot) /\ Unrecorded' \subseteq 1..Len(depot')
    BY DEF Unrecorded, Markers
  <2> QED
    BY <2>1, <2>2, FinitelyMany
<1>3. SUFFICES ASSUME NEW x \in Nat, x = Cardinality(Unrecorded),
                      NEW y \in Nat, y = Cardinality(Unrecorded')
               PROVE  /\ pc' = "record" => y <= accidents' + 1
                      /\ pc' # "record" => y <= accidents'
  BY <1>2 DEF FewUnrecorded
<1>4. /\ pc = "record" => x <= accidents + 1
      /\ pc # "record" => x <= accidents
  BY <1>3 DEF FewUnrecorded
<1>5. CASE /\ SubmitCommit \/ SubmitAnswerLost
           /\ Unrecorded' \subseteq Unrecorded \cup {Len(depot) + 1}
  <2>1. y <= x + 1
    <3>1. ASSUME NEW n, Unrecorded' \in SUBSET (Unrecorded \cup {n}) PROVE y <= x + 1
      <4>1. /\ IsFiniteSet(Unrecorded \cup {n})
            /\ Cardinality(Unrecorded \cup {n}) = IF n \in Unrecorded THEN x ELSE x + 1
        BY <1>2, <1>3, FS_AddElement
      <4>2. y <= Cardinality(Unrecorded \cup {n})
        BY <1>3, <3>1, <4>1, FS_Subset
      <4> QED
        BY <1>3, <4>1, <4>2
    <3>2. Unrecorded' \in SUBSET (Unrecorded \cup {Len(depot) + 1})
      BY <1>5
    <3> QED
      BY <3>1, <3>2
  <2>2. pc = "submit"
    BY <1>5 DEF SubmitCommit, SubmitAnswerLost, SubmitTakesEffect
  <2>3. \/ pc' = "record" /\ accidents' = accidents
        \/ pc' = "idle" /\ accidents' = accidents + 1
    BY <1>5 DEF SubmitCommit, SubmitAnswerLost, EndRound
  <2>4. x <= accidents
    BY <1>4, <2>2
  <2>5. CASE pc' = "record" /\ accidents' = accidents
    BY <1>1, <2>1, <2>4, <2>5
  <2>6. CASE pc' = "idle" /\ accidents' = accidents + 1
    BY <1>1, <2>1, <2>4, <2>6
  <2> QED
    BY <2>3, <2>5, <2>6
<1>6. CASE /\ RecordReverse
           /\ Unrecorded' \subseteq Unrecorded \ {submitted} /\ submitted \in Unrecorded
  <2>1. y <= x - 1
    <3>1. /\ IsFiniteSet(Unrecorded \ {submitted})
          /\ Cardinality(Unrecorded \ {submitted}) = x - 1
      BY <1>2, <1>3, <1>6, FS_RemoveElement
    <3>2. Unrecorded' \in SUBSET (Unrecorded \ {submitted})
      BY <1>6
    <3> QED
      BY <1>3, <3>1, <3>2, FS_Subset
  <2>2. pc = "record" /\ pc' = "advance" /\ accidents' = accidents
    BY <1>6 DEF RecordReverse
  <2> QED
    BY <1>1, <1>4, <2>1, <2>2
<1>7. CASE /\ Unrecorded' \subseteq Unrecorded
           /\ \/ pc' = pc /\ accidents' = accidents
              \/ pc # "record" /\ accidents' = accidents
              \/ accidents' = accidents + 1
  <2>1. y <= x
    <3>1. Unrecorded' \in SUBSET Unrecorded
      BY <1>7
    <3> QED
      BY <1>2, <1>3, <3>1, FS_Subset
  <2>2. CASE pc' = pc /\ accidents' = accidents
    BY <1>1, <1>4, <2>1, <2>2
  <2>3. CASE pc # "record" /\ accidents' = accidents
    <3>1. y <= accidents
      BY <1>1, <1>4, <2>1, <2>3
    <3>2. y <= accidents + 1
      BY <1>1, <3>1
    <3> QED
      BY <2>3, <3>1, <3>2
  <2>4. CASE accidents' = accidents + 1
    <3>1. x <= accidents + 1
      BY <1>1, <1>4
    <3> QED
      BY <1>1, <2>1, <2>4, <3>1
  <2> QED
    BY <1>7, <2>2, <2>3, <2>4
<1> QED
  BY <1>5, <1>6, <1>7, UnrecordedStep

\* README.md:303-306: a developer's commit is submitted once, unless the process
\* is killed or an answer lost between its submit and its row.
THEOREM RepeatsAreAccidents == Spec => []RepeatsNeedAccidents
<1> DEFINE Inv == OneRowEach /\ FewUnrecorded
<1>1. Init => Inv
  <2> SUFFICES ASSUME Init PROVE Inv
      OBVIOUS
  <2>1. \A n \in 1..Len(depot) : depot[n].git = 0
    BY DEF Init
  <2>2. Markers = {} /\ Unrecorded = {}
    BY <2>1 DEF Markers, FromUser, Unrecorded
  <2>3. OneRowEach
    BY <2>2 DEF OneRowEach
  <2>4. accidents = 0
    BY DEF Init
  <2>5. Cardinality(Unrecorded) = 0
    BY <2>2, FS_EmptySet
  <2> QED
    BY <2>3, <2>4, <2>5 DEF FewUnrecorded
<1>2. ReverseInv /\ ReverseInv' /\ Inv /\ [Next]_vars => Inv'
  BY OneRowEachNext, AccidentsNext
<1>3. ReverseInv /\ Inv => RepeatsNeedAccidents
  <2> SUFFICES ASSUME ReverseInv, Inv PROVE RepeatsNeedAccidents
      OBVIOUS
  <2>1. accidents \in Nat
    BY BoundsAreNat DEF ReverseInv, IInv, TypeOK
  <2>2. Cardinality(Unrecorded) <= accidents + (IF pc = "record" THEN 1 ELSE 0)
    BY <2>1 DEF FewUnrecorded
  <2> QED
    BY <2>2 DEF OneRowEach, Unrecorded, RepeatsNeedAccidents
<1> QED
  BY <1>1, <1>2, <1>3, ReverseInductive, PTL DEF Spec

-----------------------------------------------------------------------------
(* The reverse checkpoint, as long as the log query lists every commit that *)
(* is behind it.                                                           *)

\* A developer's commit that was fetched keeps its row.
LEMMA RowStays ==
    ASSUME ReverseInv, ReverseInv', [Next]_vars,
           NEW i \in 1..Len(tracking), FromDeveloper(i), Recorded(CommitAt(i))
    PROVE  \E n \in CL : commitSha'[n] = SubSeq(tracking, 1, i)
<1>1. TypeOK /\ IInv /\ IInv' /\ InHandInv
  BY DEF ReverseInv, IInv
<1>2. CommitAt(i) \in Commit /\ CommitAt(i) # NoCommit /\ CommitAt(i)[Len(CommitAt(i))][1] = "dev"
  BY <1>1, CommitAtType DEF FromDeveloper
<1>3. ASSUME NEW c \in Commit, c = CommitAt(i) PROVE \E n \in CL : commitSha'[n] = c
  <2>1. Recorded(c) /\ c # NoCommit /\ c[Len(c)][1] = "dev"
    BY <1>2, <1>3
  <2>2. Recorded(c)'
    BY <1>1, <2>1, RecordedStep
  <2> QED
    BY <2>2 DEF Recorded
<1> QED
  BY <1>2, <1>3 DEF CommitAt

\* The steps during which something is in hand leave what was fetched alone.
LEMMA ReversingSteps ==
    ASSUME TypeOK, PlaceInv, [Next]_vars, Reversing'
    PROVE  /\ UNCHANGED tracking
           /\ \/ UNCHANGED <<newCommits, pc>> /\ Reversing
              \/ Lists
              \/ SubmitCommit
              \/ RecordReverse
              \/ UpdateLastProcessed
<1> USE DEF devRefVars, devVars, remoteVars, trackingVars, localVars, forwardVars, reverseVars, Reversing
<1>1. ASSUME NEW f \in Files, Submit(f) PROVE UNCHANGED <<tracking, newCommits, pc>>
  BY <1>1 DEF Submit
<1>2. ASSUME NEW f \in PushedFiles, Push(f) PROVE UNCHANGED <<tracking, newCommits, pc>>
  BY <1>2 DEF Push
<1>3. ~BuildCommit /\ ~SubmitAnswerLost /\ ~Fetches /\ ~Publishes
  BY DEF BuildCommit, SubmitAnswerLost, EndRound, Fetches, Publishes, Elsewhere
<1>4. CASE Turns
  BY <1>4 DEF Turns, Elsewhere
<1>5. CASE Lists \/ SubmitCommit \/ RecordReverse \/ UpdateLastProcessed
  BY <1>5 DEF Lists, SubmitCommit, RecordReverse, UpdateLastProcessed
<1> QED
  BY <1>1, <1>2, <1>3, <1>4, <1>5, StepKinds DEF Kinds

\* Every step keeps the checkpoint backed.
LEMMA CoveredNext ==
    ASSUME ReverseInv, ReverseInv', CoveredInv, BacklogFits, [Next]_vars
    PROVE  CoveredInv'
<1> USE DEF devRefVars, devVars, remoteVars, trackingVars, localVars, forwardVars, reverseVars
<1>1. /\ TypeOK /\ TypeOK' /\ PlaceInv
      /\ tracking \in Commit /\ lastReverse \in Commit /\ tracking' \in Commit /\ lastReverse' \in Commit
      /\ Len(tracking) \in Nat /\ Len(lastReverse) \in Nat
      /\ IsPrefix(lastReverse, tracking) /\ IsPrefix(lastReverse', tracking')
  <2>1. TypeOK /\ TypeOK' /\ PlaceInv /\ FetchedInv /\ FetchedInv'
    BY DEF ReverseInv, IInv
  <2>2. tracking \in Commit /\ lastReverse \in Commit /\ tracking' \in Commit /\ lastReverse' \in Commit
    BY <2>1 DEF TypeOK
  <2>3. Len(tracking) \in Nat /\ Len(lastReverse) \in Nat
    BY <2>2 DEF Commit
  <2>4. IsPrefix(lastReverse, tracking) /\ IsPrefix(lastReverse', tracking')
    BY <2>1 DEF FetchedInv
  <2> QED
    BY <2>1, <2>2, <2>3, <2>4
<1>2. \A i \in 1..Len(tracking) :
          FromDeveloper(i) /\ Recorded(CommitAt(i)) => \E n \in CL : commitSha'[n] = SubSeq(tracking, 1, i)
  BY RowStays
<1>3. ASSUME UNCHANGED lastReverse
      PROVE  (\A i \in 1..Len(lastReverse) : FromDeveloper(i) => Recorded(CommitAt(i)))'
  <2> SUFFICES ASSUME NEW i \in 1..Len(lastReverse), tracking'[i][1] = "dev"
               PROVE  \E n \in CL : commitSha'[n] = SubSeq(tracking', 1, i)
      BY <1>3 DEF FromDeveloper, Recorded, CommitAt
  <2>1. /\ i \in 1..Len(tracking) /\ lastReverse[i] = tracking[i]
        /\ SubSeq(lastReverse, 1, i) = SubSeq(tracking, 1, i)
    BY <1>1, SameBelow
  <2>2. lastReverse[i] = tracking'[i] /\ SubSeq(lastReverse, 1, i) = SubSeq(tracking', 1, i)
    BY <1>1, <1>3, SameBelow
  <2>3. Recorded(CommitAt(i)) /\ FromDeveloper(i)
    BY <2>1, <2>2 DEF CoveredInv, FromDeveloper
  <2> QED
    BY <1>2, <2>1, <2>2, <2>3
<1>4. CASE UpdateLastProcessed
  <2>1. PICK i \in newCommits : /\ InHand(i) /\ lastReverse' = CommitAt(i)
                                /\ newCommits' = newCommits \ {i}
    <3>1. PICK i \in newCommits : InHand(i) /\ lastReverse' = CommitAt(i)
      BY <1>4 DEF UpdateLastProcessed
    <3>2. PICK j \in newCommits : InHand(j) /\ newCommits' = newCommits \ {j}
      BY <1>4 DEF UpdateLastProcessed, NextCommit
    <3> QED
      BY <1>1, <3>1, <3>2, OneInHand
  <2>2. pc = "advance" /\ pc' # "advance" /\ UNCHANGED <<tracking, commitSha>>
    BY <1>4 DEF UpdateLastProcessed, NextCommit
  <2>3. Recorded(CommitAt(i)) /\ i \in 1..Len(tracking) /\ newCommits \subseteq Int
    BY <1>1, <2>1, <2>2 DEF CoveredInv, TypeOK
  <2>4. \A j \in 1..Len(tracking) : FromDeveloper(j) => j \in newCommits' \/ Recorded(CommitAt(j))
    BY <2>1, <2>2, <2>3 DEF CoveredInv, Reversing
  <2>5. Len(lastReverse') = i
    BY <1>1, <2>1, <2>3, CommitAtType
  <2>6. \A j \in 1..i : j \notin newCommits' /\ j \in 1..Len(tracking)
    BY <1>1, <2>1, <2>3 DEF InHand, IsOldest
  <2>7. \A j \in 1..i : FromDeveloper(j) => Recorded(CommitAt(j))
    BY <2>4, <2>6
  <2> QED
    BY <2>2, <2>4, <2>5, <2>7 DEF CoveredInv, FromDeveloper, Recorded, CommitAt
<1>5. ASSUME ~UpdateLastProcessed PROVE UNCHANGED lastReverse
  <2>1. ASSUME NEW f \in Files, Submit(f) PROVE UNCHANGED lastReverse
    BY <2>1 DEF Submit
  <2>2. ASSUME NEW f \in PushedFiles, Push(f) PROVE UNCHANGED lastReverse
    BY <2>2 DEF Push
  <2>3. CASE Turns \/ Fetches \/ Publishes \/ Lists
    BY <2>3 DEF Turns, Fetches, Publishes, Lists
  <2>4. CASE BuildCommit \/ SubmitCommit \/ SubmitAnswerLost \/ RecordReverse
    BY <2>4 DEF BuildCommit, SubmitCommit, SubmitAnswerLost, RecordReverse
  <2> QED
    BY <1>1, <1>5, <2>1, <2>2, <2>3, <2>4, StepKinds DEF Kinds
<1>6. ASSUME ~UpdateLastProcessed, Reversing'
      PROVE  \A i \in 1..Len(tracking) :
                 FromDeveloper(i) => \/ i \in newCommits'
                                     \/ \E n \in CL : commitSha'[n] = SubSeq(tracking, 1, i)
  <2> SUFFICES ASSUME NEW i \in 1..Len(tracking), FromDeveloper(i),
                      ~\E n \in CL : commitSha'[n] = SubSeq(tracking, 1, i)
               PROVE  i \in newCommits'
      OBVIOUS
  <2>1. ~Recorded(CommitAt(i))
    BY <1>2
  <2>2. CASE Lists
    <3>1. i > Len(lastReverse)
      BY <1>1, <2>1 DEF CoveredInv
    <3>2. i > Len(tracking) - LogLimit
      BY <1>1, <2>1, <3>1, BidirectionalSyncAssumption DEF BacklogFits, IsNew
    <3> QED
      BY <2>1, <2>2, <3>1, <3>2 DEF Lists, NewCommits, LogAfter, IsNew
  <2>3. CASE UNCHANGED newCommits /\ Reversing
    BY <2>1, <2>3 DEF CoveredInv
  <2>4. CASE SubmitCommit \/ RecordReverse
    BY <2>3, <2>4 DEF SubmitCommit, SubmitTakesEffect, RecordReverse, Reversing
  <2> QED
    BY <1>1, <1>6, <2>2, <2>3, <2>4, ReversingSteps
<1>7. ASSUME ~UpdateLastProcessed, pc' = "advance", NEW i \in newCommits', InHand(i)'
      PROVE  UNCHANGED tracking /\ \E n \in CL : commitSha'[n] = SubSeq(tracking, 1, i)
  <2>1. Reversing'
    BY <1>7 DEF Reversing
  <2>2. /\ UNCHANGED tracking
        /\ UNCHANGED <<newCommits, pc>> \/ RecordReverse
    BY <1>1, <1>7, <2>1, ReversingSteps DEF Lists, SubmitCommit
  <2>3. CASE UNCHANGED <<newCommits, pc>>
    <3>1. i \in newCommits /\ InHand(i) /\ pc = "advance"
      BY <1>7, <2>3 DEF InHand, IsOldest
    <3>2. Recorded(CommitAt(i)) /\ i \in 1..Len(tracking) /\ FromDeveloper(i)
      BY <1>1, <3>1 DEF CoveredInv, TypeOK, PlaceInv
    <3> QED
      BY <1>2, <2>2, <3>2
  <2>4. CASE RecordReverse
    <3>1. PICK j \in newCommits : InHand(j) /\ commitSha' = [commitSha EXCEPT ![submitted] = CommitAt(j)]
      BY <2>4 DEF RecordReverse
    <3>2. UNCHANGED newCommits /\ pc = "record"
      BY <2>4 DEF RecordReverse
    <3>3. i = j
      BY <1>1, <1>7, <3>1, <3>2, OneInHand DEF InHand, IsOldest
    <3>4. submitted \in CL
      <4>1. submitted \in 1..Len(depot)
        BY <1>1, <3>2 DEF PlaceInv
      <4> QED
        BY <1>1, <4>1, BoundsAreNat DEF TypeOK, CL
    <3>5. commitSha'[submitted] = CommitAt(i)
      BY <1>1, <3>1, <3>3, <3>4 DEF TypeOK
    <3> QED
      BY <2>2, <3>4, <3>5 DEF CommitAt
  <2> QED
    BY <2>2, <2>3, <2>4
<1>8. ASSUME ~UpdateLastProcessed PROVE CoveredInv'
  <2>1. (\A i \in 1..Len(lastReverse) : FromDeveloper(i) => Recorded(CommitAt(i)))'
    BY <1>3, <1>5, <1>8
  <2>2. ASSUME Reversing'
        PROVE  (\A i \in 1..Len(tracking) : FromDeveloper(i) => i \in newCommits \/ Recorded(CommitAt(i)))'
    <3>1. UNCHANGED tracking
      BY <1>1, <2>2, ReversingSteps
    <3> QED
      BY <1>6, <1>8, <2>2, <3>1 DEF FromDeveloper, Recorded, CommitAt
  <2>3. (pc = "advance" => \A i \in newCommits : InHand(i) => Recorded(CommitAt(i)))'
    BY <1>7, <1>8 DEF Recorded, CommitAt
  <2> QED
    BY <2>1, <2>2, <2>3 DEF CoveredInv
<1> QED
  BY <1>4, <1>8

\* A row for a commit of the remote whose last change is a developer's belongs to
\* the changelist that was submitted for it.
LEMMA RecordedIsMarker ==
    ASSUME ReverseInv, NEW c \in Commit, NEW i \in 1..Len(c), c[i][1] = "dev",
           Recorded(SubSeq(c, 1, i))
    PROVE  \E n \in Markers : depot[n].git = c[i][2] /\ commitSha[n] = SubSeq(c, 1, i)
<1>1. PICK n \in CL : commitSha[n] = SubSeq(c, 1, i)
  BY DEF Recorded
<1>2. /\ commitSha[n] # NoCommit
      /\ commitSha[n][Len(commitSha[n])] = c[i]
  BY <1>1, BelowFacts
<1>3. n \in 1..Len(depot) /\ Origin(<<"p4", n>>) = c[i]
  BY <1>2 DEF ReverseInv, IInv, RowsJoinSameChange
<1>4. ~FromUser(n) /\ c[i] = <<"dev", depot[n].git>>
  BY <1>3 DEF Origin
<1> QED
  BY <1>1, <1>3, <1>4 DEF Markers

\* When the service is installed there is nothing behind the checkpoint.
LEMMA CoveredInit == Init => CoveredInv
<1> SUFFICES ASSUME Init PROVE CoveredInv
    OBVIOUS
<1>1. Len(lastReverse) = 0 /\ pc = "down"
  BY DEF Init, NoCommit
<1> QED
  BY <1>1 DEF CoveredInv, Reversing

\* A changelist on top of commits that have their rows.
LEMMA UnderBuilt ==
    ASSUME NEW c \in Commit, NEW e \in Change, e[1] # "dev", RowsUnder(c)'
    PROVE  RowsUnder(Append(c, e))'
<1> DEFINE d == Append(c, e)
<1>1. /\ d \in Commit /\ Len(c) \in Nat /\ Len(d) = Len(c) + 1
      /\ \A i \in 1..Len(c) : d[i] = c[i]
      /\ d[Len(c) + 1] = e
  BY AppendProperties DEF Commit
<1> HIDE DEF d
<1>2. IsPrefix(c, d)
  BY <1>1, PrefixFacts
<1>3. ASSUME NEW i \in 1..Len(d), d[i][1] = "dev" PROVE Recorded(SubSeq(d, 1, i))'
  <2>1. i \in 1..Len(c) /\ c[i][1] = "dev"
    BY <1>1, <1>3
  <2>2. SubSeq(d, 1, i) = SubSeq(c, 1, i)
    BY <1>1, <1>2, <2>1, SameBelow
  <2> QED
    BY <2>1, <2>2 DEF RowsUnder, Recorded
<1> QED
  BY <1>3 DEF RowsUnder, Recorded, d

\* Every step keeps new commits on top: what the service puts a changelist on, and
\* what gets a row, stands on commits that have theirs.
LEMMA NewOnTopNext ==
    ASSUME ReverseInv, ReverseInv', CoveredInv, NewOnTopInv, [Next]_vars
    PROVE  NewOnTopInv'
<1> USE DEF devRefVars, devVars, remoteVars, trackingVars, localVars, forwardVars, reverseVars
<1>1. /\ IInv /\ IInv' /\ InHandInv /\ TypeOK /\ TypeOK' /\ PlaceInv
      /\ origin \in Commit /\ main \in Commit /\ tracking \in Commit /\ origin' \in Commit
      /\ commitSha \in [CL -> Commit] /\ commitSha' \in [CL -> Commit]
  BY DEF ReverseInv, IInv, TypeOK
<1>2. ASSUME NEW c \in Commit, NEW i \in 1..Len(c), c[i][1] = "dev", Recorded(SubSeq(c, 1, i))
      PROVE  Recorded(SubSeq(c, 1, i))'
  <2>1. /\ SubSeq(c, 1, i) \in Commit /\ SubSeq(c, 1, i) # NoCommit
        /\ SubSeq(c, 1, i)[Len(SubSeq(c, 1, i))] = c[i]
    BY BelowFacts
  <2>2. ASSUME NEW d \in Commit, d = SubSeq(c, 1, i) PROVE Recorded(d)'
    BY <1>1, <1>2, <2>1, <2>2, RecordedStep
  <2> QED
    BY <2>1, <2>2
<1>3. ASSUME NEW c \in Commit, RowsUnder(c) PROVE RowsUnder(c)'
  BY <1>2, <1>3 DEF RowsUnder, Recorded
<1>4. ASSUME NEW c \in Commit, c = main \/ \E n \in CL : c = commitSha[n] PROVE RowsUnder(c)'
  BY <1>3, <1>4 DEF NewOnTopInv
<1>5. ASSUME UNCHANGED origin
      PROVE  \A i, j \in 1..Len(origin') :
                 i < j /\ origin'[i][1] = "dev" /\ origin'[j][1] = "p4"
                 => \E n \in CL : commitSha'[n] = SubSeq(origin', 1, i)
  <2> SUFFICES ASSUME NEW i \in 1..Len(origin), NEW j \in 1..Len(origin),
                      i < j, origin[i][1] = "dev", origin[j][1] = "p4"
               PROVE  \E n \in CL : commitSha'[n] = SubSeq(origin, 1, i)
      BY <1>5
  <2>1. Recorded(SubSeq(origin, 1, i))
    BY DEF NewOnTopInv
  <2>2. ASSUME NEW c \in Commit, c = origin PROVE \E n \in CL : commitSha'[n] = SubSeq(c, 1, i)
    BY <1>2, <2>1, <2>2 DEF Recorded
  <2> QED
    BY <1>1, <2>2
<1>6. CASE \E f \in PushedFiles : Push(f)
  <2>1. PICK f \in PushedFiles : Push(f)
    BY <1>6
  <2>2. /\ <<"dev", Len(pushed) + 1>> \in Change
        /\ origin' = Append(origin, <<"dev", Len(pushed) + 1>>)
    BY <1>1, <2>1, PushType
  <2>3. /\ Len(origin) \in Nat /\ Len(origin') = Len(origin) + 1
        /\ \A i \in 1..Len(origin) : origin'[i] = origin[i]
        /\ origin'[Len(origin) + 1][1] = "dev"
    BY <1>1, <2>2, AppendProperties DEF Commit
  <2>4. UNCHANGED <<main, commitSha>>
    BY <2>1 DEF Push
  <2>5. ASSUME NEW i \in 1..Len(origin'), NEW j \in 1..Len(origin'),
               i < j, origin'[i][1] = "dev", origin'[j][1] = "p4"
        PROVE  \E n \in CL : commitSha'[n] = SubSeq(origin', 1, i)
    <3>1. i \in 1..Len(origin) /\ j \in 1..Len(origin)
      BY <2>3, <2>5
    <3>2. Recorded(SubSeq(origin, 1, i))
      BY <2>3, <2>5, <3>1 DEF NewOnTopInv
    <3>3. SubSeq(origin', 1, i) = SubSeq(origin, 1, i)
      <4>1. IsPrefix(origin, origin')
        BY <1>1, <2>3, PrefixFacts
      <4> QED
        BY <1>1, <3>1, <4>1, SameBelow
    <3> QED
      BY <2>4, <3>2, <3>3 DEF Recorded
  <2> QED
    BY <2>4, <2>5 DEF NewOnTopInv, RowsUnder, Recorded
<1>7. CASE BuildCommit
  <2>1. /\ lastCl < last
        /\ Built = Append(ParentSha, <<"p4", Current>>)
        /\ main' = Built \/ main' = main
        /\ commitSha' = [commitSha EXCEPT ![Current] = Built]
        /\ UNCHANGED origin
    BY <1>7 DEF BuildCommit, MoveBranch, Built
  <2>2. Current \in CL
    BY <1>1, <2>1, CurrentInBounds
  <2>3. <<"p4", Current>> \in Change /\ ParentSha \in Commit
    BY <1>1, <2>2, ParentShaType DEF Change
  <2>4. ASSUME NEW c \in Commit, c = ParentSha PROVE RowsUnder(c)'
    <3>1. CASE c = NoCommit
      BY <3>1 DEF RowsUnder, NoCommit
    <3>2. CASE c = commitSha[lastCl] /\ lastCl \in CL
      BY <1>4, <3>2
    <3> QED
      BY <1>1, <2>4, <3>1, <3>2, BoundsAreNat DEF ParentSha, TypeOK, CL
  <2>5. ASSUME NEW d, d = Built PROVE RowsUnder(d)'
    <3>1. ASSUME NEW c \in Commit, NEW e \in Change, c = ParentSha, e = <<"p4", Current>>
          PROVE  RowsUnder(Append(c, e))'
      BY <2>4, <3>1, UnderBuilt
    <3> QED
      BY <2>1, <2>3, <2>5, <3>1
  <2>6. ASSUME NEW d, d = main' PROVE RowsUnder(d)'
    BY <1>1, <1>4, <2>1, <2>5, <2>6
  <2>7. ASSUME NEW n \in CL, NEW d, d = commitSha'[n] PROVE RowsUnder(d)'
    <3>1. CASE n = Current
      BY <1>1, <2>1, <2>5, <2>7, <3>1
    <3>2. CASE n # Current
      BY <1>1, <1>4, <2>1, <2>7, <3>2
    <3> QED
      BY <3>1, <3>2
  <2> QED
    BY <1>5, <2>1, <2>6, <2>7 DEF NewOnTopInv, RowsUnder, Recorded
<1>8. CASE RecordReverse
  <2>1. PICK i \in newCommits : InHand(i) /\ commitSha' = [commitSha EXCEPT ![submitted] = CommitAt(i)]
    BY <1>8 DEF RecordReverse
  <2>2. pc = "record" /\ i \in 1..Len(tracking) /\ UNCHANGED <<origin, main>>
    BY <1>1, <1>8 DEF RecordReverse, TypeOK
  <2>3. ASSUME NEW d, d = CommitAt(i) PROVE RowsUnder(d)'
    <3>1. /\ d \in Commit /\ Len(d) = i /\ \A j \in 1..i : d[j] = tracking[j]
          /\ IsPrefix(d, tracking)
      BY <1>1, <2>2, <2>3, BelowFacts DEF CommitAt
    <3>2. ASSUME NEW j \in 1..Len(d), d[j][1] = "dev", j # i PROVE Recorded(SubSeq(d, 1, j))
      <4>1. j \in 1..Len(tracking) /\ FromDeveloper(j) /\ SubSeq(d, 1, j) = CommitAt(j)
        BY <1>1, <3>1, <3>2, SameBelow DEF FromDeveloper, CommitAt
      <4>2. j \notin newCommits
        BY <2>1, <2>2, <3>1, <3>2 DEF InHand, IsOldest
      <4> QED
        BY <2>2, <4>1, <4>2 DEF CoveredInv, Reversing
    <3>3. ASSUME NEW j \in 1..Len(d), d[j][1] = "dev" PROVE Recorded(SubSeq(d, 1, j))'
      <4>1. CASE j # i
        BY <1>2, <3>1, <3>2, <3>3, <4>1
      <4>2. CASE j = i
        <5>1. SubSeq(d, 1, i) = d
          <6>1. SubSeq(d, 1, i) \in Commit /\ Len(SubSeq(d, 1, i)) = i
                /\ \A k \in 1..i : SubSeq(d, 1, i)[k] = d[k]
            BY <3>1, <3>3, <4>2, BelowFacts
          <6> QED
            BY <3>1, <6>1 DEF Commit
        <5>2. submitted \in CL
          BY <1>1, <2>2, LenFacts, BoundsAreNat DEF PlaceInv, TypeOK, CL
        <5>3. commitSha'[submitted] = d
          BY <1>1, <2>1, <2>3, <5>2
        <5> QED
          BY <4>2, <5>1, <5>2, <5>3 DEF Recorded
      <4> QED
        BY <4>1, <4>2
    <3> QED
      BY <3>3 DEF RowsUnder, Recorded
  <2>4. ASSUME NEW n \in CL, NEW d, d = commitSha'[n] PROVE RowsUnder(d)'
    <3>1. CASE d = CommitAt(i)
      BY <2>3, <3>1
    <3>2. CASE d = commitSha[n]
      BY <1>1, <1>4, <3>2
    <3> QED
      BY <1>1, <2>1, <2>4, <3>1, <3>2
  <2>5. ASSUME NEW d, d = main' PROVE RowsUnder(d)'
    BY <1>1, <1>4, <2>2, <2>5
  <2> QED
    BY <1>5, <2>2, <2>4, <2>5 DEF NewOnTopInv, RowsUnder, Recorded
<1>9. CASE origin' \in {origin, main} /\ UNCHANGED <<main, commitSha>>
  <2>1. CASE origin' = origin
    BY <1>5, <1>9, <2>1 DEF NewOnTopInv, RowsUnder, Recorded
  <2>2. CASE origin' = main
    BY <1>9, <2>2 DEF NewOnTopInv, RowsUnder, Recorded
  <2> QED
    BY <1>9, <2>1, <2>2
<1> QED
  BY <1>1, <1>6, <1>7, <1>8, <1>9, BranchesMove

LEMMA NewOnTopInit == Init => NewOnTopInv
<1> SUFFICES ASSUME Init PROVE NewOnTopInv
    OBVIOUS
<1>1. \A i \in 1..Len(origin) : origin[i][1] # "dev"
  <2>1. CASE Imported
    BY <2>1 DEF Init
  <2>2. CASE ~Imported
    BY <2>2 DEF Init, NoCommit
  <2> QED
    BY <2>1, <2>2
<1>2. main = origin /\ \A n \in CL : commitSha[n] = origin \/ commitSha[n] = NoCommit
  BY DEF Init
<1>3. RowsUnder(NoCommit) /\ RowsUnder(origin)
  BY <1>1 DEF RowsUnder, NoCommit
<1> QED
  BY <1>1, <1>2, <1>3 DEF NewOnTopInv

\* New commits are on top of the branch and each is another one of the developers'.
LEMMA NewOnTopFits ==
    ASSUME ReverseInv, NewOnTopInv, MaxDev <= LogLimit
    PROVE  BacklogFits
<1> SUFFICES ASSUME NEW i \in 1..Len(tracking), IsNew(i) PROVE i > Len(tracking) - LogLimit
    BY DEF BacklogFits
<1>1. /\ tracking \in Commit /\ origin \in Commit /\ IsPrefix(tracking, origin)
      /\ WellFormed(tracking) /\ Len(tracking) \in Nat
  BY DEF ReverseInv, IInv, TypeOK, BranchInv, FetchedInv, Commit
<1>2. ASSUME NEW j \in i..Len(tracking)
      PROVE  j \in 1..Len(tracking) /\ tracking[j][2] \in Dev /\ tracking[j] = <<"dev", tracking[j][2]>>
  <2>1. j \in 1..Len(tracking) /\ tracking[j] \in Change
    BY <1>1, <1>2 DEF Commit
  <2>2. /\ i \in 1..Len(origin) /\ origin[i] = tracking[i]
        /\ SubSeq(origin, 1, i) = CommitAt(i)
        /\ j \in 1..Len(origin) /\ origin[j] = tracking[j]
    BY <1>1, <2>1, SameBelow DEF CommitAt
  <2>3. tracking[i][1] = "dev" /\ ~Recorded(SubSeq(origin, 1, i))
    BY <2>2 DEF IsNew, FromDeveloper
  <2>4. tracking[j][1] # "p4"
    BY <1>2, <2>2, <2>3 DEF NewOnTopInv
  <2> QED
    BY <2>1, <2>4 DEF Change
<1> DEFINE S == i..Len(tracking)
           who == [j \in S |-> tracking[j][2]]
<1>3. \A j, k \in S : tracking[j] = tracking[k] => j = k
  BY <1>1, <1>2 DEF WellFormed
<1>4. who \in Injection(S, Dev)
  <2>1. who \in [S -> Dev]
    BY <1>2
  <2>2. \A j, k \in S : who[j] = who[k] => j = k
    BY <1>2, <1>3
  <2> QED
    BY <2>1, <2>2, Fun_IsInj
<1>5. IsFiniteSet(Dev) /\ Cardinality(Dev) = MaxDev
  BY BoundsAreNat, FS_Interval DEF Dev
<1>6. Cardinality(S) = Len(tracking) - i + 1
  BY <1>1, FS_Interval
<1> HIDE DEF who, S
<1>7. Cardinality(S) <= MaxDev
  BY <1>4, <1>5, FS_Injection
<1> QED
  BY <1>1, <1>6, <1>7, BoundsAreNat, BidirectionalSyncAssumption

\* The log query lists every new commit behind the checkpoint, however long the history
\* is, as long as developers push no more commits than it lists.
THEOREM NewCommitsFit == ASSUME MaxDev <= LogLimit PROVE Spec => []BacklogFits
<1>1. Init => CoveredInv /\ NewOnTopInv
  BY CoveredInit, NewOnTopInit
<1>2. ReverseInv /\ NewOnTopInv => BacklogFits
  BY NewOnTopFits
<1>3. ReverseInv /\ ReverseInv' /\ CoveredInv /\ NewOnTopInv /\ [Next]_vars
      => CoveredInv' /\ NewOnTopInv'
  BY <1>2, CoveredNext, NewOnTopNext
<1> QED
  BY <1>1, <1>2, <1>3, ReverseInductive, PTL DEF Spec

\* The reverse checkpoint never runs ahead: every developer's commit up to it is
\* in P4 and has its row, if the log query never cuts off what is behind it.
THEOREM CheckpointIsBacked == Spec /\ []BacklogFits => []ReverseCheckpointBacked
<1>1. ReverseInv /\ CoveredInv => ReverseCheckpointBacked
  <2> SUFFICES ASSUME ReverseInv, CoveredInv PROVE ReverseCheckpointBacked
      OBVIOUS
  <2>1. /\ lastReverse \in Commit /\ tracking \in Commit /\ origin \in Commit
        /\ IsPrefix(lastReverse, tracking) /\ IsPrefix(tracking, origin)
    BY DEF ReverseInv, IInv, TypeOK, FetchedInv
  <2>2. IsPrefix(lastReverse, origin)
    BY <2>1, PrefixTransitive
  <2>3. ASSUME NEW i \in 1..Len(lastReverse), lastReverse[i][1] = "dev"
        PROVE  \E n \in Markers : /\ depot[n].git = lastReverse[i][2]
                                  /\ commitSha[n] = SubSeq(lastReverse, 1, i)
    <3>1. lastReverse[i] = tracking[i] /\ SubSeq(lastReverse, 1, i) = SubSeq(tracking, 1, i)
      BY <2>1, SameBelow
    <3>2. Recorded(SubSeq(lastReverse, 1, i))
      BY <2>3, <3>1 DEF CoveredInv, FromDeveloper, CommitAt
    <3> QED
      BY <2>1, <2>3, <3>2, RecordedIsMarker
  <2> QED
    BY <2>2, <2>3 DEF ReverseCheckpointBacked
<1>2. ReverseInv /\ ReverseInv' /\ CoveredInv /\ BacklogFits /\ [Next]_vars => CoveredInv'
  BY CoveredNext
<1> QED
  BY <1>1, <1>2, CoveredInit, ReverseInductive, PTL DEF Spec

-----------------------------------------------------------------------------
(* The order of developers' commits, on branches and in P4.                 *)

\* A beginning of an ordered commit is ordered.
LEMMA OrderedPrefix ==
    ASSUME NEW c \in Commit, NEW d \in Commit, IsPrefix(c, d), Ordered(d)
    PROVE  Ordered(c)
<1>1. /\ Len(c) \in Nat /\ Len(d) \in Nat /\ Len(c) <= Len(d)
      /\ \A i \in 1..Len(c) : c[i] = d[i]
  BY PrefixFacts DEF Commit
<1> SUFFICES ASSUME NEW i \in 1..Len(c), c[i][1] = "dev", NEW k \in 1..(c[i][2] - 1)
             PROVE  \E j \in 1..(i - 1) : c[j] = <<"dev", k>>
    BY DEF Ordered
<1>2. i \in 1..Len(d) /\ d[i] = c[i]
  BY <1>1
<1>3. PICK j \in 1..(i - 1) : d[j] = <<"dev", k>>
  BY <1>2 DEF Ordered
<1>4. j \in 1..Len(c)
  BY <1>1, <1>3
<1> QED
  BY <1>1, <1>3, <1>4

\* A change on top keeps the order if the commits before it are there.
LEMMA OrderedAppend ==
    ASSUME NEW c \in Commit, Ordered(c), NEW e \in Change,
           e[1] = "dev" => \A k \in 1..(e[2] - 1) : \E j \in 1..Len(c) : c[j] = <<"dev", k>>
    PROVE  Ordered(Append(c, e))
<1> DEFINE d == Append(c, e)
<1>1. /\ Len(c) \in Nat /\ Len(d) = Len(c) + 1
      /\ \A i \in 1..Len(c) : d[i] = c[i]
      /\ d[Len(c) + 1] = e
  BY AppendProperties DEF Commit
<1> HIDE DEF d
<1>2. ASSUME NEW i \in 1..Len(d), d[i][1] = "dev", NEW k \in 1..(d[i][2] - 1)
      PROVE  \E j \in 1..(i - 1) : d[j] = <<"dev", k>>
  <2>1. CASE i \in 1..Len(c)
    <3>1. PICK j \in 1..(i - 1) : c[j] = <<"dev", k>>
      BY <1>1, <1>2, <2>1 DEF Ordered
    <3>2. j \in 1..Len(c)
      BY <1>1, <2>1, <3>1
    <3> QED
      BY <1>1, <3>1, <3>2
  <2>2. CASE i = Len(c) + 1
    <3>1. PICK j \in 1..Len(c) : c[j] = <<"dev", k>>
      BY <1>1, <1>2, <2>2
    <3>2. j \in 1..(i - 1)
      BY <1>1, <2>2
    <3> QED
      BY <1>1, <3>1, <3>2
  <2> QED
    BY <1>1, <1>2, <2>1, <2>2
<1> QED
  BY <1>2 DEF Ordered, d

\* Every step keeps the order on the branches: developers push on top of all that
\* was pushed before.
LEMMA OrderNext ==
    ASSUME IInv, IInv', OrderInv, Ordered(tracking), [Next]_vars
    PROVE  OrderInv'
<1> USE DEF devRefVars, devVars, remoteVars, trackingVars, localVars, forwardVars, reverseVars
<1>1. /\ TypeOK /\ TypeOK' /\ PlaceInv /\ BranchInv
      /\ origin \in Commit /\ main \in Commit /\ tracking \in Commit /\ origin' \in Commit
      /\ commitSha \in [CL -> Commit] /\ commitSha' \in [CL -> Commit]
      /\ Len(pushed) \in Nat
  BY DEF IInv, TypeOK
<1>n. Len(origin) \in Nat /\ Len(origin') \in Nat
  BY <1>1 DEF Commit
<1>2. IsPrefix(origin, origin')
  BY <1>1, RemoteGrows
<1>3. ASSUME NEW k \in 1..Len(pushed) PROVE \E i \in 1..Len(origin') : origin'[i] = <<"dev", k>>
  <2>1. PICK i \in 1..Len(origin) : origin[i] = <<"dev", k>>
    BY DEF OrderInv
  <2>2. i \in 1..Len(origin') /\ origin'[i] = origin[i]
    BY <1>1, <1>2, SameBelow
  <2> QED
    BY <2>1, <2>2
<1>4. CASE \E f \in PushedFiles : Push(f)
  <2>1. PICK f \in PushedFiles : Push(f)
    BY <1>4
  <2>2. /\ <<"dev", Len(pushed) + 1>> \in Change
        /\ origin' = Append(origin, <<"dev", Len(pushed) + 1>>)
        /\ Len(pushed') = Len(pushed) + 1
    BY <1>1, <2>1, PushType
  <2>3. \A k \in 1..Len(pushed) : \E i \in 1..Len(origin) : origin[i] = <<"dev", k>>
    BY DEF OrderInv
  <2>4. ASSUME NEW e \in Change, e = <<"dev", Len(pushed) + 1>> PROVE Ordered(Append(origin, e))
    <3>1. e[2] - 1 = Len(pushed)
      BY <1>1, <2>4
    <3> QED
      BY <1>1, <2>3, <3>1, OrderedAppend DEF OrderInv
  <2>5. Ordered(origin')
    BY <2>2, <2>4
  <2>6. UNCHANGED <<main, commitSha>>
    BY <2>1 DEF Push
  <2>7. ASSUME NEW k \in 1..Len(pushed') PROVE \E i \in 1..Len(origin') : origin'[i] = <<"dev", k>>
    <3>1. CASE k \in 1..Len(pushed)
      BY <1>3, <3>1
    <3>2. CASE k = Len(pushed) + 1
      <4>1. Len(origin') = Len(origin) + 1 /\ origin'[Len(origin) + 1] = <<"dev", Len(pushed) + 1>>
        BY <1>1, <2>2, AppendProperties DEF Commit
      <4>2. Len(origin) + 1 \in 1..Len(origin')
        BY <1>n, <4>1
      <4> QED
        BY <3>2, <4>1, <4>2
    <3>3. k \in 1..Len(pushed) \/ k = Len(pushed) + 1
      BY <1>1, <2>2, <2>7
    <3> QED
      BY <3>1, <3>2, <3>3
  <2> QED
    BY <2>5, <2>6, <2>7 DEF OrderInv
<1>5. CASE BuildCommit
  <2>1. /\ lastCl < last
        /\ Built = Append(ParentSha, <<"p4", Current>>)
        /\ main' = Built \/ UNCHANGED main
        /\ commitSha' = [commitSha EXCEPT ![Current] = Built]
        /\ UNCHANGED <<origin, pushed>>
    BY <1>5 DEF BuildCommit, MoveBranch, Built, devVars, remoteVars
  <2>2. Current \in CL
    BY <1>1, <2>1, CurrentInBounds
  <2>3. <<"p4", Current>> \in Change /\ ParentSha \in Commit
    BY <1>1, <2>2, ParentShaType DEF Change
  <2>4. Ordered(ParentSha)
    <3>1. Ordered(NoCommit)
      BY DEF Ordered, NoCommit
    <3>2. lastCl \in {0} \cup CL
      BY <1>1 DEF TypeOK
    <3>3. lastCl \in Nat
      BY <3>2, BoundsAreNat DEF CL
    <3>4. lastCl > 0 => lastCl \in CL
      BY <3>2
    <3> QED
      BY <3>1, <3>4 DEF ParentSha, OrderInv
  <2>5. ASSUME NEW e \in Change, e = <<"p4", Current>> PROVE Ordered(Append(ParentSha, e))
    BY <2>3, <2>4, <2>5, OrderedAppend
  <2>6. Ordered(Built) /\ Ordered(main')
    BY <1>1, <2>1, <2>3, <2>5 DEF OrderInv
  <2>7. \A n \in CL : Ordered(commitSha'[n])
    BY <1>1, <2>1, <2>6 DEF OrderInv
  <2> QED
    BY <2>1, <2>6, <2>7 DEF OrderInv
<1>6. CASE RecordReverse
  <2>1. PICK i \in newCommits : commitSha' = [commitSha EXCEPT ![submitted] = CommitAt(i)]
    BY <1>6 DEF RecordReverse
  <2>2. i \in 1..Len(tracking) /\ UNCHANGED <<origin, main, pushed>>
    BY <1>1, <1>6 DEF RecordReverse, TypeOK
  <2>3. CommitAt(i) \in Commit /\ IsPrefix(CommitAt(i), tracking)
    BY <1>1, <2>2, BelowFacts DEF CommitAt
  <2>4. Ordered(CommitAt(i))
    BY <1>1, <2>3, OrderedPrefix
  <2>5. \A n \in CL : Ordered(commitSha'[n])
    BY <1>1, <2>1, <2>4 DEF OrderInv
  <2> QED
    BY <2>2, <2>5 DEF OrderInv
<1>7. ASSUME origin' \in {origin, main}, UNCHANGED <<main, commitSha, pushed>> PROVE OrderInv'
  BY <1>3, <1>7 DEF OrderInv
<1>8. ASSUME ~\E f \in PushedFiles : Push(f) PROVE UNCHANGED pushed
  <2>1. ASSUME NEW f \in Files, Submit(f) PROVE UNCHANGED pushed
    BY <2>1 DEF Submit
  <2>2. CASE Turns \/ Fetches \/ Publishes \/ Lists
    BY <2>2 DEF Turns, Fetches, Publishes, Lists
  <2>3. CASE BuildCommit \/ SubmitCommit \/ SubmitAnswerLost \/ RecordReverse \/ UpdateLastProcessed
    BY <2>3 DEF BuildCommit, SubmitCommit, SubmitAnswerLost, RecordReverse, UpdateLastProcessed
  <2> QED
    BY <1>1, <1>8, <2>1, <2>2, <2>3, StepKinds DEF Kinds
<1> QED
  BY <1>4, <1>5, <1>6, <1>7, <1>8, BranchesMove

\* P4 gets a changelist of a user, or the commit in hand.
LEMMA DepotStep ==
    ASSUME TypeOK, PlaceInv, WellFormed(tracking), [Next]_vars
    PROVE  \/ UNCHANGED depot
           \/ /\ Len(depot') = Len(depot) + 1
              /\ \A n \in 1..Len(depot) : depot'[n] = depot[n]
              /\ \/ depot'[Len(depot) + 1].git = 0
                 \/ /\ SubmitTakesEffect
                    /\ \E i \in newCommits : /\ InHand(i)
                                             /\ depot'[Len(depot) + 1].git = tracking[i][2]
<1> USE DEF devRefVars, devVars, remoteVars, trackingVars, localVars, forwardVars, reverseVars
<1>1. ASSUME NEW f \in Files, Submit(f)
      PROVE  /\ Len(depot') = Len(depot) + 1
             /\ \A n \in 1..Len(depot) : depot'[n] = depot[n]
             /\ depot'[Len(depot) + 1].git = 0
  <2>1. depot \in Seq([file : Files, git : 0..MaxDev]) /\ depot' = Append(depot, [file |-> f, git |-> 0])
    BY <1>1 DEF TypeOK, Submit
  <2>2. [file |-> f, git |-> 0] \in [file : Files, git : 0..MaxDev]
    BY BoundsAreNat
  <2>3. depot'[Len(depot) + 1] = [file |-> f, git |-> 0]
    BY <2>1, <2>2, AppendProperties
  <2> QED
    BY <1>1, <2>3, UserSubmitType
<1>2. ASSUME SubmitTakesEffect
      PROVE  /\ Len(depot') = Len(depot) + 1
             /\ \A n \in 1..Len(depot) : depot'[n] = depot[n]
             /\ \E i \in newCommits : InHand(i) /\ depot'[Len(depot) + 1].git = tracking[i][2]
  <2>1. \E i \in newCommits : InHand(i)
    BY <1>2 DEF SubmitTakesEffect
  <2> QED
    BY <1>2, <2>1, SubmitType
<1>3. ASSUME NEW f \in PushedFiles, Push(f) PROVE UNCHANGED depot
  BY <1>3 DEF Push
<1>4. CASE Turns \/ Fetches \/ Publishes \/ Lists
  BY <1>4 DEF Turns, Fetches, Publishes, Lists
<1>5. CASE BuildCommit \/ RecordReverse \/ UpdateLastProcessed
  BY <1>5 DEF BuildCommit, RecordReverse, UpdateLastProcessed
<1>6. CASE SubmitCommit \/ SubmitAnswerLost
  BY <1>2, <1>6 DEF SubmitCommit, SubmitAnswerLost
<1> QED
  BY <1>1, <1>2, <1>3, <1>4, <1>5, <1>6, StepKinds DEF Kinds

\* Before the commit in hand all commits of developers have been submitted.
LEMMA EarlierSubmitted ==
    ASSUME MirrorInv, SubmitTakesEffect, NEW i \in newCommits, InHand(i),
           NEW k \in 1..(tracking[i][2] - 1)
    PROVE  \E j \in 1..Len(tracking) :
               /\ tracking[j] = <<"dev", k>>
               /\ Recorded(CommitAt(j))
               /\ \E n \in Markers : depot[n].git = k
<1>1. /\ TypeOK /\ PlaceInv /\ ReverseInv /\ tracking \in Commit /\ origin \in Commit
      /\ IsPrefix(tracking, origin) /\ Ordered(origin) /\ newCommits \subseteq 1..Len(tracking)
      /\ Len(tracking) \in Nat
  <2>1. TypeOK /\ PlaceInv /\ ReverseInv /\ FetchedInv /\ OrderInv
    BY DEF MirrorInv, ReverseInv, IInv
  <2>2. tracking \in Commit /\ origin \in Commit /\ newCommits \subseteq 1..Len(tracking)
    BY <2>1 DEF TypeOK
  <2>3. Len(tracking) \in Nat
    BY <2>2 DEF Commit
  <2>4. IsPrefix(tracking, origin) /\ Ordered(origin)
    BY <2>1 DEF FetchedInv, OrderInv
  <2> QED
    BY <2>1, <2>2, <2>3, <2>4
<1>2. Ordered(tracking)
  BY <1>1, OrderedPrefix
<1>3. i \in 1..Len(tracking) /\ tracking[i][1] = "dev"
  BY <1>1, InHandCommit DEF FromDeveloper
<1>4. PICK j \in 1..(i - 1) : tracking[j] = <<"dev", k>>
  BY <1>2, <1>3 DEF Ordered
<1>5. j \in 1..Len(tracking) /\ j \notin newCommits
  BY <1>1, <1>3, <1>4 DEF InHand, IsOldest
<1>6. Recorded(CommitAt(j))
  BY <1>4, <1>5 DEF MirrorInv, CoveredInv, Reversing, SubmitTakesEffect, FromDeveloper
<1>7. \E n \in Markers : depot[n].git = k
  BY <1>1, <1>4, <1>5, <1>6, RecordedIsMarker DEF CommitAt
<1> QED
  BY <1>4, <1>5, <1>6, <1>7

\* The changes in P4, as a sequence.
LEMMA ChangesFacts ==
    ASSUME NEW d \in Seq([file : Files, git : 0..MaxDev]), Len(d) <= MaxCL,
           NEW c, c = [n \in 1..Len(d) |-> IF d[n].git = 0 THEN <<"p4", n>> ELSE <<"dev", d[n].git>>]
    PROVE  /\ c \in Commit /\ Len(c) = Len(d)
           /\ \A n \in 1..Len(d) : /\ d[n].git = 0 => c[n] = <<"p4", n>>
                                   /\ d[n].git # 0 => c[n] = <<"dev", d[n].git>>
<1>1. ASSUME NEW n \in 1..Len(d)
      PROVE  (IF d[n].git = 0 THEN <<"p4", n>> ELSE <<"dev", d[n].git>>) \in Change
  <2>1. n \in CL
    BY BoundsAreNat DEF CL
  <2>2. d[n] \in [file : Files, git : 0..MaxDev]
    BY ElementOfSeq
  <2>3. d[n].git # 0 => d[n].git \in Dev
    BY <2>2, BoundsAreNat DEF Dev
  <2> QED
    BY <2>1, <2>3 DEF Change
<1>2. c \in [1..Len(d) -> Change]
  BY <1>1
<1>3. c \in Seq(Change) /\ Len(c) = Len(d)
  <2>1. Len(d) \in Nat
    OBVIOUS
  <2> QED
    BY <1>2, <2>1, SeqDef, LenProperties
<1> QED
  BY <1>3 DEF Commit

\* That is what Changes is.
LEMMA ChangesIs ==
    Changes = [n \in 1..Len(depot) |->
                   IF depot[n].git = 0 THEN <<"p4", n>> ELSE <<"dev", depot[n].git>>]
BY DEF Changes, Origin, FromUser

\* The markers after a step.
LEMMA MarkersStep ==
    ASSUME IInv, IInv', [Next]_vars, NEW n \in Markers'
    PROVE  \/ n \in Markers /\ depot'[n] = depot[n]
           \/ /\ SubmitTakesEffect
              /\ \E i \in newCommits : InHand(i) /\ depot'[n].git = tracking[i][2]
<1>1. TypeOK /\ PlaceInv /\ WellFormed(tracking) /\ Len(depot) \in Nat
  BY DEF IInv, BranchInv, TypeOK
<1>2. n \in 1..Len(depot') /\ depot'[n].git # 0
  BY DEF Markers, FromUser
<1>3. CASE UNCHANGED depot
  BY <1>2, <1>3 DEF Markers, FromUser
<1>4. CASE /\ Len(depot') = Len(depot) + 1
           /\ \A m \in 1..Len(depot) : depot'[m] = depot[m]
           /\ \/ depot'[Len(depot) + 1].git = 0
              \/ /\ SubmitTakesEffect
                 /\ \E i \in newCommits : /\ InHand(i)
                                          /\ depot'[Len(depot) + 1].git = tracking[i][2]
  <2>1. n \in 1..Len(depot) \/ n = Len(depot) + 1
    BY <1>1, <1>2, <1>4
  <2>2. CASE n \in 1..Len(depot)
    BY <1>2, <1>4, <2>2 DEF Markers, FromUser
  <2>3. CASE n = Len(depot) + 1
    BY <1>2, <1>4, <2>3
  <2> QED
    BY <2>1, <2>2, <2>3
<1> QED
  BY <1>1, <1>3, <1>4, DepotStep

\* Commits get to P4 in the order of the pushes.
LEMMA ChangesOrderedNext ==
    ASSUME MirrorInv, IInv', [Next]_vars
    PROVE  Ordered(Changes)'
<1>1. /\ TypeOK /\ TypeOK' /\ PlaceInv /\ WellFormed(tracking) /\ Ordered(Changes)
      /\ Len(depot) \in Nat /\ Len(depot') \in Nat
  BY DEF MirrorInv, ReverseInv, IInv, BranchInv, TypeOK, DepotInv
<1>2. /\ Changes \in Commit /\ Len(Changes) = Len(depot)
      /\ \A n \in 1..Len(depot) :
             /\ depot[n].git = 0 => Changes[n] = <<"p4", n>>
             /\ depot[n].git # 0 => Changes[n] = <<"dev", depot[n].git>>
  <2>1. depot \in Seq([file : Files, git : 0..MaxDev]) /\ Len(depot) <= MaxCL
    BY <1>1 DEF TypeOK
  <2> QED
    BY <2>1, ChangesIs, ChangesFacts
<1>3. /\ Changes' \in Commit /\ Len(Changes') = Len(depot')
      /\ \A n \in 1..Len(depot') :
             /\ depot'[n].git = 0 => Changes'[n] = <<"p4", n>>
             /\ depot'[n].git # 0 => Changes'[n] = <<"dev", depot'[n].git>>
  <2>1. Changes' = [n \in 1..Len(depot') |->
                        IF depot'[n].git = 0 THEN <<"p4", n>> ELSE <<"dev", depot'[n].git>>]
    BY DEF Changes, Origin, FromUser
  <2>2. depot' \in Seq([file : Files, git : 0..MaxDev]) /\ Len(depot') <= MaxCL
    BY <1>1 DEF TypeOK
  <2> QED
    BY <2>1, <2>2, ChangesFacts
<1> SUFFICES ASSUME NEW n \in 1..Len(depot'), depot'[n].git # 0, NEW k \in 1..(depot'[n].git - 1)
             PROVE  \E m \in 1..(n - 1) : Changes'[m] = <<"dev", k>>
  <2>1. \A n \in 1..Len(Changes') : Changes'[n][1] = "dev"
            => depot'[n].git # 0 /\ Changes'[n][2] = depot'[n].git
    BY <1>3
  <2> QED
    BY <1>3, <2>1 DEF Ordered
<1>4. CASE n \in 1..Len(depot) /\ depot'[n] = depot[n]
  <2>1. Changes[n] = <<"dev", depot[n].git>>
    BY <1>2, <1>4
  <2>2. PICK m \in 1..(n - 1) : Changes[m] = <<"dev", k>>
    BY <1>1, <1>2, <1>4, <2>1 DEF Ordered
  <2>3. m \in 1..Len(depot) /\ m \in 1..Len(depot')
    BY <1>1, <1>4, <2>2
  <2>4. depot'[m] = depot[m]
    BY <1>1, <2>3, StepsGrow DEF Grows
  <2> QED
    BY <1>2, <1>3, <2>2, <2>3, <2>4
<1>5. CASE /\ SubmitTakesEffect
           /\ \E i \in newCommits : InHand(i) /\ depot'[n].git = tracking[i][2]
  <2>1. PICK i \in newCommits : InHand(i) /\ depot'[n].git = tracking[i][2]
    BY <1>5
  <2>2. PICK m \in Markers : depot[m].git = k
    BY <1>5, <2>1, EarlierSubmitted
  <2>3. m \in 1..Len(depot) /\ depot'[m] = depot[m] /\ k # 0 /\ m \in 1..Len(depot')
    BY <1>1, <2>2, StepsGrow DEF Markers, Grows
  <2>4. Changes'[m] = <<"dev", k>>
    BY <1>3, <2>2, <2>3
  <2>5. CASE n \in 1..Len(depot)
    <3>1. depot'[n] = depot[n]
      BY <1>1, <2>5, StepsGrow DEF Grows
    <3> QED
      BY <1>4, <2>5, <3>1
  <2>6. CASE n \notin 1..Len(depot)
    <3>1. m \in 1..(n - 1)
      BY <1>1, <2>3, <2>6
    <3> QED
      BY <2>4, <3>1
  <2> QED
    BY <2>5, <2>6
<1>6. n \in Markers'
  BY DEF Markers, FromUser
<1>7. \/ n \in Markers /\ depot'[n] = depot[n]
      \/ /\ SubmitTakesEffect
         /\ \E i \in newCommits : InHand(i) /\ depot'[n].git = tracking[i][2]
  BY <1>6, MarkersStep DEF MirrorInv, ReverseInv
<1> QED
  BY <1>4, <1>5, <1>7 DEF Markers

\* Only known commits are submitted.
LEMMA MarkersKnown ==
    ASSUME MirrorInv, ReverseInv', [Next]_vars, NEW n \in Markers'
    PROVE  depot'[n].git <= Len(pushed) /\ depot'[n].git \in Int
<1>1. /\ TypeOK /\ PlaceInv /\ IInv /\ IInv' /\ WellFormed(tracking) /\ Len(pushed) \in Nat
  BY DEF MirrorInv, ReverseInv, IInv, BranchInv, TypeOK
<1>2. \/ n \in Markers /\ depot'[n] = depot[n]
      \/ /\ SubmitTakesEffect
         /\ \E h \in newCommits : InHand(h) /\ depot'[n].git = tracking[h][2]
  BY <1>1, MarkersStep
<1>4. CASE n \in Markers /\ depot'[n] = depot[n]
  <2>1. depot[n] \in [file : Files, git : 0..MaxDev]
    <3>1. depot \in Seq([file : Files, git : 0..MaxDev]) /\ n \in 1..Len(depot)
      BY <1>1, <1>4 DEF TypeOK, Markers
    <3> QED
      BY <3>1, ElementOfSeq
  <2>2. depot[n].git \in Int
    BY <2>1, BoundsAreNat
  <2> QED
    BY <1>4, <2>2 DEF MirrorInv, DepotInv
<1>5. ASSUME NEW h \in newCommits, depot'[n].git = tracking[h][2]
      PROVE  depot'[n].git <= Len(pushed) /\ depot'[n].git \in Int
  <2>1. h \in 1..Len(tracking) /\ tracking[h][2] \in Dev /\ tracking[h][1] = "dev"
    BY <1>1, InHandType
  <2> QED
    BY <1>1, <1>5, <2>1, BoundsAreNat DEF WellFormed, Known, Dev
<1> QED
  BY <1>2, <1>4, <1>5

\* Whatever comes before a commit that was submitted has its row.
LEMMA AheadNext ==
    ASSUME MirrorInv, ReverseInv', OrderInv', [Next]_vars,
           NEW n \in Markers', NEW i \in 1..Len(origin'),
           origin'[i][1] = "dev", origin'[i][2] < depot'[n].git
    PROVE  /\ depot'[n].git <= Len(pushed)
           /\ \E m \in CL : commitSha'[m] = SubSeq(origin', 1, i)
<1>1. /\ TypeOK /\ TypeOK' /\ PlaceInv /\ BranchInv /\ ReverseInv /\ IInv /\ IInv' /\ InHandInv
      /\ origin \in Commit /\ origin' \in Commit /\ tracking \in Commit
      /\ Len(pushed) \in Nat /\ WellFormed(tracking)
  <2>1. TypeOK /\ TypeOK' /\ PlaceInv /\ BranchInv /\ ReverseInv /\ IInv /\ IInv' /\ InHandInv
    BY DEF MirrorInv, ReverseInv, IInv
  <2>2. origin \in Commit /\ origin' \in Commit /\ tracking \in Commit /\ Len(pushed) \in Nat
    BY <2>1 DEF TypeOK
  <2>3. WellFormed(tracking)
    BY <2>1 DEF BranchInv
  <2> QED
    BY <2>1, <2>2, <2>3
<1>2. IsPrefix(origin, origin') /\ IsPrefix(tracking, origin)
  BY <1>1, RemoteGrows DEF ReverseInv, FetchedInv
<1>3. \/ n \in Markers /\ depot'[n] = depot[n]
      \/ /\ SubmitTakesEffect
         /\ \E h \in newCommits : InHand(h) /\ depot'[n].git = tracking[h][2]
  BY <1>1, MarkersStep
<1>4. depot'[n].git <= Len(pushed) /\ depot'[n].git \in Int
  BY MarkersKnown
<1>5. origin'[i] = <<"dev", origin'[i][2]>> /\ origin'[i][2] \in 1..Len(pushed)
  <2>1. origin'[i] \in Change
    BY <1>1, ElementOfSeq DEF Commit
  <2>2. origin'[i] = <<"dev", origin'[i][2]>> /\ origin'[i][2] \in Dev
    BY <2>1 DEF Change
  <2> QED
    BY <1>1, <1>4, <2>2, BoundsAreNat DEF Dev
<1>6. PICK j \in 1..Len(origin) : origin[j] = origin'[i]
  BY <1>5 DEF MirrorInv, OrderInv
<1>7. j \in 1..Len(origin') /\ origin'[j] = origin[j] /\ SubSeq(origin', 1, j) = SubSeq(origin, 1, j)
  BY <1>1, <1>2, SameBelow
<1>8. i = j
  BY <1>1, <1>6, <1>7 DEF IInv, BranchInv, WellFormed
<1>9. Recorded(SubSeq(origin, 1, j))
  <2>1. CASE n \in Markers /\ depot'[n] = depot[n]
    BY <1>6, <1>7, <1>8, <2>1 DEF MirrorInv, DepotInv
  <2>2. CASE /\ SubmitTakesEffect
             /\ \E h \in newCommits : InHand(h) /\ depot'[n].git = tracking[h][2]
    <3>1. PICK h \in newCommits : InHand(h) /\ depot'[n].git = tracking[h][2]
      BY <2>2
    <3>2. origin'[i][2] \in 1..(tracking[h][2] - 1)
      BY <1>4, <1>5, <3>1
    <3>3. PICK g \in 1..Len(tracking) : /\ tracking[g] = <<"dev", origin'[i][2]>>
                                        /\ Recorded(CommitAt(g))
      BY <2>2, <3>1, <3>2, EarlierSubmitted
    <3>4. g \in 1..Len(origin) /\ origin[g] = tracking[g] /\ SubSeq(origin, 1, g) = CommitAt(g)
      BY <1>1, <1>2, SameBelow DEF CommitAt
    <3>5. g = j
      BY <1>1, <1>5, <1>6, <3>3, <3>4 DEF BranchInv, WellFormed
    <3> QED
      BY <3>3, <3>4, <3>5
  <2> QED
    BY <1>3, <2>1, <2>2
<1>10. ASSUME NEW c \in Commit, c = SubSeq(origin, 1, j) PROVE \E m \in CL : commitSha'[m] = c
  <2>1. Recorded(c) /\ c # NoCommit /\ c[Len(c)][1] = "dev"
    BY <1>1, <1>6, <1>9, <1>10, BelowFacts
  <2>2. Recorded(c)'
    BY <1>1, <2>1, RecordedStep
  <2> QED
    BY <2>2 DEF Recorded
<1>11. SubSeq(origin, 1, j) \in Commit
  BY <1>1, BelowFacts
<1> QED
  BY <1>4, <1>7, <1>8, <1>10, <1>11

\* None behind the commit in hand was submitted: it would have needed its row.
LEMMA NoneBehind ==
    ASSUME MirrorInv, NEW i \in newCommits, ~Recorded(CommitAt(i)), NEW n \in Markers
    PROVE  depot[n].git <= tracking[i][2]
<1>1. /\ TypeOK /\ PlaceInv /\ tracking \in Commit /\ origin \in Commit /\ IsPrefix(tracking, origin)
  BY DEF MirrorInv, ReverseInv, IInv, TypeOK, FetchedInv
<1>2. i \in 1..Len(tracking) /\ FromDeveloper(i)
  BY <1>1, InHandCommit
<1>3. i \in 1..Len(origin) /\ origin[i] = tracking[i] /\ SubSeq(origin, 1, i) = CommitAt(i)
  BY <1>1, <1>2, SameBelow DEF CommitAt
<1>4. ~(tracking[i][2] < depot[n].git)
  BY <1>2, <1>3 DEF MirrorInv, DepotInv, FromDeveloper
<1>5. tracking[i][2] \in Int /\ depot[n].git \in Int
  <2>1. tracking[i][2] \in Dev
    BY <1>1, <1>2, ChangeAt
  <2>2. depot \in Seq([file : Files, git : 0..MaxDev]) /\ n \in 1..Len(depot)
    BY <1>1 DEF TypeOK, Markers
  <2>3. depot[n] \in [file : Files, git : 0..MaxDev]
    BY <2>2, ElementOfSeq
  <2> QED
    BY <2>1, <2>3, BoundsAreNat DEF Dev
<1> QED
  BY <1>4, <1>5

\* Between submit and checkpoint, the commit in hand is the newest in P4.
LEMMA NewestNext ==
    ASSUME MirrorInv, ReverseInv', [Next]_vars
    PROVE  (pc \in {"record", "advance"} =>
               \A i \in newCommits : InHand(i) =>
                   /\ \E n \in Markers : depot[n].git = tracking[i][2]
                   /\ \A n \in Markers : depot[n].git <= tracking[i][2])'
<1> SUFFICES ASSUME pc' \in {"record", "advance"}, NEW i \in newCommits', InHand(i)'
             PROVE  /\ \E n \in Markers' : depot'[n].git = tracking'[i][2]
                    /\ \A n \in Markers' : depot'[n].git <= tracking'[i][2]
    OBVIOUS
<1>1. /\ TypeOK /\ TypeOK' /\ PlaceInv /\ BranchInv /\ IInv /\ IInv' /\ InHandInv
      /\ WellFormed(tracking) /\ Len(depot) \in Nat /\ Len(depot') \in Nat
  <2>1. /\ TypeOK /\ TypeOK' /\ PlaceInv /\ BranchInv /\ IInv /\ IInv' /\ InHandInv
    BY DEF MirrorInv, ReverseInv, IInv
  <2>2. WellFormed(tracking)
    BY <2>1 DEF BranchInv
  <2>3. Len(depot) \in Nat /\ Len(depot') \in Nat
    BY <2>1 DEF TypeOK
  <2> QED
    BY <2>1, <2>2, <2>3
<1>2. /\ UNCHANGED tracking
      /\ \/ UNCHANGED <<newCommits, pc>>
         \/ SubmitCommit
         \/ RecordReverse
  <2>1. ~Lists /\ ~UpdateLastProcessed
    BY DEF Lists, UpdateLastProcessed, NextCommit
  <2> QED
    BY <1>1, <2>1, ReversingSteps DEF Reversing
<1>3. UNCHANGED newCommits /\ i \in newCommits /\ InHand(i)
  <2>1. UNCHANGED newCommits
    BY <1>2 DEF SubmitCommit, RecordReverse, reverseVars
  <2> QED
    BY <2>1 DEF InHand, IsOldest
<1>4. Grows
  BY <1>1, StepsGrow
<1>5. CASE pc \in {"record", "advance"}
  <2>1. /\ \E n \in Markers : depot[n].git = tracking[i][2]
        /\ \A n \in Markers : depot[n].git <= tracking[i][2]
    BY <1>3, <1>5 DEF MirrorInv, DepotInv
  <2>2. \A n \in Markers : n \in Markers' /\ depot'[n] = depot[n]
    BY <1>1, <1>4 DEF Markers, FromUser, Grows
  <2>3. \A n \in Markers' : n \in Markers /\ depot'[n] = depot[n]
    BY <1>1, <1>5, MarkersStep DEF SubmitTakesEffect
  <2> QED
    BY <1>2, <2>1, <2>2, <2>3
<1>6. CASE SubmitCommit
  <2>1. SubmitTakesEffect /\ pc = "submit"
    BY <1>6 DEF SubmitCommit, SubmitTakesEffect
  <2>2. Len(depot') \in 1..Len(depot') /\ depot'[Len(depot')].git = tracking[i][2]
    BY <1>1, <1>3, <2>1, SubmitType
  <2>3. tracking[i][2] \in Dev
    BY <1>1, InHandType, <1>3
  <2>4. Len(depot') \in Markers'
    BY <2>2, <2>3, BoundsAreNat DEF Markers, FromUser, Dev
  <2>5. ~Recorded(CommitAt(i))
    BY <1>1, <1>3, <2>1 DEF InHandInv
  <2>6. ASSUME NEW n \in Markers' PROVE depot'[n].git <= tracking[i][2]
    <3>1. CASE n \in Markers /\ depot'[n] = depot[n]
      BY <1>3, <2>5, <3>1, NoneBehind
    <3>2. CASE \E h \in newCommits : InHand(h) /\ depot'[n].git = tracking[h][2]
      <4>1. depot'[n].git = tracking[i][2]
        BY <1>1, <1>3, <3>2, OneInHand
      <4> QED
        BY <2>3, <4>1, BoundsAreNat DEF Dev
    <3> QED
      BY <1>1, <3>1, <3>2, MarkersStep
  <2> QED
    BY <1>2, <2>2, <2>4, <2>6
<1>7. RecordReverse => pc \in {"record", "advance"}
  BY DEF RecordReverse
<1>8. UNCHANGED <<newCommits, pc>> => pc \in {"record", "advance"}
  OBVIOUS
<1> QED
  BY <1>2, <1>5, <1>6, <1>7, <1>8

\* Every step keeps P4 in order.
LEMMA DepotNext ==
    ASSUME MirrorInv, ReverseInv', OrderInv', [Next]_vars
    PROVE  DepotInv'
<1>1. IInv /\ IInv' /\ TypeOK /\ PlaceInv /\ WellFormed(tracking) /\ TypeOK'
  BY DEF MirrorInv, ReverseInv, IInv, BranchInv
<1>2. Ordered(Changes)'
  BY <1>1, ChangesOrderedNext
<1>3. (\A n \in Markers, i \in 1..Len(origin) :
           origin[i][1] = "dev" /\ origin[i][2] < depot[n].git => Recorded(SubSeq(origin, 1, i)))'
  BY AheadNext DEF Recorded
<1>4. ASSUME NEW n \in Markers' PROVE depot'[n].git <= Len(pushed')
  <2>1. Len(pushed) <= Len(pushed') /\ Len(pushed) \in Nat /\ Len(pushed') \in Nat
    BY <1>1, StepsGrow DEF Grows, TypeOK
  <2>2. depot'[n].git <= Len(pushed) /\ depot'[n].git \in Int
    BY MarkersKnown
  <2> QED
    BY <2>1, <2>2
<1> QED
  BY <1>2, <1>3, <1>4, NewestNext DEF DepotInv

-----------------------------------------------------------------------------
(* What DevelopersOf returns: in a sequence that keeps the order of the     *)
(* pushes, the numbers from 1 on.                                          *)

\* The commits of developers in c are the first j that were pushed.
Upto(c, j) ==
    /\ j \in 0..MaxDev
    /\ \A k \in Dev : (\E i \in 1..Len(c) : c[i] = <<"dev", k>>) <=> k <= j

\* The places where a developer's commit comes for the first time.
Firsts(c) == {i \in 1..Len(c) : c[i][1] = "dev" /\ \A j \in 1..(i - 1) : c[j] # c[i]}

\* A set of numbers has a least one.
LEMMA MinimumExists ==
    ASSUME NEW S \in SUBSET Nat, S # {}
    PROVE  \E m \in S : \A k \in S : m <= k
<1>1. PICK m \in S : \A k \in S : ~ (<<k, m>> \in OpToRel(<, Nat))
  BY NatLessThanWellFounded, WFMin
<1>2. \A k \in S : ~(k < m)
  BY <1>1 DEF OpToRel
<1> QED
  BY <1>2

\* A change of a developer.
LEMMA DevChange ==
    ASSUME NEW c \in Commit, NEW i \in 1..Len(c), c[i][1] = "dev"
    PROVE  c[i] = <<"dev", c[i][2]>> /\ c[i][2] \in Dev /\ c[i][2] \in Nat \ {0}
<1>1. c[i] \in Change
  BY ElementOfSeq DEF Commit
<1>2. c[i] = <<"dev", c[i][2]>> /\ c[i][2] \in Dev
  BY <1>1 DEF Change
<1> QED
  BY <1>2, BoundsAreNat DEF Dev

\* Whatever is in a sequence is there for a first time.
LEMMA FirstPlace ==
    ASSUME NEW c \in Commit, NEW i \in 1..Len(c), c[i][1] = "dev"
    PROVE  \E x \in Firsts(c) : x <= i /\ c[x] = c[i]
<1> DEFINE places == {x \in 1..i : c[x] = c[i]}
<1>1. Len(c) \in Nat /\ i \in Nat /\ i \in places
  BY DEF Commit
<1>2. places # {} /\ places \in SUBSET Nat
  BY <1>1
<1>3. PICK x \in places : \A y \in places : x <= y
  BY <1>2, MinimumExists
<1>4. x \in 1..Len(c) /\ x <= i /\ c[x] = c[i]
  BY <1>1, <1>3
<1>5. ASSUME NEW y \in 1..(x - 1) PROVE c[y] # c[x]
  <2>1. y \in 1..i /\ ~(x <= y)
    BY <1>1, <1>4
  <2> QED
    BY <1>3, <1>4, <2>1
<1> QED
  BY <1>4, <1>5 DEF Firsts

\* First places whose commits have the numbers from 1 to N are N.
LEMMA FirstsCounted ==
    ASSUME NEW c \in Commit, NEW N \in Nat, NEW S, S \subseteq Firsts(c),
           \A x \in S : c[x][2] \in 1..N,
           \A k \in 1..N : \E x \in S : c[x][2] = k
    PROVE  Cardinality(S) = N
<1> DEFINE number == [x \in S |-> c[x][2]]
<1>1. number \in [S -> 1..N]
  OBVIOUS
<1>2. ASSUME NEW x \in S, NEW y \in S, number[x] = number[y] PROVE x = y
  <2>1. /\ x \in 1..Len(c) /\ c[x][1] = "dev" /\ \A j \in 1..(x - 1) : c[j] # c[x]
        /\ y \in 1..Len(c) /\ c[y][1] = "dev" /\ \A j \in 1..(y - 1) : c[j] # c[y]
    BY DEF Firsts
  <2>2. c[x] = <<"dev", c[x][2]>> /\ c[y] = <<"dev", c[y][2]>>
    BY <2>1, DevChange
  <2>3. c[x] = c[y]
    BY <1>2, <2>2
  <2>4. x \notin 1..(y - 1) /\ y \notin 1..(x - 1)
    BY <2>1, <2>3
  <2>5. Len(c) \in Nat
    BY DEF Commit
  <2> QED
    BY <2>1, <2>4, <2>5
<1>3. \A k \in 1..N : \E x \in S : number[x] = k
  OBVIOUS
<1>4. number \in Bijection(S, 1..N)
  <2>1. number \in Surjection(S, 1..N)
    BY <1>1, <1>3, Fun_IsSurj
  <2>2. number \in Injection(S, 1..N)
    BY <1>1, <1>2, Fun_IsInj
  <2> QED
    BY <2>1, <2>2 DEF Bijection
<1>5. ExistsBijection(S, 1..N)
  BY <1>4 DEF ExistsBijection
<1>6. IsFiniteSet(1..N) /\ Cardinality(1..N) = N
  <2>1. 1 \in Int /\ N \in Int
    OBVIOUS
  <2>2. Cardinality(1..N) = (IF 1 > N THEN 0 ELSE N - 1 + 1) /\ IsFiniteSet(1..N)
    BY <2>1, FS_Interval
  <2> QED
    BY <2>1, <2>2
<1>7. ExistsBijection(1..N, S)
  BY <1>5, Fun_ExistsBijSymmetric
<1> QED
  BY <1>6, <1>7, FS_Bijection

\* When the order is kept, a first place is where its number says.
LEMMA PlaceIsNumber ==
    ASSUME NEW c \in Commit, Ordered(c), NEW i \in Firsts(c)
    PROVE  Cardinality({x \in Firsts(c) : x <= i}) = c[i][2]
<1> DEFINE S == {x \in Firsts(c) : x <= i}
<1>1. i \in 1..Len(c) /\ c[i][1] = "dev" /\ \A j \in 1..(i - 1) : c[j] # c[i] /\ Len(c) \in Nat
  BY DEF Firsts, Commit
<1>2. c[i] = <<"dev", c[i][2]>> /\ c[i][2] \in Nat \ {0}
  BY <1>1, DevChange
<1>3. ASSUME NEW x \in S PROVE c[x][2] \in 1..c[i][2]
  <2>1. x \in 1..Len(c) /\ c[x][1] = "dev" /\ x <= i
    BY DEF Firsts
  <2>2. c[x][2] \in Nat \ {0}
    BY <2>1, DevChange
  <2>3. ASSUME c[i][2] \in 1..(c[x][2] - 1) PROVE FALSE
    <3>1. PICK j \in 1..(x - 1) : c[j] = <<"dev", c[i][2]>>
      BY <2>1, <2>3 DEF Ordered
    <3>2. j \in 1..(i - 1) /\ c[j] = c[i]
      BY <1>1, <1>2, <2>1, <3>1
    <3> QED
      BY <1>1, <3>2
  <2> QED
    BY <1>2, <2>2, <2>3
<1>4. ASSUME NEW k \in 1..c[i][2] PROVE \E x \in S : c[x][2] = k
  <2>1. CASE k = c[i][2]
    BY <1>1, <2>1
  <2>2. CASE k # c[i][2]
    <3>1. k \in 1..(c[i][2] - 1)
      BY <1>2, <2>2
    <3>2. PICK j \in 1..(i - 1) : c[j] = <<"dev", k>>
      BY <1>1, <3>1 DEF Ordered
    <3>3. j \in 1..Len(c) /\ c[j][1] = "dev" /\ c[j][2] = k /\ j <= i
      BY <1>1, <3>2
    <3>4. PICK x \in Firsts(c) : x <= j /\ c[x] = c[j]
      BY <3>3, FirstPlace
    <3>5. x <= i
      BY <1>1, <3>3, <3>4 DEF Firsts
    <3> QED
      BY <3>3, <3>4, <3>5
  <2> QED
    BY <2>1, <2>2
<1>5. S \subseteq Firsts(c) /\ c[i][2] \in Nat
  BY <1>2
<1> HIDE DEF S
<1>6. Cardinality(S) = c[i][2]
  BY <1>3, <1>4, <1>5, FirstsCounted
<1> QED
  BY <1>6 DEF S

\* The developers' commits of an ordered sequence are numbered through.
LEMMA DevelopersIs ==
    ASSUME NEW c \in Commit, Ordered(c), NEW j, Upto(c, j)
    PROVE  DevelopersOf(c) = [k \in 1..j |-> k]
<1>1. j \in Nat /\ j <= MaxDev /\ MaxDev \in Nat
  BY BoundsAreNat DEF Upto
<1>2. ASSUME NEW x \in Firsts(c) PROVE c[x][2] \in 1..j
  <2>1. x \in 1..Len(c) /\ c[x][1] = "dev"
    BY DEF Firsts
  <2>2. c[x] = <<"dev", c[x][2]>> /\ c[x][2] \in Dev /\ c[x][2] \in Nat \ {0}
    BY <2>1, DevChange
  <2>3. c[x][2] <= j
    BY <2>1, <2>2 DEF Upto
  <2> QED
    BY <1>1, <2>2, <2>3
<1>3. ASSUME NEW k \in 1..j PROVE \E x \in Firsts(c) : c[x][2] = k
  <2>1. k \in Dev /\ k <= j
    BY <1>1 DEF Dev
  <2>2. PICK i \in 1..Len(c) : c[i] = <<"dev", k>>
    BY <2>1 DEF Upto
  <2>3. c[i][1] = "dev" /\ c[i][2] = k
    BY <2>2
  <2>4. PICK x \in Firsts(c) : x <= i /\ c[x] = c[i]
    BY <2>3, FirstPlace
  <2> QED
    BY <2>3, <2>4
<1>4. Cardinality(Firsts(c)) = j
  BY <1>1, <1>2, <1>3, FirstsCounted
<1> DEFINE place(i) == Cardinality({x \in Firsts(c) : x <= i})
<1>5. DevelopersOf(c)
          = [k \in 1..Cardinality(Firsts(c)) |-> c[CHOOSE i \in Firsts(c) : place(i) = k][2]]
  BY DEF DevelopersOf, Firsts
<1>6. ASSUME NEW k \in 1..j PROVE c[CHOOSE i \in Firsts(c) : place(i) = k][2] = k
  <2>1. \A i \in Firsts(c) : place(i) = c[i][2]
    BY PlaceIsNumber
  <2>2. \E i \in Firsts(c) : place(i) = k
    BY <1>3, <2>1
  <2> DEFINE chosen == CHOOSE i \in Firsts(c) : place(i) = k
  <2>3. chosen \in Firsts(c) /\ place(chosen) = k
    BY <2>2
  <2> HIDE DEF chosen, place
  <2>4. c[chosen][2] = k
    BY <2>1, <2>3
  <2> QED
    BY <2>4 DEF chosen
<1> HIDE DEF place
<1> QED
  BY <1>4, <1>5, <1>6

\* An ordered sequence holds the first commits, up to some number.
LEMMA CountExists ==
    ASSUME NEW c \in Commit, Ordered(c)
    PROVE  \E j \in 0..MaxDev : Upto(c, j)
<1> DEFINE Has(k) == \E i \in 1..Len(c) : c[i] = <<"dev", k>>
           missing == {k \in 1..(MaxDev + 1) : ~Has(k)}
<1>1. MaxDev \in Nat /\ Len(c) \in Nat
  BY BoundsAreNat DEF Commit
<1>2. \A k : Has(k) => k \in Dev
  <2> SUFFICES ASSUME NEW k, NEW i \in 1..Len(c), c[i] = <<"dev", k>> PROVE k \in Dev
      OBVIOUS
  <2>1. c[i][1] = "dev" /\ c[i][2] = k
    OBVIOUS
  <2> QED
    BY <2>1, DevChange
<1> HIDE DEF Has
<1>3. MaxDev + 1 \in missing /\ missing \in SUBSET Nat
  BY <1>1, <1>2 DEF Dev
<1>4. PICK m \in missing : \A k \in missing : m <= k
  BY <1>3, MinimumExists
<1>5. m \in 1..(MaxDev + 1) /\ m - 1 \in 0..MaxDev /\ ~Has(m)
  BY <1>1, <1>4
<1>6. ASSUME NEW k \in Dev PROVE Has(k) <=> k <= m - 1
  <2>1. k \in 1..MaxDev /\ k \in 1..(MaxDev + 1)
    BY <1>1 DEF Dev
  <2>2. ASSUME k <= m - 1 PROVE Has(k)
    BY <1>1, <1>4, <1>5, <2>1, <2>2
  <2>3. ASSUME Has(k) PROVE k <= m - 1
    <3>1. PICK i \in 1..Len(c) : c[i] = <<"dev", k>>
      BY <2>3 DEF Has
    <3>2. ASSUME NEW l \in 1..(k - 1) PROVE Has(l)
      <4>1. c[i][1] = "dev" /\ c[i][2] = k
        BY <3>1
      <4>2. PICK x \in 1..(i - 1) : c[x] = <<"dev", l>>
        BY <4>1 DEF Ordered
      <4>3. x \in 1..Len(c)
        BY <1>1
      <4> QED
        BY <4>2, <4>3 DEF Has
    <3>3. m \notin 1..(k - 1) /\ m # k
      BY <1>5, <2>3, <3>2
    <3> QED
      BY <1>1, <1>5, <2>1, <3>3
  <2> QED
    BY <2>2, <2>3
<1> QED
  BY <1>5, <1>6 DEF Upto, Has

-----------------------------------------------------------------------------
(* Refinement: the reverse direction is a mirror.                           *)

\* The developers' commits in the depot d have the numbers up to j.
Submitted(d, j) ==
    /\ j \in 0..MaxDev
    /\ \A n \in 1..Len(d) : d[n].git <= j
    /\ \A k \in 1..j : \E n \in 1..Len(d) : d[n].git = k

\* What a depot and its sequence of changes have in common.
LEMMA SubmittedUpto ==
    ASSUME NEW d \in Seq([file : Files, git : 0..MaxDev]), Len(d) <= MaxCL,
           NEW c, c = [n \in 1..Len(d) |-> IF d[n].git = 0 THEN <<"p4", n>> ELSE <<"dev", d[n].git>>],
           NEW j \in 0..MaxDev
    PROVE  Submitted(d, j) <=> Upto(c, j)
<1>1. /\ c \in Commit /\ Len(c) = Len(d)
      /\ \A n \in 1..Len(d) : /\ d[n].git = 0 => c[n] = <<"p4", n>>
                              /\ d[n].git # 0 => c[n] = <<"dev", d[n].git>>
  BY ChangesFacts
<1>2. ASSUME NEW n \in 1..Len(d) PROVE d[n].git \in 0..MaxDev
  <2>1. d[n] \in [file : Files, git : 0..MaxDev]
    BY ElementOfSeq
  <2> QED
    BY <2>1
<1>3. MaxDev \in Nat /\ j \in Nat /\ j <= MaxDev /\ Dev = 1..MaxDev
  BY BoundsAreNat DEF Dev
<1>4. \A k \in Dev, n \in 1..Len(d) : d[n].git = k <=> c[n] = <<"dev", k>>
  <2> SUFFICES ASSUME NEW k \in Dev, NEW n \in 1..Len(d) PROVE d[n].git = k <=> c[n] = <<"dev", k>>
      OBVIOUS
  <2>1. k # 0
    BY <1>3
  <2>2. CASE d[n].git = 0
    BY <1>1, <2>1, <2>2
  <2>3. CASE d[n].git # 0
    BY <1>1, <2>3
  <2> QED
    BY <2>2, <2>3
<1>5. ASSUME Submitted(d, j) PROVE Upto(c, j)
  <2>1. ASSUME NEW k \in Dev PROVE (\E n \in 1..Len(c) : c[n] = <<"dev", k>>) <=> k <= j
    <3>1. k <= j => k \in 1..j
      BY <1>3
    <3>2. (\E n \in 1..Len(d) : d[n].git = k) <=> k <= j
      BY <1>5, <3>1 DEF Submitted
    <3> QED
      BY <1>1, <1>4, <3>2
  <2> QED
    BY <2>1 DEF Upto
<1>6. ASSUME Upto(c, j) PROVE Submitted(d, j)
  <2>1. ASSUME NEW n \in 1..Len(d) PROVE d[n].git <= j
    <3>1. CASE d[n].git = 0
      BY <1>3, <3>1
    <3>2. CASE d[n].git # 0
      <4>1. d[n].git \in Dev
        BY <1>2, <1>3, <3>2
      <4>2. n \in 1..Len(c) /\ c[n] = <<"dev", d[n].git>>
        BY <1>1, <3>2
      <4> QED
        BY <1>6, <4>1, <4>2 DEF Upto
    <3> QED
      BY <3>1, <3>2
  <2>2. ASSUME NEW k \in 1..j PROVE \E n \in 1..Len(d) : d[n].git = k
    <3>1. k \in Dev /\ k <= j
      BY <1>3
    <3>2. PICK n \in 1..Len(c) : c[n] = <<"dev", k>>
      BY <1>6, <3>1 DEF Upto
    <3> QED
      BY <1>1, <1>4, <3>1, <3>2
  <2> QED
    BY <2>1, <2>2 DEF Submitted
<1> QED
  BY <1>5, <1>6

\* The mirror's mainline before a step.
LEMMA MainlineIs ==
    ASSUME MirrorInv, NEW j, Submitted(depot, j)
    PROVE  DevelopersOf(Changes) = [k \in 1..j |-> k]
<1>1. /\ depot \in Seq([file : Files, git : 0..MaxDev]) /\ Len(depot) <= MaxCL
      /\ Ordered(Changes) /\ j \in 0..MaxDev
  BY DEF MirrorInv, ReverseInv, IInv, TypeOK, DepotInv, Submitted
<1>2. Changes \in Commit /\ Upto(Changes, j)
  BY <1>1, ChangesIs, ChangesFacts, SubmittedUpto
<1> QED
  BY <1>1, <1>2, DevelopersIs

\* The mirror's mainline after a step.
LEMMA MainlineBecomes ==
    ASSUME MirrorInv', NEW j, Submitted(depot', j)
    PROVE  DevelopersOf(Changes') = [k \in 1..j |-> k]
<1>1. /\ depot' \in Seq([file : Files, git : 0..MaxDev]) /\ Len(depot') <= MaxCL
      /\ Ordered(Changes') /\ j \in 0..MaxDev
  BY DEF MirrorInv, ReverseInv, IInv, TypeOK, DepotInv, Submitted
<1>2. Changes' = [n \in 1..Len(depot') |->
                      IF depot'[n].git = 0 THEN <<"p4", n>> ELSE <<"dev", depot'[n].git>>]
  BY DEF Changes, Origin, FromUser
<1>3. Changes' \in Commit /\ Upto(Changes', j)
  BY <1>1, <1>2, ChangesFacts, SubmittedUpto
<1> QED
  BY <1>1, <1>3, DevelopersIs

\* Some number of commits is in P4.
LEMMA SomeSubmitted ==
    ASSUME MirrorInv
    PROVE  \E j \in 0..MaxDev : Submitted(depot, j)
<1>1. /\ depot \in Seq([file : Files, git : 0..MaxDev]) /\ Len(depot) <= MaxCL
      /\ Ordered(Changes)
  BY DEF MirrorInv, ReverseInv, IInv, TypeOK, DepotInv
<1>2. Changes \in Commit
  BY <1>1, ChangesIs, ChangesFacts
<1>3. PICK j \in 0..MaxDev : Upto(Changes, j)
  BY <1>1, <1>2, CountExists
<1> QED
  BY <1>1, <1>3, ChangesIs, SubmittedUpto

\* A changelist of a user is none of the mirror's.
LEMMA UserSubmitHidden ==
    ASSUME MirrorInv, MirrorInv', NEW f \in Files, Submit(f)
    PROVE  DevelopersOf(Changes') = DevelopersOf(Changes)
<1>1. TypeOK /\ depot \in Seq([file : Files, git : 0..MaxDev]) /\ Len(depot) \in Nat
  BY DEF MirrorInv, ReverseInv, IInv, TypeOK
<1>2. /\ Len(depot') = Len(depot) + 1
      /\ \A n \in 1..Len(depot) : depot'[n] = depot[n]
      /\ depot'[Len(depot) + 1].git = 0
  <2>1. [file |-> f, git |-> 0] \in [file : Files, git : 0..MaxDev]
    BY BoundsAreNat
  <2>2. depot' = Append(depot, [file |-> f, git |-> 0])
    BY DEF Submit
  <2>3. depot'[Len(depot) + 1] = [file |-> f, git |-> 0]
    BY <1>1, <2>1, <2>2, AppendProperties
  <2> QED
    BY <1>1, <2>3, UserSubmitType
<1>3. PICK j \in 0..MaxDev : Submitted(depot, j)
  BY SomeSubmitted
<1>4. \A n \in 1..Len(depot') : n \in 1..Len(depot) \/ n = Len(depot) + 1
  BY <1>1, <1>2
<1>5. \A n \in 1..Len(depot) : n \in 1..Len(depot')
  BY <1>1, <1>2
<1>6. \A n \in 1..Len(depot') : depot'[n].git <= j
  <2>1. j \in 0..MaxDev /\ \A n \in 1..Len(depot) : depot[n].git <= j
    BY <1>3 DEF Submitted
  <2>2. 0 <= j
    BY <2>1, BoundsAreNat
  <2> TAKE n \in 1..Len(depot')
  <2>3. CASE n \in 1..Len(depot)
    <3>1. depot'[n] = depot[n]
      BY <1>2, <2>3
    <3> QED
      BY <2>1, <2>3, <3>1
  <2>4. CASE n = Len(depot) + 1
    BY <1>2, <2>2, <2>4
  <2> QED
    BY <1>4, <2>3, <2>4
<1>7. \A k \in 1..j : \E n \in 1..Len(depot') : depot'[n].git = k
  BY <1>2, <1>3, <1>5 DEF Submitted
<1>8. Submitted(depot', j)
  BY <1>3, <1>6, <1>7 DEF Submitted
<1> QED
  BY <1>3, <1>8, MainlineIs, MainlineBecomes

\* A submit takes effect: what is in P4 before and after.
LEMMA SubmitCounts ==
    ASSUME MirrorInv, MirrorInv', SubmitTakesEffect
    PROVE  \E k \in 1..Len(pushed) :
               /\ Submitted(depot', k)
               /\ Submitted(depot, k) \/ Submitted(depot, k - 1)
<1>1. /\ TypeOK /\ PlaceInv /\ WellFormed(tracking) /\ tracking \in Commit
      /\ depot \in Seq([file : Files, git : 0..MaxDev]) /\ Len(depot) \in Nat
      /\ Len(pushed) \in Nat /\ Len(pushed) <= MaxDev /\ InHandInv
  BY DEF MirrorInv, ReverseInv, IInv, BranchInv, TypeOK
<1>2. PICK i \in newCommits : InHand(i)
  BY DEF SubmitTakesEffect
<1>3. i \in 1..Len(tracking) /\ tracking[i][2] \in Dev /\ tracking[i] = <<"dev", tracking[i][2]>>
  BY <1>1, InHandType
<1>4. tracking[i][2] <= Len(pushed)
  <2>1. tracking[i][1] = "dev" /\ Known(tracking[i])
    BY <1>1, <1>3 DEF WellFormed
  <2> QED
    BY <2>1 DEF Known
<1>5. /\ Len(depot') = Len(depot) + 1
      /\ \A n \in 1..Len(depot) : depot'[n] = depot[n]
      /\ depot'[Len(depot) + 1].git = tracking[i][2]
  <2>1. /\ Len(depot') = Len(depot) + 1
        /\ \A n \in 1..Len(depot) : depot'[n] = depot[n]
        /\ depot'[Len(depot')].git = tracking[i][2]
    BY <1>1, <1>2, SubmitType
  <2> QED
    BY <2>1
<1>6. \A n \in 1..Len(depot) : depot[n].git \in 0..MaxDev
  <2> SUFFICES ASSUME NEW n \in 1..Len(depot) PROVE depot[n].git \in 0..MaxDev
      OBVIOUS
  <2>1. depot[n] \in [file : Files, git : 0..MaxDev]
    BY <1>1, ElementOfSeq
  <2> QED
    BY <2>1
<1>7. PICK k \in 1..Len(pushed) : k = tracking[i][2]
  BY <1>3, <1>4, BoundsAreNat DEF Dev
<1>8. \A n \in 1..Len(depot) : depot[n].git <= k
  <2> SUFFICES ASSUME NEW n \in 1..Len(depot) PROVE depot[n].git <= k
      OBVIOUS
  <2>1. ~Recorded(CommitAt(i))
    BY <1>1, <1>2 DEF InHandInv, SubmitTakesEffect
  <2>2. n \in Markers => depot[n].git <= k
    BY <1>7, <2>1, NoneBehind
  <2>3. n \notin Markers => depot[n].git = 0
    BY DEF Markers, FromUser
  <2> QED
    BY <1>1, <2>2, <2>3
<1>9. \A l \in 1..(k - 1) : \E n \in 1..Len(depot) : depot[n].git = l
  <2> SUFFICES ASSUME NEW l \in 1..(k - 1) PROVE \E n \in 1..Len(depot) : depot[n].git = l
      OBVIOUS
  <2>1. \E n \in Markers : depot[n].git = l
    BY <1>2, <1>7, EarlierSubmitted
  <2> QED
    BY <2>1 DEF Markers
<1>10. k \in 0..MaxDev /\ k - 1 \in 0..MaxDev
  BY <1>1, BoundsAreNat
<1>11. Submitted(depot', k)
  <2>1. \A n \in 1..Len(depot') : n \in 1..Len(depot) \/ n = Len(depot) + 1
    BY <1>1, <1>5
  <2>2. \A n \in 1..Len(depot) : n \in 1..Len(depot')
    BY <1>1, <1>5
  <2>3. Len(depot) + 1 \in 1..Len(depot')
    BY <1>1, <1>5
  <2>4. \A n \in 1..Len(depot') : depot'[n].git <= k
    BY <1>1, <1>5, <1>7, <1>8, <2>1
  <2>5. \A l \in 1..k : l \in 1..(k - 1) \/ l = k
    BY <1>1
  <2>6. \A l \in 1..k : \E n \in 1..Len(depot') : depot'[n].git = l
    BY <1>5, <1>7, <1>9, <2>2, <2>3, <2>5
  <2> QED
    BY <1>10, <2>4, <2>6 DEF Submitted
<1>12. CASE \E n \in 1..Len(depot) : depot[n].git = k
  <2>1. \A l \in 1..k : l \in 1..(k - 1) \/ l = k
    BY <1>1
  <2>2. Submitted(depot, k)
    BY <1>8, <1>9, <1>10, <1>12, <2>1 DEF Submitted
  <2> QED
    BY <1>11, <2>2
<1>13. CASE ~\E n \in 1..Len(depot) : depot[n].git = k
  <2>1. \A n \in 1..Len(depot) : depot[n].git <= k - 1
    <3> SUFFICES ASSUME NEW n \in 1..Len(depot) PROVE depot[n].git <= k - 1
        OBVIOUS
    <3>1. depot[n].git <= k /\ depot[n].git # k /\ depot[n].git \in 0..MaxDev
      BY <1>6, <1>8, <1>13
    <3> QED
      BY <1>1, <3>1, BoundsAreNat
  <2>2. Submitted(depot, k - 1)
    BY <1>9, <1>10, <2>1 DEF Submitted
  <2> QED
    BY <1>11, <2>2
<1> QED
  BY <1>12, <1>13

\* The checkpoint moves to the commit in hand: behind it are the commits up to
\* that one, and they are what is in P4.
LEMMA AdvanceCounts ==
    ASSUME MirrorInv, UpdateLastProcessed
    PROVE  \E k \in 0..MaxDev : Submitted(depot, k) /\ Upto(lastReverse', k)
                                /\ lastReverse' \in Commit /\ Ordered(lastReverse')
<1>1. /\ TypeOK /\ PlaceInv /\ WellFormed(tracking) /\ tracking \in Commit /\ origin \in Commit
      /\ depot \in Seq([file : Files, git : 0..MaxDev]) /\ Len(depot) <= MaxCL
      /\ IsPrefix(tracking, origin) /\ Ordered(origin) /\ Ordered(Changes)
      /\ Len(tracking) \in Nat
  BY DEF MirrorInv, ReverseInv, IInv, BranchInv, TypeOK, FetchedInv, OrderInv, DepotInv, Commit
<1>2. PICK i \in newCommits : InHand(i) /\ lastReverse' = CommitAt(i)
  BY DEF UpdateLastProcessed
<1>3. i \in 1..Len(tracking) /\ tracking[i][2] \in Dev /\ tracking[i] = <<"dev", tracking[i][2]>>
  BY <1>1, InHandType
<1>4. PICK k \in Dev : k = tracking[i][2]
  BY <1>3
<1>5. k \in 0..MaxDev /\ k \in Nat /\ Dev = 1..MaxDev
  BY BoundsAreNat DEF Dev
<1>6. Ordered(tracking)
  BY <1>1, OrderedPrefix
<1>7. /\ CommitAt(i) \in Commit /\ Len(CommitAt(i)) = i
      /\ \A x \in 1..i : CommitAt(i)[x] = tracking[x]
      /\ IsPrefix(CommitAt(i), tracking)
  BY <1>1, <1>3, BelowFacts DEF CommitAt
<1>8. Ordered(CommitAt(i))
  BY <1>1, <1>6, <1>7, OrderedPrefix
<1>9. ASSUME NEW l \in Dev PROVE (\E x \in 1..i : tracking[x] = <<"dev", l>>) <=> l <= k
  <2>1. ASSUME l <= k PROVE \E x \in 1..i : tracking[x] = <<"dev", l>>
    <3>1. CASE l = k
      BY <1>1, <1>3, <1>4, <3>1
    <3>2. CASE l # k
      <4>1. l \in 1..(k - 1)
        BY <1>5, <2>1, <3>2
      <4>2. tracking[i][1] = "dev"
        BY <1>3
      <4>3. PICK x \in 1..(i - 1) : tracking[x] = <<"dev", l>>
        BY <1>3, <1>4, <1>6, <4>1, <4>2 DEF Ordered
      <4>4. x \in 1..i
        BY <1>1, <1>3
      <4> QED
        BY <4>3, <4>4
    <3> QED
      BY <3>1, <3>2
  <2>2. ASSUME NEW x \in 1..i, tracking[x] = <<"dev", l>> PROVE l <= k
    <3>1. SUFFICES ASSUME k \in 1..(l - 1) PROVE FALSE
      BY <1>5
    <3>2. x \in 1..Len(tracking) /\ tracking[x][1] = "dev" /\ tracking[x][2] = l
      BY <1>1, <1>3, <2>2
    <3>3. PICK y \in 1..(x - 1) : tracking[y] = <<"dev", k>>
      BY <1>6, <3>1, <3>2 DEF Ordered
    <3>4. y \in 1..Len(tracking) /\ y # i /\ tracking[y] = tracking[i]
      BY <1>1, <1>3, <1>4, <3>2, <3>3
    <3> QED
      BY <1>1, <1>3, <3>4 DEF WellFormed
  <2> QED
    BY <2>1, <2>2
<1>10. Upto(lastReverse', k)
  BY <1>2, <1>5, <1>7, <1>9 DEF Upto
<1>11. /\ \E n \in Markers : depot[n].git = k
       /\ \A n \in Markers : depot[n].git <= k
  BY <1>2, <1>4 DEF MirrorInv, DepotInv, UpdateLastProcessed
<1>12. \A n \in 1..Len(depot) : depot[n].git <= k
  BY <1>5, <1>11 DEF Markers, FromUser
<1>13. \A l \in 1..k : \E n \in 1..Len(depot) : depot[n].git = l
  <2>1. PICK j \in 0..MaxDev : Submitted(depot, j)
    BY SomeSubmitted
  <2>2. PICK n \in 1..Len(depot) : depot[n].git = k
    BY <1>11 DEF Markers
  <2>3. k <= j
    BY <2>1, <2>2 DEF Submitted
  <2>4. \A l \in 1..k : l \in 1..j
    BY <1>5, <2>3
  <2> QED
    BY <2>1, <2>4 DEF Submitted
<1>14. Submitted(depot, k)
  BY <1>5, <1>12, <1>13 DEF Submitted
<1> QED
  BY <1>2, <1>5, <1>7, <1>8, <1>10, <1>14

\* The developers' pushes are the mirror's depot.
Pushes == [k \in 1..Len(pushed) |-> "file"]

\* One push more.
LEMMA PushesAppend ==
    ASSUME NEW l \in Nat
    PROVE  /\ [k \in 1..(l + 1) |-> "file"] = Append([k \in 1..l |-> "file"], "file")
           /\ Len([k \in 1..l |-> "file"]) = l
<1> DEFINE D == [k \in 1..l |-> "file"]
           E == [k \in 1..(l + 1) |-> "file"]
<1>1. D \in [1..l -> {"file"}] /\ E \in [1..(l + 1) -> {"file"}] /\ l + 1 \in Nat
  OBVIOUS
<1>2. D \in Seq({"file"}) /\ Len(D) = l /\ E \in Seq({"file"}) /\ Len(E) = l + 1
  BY <1>1, SeqDef, LenProperties
<1>3. /\ Append(D, "file") \in Seq({"file"}) /\ Len(Append(D, "file")) = l + 1
      /\ \A i \in 1..l : Append(D, "file")[i] = D[i]
      /\ Append(D, "file")[l + 1] = "file"
  BY <1>2, AppendProperties
<1>4. \A i \in 1..(l + 1) : Append(D, "file")[i] = E[i]
  <2> SUFFICES ASSUME NEW i \in 1..(l + 1) PROVE Append(D, "file")[i] = E[i]
      OBVIOUS
  <2>1. i \in 1..l \/ i = l + 1
    OBVIOUS
  <2> QED
    BY <1>3, <2>1
<1>5. E = Append(D, "file")
  BY <1>2, <1>3, <1>4, SeqEqual
<1> QED
  BY <1>2, <1>5

\* A commit that reaches P4 for the first time is the oldest that is not there.
LEMMA Replicates ==
    ASSUME NEW D, NEW M, NEW N, NEW l \in Nat, NEW k \in 1..l,
           D \in [1..l -> {"file"}],
           M \in [1..(k - 1) -> Nat], \A i \in 1..(k - 1) : M[i] = i,
           N \in [1..k -> Nat], \A i \in 1..k : N[i] = i
    PROVE  /\ N = Append(M, k) /\ D \in Seq({"file"}) /\ Len(D) = l
           /\ M \in Seq(Nat) /\ Len(M) = k - 1
           /\ k \in {n \in 1..Len(D) : D[n] = "file" /\ \A i \in 1..Len(M) : M[i] < n}
           /\ \A m \in {n \in 1..Len(D) : D[n] = "file" /\ \A i \in 1..Len(M) : M[i] < n} : k <= m
<1>1. D \in Seq({"file"}) /\ Len(D) = l
  BY SeqDef, LenProperties
<1>2. M \in Seq(Nat) /\ Len(M) = k - 1
  <2>1. k - 1 \in Nat
    OBVIOUS
  <2> QED
    BY <2>1, SeqDef, LenProperties
<1>3. N \in Seq(Nat) /\ Len(N) = k
  <2>1. k \in Nat
    OBVIOUS
  <2> QED
    BY <2>1, SeqDef, LenProperties
<1>4. N = Append(M, k)
  <2>1. Append(M, k) \in Seq(Nat) /\ Len(Append(M, k)) = k
        /\ \A i \in 1..(k - 1) : Append(M, k)[i] = M[i]
        /\ Append(M, k)[k] = k
    BY <1>2, AppendProperties
  <2>2. \A i \in 1..k : i \in 1..(k - 1) \/ i = k
    OBVIOUS
  <2>3. \A i \in 1..k : N[i] = Append(M, k)[i]
    BY <2>1, <2>2
  <2> QED
    BY <1>3, <2>1, <2>3, SeqEqual
<1>5. k \in 1..Len(D) /\ D[k] = "file" /\ \A i \in 1..Len(M) : M[i] < k
  BY <1>1, <1>2
<1>6. ASSUME NEW m \in 1..Len(D), \A i \in 1..Len(M) : M[i] < m PROVE k <= m
  <2>1. CASE k = 1
    BY <1>1, <2>1
  <2>2. CASE k # 1
    <3>1. k - 1 \in 1..Len(M) /\ M[k - 1] = k - 1
      BY <1>2, <2>2
    <3> QED
      BY <1>1, <1>6, <3>1
  <2> QED
    BY <2>1, <2>2
<1> QED
  BY <1>1, <1>2, <1>4, <1>5, <1>6

\* Every step is a step of the mirror, or invisible to it.
LEMMA MirrorStep ==
    ASSUME MirrorInv, MirrorInv', [Next]_vars
    PROVE  [R!MirrorNext]_R!mirrorVars
<1> USE DEF devRefVars, devVars, remoteVars, trackingVars, localVars, forwardVars, reverseVars
<1> DEFINE mainline == DevelopersOf([n \in 1..Len(depot) |-> Origin(<<"p4", n>>)])
           published == DevelopersOf(lastReverse)
<1>1. TypeOK /\ TypeOK' /\ PlaceInv /\ Len(pushed) \in Nat /\ Len(pushed) <= MaxDev
  BY DEF MirrorInv, ReverseInv, IInv, TypeOK
<1>2. mainline = DevelopersOf(Changes) /\ mainline' = DevelopersOf(Changes')
  BY DEF Changes
<1>3. UNCHANGED <<Pushes, mainline, published>> => UNCHANGED R!mirrorVars
  BY DEF R!mirrorVars, Pushes
<1>4. UNCHANGED <<pushed, depot, lastReverse>> => UNCHANGED R!mirrorVars
  BY DEF R!mirrorVars, Origin, FromUser
<1>5. UNCHANGED <<pushed, lastReverse>> => UNCHANGED <<Pushes, published>>
  BY DEF Pushes
<1>6. ASSUME NEW f \in PushedFiles, Push(f) PROVE R!MirrorNext
  <2>1. Pushes' = Append(Pushes, "file") /\ Len(Pushes) = Len(pushed)
    <3>1. Len(pushed') = Len(pushed) + 1
      BY <1>1, <1>6, PushType
    <3> QED
      BY <1>1, <3>1, PushesAppend DEF Pushes
  <2>2. Len(Pushes) < MaxDev
    BY <1>6, <2>1 DEF Push
  <2>3. UNCHANGED <<depot, lastReverse>>
    BY <1>6 DEF Push
  <2>4. UNCHANGED <<mainline, published>>
    BY <2>3 DEF Origin, FromUser
  <2>5. R!SubmitChange("file")
    BY <2>1, <2>2, <2>4 DEF R!SubmitChange, Pushes
  <2> QED
    BY <2>5 DEF R!MirrorNext
<1>7. ASSUME NEW f \in Files, Submit(f) PROVE UNCHANGED R!mirrorVars
  <2>1. UNCHANGED <<pushed, lastReverse>>
    BY <1>7 DEF Submit
  <2>2. mainline' = mainline
    BY <1>2, <1>7, UserSubmitHidden
  <2> HIDE DEF mainline, published
  <2> QED
    BY <1>3, <1>5, <2>1, <2>2
<1>8. CASE SubmitCommit \/ SubmitAnswerLost
  <2>1. SubmitTakesEffect /\ UNCHANGED <<pushed, lastReverse>>
    BY <1>8 DEF SubmitCommit, SubmitAnswerLost
  <2>2. PICK k \in 1..Len(pushed) : /\ Submitted(depot', k)
                                    /\ Submitted(depot, k) \/ Submitted(depot, k - 1)
    BY <2>1, SubmitCounts
  <2>3. mainline' = [i \in 1..k |-> i]
    BY <1>2, <2>2, MainlineBecomes
  <2>4. CASE Submitted(depot, k)
    <3>1. mainline = [i \in 1..k |-> i]
      BY <1>2, <2>4, MainlineIs
    <3> HIDE DEF mainline, published
    <3> QED
      BY <1>3, <1>5, <2>1, <2>3, <3>1
  <2>5. CASE Submitted(depot, k - 1)
    <3>1. mainline = [i \in 1..(k - 1) |-> i]
      BY <1>2, <2>5, MainlineIs
    <3>2. Pushes = [i \in 1..Len(pushed) |-> "file"]
      BY DEF Pushes
    <3> HIDE DEF mainline, published
    <3>3. /\ mainline' = Append(mainline, k)
          /\ k \in {n \in 1..Len(Pushes) : /\ Pushes[n] = "file"
                                           /\ \A i \in 1..Len(mainline) : mainline[i] < n}
          /\ \A m \in {n \in 1..Len(Pushes) : /\ Pushes[n] = "file"
                                              /\ \A i \in 1..Len(mainline) : mainline[i] < n} : k <= m
      <4>1. ASSUME NEW D, NEW M, NEW N, D = Pushes, M = mainline, N = mainline'
            PROVE  /\ N = Append(M, k)
                   /\ k \in {n \in 1..Len(D) : D[n] = "file" /\ \A i \in 1..Len(M) : M[i] < n}
                   /\ \A m \in {n \in 1..Len(D) : /\ D[n] = "file"
                                                   /\ \A i \in 1..Len(M) : M[i] < n} : k <= m
        <5>1. D \in [1..Len(pushed) -> {"file"}]
          BY <3>2, <4>1
        <5>2. M \in [1..(k - 1) -> Nat] /\ \A i \in 1..(k - 1) : M[i] = i
          BY <3>1, <4>1
        <5>3. N \in [1..k -> Nat] /\ \A i \in 1..k : N[i] = i
          BY <2>3, <4>1
        <5>4. k \in 1..Len(pushed) /\ Len(pushed) \in Nat
          BY <1>1, <2>2
        <5> QED
          BY <5>1, <5>2, <5>3, <5>4, Replicates
      <4> QED
        BY <4>1
    <3>4. R!Unmirrored = {n \in 1..Len(Pushes) : /\ Pushes[n] = "file"
                                                 /\ \A i \in 1..Len(mainline) : mainline[i] < n}
      BY DEF R!Unmirrored, Pushes, mainline
    <3>5. UNCHANGED <<Pushes, published>>
      BY <1>5, <2>1
    <3>6. R!Replicate
      BY <3>3, <3>4, <3>5 DEF R!Replicate, Pushes, mainline, published
    <3> QED
      BY <3>6 DEF R!MirrorNext
  <2> QED
    BY <2>2, <2>4, <2>5
<1>9. CASE UpdateLastProcessed
  <2>1. UNCHANGED <<pushed, depot>>
    BY <1>9 DEF UpdateLastProcessed
  <2>2. PICK k \in 0..MaxDev : /\ Submitted(depot, k) /\ Upto(lastReverse', k)
                               /\ lastReverse' \in Commit /\ Ordered(lastReverse')
    BY <1>9, AdvanceCounts
  <2>3. mainline = [i \in 1..k |-> i]
    BY <1>2, <2>2, MainlineIs
  <2>4. DevelopersOf(lastReverse') = [i \in 1..k |-> i]
    BY <2>2, DevelopersIs
  <2>5. published' = mainline
    BY <2>3, <2>4
  <2>6. UNCHANGED <<Pushes, mainline>>
    BY <2>1 DEF Pushes, Origin, FromUser
  <2>7. R!Publish
    BY <2>5, <2>6 DEF R!Publish, Pushes
  <2> QED
    BY <2>7 DEF R!MirrorNext
<1>10. CASE Turns \/ Fetches \/ Publishes \/ Lists
  BY <1>4, <1>10 DEF Turns, Fetches, Publishes, Lists
<1>11. CASE BuildCommit \/ RecordReverse
  BY <1>4, <1>11 DEF BuildCommit, RecordReverse
<1> QED
  BY <1>1, <1>6, <1>7, <1>8, <1>9, <1>10, <1>11, StepKinds DEF Kinds

\* When the service is installed no developer has pushed.
LEMMA MirrorInit ==
    Init => MirrorInv /\ R!MirrorInit
<1> SUFFICES ASSUME Init PROVE MirrorInv /\ R!MirrorInit
    OBVIOUS
<1>1. ReverseInv /\ CoveredInv /\ TypeOK
  BY ReverseInit, CoveredInit DEF ReverseInv, IInv
<1>2. /\ pushed = <<>> /\ Len(pushed) = 0 /\ lastReverse = <<>> /\ newCommits = {} /\ pc = "down"
      /\ \A n \in 1..Len(depot) : depot[n].git = 0
      /\ \A c \in {origin, main} : \A i \in 1..Len(c) : c[i][1] = "p4"
  <2>1. CASE Imported
    <3>1. PICK f \in Files : depot = <<[file |-> f, git |-> 0]>>
      BY <2>1 DEF Init
    <3>2. /\ \A n \in 1..Len(depot) : depot[n].git = 0
      BY <3>1
    <3>3. origin = <<<<"p4", 1>>>> /\ main = origin
      BY <2>1 DEF Init
    <3>4. \A c \in {origin, main} : \A i \in 1..Len(c) : c[i][1] = "p4"
      BY <3>3
    <3> QED
      BY <3>2, <3>4 DEF Init, NoCommit
  <2>2. CASE ~Imported
    BY <2>2 DEF Init, NoCommit
  <2> QED
    BY <2>1, <2>2
<1>3. \A n \in CL : commitSha[n] \in {origin, NoCommit}
  BY DEF Init
<1>4. Ordered(origin) /\ Ordered(main) /\ Ordered(NoCommit)
  BY <1>2 DEF Ordered, NoCommit
<1>5. OrderInv
  <2>1. \A n \in CL : Ordered(commitSha[n])
    BY <1>3, <1>4
  <2> QED
    BY <1>2, <1>4, <2>1 DEF OrderInv
<1>6. Markers = {}
  BY <1>2 DEF Markers, FromUser
<1>7. /\ Changes \in Commit /\ Len(Changes) = Len(depot)
      /\ \A n \in 1..Len(depot) : Changes[n] = <<"p4", n>>
  <2>1. depot \in Seq([file : Files, git : 0..MaxDev]) /\ Len(depot) <= MaxCL
    BY <1>1 DEF TypeOK
  <2> QED
    BY <1>2, <2>1, ChangesIs, ChangesFacts
<1>8. \A n \in 1..Len(Changes) : Changes[n][1] = "p4"
  BY <1>7
<1>9. Ordered(Changes)
  BY <1>8 DEF Ordered
<1>10. DepotInv
  BY <1>2, <1>6, <1>9 DEF DepotInv
<1>11. MirrorInv
  BY <1>1, <1>5, <1>10 DEF MirrorInv
<1>12. DevelopersOf(Changes) = <<>>
  <2>1. Submitted(depot, 0)
    BY <1>2, BoundsAreNat DEF Submitted
  <2>2. DevelopersOf(Changes) = [k \in 1..0 |-> k]
    BY <1>11, <2>1, MainlineIs
  <2> QED
    BY <2>2
<1>13. DevelopersOf(lastReverse) = <<>>
  <2>1. lastReverse \in Commit /\ Len(lastReverse) = 0
    BY <1>1, <1>2 DEF TypeOK
  <2>2. Ordered(lastReverse) /\ Upto(lastReverse, 0)
    BY <2>1, BoundsAreNat DEF Ordered, Upto, Dev
  <2>3. DevelopersOf(lastReverse) = [k \in 1..0 |-> k]
    BY <2>1, <2>2, DevelopersIs
  <2> QED
    BY <2>3
<1>14. Pushes = <<>>
  BY <1>2 DEF Pushes
<1>15. R!MirrorInit
  BY <1>12, <1>13, <1>14 DEF R!MirrorInit, Changes, Pushes
<1> QED
  BY <1>11, <1>15

\* As long as the log query lists what is behind the checkpoint, the reverse
\* direction implements the mirror: commits reach P4 in the order in which they
\* were pushed, none is left out, and the checkpoint is what was submitted.
THEOREM ReverseRefinement == Spec /\ []BacklogFits => ReverseImplementsMirror
<1>1. Init => MirrorInv /\ R!MirrorInit
  BY MirrorInit
<1>2. MirrorInv /\ ReverseInv' /\ BacklogFits /\ [Next]_vars => MirrorInv'
  <2> SUFFICES ASSUME MirrorInv, ReverseInv', BacklogFits, [Next]_vars PROVE MirrorInv'
      OBVIOUS
  <2>1. /\ ReverseInv /\ CoveredInv /\ OrderInv /\ IInv /\ IInv' /\ tracking \in Commit
        /\ origin \in Commit /\ IsPrefix(tracking, origin) /\ Ordered(origin)
    BY DEF MirrorInv, ReverseInv, IInv, TypeOK, FetchedInv, OrderInv
  <2>2. Ordered(tracking)
    BY <2>1, OrderedPrefix
  <2>3. CoveredInv' /\ OrderInv'
    BY <2>1, <2>2, CoveredNext, OrderNext
  <2>4. DepotInv'
    BY <2>3, DepotNext
  <2> QED
    BY <2>3, <2>4 DEF MirrorInv
<1>3. MirrorInv /\ MirrorInv' /\ [Next]_vars => [R!MirrorNext]_R!mirrorVars
  BY MirrorStep
<1> QED
  BY <1>1, <1>2, <1>3, ReverseInductive, PTL DEF Spec, ReverseImplementsMirror, R!MirrorSpec
=============================================================================
