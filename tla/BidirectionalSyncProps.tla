------------------------ MODULE BidirectionalSyncProps ------------------------
(***************************************************************************)
(* What must hold between P4 and Git when both sides are written to.        *)
(***************************************************************************)
EXTENDS BidirectionalSync

\* Whose change an entry of a branch really is.
Origin(e) ==
    IF e[1] = "p4" /\ ~FromUser(e[2]) THEN <<"dev", depot[e[2]].git>> ELSE e

(***************************************************************************)
(* README.md:303-306, loop prevention: whatever travels to the other side   *)
(* does not come back.  No branch holds a commit made of a changelist that  *)
(* the reverse sync submitted, or the same change twice.                    *)
(***************************************************************************)
NoEcho ==
    \A b \in {main, origin} :
        /\ \A i \in 1..Len(b) : b[i][1] = "p4" => FromUser(b[i][2])
        /\ \A i, j \in 1..Len(b) : i # j => b[i] # b[j]

Markers == {n \in 1..Len(depot) : ~FromUser(n)}

(***************************************************************************)
(* A developer's commit reaches P4 once.  Only a crash between submit and   *)
(* row, or the loss of the answer to a submit, leaves a changelist without  *)
(* a row and so repeats a commit; no commit ever gets two rows.             *)
(***************************************************************************)
RepeatsNeedAccidents ==
    /\ \A m, n \in Markers :
           /\ m # n /\ depot[m].git = depot[n].git
           => commitSha[m] = NoCommit \/ commitSha[n] = NoCommit
    /\ LET unrecorded == {n \in Markers : commitSha[n] = NoCommit}
           inWork == IF pc = "record" THEN 1 ELSE 0
       IN  Cardinality(unrecorded) <= accidents + inWork

(***************************************************************************)
(* The reverse checkpoint never runs ahead: every developer commit up to it *)
(* is in P4 and has its row.  What git log leaves out is never seen again,  *)
(* so a hole here is a commit lost for ever.                               *)
(***************************************************************************)
ReverseCheckpointBacked ==
    /\ IsPrefix(lastReverse, origin)
    /\ \A i \in 1..Len(lastReverse) :
           lastReverse[i][1] = "dev" =>
               \E n \in Markers : /\ depot[n].git = lastReverse[i][2]
                                  /\ commitSha[n] = SubSeq(lastReverse, 1, i)

(***************************************************************************)
(* A row of cl_commit_map joins a changelist and a commit that are the same *)
(* change, whichever direction wrote it and whoever submitted meanwhile.    *)
(***************************************************************************)
RowsJoinSameChange ==
    \A n \in CL :
        commitSha[n] # NoCommit =>
            /\ n \in 1..Len(depot)
            /\ Origin(<<"p4", n>>) = commitSha[n][Len(commitSha[n])]

(***************************************************************************)
(* The service never takes back what developers have pushed.                *)
(***************************************************************************)
RemoteOnlyGrows == [][IsPrefix(origin, origin')]_vars

(***************************************************************************)
(* README.md:312, a conflict stops the branch: as long as it is recorded,   *)
(* nothing is mirrored in either direction.                                *)
(***************************************************************************)
ConflictStopsBranch ==
    [][conflict # 0 =>
           /\ UNCHANGED <<main, lastCl, commitSha, lastReverse>>
           /\ \A n \in 1..Len(depot') : n > Len(depot) => depot'[n].git = 0]_vars

(***************************************************************************)
(* A conflict that is recorded is real: a developer commit that is not in   *)
(* P4 and a changelist that is not in Git touch the same file, and neither  *)
(* side has been overwritten while the conflict branch was made.            *)
(***************************************************************************)
ConflictIsOpen ==
    conflict # 0 =>
        \E n \in 1..Len(depot), i \in 1..Len(origin) :
            /\ FromUser(n) /\ n > lastCl /\ origin[i][1] = "dev"
            /\ depot[n].file = pushed[origin[i][2]]
            /\ ~\E m \in 1..Len(depot) : commitSha[m] = SubSeq(origin, 1, i)

-----------------------------------------------------------------------------
(***************************************************************************)
(* The reverse direction is a mirror with the roles exchanged: developers   *)
(* submit, the oldest commit that P4 does not have goes on top of the       *)
(* depot, and the reverse checkpoint catches up.  So commits reach P4 in the *)
(* order of their history, and one that fails holds back its descendants.   *)
(* A commit that an accident repeats (RepeatsNeedAccidents) counts once.     *)
(***************************************************************************)
DevelopersOf(changes) ==
    LET firsts == {i \in 1..Len(changes) : /\ changes[i][1] = "dev"
                                           /\ \A j \in 1..(i - 1) : changes[j] # changes[i]}
        place(i) == Cardinality({j \in firsts : j <= i})
    IN  [k \in 1..Cardinality(firsts) |-> changes[CHOOSE i \in firsts : place(i) = k][2]]

R == INSTANCE Mirror
     WITH MaxCL <- MaxDev,
          ClKinds <- {"file"}, CommitKinds <- {"file"},
          depot <- [k \in 1..Len(pushed) |-> "file"],
          mainline <- DevelopersOf([n \in 1..Len(depot) |-> Origin(<<"p4", n>>)]),
          published <- DevelopersOf(lastReverse)

ReverseImplementsMirror == R!MirrorSpec

-----------------------------------------------------------------------------
InP4(k) == \E n \in Markers : depot[n].git = k

\* The k-th commit of developers has no row, and P4 takes no changelist made of it: it
\* lists no file (a merge, the first commit of all, a name that git quotes), or the
\* newest revision of its file is a deletion, or it deletes what P4 never had.
CannotGo(k) ==
    \E i \in 1..Len(origin) :
        LET revisions == {n \in 1..Len(depot) : depot[n].file = pushed[k]}
        IN  /\ origin[i] = <<"dev", k>> /\ ~Recorded(SubSeq(origin, 1, i))
            /\ \/ i = 1 \/ pushed[k] \in Quoted \cup {NoFile}
               \/ \E n \in revisions : /\ \A m \in revisions : m <= n
                                       /\ ChangeOf(n) \in deleting
               \/ revisions = {} /\ <<"dev", k>> \in deleting

(***************************************************************************)
(* With the Git side leading, every commit a developer pushes gets to P4     *)
(* over crashes, lost answers and outages, unless it or one before it stays   *)
(* one that P4 cannot take (p4_submitter.py:100-116).                        *)
(***************************************************************************)
SubmittedUnlessRefused ==
    \A k \in Dev : (k <= Len(pushed) ~> InP4(k)) \/ <>[](\E j \in 1..k : CannotGo(j))

(***************************************************************************)
(* README.md:297-301: commits of developers are submitted to P4, all of them. *)
(***************************************************************************)
EventuallySubmitted == \A k \in Dev : k <= Len(pushed) ~> InP4(k)

(***************************************************************************)
(* README.md:301, bidirectional mirrors P4 to Git too: a changelist is      *)
(* synchronised in the end, unless a file is changed on both sides.         *)
(***************************************************************************)
ForwardContinues ==
    \A n \in CL : n <= Len(depot) ~> (lastCl >= n \/ Conflicting \/ conflict # 0)

(***************************************************************************)
(* README.md:316, deleting the conflict branch ends the conflict.           *)
(***************************************************************************)
ConflictEnds == conflict # 0 /\ conflict \notin conflictHeads ~> conflict = 0

(***************************************************************************)
(* README.md:312-314, a conflict for which a conflict branch has been made  *)
(* is recorded and announced, even if the process is killed in between.     *)
(***************************************************************************)
ConflictIsRecorded == conflictRefs # {} ~> conflict # 0

(***************************************************************************)
(* README.md:310-312, a file that is changed on both sides stops the branch: *)
(* a developer's commit is never submitted over a changelist to the same    *)
(* file that the service has taken over into its own branch already, but    *)
(* that the author of the commit has not seen.                              *)
(***************************************************************************)
NoUnseenOverwrite ==
    [][\A n \in (Len(depot) + 1)..Len(depot'), m \in 1..lastCl, i \in 1..Len(origin) :
           /\ depot'[n].git # 0 /\ origin[i] = <<"dev", depot'[n].git>>
           /\ FromUser(m) /\ depot[m].file = depot'[n].file
           => \E j \in 1..(i - 1) : origin[j] = <<"p4", m>>]_vars

(***************************************************************************)
(* git_change_detector.py:44, commits that are already synchronised are     *)
(* skipped: no commit is submitted twice.                                  *)
(***************************************************************************)
SubmittedOnce == \A m, n \in Markers : depot[m].git = depot[n].git => m = n

-----------------------------------------------------------------------------
(* What the proofs need besides: how the place in the loop, the batch and   *)
(* the commit in hand belong together.                                     *)

Reversing == pc \in {"submit", "record", "advance"}

PlaceInv ==
    /\ last <= Len(depot) /\ lastCl <= Len(depot)
    /\ ~Reversing => newCommits = {}
    /\ pc \in {"branch", "pushbranch", "recordconflict"} => primary # 0
    /\ \A i \in newCommits : FromDeveloper(i)
    /\ pc = "record" =>
           /\ submitted \in 1..Len(depot)
           /\ \A i \in newCommits : InHand(i) => depot[submitted].git = tracking[i][2]

\* The change of a developer, or of a user whose changelist is mirrored.
Known(e) ==
    \/ e[1] = "dev" /\ e[2] <= Len(pushed)
    \/ e[1] = "p4" /\ e[2] <= lastCl /\ FromUser(e[2])

\* A commit holds changes that are known, and none twice.
WellFormed(c) ==
    /\ \A i \in 1..Len(c) : Known(c[i])
    /\ \A i, j \in 1..Len(c) : i # j => c[i] # c[j]

BranchInv ==
    /\ WellFormed(origin) /\ WellFormed(tracking) /\ WellFormed(main)
    /\ \A n \in CL : WellFormed(commitSha[n])

\* The round in which a conflict is recorded is over.
ConflictRestsInv == conflict # 0 => pc \in {"down", "idle"}

\* The inductive invariant of the proofs.
IInv == TypeOK /\ PlaceInv /\ BranchInv /\ RowsJoinSameChange

-----------------------------------------------------------------------------
(* The same for the reverse direction: what is on the branch, what is in    *)
(* hand, and what has its row.                                             *)

\* What was fetched is on the remote, what is behind the checkpoint was fetched.
FetchedInv == IsPrefix(tracking, origin) /\ IsPrefix(lastReverse, tracking)

\* What is in hand still has no row, and the changelist that was submitted for
\* it has none either; rows of the reverse sync name commits of the remote.
InHandInv ==
    /\ \A i \in newCommits :
           Recorded(CommitAt(i)) => pc = "advance" /\ InHand(i)
    /\ pc = "record" => commitSha[submitted] = NoCommit
    /\ \A n \in Markers : commitSha[n] # NoCommit => IsPrefix(commitSha[n], origin)

\* The conflict that is being recorded is as open as a recorded one.
Handling == pc \in {"branch", "pushbranch", "recordconflict"}

Open ==
    \E n \in 1..Len(depot), i \in 1..Len(origin) :
        /\ FromUser(n) /\ n > lastCl /\ origin[i][1] = "dev"
        /\ depot[n].file = pushed[origin[i][2]]
        /\ ~Recorded(SubSeq(origin, 1, i))

ConflictInv == ConflictRestsInv /\ (conflict # 0 \/ Handling => Open)

\* The inductive invariant of the reverse direction.
ReverseInv == IInv /\ FetchedInv /\ InHandInv /\ ConflictInv

\* The log query lists every new commit behind the checkpoint: what it leaves out came
\* from P4 or has its row.
BacklogFits ==
    \A i \in 1..Len(tracking) : i > Len(lastReverse) /\ IsNew(i) => i > Len(tracking) - LogLimit

\* Behind the checkpoint every developer's commit has its row; of the commits
\* that were fetched, those that have none are in hand.
CoveredInv ==
    /\ \A i \in 1..Len(lastReverse) : FromDeveloper(i) => Recorded(CommitAt(i))
    /\ Reversing =>
           \A i \in 1..Len(tracking) :
               FromDeveloper(i) => i \in newCommits \/ Recorded(CommitAt(i))
    /\ pc = "advance" => \A i \in newCommits : InHand(i) => Recorded(CommitAt(i))

\* Every commit of a developer in the history of c has its row.
RowsUnder(c) == \A i \in 1..Len(c) : c[i][1] = "dev" => Recorded(SubSeq(c, 1, i))

\* The service puts changelists only on top of commits that have their rows, so the
\* commits that are new are the newest of the branch.
NewOnTopInv ==
    /\ RowsUnder(main) /\ \A n \in CL : RowsUnder(commitSha[n])
    /\ \A i, j \in 1..Len(origin) :
           i < j /\ origin[i][1] = "dev" /\ origin[j][1] = "p4"
           => Recorded(SubSeq(origin, 1, i))

\* The commits of developers come in the order of the pushes.
Ordered(c) ==
    \A i \in 1..Len(c) :
        c[i][1] = "dev" => \A k \in 1..(c[i][2] - 1) : \E j \in 1..(i - 1) : c[j] = <<"dev", k>>

OrderInv ==
    /\ Ordered(origin) /\ Ordered(main) /\ \A n \in CL : Ordered(commitSha[n])
    /\ \A k \in 1..Len(pushed) : \E i \in 1..Len(origin) : origin[i] = <<"dev", k>>

Changes == [n \in 1..Len(depot) |-> Origin(<<"p4", n>>)]

\* They come to P4 in this order too: whatever is before a commit that was
\* submitted has its row, and none behind the one in hand was submitted.
DepotInv ==
    /\ Ordered(Changes)
    /\ \A n \in Markers : depot[n].git <= Len(pushed)
    /\ \A n \in Markers, i \in 1..Len(origin) :
           origin[i][1] = "dev" /\ origin[i][2] < depot[n].git
           => Recorded(SubSeq(origin, 1, i))
    /\ pc \in {"record", "advance"} =>
           \A i \in newCommits : InHand(i) =>
               /\ \E n \in Markers : depot[n].git = tracking[i][2]
               /\ \A n \in Markers : depot[n].git <= tracking[i][2]

\* The inductive invariant of the mirror, as long as the backlog fits.
MirrorInv == ReverseInv /\ CoveredInv /\ OrderInv /\ DepotInv
=============================================================================
