------------------------------- MODULE Mirror -------------------------------
(***************************************************************************)
(* What P4GitSync promises of one P4 stream and one Git branch, with no     *)
(* process, database or crash in sight.                                    *)
(*                                                                         *)
(* A submitted changelist is known by its number, its position in depot;    *)
(* depot[n] is its kind.  A Git commit is written as the sequence of the    *)
(* changelists on its first-parent chain: two commits are equal exactly     *)
(* when their sequences are, one is an ancestor of the other exactly when   *)
(* it is a prefix, and <<>> is the branch that has no commit.               *)
(***************************************************************************)
EXTENDS Naturals, Sequences

CONSTANTS MaxCL,       \* how many changelists are submitted at most
          ClKinds,     \* the kinds of changelists users submit
          CommitKinds  \* those that have files of this stream

VARIABLES depot,      \* the submitted changelists, oldest first
          mainline,   \* the commit the branch points to
          published   \* the commit the branch points to in the remote

mirrorVars == <<depot, mainline, published>>

MirrorInit ==
    /\ depot = <<>>
    /\ mainline = <<>>
    /\ published = <<>>

\* The changelists with files of this stream that are later than every
\* mirrored one.
Unmirrored ==
    {n \in 1..Len(depot) : /\ depot[n] \in CommitKinds
                           /\ \A i \in 1..Len(mainline) : mainline[i] < n}

SubmitChange(kind) ==
    /\ Len(depot) < MaxCL
    /\ depot' = Append(depot, kind)
    /\ UNCHANGED <<mainline, published>>

\* The oldest unmirrored changelist becomes one commit on top of the branch.
Replicate ==
    /\ \E n \in Unmirrored : /\ \A m \in Unmirrored : n <= m
                             /\ mainline' = Append(mainline, n)
    /\ UNCHANGED <<depot, published>>

\* The remote catches up with the branch.
Publish ==
    /\ published' = mainline
    /\ UNCHANGED <<depot, mainline>>

MirrorNext ==
    \/ \E kind \in ClKinds : SubmitChange(kind)
    \/ Replicate
    \/ Publish

MirrorSpec == MirrorInit /\ [][MirrorNext]_mirrorVars
=============================================================================
