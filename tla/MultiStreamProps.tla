--------------------------- MODULE MultiStreamProps ---------------------------
(***************************************************************************)
(* What the sync of several streams promises.                              *)
(***************************************************************************)
EXTENDS MultiStream

(***************************************************************************)
(* No changelist of a registered stream is passed over, though one queue     *)
(* holds those of all streams and is cut at every failure: up to the          *)
(* checkpoint of its stream every one has its commit.                        *)
(***************************************************************************)
NothingPassedOver ==
    \A s \in registered : \A n \in ChangesOf(s) : n <= lastCl[s] => row[n] # NoCommit

(***************************************************************************)
(* The branch of a stream keeps every commit recorded for it, with either    *)
(* backend, and whatever the watcher and a restart do to branches.  A git      *)
(* update-ref that fails unnoticed leaves the branch without the commit, but   *)
(* no longer than until the next one succeeds, which brings all of them.       *)
(***************************************************************************)
RecordedCommitsKept ==
    \A n \in DOMAIN depot :
        depot[n].stream \notin behind => IsPrefix(row[n], branch[depot[n].stream])

(***************************************************************************)
(* Plans/P4GitSync/Phase2-BranchAndMerge.md:81-83: the order across streams  *)
(* is there for merges.  A commit on top of others whose newest source had     *)
(* been submitted on a registered stream when the round began its queries     *)
(* gets that source as its second parent, unless P4 fails in between.         *)
(***************************************************************************)
Source(n) == IF depot[n].sources = {} THEN None ELSE Latest(depot[n].sources)
SourceKnown(n) ==
    /\ Source(n) \in 1..begun
    /\ depot[Source(n)].stream \in registered
    /\ lastCl[depot[n].stream] # None
MergesHaveTheirSource ==
    [][\A n \in CL :
          row'[n] # row[n] /\ SourceKnown(n) => second'[n] = Source(n) \/ faults' # faults]_vars

\* Why changelist n is not synced: startup refuses the branch of Main, or an event
\* with no larger number fails in every round: libgit2 has the branch elsewhere, the
\* CLI backend has no tree for a file in a directory, or the parent has no commit.
Stuck(n) ==
    \/ pc = "down" /\ branch[Main] # LastCommit(Main)
    \/ \E s \in registered :
          \/ /\ backend = "pygit2" /\ branch[s] # LastCommit(s)
             /\ \E m \in ChangesOf(s) : lastCl[s] < m /\ m <= n
          \/ /\ backend = "cli"
             /\ \E m \in ChangesOf(s) :
                   /\ lastCl[s] < m /\ m <= n
                   /\ m \in nested \/ Range(LastCommit(s)) \cap nested # {}
          \/ /\ lastCl[s] = None /\ parent[s] # NoParent
             /\ LastCommit(parent[s]) = NoCommit /\ pointCl[s] <= n

Submitted(n) == n <= Len(depot) /\ depot[n].stream \in registered

(***************************************************************************)
(* Every changelist of a registered stream is synced, through failures and    *)
(* restarts, unless it stays stuck for a reason that only an operator can      *)
(* remove.                                                                 *)
(***************************************************************************)
SyncedUnlessStuck ==
    \A n \in CL : (Submitted(n) ~> row[n] # NoCommit) \/ <>[]Stuck(n)

(***************************************************************************)
(* Documents/05-Sync-Mechanism.md:199-202: a new stream's branch is created   *)
(* at its branch point, then its changelists are committed.                  *)
(***************************************************************************)
EveryStreamSynced == \A n \in CL : Submitted(n) ~> row[n] # NoCommit

-----------------------------------------------------------------------------
(* What the proofs need besides.                                           *)

\* A changelist integrates from older ones.
SourcesAreOlder ==
    /\ Len(depot) >= 2
    /\ \A n \in DOMAIN depot : depot[n].sources \subseteq 1..(n - 1)

\* Streams to register have a parent, streams to query are registered.
TodoInv ==
    /\ pc = "watch" => \A s \in todo : parent[s] # NoParent
    /\ pc = "collect" => todo \subseteq registered

\* n is the first changelist of the stream after the checkpoint.
IsNextOf(s, n) == \A m \in ChangesOf(s) : lastCl[s] < m => n <= m

\* The commits up to the checkpoint are on the chain of the last; a kill may have
\* recorded one more, that of the next changelist, on top of it.
Chained(s) ==
    \A n \in ChangesOf(s) :
        /\ n <= lastCl[s] => IsPrefix(row[n], LastCommit(s))
        /\ n > lastCl[s] /\ row[n] # NoCommit
              => IsNextOf(s, n) /\ row[n] = Append(LastCommit(s), n)

RowsInv ==
    /\ \A s \in Stream :
          /\ lastCl[s] \in ChangesOf(s) \cup {None}
          /\ s \notin registered => lastCl[s] = None
          /\ Chained(s)
    /\ \A n \in CL \ DOMAIN depot : row[n] = NoCommit

\* The event of a changelist, and whether it has to come.
EventOf(n) == [cl |-> n, priority |-> 1, stream |-> depot[n].stream]
Due(n) == depot[n].stream \in registered /\ n > lastCl[depot[n].stream]

\* An event is due, and before it come all the older ones of its stream, and of
\* every stream if they were there when the queries began.
EventsInv ==
    /\ begun <= Len(depot)
    /\ \A e \in events :
          /\ e.stream \in registered
          /\ e.priority = 0 => parent[e.stream] # NoParent
          /\ e.priority = 1 => e.cl \in ChangesOf(e.stream) /\ Due(e.cl)
    /\ \A e \in events : \A n \in ChangesOf(e.stream) :
          e.priority = 1 /\ n < e.cl /\ Due(n) => EventOf(n) \in events
    /\ pc = "collect" =>
          \A n \in 1..begun : depot[n].stream \notin todo /\ Due(n) => EventOf(n) \in events
    /\ pc = "process" =>
          \A e \in events : \A n \in 1..begun : n < e.cl /\ Due(n) => EventOf(n) \in events

IInv ==
    /\ TypeOK /\ SourcesAreOlder /\ TodoInv /\ RowsInv /\ EventsInv
    /\ NothingPassedOver /\ RecordedCommitsKept
=============================================================================
