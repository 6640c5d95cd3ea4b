--------------------------- MODULE OperationsProps ---------------------------
(***************************************************************************)
(* What must hold while operators repair, replay and cut over.              *)
(***************************************************************************)
EXTENDS Operations

\* The branch has the changelists up to n, but for those that were left out by a
\* resync that began beyond the checkpoint, or by work on a repository that nobody
\* had compared.
Has(n) == (1..n) \ skipped \subseteq ToSet(main)

(***************************************************************************)
(* A cutover beside a running service is complete: when it comes to its final  *)
(* push, every changelist that was there when it asked P4 is on the branch,    *)
(* whatever the service, an earlier repair or a restored database did.  Only    *)
(* what a resync was told to leave out may be missing, or what a repository      *)
(* lacks that was cloned anew since the service compared it, or that it did not  *)
(* compare because stream_registry does not know the stream.                  *)
(***************************************************************************)
CutoverIsComplete == step = "finalpush" /\ pc # "down" /\ ~unchecked => Has(listed)

(***************************************************************************)
(* The service never works with a checkpoint that is ahead of the branch it    *)
(* has compared: with a repository cloned anew, a database lost, restored or      *)
(* rebuilt, it refuses to start or does not leave out a changelist.            *)
(***************************************************************************)
CheckpointIsBehind == pc # "down" /\ ~unchecked => Has(db.lastCl)

(***************************************************************************)
(* Documents/03-CLI-Usage.md:247, "total_lag=0": a cutover that reports success  *)
(* has every changelist in the remote, with or without a service.            *)
(***************************************************************************)
CutoverAloneIsComplete == outcome = "completed" => 1..listed \subseteq ToSet(origin)

\* A difference goes unnoticed while there is nothing to sync, and a repository
\* without a commit is never noticed.
Unnoticed == unchecked /\ (main = NoCommit \/ db.lastCl = submitted)

(***************************************************************************)
(* Documents/06-Operations-Guide.md:141-174: a rebuild of the database repairs *)
(* what makes the service refuse to start or to go on, a repository cloned      *)
(* beside it included: in the end the branch holds every changelist that was    *)
(* not left out, the checkpoint is there, and the newest is at the tip unless   *)
(* a command died on a commit that nobody has noticed yet (the next changelist  *)
(* will be refused).                                                       *)
(***************************************************************************)
RepairWorks ==
    <>[](db.registered /\ submitted > 0 /\ ~Unnoticed =>
            /\ Has(submitted)
            /\ db.lastCl = submitted
            /\ main = ParentSha => main[Len(main)] = submitted)

(***************************************************************************)
(* Documents/03-CLI-Usage.md:161-162 runs resync in the container of the       *)
(* service: a command ends without the record of a commit it has made only     *)
(* when somebody kills it.                                                   *)
(***************************************************************************)
CommandsAreRecorded ==
    [][step = "record" /\ step' = "none" => events' # events]_vars

-----------------------------------------------------------------------------
(* What the proofs need besides.                                           *)

\* What the type invariant needs.
TypeInv ==
    /\ TypeOK
    /\ pc \in {"build", "record", "advance", "push"} => cur \in 1..last
    /\ step \in {"build", "record", "advance"} => at \in 1..to
    /\ step = "write" => history # NoCommit

\* A commit has, before each of its changelists, all the older ones but for some.
WholeBut(c, some) ==
    \A k \in 1..Len(c) : (1..c[k]) \ some \subseteq {c[j] : j \in 1..k}
Whole(c) == WholeBut(c, skipped)

\* The rows and the checkpoint of a database are of such commits.
GoodBut(d, some) ==
    /\ \A n \in CL : d.row[n] # NoCommit => WholeBut(d.row[n], some) /\ n \in ToSet(d.row[n])
    /\ WholeBut(d.lastSha, some)
    /\ d.lastCl > 0 => d.lastCl \in ToSet(d.lastSha)
GoodDB(d) == GoodBut(d, skipped)

\* With an empty branch that was never cloned nothing is recorded or to be recorded.
EmptyInv ==
    main = NoCommit /\ ~unchecked =>
        /\ origin = NoCommit /\ sha = NoCommit /\ csha = NoCommit
        /\ db.lastCl = 0 /\ backup.lastCl = 0

\* The service commits the next changelist to a branch that has the older ones.
ServiceInv ==
    /\ pc # "down" /\ ~unchecked => Has(db.lastCl)
    /\ pc = "build" /\ ~unchecked => Has(cur - 1)
    /\ pc \in {"record", "advance", "push"} /\ ~unchecked => Has(cur)
    /\ pc \in {"record", "advance"} => cur \in ToSet(sha)

\* So does a command, unless it is about to see that the branch is behind the
\* checkpoint.
Behind(n) == pc = "down" /\ n <= db.lastCl

CommandInv ==
    /\ step \in {"build", "record", "advance"} => cmd \in {"resync", "cutover"}
    /\ step \in {"record", "advance"} => at \in ToSet(csha)
    /\ step \in {"build", "record", "advance", "push", "mark"} /\ cmd = "cutover" => to = listed
    /\ step \in {"push", "mark", "check", "verify", "finalpush"} => cmd = "cutover"
    /\ cmd = "none" <=> step = "none"

\* What holds of the branch while it is known to be the one that was compared.
BranchInv ==
    ~unchecked =>
        /\ step = "build" /\ cmd = "cutover" => Has(at - 1) \/ Behind(at - 1)
        /\ step \in {"record", "advance"} => Has(at)
        /\ step \in {"push", "mark"} => Has(listed)
        /\ step \in {"check", "verify", "finalpush"} => Has(listed) \/ Behind(listed)
        /\ step = "write" => ToSet(history) \subseteq ToSet(main)

IInv ==
    /\ TypeInv
    /\ Whole(main) /\ Whole(origin) /\ Whole(sha) /\ Whole(csha) /\ Whole(history)
    /\ GoodDB(db) /\ GoodDB(backup)
    /\ EmptyInv /\ ServiceInv /\ CommandInv /\ BranchInv
=============================================================================
