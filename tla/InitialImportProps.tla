-------------------------- MODULE InitialImportProps --------------------------
(***************************************************************************)
(* What the import of a history promises.                                  *)
(***************************************************************************)
EXTENDS InitialImport

Real(m, n) == {k \in CL \ skipped : m < k /\ k <= n}

(***************************************************************************)
(* What goes to fast-import is the history in order: with any interleaving    *)
(* of the workers, the dispatcher, a full queue and failures, no changelist   *)
(* of the running process is out of order, missing or there twice, and nothing *)
(* follows one of which only a part was written.                            *)
(***************************************************************************)
Whole == {j \in DOMAIN session : session[j] > 0}

WrittenInOrder ==
    /\ \A j, k \in DOMAIN session : j < k => j \in Whole
    /\ \A j, k \in Whole : j < k => session[j] < session[k]
    /\ Whole # {} => {session[j] : j \in Whole} = Real(session[1] - 1, lastWritten)

(***************************************************************************)
(* The checkpoint claims nothing that was not imported: every changelist up   *)
(* to it that has files has a finished commit, through failed extractions,      *)
(* partly written changelists, kills between fast-import and the database;     *)
(* except those that went down with a fast-import (see NothingLost).         *)
(***************************************************************************)
NothingPassedOver == Real(0, lastCl) \subseteq objects \cup lost

(***************************************************************************)
(* The import always gets to its end: no thread waits for another for ever,   *)
(* and a run resumed after a failure or a kill imports what is left.         *)
(***************************************************************************)
EverythingImported ==
    \A n \in CL : <>(n \in objects \cup skipped \/ n \in lost \cap (1..lastCl))

(***************************************************************************)
(* initial_importer.py:100 "import of the whole history", and                *)
(* Documents/05-Sync-Mechanism.md:289 "goes on from the last checkpoint":     *)
(* the recorded commit has all the changelists up to the checkpoint in its     *)
(* history.                                                                *)
(***************************************************************************)
HistoryComplete == Real(0, lastCl) \subseteq ToSet(lastSha)

(***************************************************************************)
(* errors.py:9 "leaving files out silently makes the Git tree differ from P4": *)
(* a changelist whose files could not all be extracted is not imported; and    *)
(* initial_importer.py:213, "fast-import checkpoint failed, state not recorded". *)
(***************************************************************************)
NothingLost == (lossy \cup (lost \ objects)) \cap (1..lastCl) = {}

(***************************************************************************)
(* A synchronisation that starts where the import ended finds the parent of its *)
(* first commit: the checkpoint has a row.  A kill between the two writes        *)
(* leaves it without one.                                                      *)
(***************************************************************************)
CheckpointHasRow == pc = "off" => lastCl \in rows \cup {0}

-----------------------------------------------------------------------------
(* What the proofs need besides.                                           *)

\* The queue has what is enqueued and not taken, in order, and then the sentinel.
QueueInv ==
    /\ i <= enqueued /\ enqueued <= Total
    /\ Len(queue) = enqueued - i + (IF dispatcher = "gone" THEN 1 ELSE 0)
    /\ \A j \in 1..(enqueued - i) : queue[j] = start + i + j
    /\ dispatcher = "gone" => queue[enqueued - i + 1] = Sentinel

\* Up to where this run has written; every real changelist it has taken is
\* written, except the one in work.
Upto == IF lastWritten = 0 THEN start ELSE lastWritten

MainInv ==
    /\ start <= Upto /\ Upto <= start + i
    /\ pc \in {"get", "record", "map"} => Real(Upto, start + i) = {}
    /\ pc = "write" => /\ item = start + i /\ item \in CL \ skipped
                       /\ Real(Upto, item) = {item}
    /\ pc \in {"checkpoint", "record", "map"} => lastWritten = start + i /\ lastWritten > 0
    /\ pc \in {"record", "map", "recordfinal", "mapfinal"} => session = <<>>
    /\ pc \in {"map", "mapfinal"} => lastCl = lastWritten /\ lastWritten > 0
    /\ pc \in {"get", "write", "checkpoint"} => \A j \in DOMAIN session : session[j] > 0

\* What was written is finished, lost or in the running process.
WrittenInv ==
    /\ Real(0, start) \subseteq objects \cup lost
    /\ Real(start, Upto) \subseteq objects \cup lost \cup ToSet(session)

IInv ==
    /\ TypeOK /\ WrittenInOrder /\ NothingPassedOver
    /\ IF pc = "off" THEN session = <<>> ELSE QueueInv /\ MainInv /\ WrittenInv
=============================================================================
