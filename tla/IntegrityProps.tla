---------------------------- MODULE IntegrityProps ----------------------------
(***************************************************************************)
(* What the integrity check, the circuit breaker and the alerts promise.    *)
(***************************************************************************)
EXTENDS Integrity

\* P4 went back to a content of the file that an earlier changelist wrote.
RolledBack(f) == \E n \in Submitted : change[n].file = f /\ head[f] \in 1..(n - 1)

(***************************************************************************)
(* While the breaker stops the sync there is a reason to: some compared     *)
(* file still differs between P4 and Git, unless P4 users themselves took   *)
(* the difference away by a rollback.  The comparison read the two sides at  *)
(* different times, and P4 has moved on since; nothing the loop does may     *)
(* remove the difference behind the breaker's back.                        *)
(***************************************************************************)
OpenMeansDifference ==
    breaker = "open" => \E f \in Files \ Unlisted : tree[f] # head[f] \/ RolledBack(f)

(***************************************************************************)
(* A file that got another content in Git is noticed, unless a later change- *)
(* list replaces it first or P4 no longer has it (06-Operations-Guide.md:96,  *)
(* "every week, all files"): the daily samples do not put the weekly check  *)
(* off, and the monthly one, which restarts its timer, does so only once a   *)
(* month (integrity_checker.py:101-105).                                    *)
(***************************************************************************)
DamageIsNoticed ==
    \A f \in Files \ Unlisted :
        tree[f] = Damaged ~> (breaker = "open" \/ tree[f] # Damaged \/ head[f] = Absent)

(***************************************************************************)
(* The same of a blob that cannot be read and of a pointer that does not     *)
(* parse (integrity_checker.py:291-300).                                   *)
(***************************************************************************)
LossIsNoticed ==
    \A f \in Files \ Unlisted :
        tree[f] = Unreadable ~> (breaker = "open" \/ tree[f] # Unreadable \/ head[f] = Absent)

(***************************************************************************)
(* An open breaker is heard of: when Slack does not take the message of the  *)
(* first failed check, that of a later one gets through, or the breaker     *)
(* closes again.                                                           *)
(***************************************************************************)
OpenIsAnnounced == breaker = "open" ~> ("integrity:sync" \in heard \/ breaker = "closed")

SyncedContent(f) ==
    LET own == {n \in 1..lastCl : change[n].file = f}
    IN  IF own = {} THEN Absent
        ELSE change[CHOOSE n \in own : \A m \in own : m <= n].version

(***************************************************************************)
(* Plans/P4GitSync/Phase3-Production.md:642-645, the check compares with P4   *)
(* at the changelist that was synced last: changelists on their way do not    *)
(* count as a difference, and do not stop the sync that would bring them.    *)
(***************************************************************************)
ComparedAtSyncedCl ==
    breaker = "open" => \E f \in Files \ Unlisted : tree[f] # SyncedContent(f)

(***************************************************************************)
(* Documents/06-Operations-Guide.md:114, "OPEN -> CLOSED on the next check   *)
(* that passes (automatic recovery)", and Phase3-Production.md:631, where    *)
(* the check compares at the last synced changelist: without any damage the  *)
(* sync goes on.                                                           *)
(***************************************************************************)
SyncGoesOn == \A n \in Version : n \in Submitted ~> lastCl >= n

-----------------------------------------------------------------------------
(* What the proofs need besides.  What a changelist writes anew is a content  *)
(* that Git cannot have yet; a file is only found different while Git lists   *)
(* it, so that its removal from P4 leaves it different; the sync is not at     *)
(* work while files are compared.                                          *)

KnownContents ==
    /\ \A n \in Submitted : change[n].version <= n
    /\ \A f \in Files : head[f] < NextCl /\ tree[f] < NextCl

StaysDifferent(f) ==
    f \notin Unlisted /\ tree[f] # Absent /\ (tree[f] # head[f] \/ RolledBack(f))

ComparedInv ==
    /\ \A f \in todo : f \notin Unlisted /\ tree[f] # Absent
    /\ \A f \in differing : StaysDifferent(f)
    /\ pc # "compare" => todo = {} /\ differing = {}

OpenInv == breaker = "open" => \E f \in Files : StaysDifferent(f)

\* The inductive invariant of the proofs.
IInv == TypeOK /\ KnownContents /\ ComparedInv /\ OpenInv
=============================================================================
