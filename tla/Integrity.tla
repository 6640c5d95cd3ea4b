------------------------------ MODULE Integrity ------------------------------
(***************************************************************************)
(* The loop that watches itself: IntegrityChecker compares files of P4 and  *)
(* Git, IntegrityCircuitBreaker stops the forward sync while they differ,   *)
(* SilenceDetector notices that nothing is synced any more, SlackNotifier    *)
(* tells the team.  SyncMaintenanceRunner runs all of it before the sync of  *)
(* every round of the polling loop.                                        *)
(*                                                                         *)
(* A file content is the changelist that first wrote it.  Time counts in days.*)
(* The sync itself, here one step for each changelist, is ForwardSync.  The *)
(* service has no LFS store for its checker, so an LFS pointer is compared   *)
(* by size and content, like any other file.  Left out: the backup, the      *)
(* archive and the daily report of the maintenance.                        *)
(***************************************************************************)
EXTENDS Integers, FiniteSets

CONSTANTS
    Files,        \* the files of the stream
    Unlisted,     \* those never compared: ".x", or a name that ls-tree quotes
    HeadOnBranch, \* does HEAD of the repository name the mirrored branch?
    MaxCL,        \* bound: changelists ever submitted
    SampleCount,  \* daily_sample_count
    Week, Month,  \* days between two full and two random checks
    MaxFaults,    \* bound: calls of P4, Git or Slack that fail
    MaxDamage,    \* bound: files that go wrong in Git
    MaxRestarts   \* bound: restarts of the service

ASSUME IntegrityAssumption ==
    /\ IsFiniteSet(Files)
    /\ Unlisted \subseteq Files
    /\ HeadOnBranch \in BOOLEAN
    /\ MaxCL \in Nat
    /\ SampleCount \in Nat \ {0}
    /\ Week \in Nat /\ Month \in Nat /\ 1 < Week /\ Week < Month
    /\ MaxFaults \in Nat /\ MaxDamage \in Nat /\ MaxRestarts \in Nat

Absent == 0
Damaged == -1      \* a content P4 never had
Unreadable == -2   \* a blob git show cannot read, a pointer that does not parse
Version == 1..MaxCL
Schedule == {"daily", "weekly", "monthly"}
Period == [daily |-> 1, weekly |-> Week, monthly |-> Month]
Key == {"integrity:sync", "silence_alert"}

VARIABLES
    change,      \* P4: what each changelist did, [file, version] of the file after it
    head,        \* P4: the #head version of each file
    lastCl,      \* the changelist up to which Git is synced
    tree,        \* the version of each file on the mirrored branch
    pc,          \* where the loop is
    schedule,    \* the check in work
    todo,        \* files it has still to compare
    differing,   \* files found different: mismatched_files
    breaker,     \* IntegrityCircuitBreaker._state
    age,         \* days since the last daily, weekly and monthly check
    overdue,     \* has the silence threshold passed since the last sync?
    alerted,     \* SilenceDetector._alerted
    sent,        \* SlackNotifier._sent_alerts: keys of the last 24 hours
    heard,       \* keys posted since the breaker opened, or since the last sync
    faults, damages, restarts  \* how often each happened

p4Vars == <<change, head>>
syncVars == <<lastCl, tree>>
checkVars == <<schedule, todo, differing>>
silenceVars == <<overdue, alerted>>
slackVars == <<sent, heard>>
bounds == <<faults, damages, restarts>>
vars == <<p4Vars, syncVars, pc, checkVars, breaker, age, silenceVars, slackVars, bounds>>

TypeOK ==
    /\ \E n \in 0..MaxCL : change \in [1..n -> [file : Files, version : Version \cup {Absent}]]
    /\ head \in [Files -> Version \cup {Absent}]
    /\ lastCl \in 0..Cardinality(DOMAIN change)
    /\ tree \in [Files -> Version \cup {Absent, Damaged, Unreadable}]
    /\ pc \in {"idle", "compare", "notify", "sync"}
    /\ schedule \in Schedule \cup {"none"}
    /\ todo \subseteq Files /\ differing \subseteq Files
    /\ breaker \in {"closed", "open"}
    /\ age \in [Schedule -> 0..Month]
    /\ overdue \in BOOLEAN /\ alerted \in BOOLEAN
    /\ sent \subseteq Key /\ heard \subseteq Key
    /\ faults \in 0..MaxFaults /\ damages \in 0..MaxDamage /\ restarts \in 0..MaxRestarts

\* The timers start at 0.0, 1970: every check is due.
Init ==
    /\ change = <<>>
    /\ head = [f \in Files |-> Absent]
    /\ lastCl = 0
    /\ tree = head
    /\ pc = "idle"
    /\ schedule = "none" /\ todo = {} /\ differing = {}
    /\ breaker = "closed"
    /\ age = [s \in Schedule |-> Month]
    /\ overdue = FALSE /\ alerted = FALSE
    /\ sent = {} /\ heard = {}
    /\ faults = 0 /\ damages = 0 /\ restarts = 0

Submitted == DOMAIN change
NextCl == Cardinality(Submitted) + 1
Fault == faults < MaxFaults /\ faults' = faults + 1

-----------------------------------------------------------------------------
(* The environment.                                                        *)

\* What the file has been, to which P4 users may roll it back.
Earlier(f) == {change[n].version : n \in {m \in Submitted : change[m].file = f}}

\* A P4 user submits an edit of a file, deletes it, or rolls it back.
SubmitChange(f, version) ==
    /\ NextCl <= MaxCL
    /\ version # head[f]
    /\ change' = [n \in 1..NextCl |-> IF n = NextCl THEN [file |-> f, version |-> version]
                                                    ELSE change[n]]
    /\ head' = [head EXCEPT ![f] = version]
    /\ UNCHANGED <<syncVars, pc, checkVars, breaker, age, silenceVars, slackVars, bounds>>

\* What the check is there for: Git has a content P4 never had, or has lost it.
\* (During a check the blobs have been read: such damage is for the next one.)
Damage(f, content) ==
    /\ damages < MaxDamage
    /\ pc # "compare"
    /\ tree[f] \in Version
    /\ tree' = [tree EXCEPT ![f] = content]
    /\ damages' = damages + 1
    /\ UNCHANGED <<p4Vars, lastCl, pc, checkVars, breaker, age, silenceVars, slackVars,
                   faults, restarts>>

\* Everything but the repository and the checkpoint is in memory.
Restart ==
    /\ restarts < MaxRestarts
    /\ restarts' = restarts + 1
    /\ pc' = "idle"
    /\ schedule' = "none" /\ todo' = {} /\ differing' = {}
    /\ breaker' = "closed"
    /\ age' = [s \in Schedule |-> Month]
    /\ overdue' = FALSE /\ alerted' = FALSE
    /\ sent' = {} /\ heard' = {}
    /\ UNCHANGED <<p4Vars, syncVars, faults, damages>>

-----------------------------------------------------------------------------
(* SyncMaintenanceRunner.run and what it calls.                            *)

\* check_due_schedule
DueSchedule ==
    IF age["monthly"] >= Period["monthly"] THEN "monthly"
    ELSE IF age["weekly"] >= Period["weekly"] THEN "weekly"
    ELSE IF age["daily"] >= Period["daily"] THEN "daily"
    ELSE "none"

\* _list_git_files: ls-tree of HEAD, which init_repo leaves where git init puts it; a
\* HEAD on a branch without commits lists nothing.
ListedFiles == {f \in Files \ Unlisted : HeadOnBranch /\ tree[f] # Absent}

Smaller(m, n) == IF m < n THEN m ELSE n

\* verify_sample, verify_full, verify_random: how many of n files are compared.
SampleSizes(s, n) ==
    CASE s = "daily"   -> {Smaller(SampleCount, n)}
      [] s = "weekly"  -> {n}
      [] s = "monthly" -> {Smaller(IF k = 0 THEN 1 ELSE k, n) : k \in (n \div 10)..((3 * n) \div 10)}

\* The blobs of the sample are read here.  An ls-tree that fails is an empty
\* list, and an empty list passes.
BeginCheck ==
    /\ pc = "idle"
    /\ DueSchedule # "none"
    /\ schedule' = DueSchedule
    /\ \/ /\ \E n \in SampleSizes(DueSchedule, Cardinality(ListedFiles)) :
                todo' \in {s \in SUBSET ListedFiles : Cardinality(s) = n}
          /\ UNCHANGED faults
       \/ todo' = {} /\ Fault
    /\ differing' = {}
    /\ pc' = "compare"
    /\ UNCHANGED <<p4Vars, syncVars, breaker, age, silenceVars, slackVars, damages, restarts>>

NothingDue ==
    /\ pc = "idle"
    /\ DueSchedule = "none"
    /\ pc' = "notify"
    /\ UNCHANGED <<p4Vars, syncVars, checkVars, breaker, age, silenceVars, slackVars, bounds>>

\* decide_normal, decide_lfs and decide_lfs_content; nothing is decided about a
\* file that is gone from P4 or cannot be read in Git.
Differs(f) == head[f] # Absent /\ tree[f] \notin {head[f], Unreadable}

\* _verify_slice for one file, an LFS pointer included: a file that P4 does not
\* print for a failure is left out of the comparison too.
CompareFile(f) ==
    /\ pc = "compare"
    /\ f \in todo
    /\ todo' = todo \ {f}
    /\ \/ /\ differing' = IF Differs(f) THEN differing \cup {f} ELSE differing
          /\ UNCHANGED faults
       \/ UNCHANGED differing /\ Fault
    /\ UNCHANGED <<p4Vars, syncVars, pc, schedule, breaker, age, silenceVars, slackVars,
                   damages, restarts>>

\* The check raises: no timer moves, so the same check is due again.
CheckRaises ==
    /\ pc = "compare"
    /\ Fault
    /\ pc' = "notify"
    /\ schedule' = "none" /\ todo' = {} /\ differing' = {}
    /\ UNCHANGED <<p4Vars, syncVars, breaker, age, silenceVars, slackVars, damages, restarts>>

\* SlackNotifier._send_to_channel: a key is posted once in 24 hours, and a post
\* that raises is forgotten; one that Slack refuses does not raise.
SendToChannel(key) ==
    \/ key \in sent /\ UNCHANGED <<sent, heard, faults>>
    \/ key \notin sent /\ sent' = sent \cup {key} /\ heard' = heard \cup {key}
                       /\ UNCHANGED faults
    \/ key \notin sent /\ sent' \in {sent, sent \cup {key}} /\ Fault /\ UNCHANGED heard

\* Wrong: a daily check would count as the weekly one.
DailyRestartsAll(s) == [t \in Schedule |-> 0]

\* run_scheduled_check: the timers that a check restarts.
TimersAfter(s) ==
    [t \in Schedule |-> IF Period[t] <= Period[s] THEN 0 ELSE age[t]]

\* IntegrityCircuitBreaker.run_check
CheckPasses ==
    /\ pc = "compare" /\ todo = {} /\ differing = {}
    /\ age' = TimersAfter(schedule)
    /\ breaker' = "closed"
    /\ heard' = heard \ {"integrity:sync"}
    /\ pc' = "notify"
    /\ schedule' = "none"
    /\ UNCHANGED <<p4Vars, syncVars, todo, differing, silenceVars, sent, bounds>>

\* Wrong: the breaker would speak only when it opens.
TripQuietly ==
    /\ pc = "compare" /\ todo = {} /\ differing # {}
    /\ age' = TimersAfter(schedule)
    /\ breaker' = "open"
    /\ IF breaker = "closed" THEN SendToChannel("integrity:sync")
                             ELSE UNCHANGED <<sent, heard, faults>>
    /\ pc' = "notify"
    /\ schedule' = "none" /\ differing' = {}
    /\ UNCHANGED <<p4Vars, syncVars, todo, silenceVars, damages, restarts>>

\* IntegrityCircuitBreaker._trip
Trip ==
    /\ pc = "compare" /\ todo = {} /\ differing # {}
    /\ age' = TimersAfter(schedule)
    /\ breaker' = "open"
    /\ SendToChannel("integrity:sync")
    /\ pc' = "notify"
    /\ schedule' = "none" /\ differing' = {}
    /\ UNCHANGED <<p4Vars, syncVars, todo, silenceVars, damages, restarts>>

\* SilenceDetector.check; P4 that cannot be asked counts as inactive.
Silent == overdue /\ ~alerted /\ lastCl < Cardinality(Submitted)

SilenceAlert ==
    /\ pc = "notify"
    /\ Silent
    /\ alerted' = TRUE
    /\ SendToChannel("silence_alert")
    /\ pc' = "sync"
    /\ UNCHANGED <<p4Vars, syncVars, checkVars, breaker, age, overdue, damages, restarts>>

NoSilence ==
    /\ pc = "notify"
    /\ \/ ~Silent /\ UNCHANGED faults
       \/ Silent /\ Fault
    /\ pc' = "sync"
    /\ UNCHANGED <<p4Vars, syncVars, checkVars, breaker, age, silenceVars, slackVars,
                   damages, restarts>>

-----------------------------------------------------------------------------
(* The forward sync of the round.                                          *)

\* Wrong: the sync would go on while the breaker is open.
SyncRegardless ==
    /\ pc = "sync"
    /\ lastCl < Cardinality(Submitted)
    /\ lastCl' = lastCl + 1
    /\ tree' = [tree EXCEPT ![change[lastCl + 1].file] = change[lastCl + 1].version]
    /\ overdue' = FALSE /\ alerted' = FALSE
    /\ heard' = heard \ {"silence_alert"}
    /\ UNCHANGED <<p4Vars, pc, checkVars, breaker, age, sent, bounds>>

\* Wrong: the checkpoint would pass over the changelist behind.
SyncTooFar ==
    /\ pc = "sync"
    /\ breaker = "closed"
    /\ lastCl < Cardinality(Submitted)
    /\ lastCl' = lastCl + 2
    /\ tree' = [tree EXCEPT ![change[lastCl + 1].file] = change[lastCl + 1].version]
    /\ overdue' = FALSE /\ alerted' = FALSE
    /\ heard' = heard \ {"silence_alert"}
    /\ UNCHANGED <<p4Vars, pc, checkVars, breaker, age, sent, bounds>>

\* _poll_and_sync with one changelist: the breaker is asked first, and
\* _process_changelist ends with record_sync.
SyncChangelist ==
    /\ pc = "sync"
    /\ breaker = "closed"
    /\ lastCl < Cardinality(Submitted)
    /\ lastCl' = lastCl + 1
    /\ tree' = [tree EXCEPT ![change[lastCl + 1].file] = change[lastCl + 1].version]
    /\ overdue' = FALSE /\ alerted' = FALSE
    /\ heard' = heard \ {"silence_alert"}
    /\ UNCHANGED <<p4Vars, pc, checkVars, breaker, age, sent, bounds>>

\* The batch is through, a changelist failed, or the breaker is open: sleep.
EndRound ==
    /\ pc = "sync"
    /\ pc' = "idle"
    /\ UNCHANGED <<p4Vars, syncVars, checkVars, breaker, age, silenceVars, slackVars, bounds>>

\* The round in whose sleep a day ends.  The polling interval is some seconds:
\* there are rounds on every day.
EndDay ==
    /\ pc = "sync"
    /\ pc' = "idle"
    /\ age' = [s \in Schedule |-> IF age[s] < Month THEN age[s] + 1 ELSE Month]
    /\ overdue' = TRUE
    /\ sent' = {}
    /\ UNCHANGED <<p4Vars, syncVars, checkVars, breaker, alerted, heard, bounds>>

-----------------------------------------------------------------------------
Environment ==
    \/ \E f \in Files : \E version \in {NextCl, Absent} \cup Earlier(f) : SubmitChange(f, version)
    \/ \E f \in Files, content \in {Damaged, Unreadable} : Damage(f, content)
    \/ Restart

Maintain ==
    \/ BeginCheck
    \/ NothingDue
    \/ \E f \in Files : CompareFile(f)
    \/ CheckRaises
    \/ CheckPasses
    \/ Trip
    \/ SilenceAlert
    \/ NoSilence

Sync == SyncChangelist \/ EndRound \/ EndDay

Next == Environment \/ Maintain \/ Sync

Spec == Init /\ [][Next]_vars

\* The loop keeps running, days go by, and the sync of a round is not always
\* cut short (in ForwardSync: an outage ends).
Fairness ==
    /\ WF_vars(Maintain) /\ WF_vars(Sync)
    /\ SF_vars(EndDay) /\ SF_vars(SyncChangelist)

FairSpec == Spec /\ Fairness
=============================================================================
