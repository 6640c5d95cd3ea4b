--------------------------- MODULE Integrity_proofs ---------------------------
(***************************************************************************)
(* Type correctness of the integrity check and that an open breaker has its   *)
(* reason, for every set of files, sample size, order of the timers and       *)
(* number of changelists, faults, damages and restarts.                     *)
(***************************************************************************)
EXTENDS IntegrityProps, FiniteSetTheorems, TLAPS

\* The numeric constants are numbers, and the periods are in order.
LEMMA BoundsAreNat ==
    /\ Unlisted \subseteq Files
    /\ MaxCL \in Nat /\ Week \in Nat /\ Month \in Nat /\ 1 < Week /\ Week < Month
    /\ MaxFaults \in Nat /\ MaxDamage \in Nat /\ MaxRestarts \in Nat
BY IntegrityAssumption

\* Changelists are numbered from 1.
LEMMA ChangeFacts ==
    ASSUME TypeOK
    PROVE  /\ NextCl \in Nat /\ 1 <= NextCl /\ NextCl <= MaxCL + 1
           /\ Cardinality(Submitted) = NextCl - 1 /\ Cardinality(DOMAIN change) = NextCl - 1
           /\ Submitted = 1..(NextCl - 1) /\ DOMAIN change = 1..(NextCl - 1)
           /\ change \in [1..(NextCl - 1) -> [file : Files, version : Version \cup {Absent}]]
<1>1. PICK n \in 0..MaxCL :
          change \in [1..n -> [file : Files, version : Version \cup {Absent}]]
  BY DEF TypeOK
<1>2. DOMAIN change = 1..n /\ n \in Nat /\ n <= MaxCL
  BY <1>1, BoundsAreNat
<1>3. Cardinality(1..n) = n
  BY <1>2, FS_Interval
<1>4. NextCl = n + 1
  BY <1>2, <1>3 DEF NextCl, Submitted
<1>5. n = NextCl - 1
  BY <1>2, <1>4
<1> QED
  BY <1>1, <1>2, <1>3, <1>4, <1>5, BoundsAreNat DEF Submitted

\* A step that leaves P4 alone leaves the number of changelists alone.
LEMMA SameNext == UNCHANGED p4Vars => NextCl' = NextCl /\ Submitted' = Submitted
BY DEF p4Vars, NextCl, Submitted

-----------------------------------------------------------------------------
(* The environment.                                                         *)

\* What a changelist writes anew is a content that no file of Git has: what differed
\* still differs, also when P4 deletes it, unless P4 rolls it back.
LEMMA SubmitStep ==
    ASSUME IInv, NEW f \in Files, NEW version \in {NextCl, Absent} \cup Earlier(f),
           SubmitChange(f, version)
    PROVE  IInv'
<1> USE BoundsAreNat DEF Absent, Damaged, Unreadable
<1> DEFINE n == NextCl
<1>1. /\ n \in Nat /\ 1 <= n /\ n <= MaxCL
      /\ Cardinality(Submitted) = n - 1 /\ Submitted = 1..(n - 1)
      /\ change \in [1..(n - 1) -> [file : Files, version : Version \cup {Absent}]]
  BY ChangeFacts DEF IInv, SubmitChange
<1>2. /\ version # head[f]
      /\ change' = [k \in 1..n |-> IF k = n THEN [file |-> f, version |-> version] ELSE change[k]]
      /\ head' = [head EXCEPT ![f] = version]
      /\ UNCHANGED <<lastCl, tree, pc, schedule, todo, differing, breaker, age, overdue, alerted,
                     sent, heard, faults, damages, restarts>>
  BY DEF SubmitChange, syncVars, checkVars, silenceVars, slackVars, bounds
<1>3. /\ version \in Version \cup {Absent} /\ version <= n /\ n \in Version
      /\ version \in {n, Absent} \/ version \in 1..(n - 1)
  <2>1. CASE version \in {n, Absent}
    BY <1>1, <2>1 DEF Version
  <2>2. CASE version \in Earlier(f)
    <3>1. PICK k \in Submitted : change[k].version = version
      BY <2>2 DEF Earlier
    <3>2. k \in 1..(n - 1) /\ version \in Version \cup {Absent} /\ version <= k
      BY <1>1, <3>1 DEF IInv, KnownContents
    <3> QED
      BY <1>1, <3>2 DEF Version
  <2> QED
    BY <2>1, <2>2
<1>4. change' \in [1..n -> [file : Files, version : Version \cup {Absent}]]
  BY <1>1, <1>2, <1>3
<1>5. Submitted' = 1..n /\ Cardinality(1..n) = n /\ NextCl' = n + 1
  <2>1. Submitted' = 1..n
    BY <1>4 DEF Submitted
  <2>2. Cardinality(1..n) = n
    BY <1>1, FS_Interval
  <2> QED
    BY <2>1, <2>2 DEF NextCl
<1>6. head' \in [Files -> Version \cup {Absent}]
  BY <1>2, <1>3 DEF IInv, TypeOK
<1> HIDE DEF n
<1>7. lastCl' \in 0..Cardinality(DOMAIN change')
  <2>1. lastCl \in 0..(n - 1)
    BY <1>1 DEF IInv, TypeOK, Submitted
  <2> QED
    BY <1>1, <1>2, <1>5, <2>1 DEF Submitted
<1>8. \E k \in 0..MaxCL : change' \in [1..k -> [file : Files, version : Version \cup {Absent}]]
  BY <1>1, <1>4
<1>9. TypeOK'
  BY <1>2, <1>6, <1>7, <1>8 DEF IInv, TypeOK
<1>10. KnownContents'
  <2>1. \A k \in 1..n : change'[k].version <= k
    <3>1. \A k \in 1..(n - 1) : change[k].version <= k
      BY <1>1 DEF IInv, KnownContents
    <3> QED
      BY <1>1, <1>2, <1>3, <3>1
  <2>2. \A g \in Files : head'[g] < n + 1
    <3>1. \A g \in Files : head[g] < n /\ head[g] \in Int
      BY DEF IInv, KnownContents, TypeOK, Version, n
    <3>2. version \in Int /\ version < n + 1
      BY <1>1, <1>3
    <3> QED
      BY <1>1, <1>2, <3>1, <3>2 DEF IInv, TypeOK
  <2>3. \A g \in Files : tree'[g] < n + 1
    <3>1. \A g \in Files : tree[g] < n /\ tree[g] \in Int
      BY DEF IInv, KnownContents, TypeOK, Version, n
    <3> QED
      BY <1>1, <1>2, <3>1
  <2> QED
    BY <1>5, <2>1, <2>2, <2>3 DEF KnownContents
<1>11. \A g \in Files : StaysDifferent(g) => StaysDifferent(g)'
  <2>1. \A g \in Files : tree[g] < n /\ tree[g] \in Int
    BY DEF IInv, KnownContents, TypeOK, Version, n
  <2>2. CASE version \in {n, Absent}
    <3>1. \A g \in Files : tree[g] # Absent => tree[g] # version
      BY <1>1, <2>1, <2>2
    <3>2. \A g \in Files : g # f /\ RolledBack(g) => RolledBack(g)'
      BY <1>1, <1>2, <1>5 DEF RolledBack, IInv, TypeOK
    <3> QED
      BY <1>2, <3>1, <3>2 DEF StaysDifferent, IInv, TypeOK
  <2>3. CASE version \in 1..(n - 1)
    <3>1. head'[f] \in 1..(n - 1) /\ change'[n].file = f /\ n \in Submitted'
      BY <1>1, <1>2, <1>5, <2>3 DEF IInv, TypeOK
    <3>2. RolledBack(f)'
      BY <3>1 DEF RolledBack
    <3>3. \A g \in Files : g # f /\ RolledBack(g) => RolledBack(g)'
      BY <1>1, <1>2, <1>5 DEF RolledBack, IInv, TypeOK
    <3> QED
      BY <1>2, <3>2, <3>3 DEF StaysDifferent, IInv, TypeOK
  <2> QED
    BY <1>3, <2>2, <2>3
<1>12. ComparedInv'
  <2>1. \A g \in differing : g \in Files
    BY DEF IInv, TypeOK
  <2> QED
    BY <1>2, <1>11, <2>1 DEF IInv, ComparedInv
<1>13. OpenInv'
  BY <1>2, <1>11 DEF IInv, OpenInv
<1> QED
  BY <1>9, <1>10, <1>12, <1>13 DEF IInv

\* What P4 never had differs from what it has.
LEMMA DamageStep ==
    ASSUME IInv, NEW f \in Files, NEW content \in {Damaged, Unreadable}, Damage(f, content)
    PROVE  IInv'
<1> USE BoundsAreNat DEF Absent, Damaged, Unreadable
<1>1. /\ pc # "compare" /\ tree[f] \in Version
      /\ tree' = [tree EXCEPT ![f] = content]
      /\ damages' \in 0..MaxDamage
      /\ UNCHANGED p4Vars
      /\ UNCHANGED <<change, head, lastCl, pc, schedule, todo, differing, breaker, age, overdue, alerted,
                     sent, heard, faults, restarts>>
  BY DEF Damage, p4Vars, checkVars, silenceVars, slackVars, IInv, TypeOK
<1>2. tree' \in [Files -> Version \cup {Absent, Damaged, Unreadable}]
  BY <1>1 DEF IInv, TypeOK
<1>3. TypeOK'
  BY <1>1, <1>2 DEF IInv, TypeOK
<1>4. KnownContents'
  <2>1. NextCl \in Nat
    BY ChangeFacts DEF IInv
  <2>2. \A g \in Files : tree'[g] < NextCl
    BY <1>1, <2>1 DEF IInv, KnownContents, TypeOK
  <2> QED
    BY <1>1, <2>2, SameNext DEF IInv, KnownContents
<1>5. ComparedInv'
  BY <1>1 DEF IInv, ComparedInv
<1>6. OpenInv'
  <2>1. \A g \in Files : StaysDifferent(g) => StaysDifferent(g)'
    <3>1. \A g \in Files : head[g] # content
      BY DEF IInv, TypeOK, Version
    <3>2. \A g : RolledBack(g)' <=> RolledBack(g)
      BY <1>1 DEF RolledBack, Submitted
    <3> QED
      BY <1>1, <3>1, <3>2 DEF StaysDifferent, IInv, TypeOK
  <2> QED
    BY <1>1, <2>1 DEF IInv, OpenInv
<1> QED
  BY <1>3, <1>4, <1>5, <1>6 DEF IInv

\* The service starts anew, with a closed breaker.
LEMMA RestartStep ==
    ASSUME IInv, Restart
    PROVE  IInv'
<1> USE BoundsAreNat
<1>1. /\ restarts' \in 0..MaxRestarts
      /\ pc' = "idle" /\ schedule' = "none" /\ todo' = {} /\ differing' = {}
      /\ breaker' = "closed"
      /\ age' = [s \in Schedule |-> Month]
      /\ overdue' = FALSE /\ alerted' = FALSE /\ sent' = {} /\ heard' = {}
      /\ UNCHANGED p4Vars
      /\ UNCHANGED <<change, head, lastCl, tree, faults, damages>>
  BY DEF Restart, p4Vars, syncVars, IInv, TypeOK
<1>2. age' \in [Schedule -> 0..Month]
  BY <1>1
<1>3. TypeOK'
  BY <1>1, <1>2 DEF IInv, TypeOK
<1>4. KnownContents'
  BY <1>1, SameNext DEF IInv, KnownContents
<1>5. ComparedInv' /\ OpenInv'
  BY <1>1 DEF ComparedInv, OpenInv
<1> QED
  BY <1>3, <1>4, <1>5 DEF IInv

-----------------------------------------------------------------------------
(* The maintenance: none of its steps touches P4 or Git.                     *)

\* Where files and changelists stay, so does what is known of them.
LEMMA StoresUntouched ==
    ASSUME UNCHANGED <<change, head, lastCl, tree>>
    PROVE  /\ KnownContents => KnownContents'
           /\ \A f : StaysDifferent(f)' <=> StaysDifferent(f)
BY DEF KnownContents, StaysDifferent, RolledBack, NextCl, Submitted

\* Only files that Git lists are compared.
LEMMA BeginCheckStep ==
    ASSUME IInv, BeginCheck
    PROVE  IInv'
<1> USE BoundsAreNat
<1>1. /\ pc' = "compare" /\ differing' = {}
      /\ schedule' \in Schedule \cup {"none"}
      /\ todo' \subseteq ListedFiles
      /\ faults' \in 0..MaxFaults
      /\ UNCHANGED <<change, head, lastCl, tree, breaker, age, overdue, alerted, sent, heard,
                     damages, restarts>>
  <2>1. schedule' \in Schedule
    BY DEF BeginCheck, DueSchedule, Schedule
  <2>2. todo' \subseteq ListedFiles /\ faults' \in 0..MaxFaults
    BY DEF BeginCheck, Fault, IInv, TypeOK
  <2> QED
    BY <2>1, <2>2 DEF BeginCheck, p4Vars, syncVars, silenceVars, slackVars
<1>2. ListedFiles \subseteq Files
  BY DEF ListedFiles
<1>3. TypeOK'
  BY <1>1, <1>2 DEF IInv, TypeOK
<1>4. ComparedInv'
  BY <1>1 DEF ComparedInv, ListedFiles
<1> QED
  BY <1>1, <1>3, <1>4, StoresUntouched DEF IInv, OpenInv

\* A file is found different only if it is.
LEMMA CompareStep ==
    ASSUME IInv, NEW f \in Files, CompareFile(f)
    PROVE  IInv'
<1> USE BoundsAreNat
<1>1. /\ pc = "compare" /\ f \in todo /\ todo' = todo \ {f}
      /\ differing' = differing \/ (Differs(f) /\ differing' = differing \cup {f})
      /\ faults' \in 0..MaxFaults
      /\ UNCHANGED <<change, head, lastCl, tree, pc, schedule, breaker, age, overdue, alerted, sent,
                     heard, damages, restarts>>
  BY DEF CompareFile, Fault, IInv, TypeOK, p4Vars, syncVars, silenceVars, slackVars
<1>2. TypeOK'
  BY <1>1 DEF IInv, TypeOK
<1>3. ComparedInv'
  <2>1. Differs(f) => StaysDifferent(f)
    BY <1>1 DEF IInv, ComparedInv, StaysDifferent, Differs
  <2> QED
    BY <1>1, <2>1, StoresUntouched DEF IInv, ComparedInv
<1> QED
  BY <1>1, <1>2, <1>3, StoresUntouched DEF IInv, OpenInv

\* A post to Slack changes what was sent and heard, or counts as a fault.
LEMMA SendFacts ==
    ASSUME TypeOK, NEW key \in Key, SendToChannel(key)
    PROVE  sent' \subseteq Key /\ heard' \subseteq Key /\ faults' \in 0..MaxFaults
BY BoundsAreNat DEF SendToChannel, Fault, TypeOK

\* The check is over: the breaker opens only on a difference.
LEMMA VerdictStep ==
    ASSUME IInv, CheckRaises \/ CheckPasses \/ Trip
    PROVE  IInv'
<1> USE BoundsAreNat
<1>1. /\ pc' = "notify" /\ schedule' = "none" /\ todo' = {} /\ differing' = {}
      /\ UNCHANGED <<change, head, lastCl, tree, overdue, alerted, damages, restarts>>
  BY DEF CheckRaises, CheckPasses, Trip, IInv, ComparedInv, p4Vars, syncVars, silenceVars, slackVars,
         bounds
<1>2. TimersAfter(schedule) \in [Schedule -> 0..Month]
  BY DEF TimersAfter, IInv, TypeOK
<1>3. age' \in [Schedule -> 0..Month]
  BY <1>2 DEF CheckRaises, CheckPasses, Trip, IInv, TypeOK
<1>4. sent' \subseteq Key /\ heard' \subseteq Key /\ faults' \in 0..MaxFaults
  <2>1. CASE CheckRaises
    BY <2>1 DEF CheckRaises, Fault, IInv, TypeOK, slackVars
  <2>2. CASE CheckPasses
    BY <2>2 DEF CheckPasses, IInv, TypeOK, bounds
  <2>3. CASE Trip
    BY <2>3, SendFacts DEF Trip, IInv, Key
  <2> QED
    BY <2>1, <2>2, <2>3
<1>5. breaker' \in {"closed", "open"}
  BY DEF CheckRaises, CheckPasses, Trip, IInv, TypeOK
<1>6. TypeOK'
  BY <1>1, <1>3, <1>4, <1>5 DEF IInv, TypeOK
<1>7. ComparedInv'
  BY <1>1 DEF ComparedInv
<1>8. OpenInv'
  <2>1. CASE CheckRaises
    BY <1>1, <2>1, StoresUntouched DEF CheckRaises, IInv, OpenInv
  <2>2. CASE CheckPasses
    BY <2>2 DEF CheckPasses, OpenInv
  <2>3. CASE Trip
    <3>1. \E f \in Files : StaysDifferent(f)
      BY <2>3 DEF Trip, IInv, TypeOK, ComparedInv
    <3> QED
      BY <1>1, <3>1, StoresUntouched DEF OpenInv
  <2> QED
    BY <2>1, <2>2, <2>3
<1> QED
  BY <1>1, <1>6, <1>7, <1>8, StoresUntouched DEF IInv

\* The rest of the maintenance, and a round that ends, compare nothing.
LEMMA QuietStep ==
    ASSUME IInv, NothingDue \/ SilenceAlert \/ NoSilence \/ EndRound \/ EndDay \/ UNCHANGED vars
    PROVE  IInv'
<1> USE BoundsAreNat
        DEF p4Vars, syncVars, checkVars, silenceVars, slackVars, bounds
<1>1. /\ pc' \in {"idle", "notify", "sync", pc}
      /\ UNCHANGED <<change, head, lastCl, tree, schedule, todo, differing, breaker, damages, restarts>>
  BY DEF NothingDue, SilenceAlert, NoSilence, EndRound, EndDay, vars
<1>2. sent' \subseteq Key /\ heard' \subseteq Key /\ faults' \in 0..MaxFaults
  <2>1. CASE SilenceAlert
    BY <2>1, SendFacts DEF SilenceAlert, IInv, Key
  <2>2. CASE NothingDue \/ NoSilence \/ EndRound \/ EndDay \/ UNCHANGED vars
    BY <2>2 DEF NothingDue, NoSilence, EndRound, EndDay, vars, Fault, IInv, TypeOK
  <2> QED
    BY <2>1, <2>2
<1>3. age' \in [Schedule -> 0..Month]
  BY DEF NothingDue, SilenceAlert, NoSilence, EndRound, EndDay, vars, IInv, TypeOK
<1>4. overdue' \in BOOLEAN /\ alerted' \in BOOLEAN
  BY DEF NothingDue, SilenceAlert, NoSilence, EndRound, EndDay, vars, IInv, TypeOK
<1>5. TypeOK'
  BY <1>1, <1>2, <1>3, <1>4 DEF IInv, TypeOK
<1>6. ComparedInv'
  <2>1. pc' # "compare" => pc # "compare" \/ (todo = {} /\ differing = {})
    BY DEF NothingDue, SilenceAlert, NoSilence, EndRound, EndDay, vars
  <2> QED
    BY <1>1, <2>1, StoresUntouched DEF IInv, ComparedInv
<1> QED
  BY <1>1, <1>5, <1>6, StoresUntouched DEF IInv, OpenInv

\* The sync moves Git only while the breaker is closed and nothing is compared.
LEMMA SyncStep ==
    ASSUME IInv, SyncChangelist
    PROVE  IInv'
<1> USE BoundsAreNat DEF Absent, Damaged, Unreadable
<1> DEFINE c == change[lastCl + 1]
<1>1. /\ pc = "sync" /\ breaker = "closed"
      /\ lastCl < Cardinality(Submitted) /\ lastCl' = lastCl + 1
      /\ tree' = [tree EXCEPT ![c.file] = c.version]
      /\ overdue' = FALSE /\ alerted' = FALSE /\ heard' = heard \ {"silence_alert"}
      /\ UNCHANGED p4Vars
      /\ UNCHANGED <<change, head, pc, schedule, todo, differing, breaker, age, sent, faults, damages,
                     restarts>>
  BY DEF SyncChangelist, p4Vars, checkVars, bounds
<1>2. /\ NextCl \in Nat /\ Cardinality(Submitted) = NextCl - 1
      /\ Submitted = 1..(NextCl - 1) /\ Cardinality(DOMAIN change) = NextCl - 1
      /\ change \in [1..(NextCl - 1) -> [file : Files, version : Version \cup {Absent}]]
  BY ChangeFacts DEF IInv
<1>3. lastCl + 1 \in Submitted /\ lastCl \in Nat
  BY <1>1, <1>2 DEF IInv, TypeOK
<1>4. c.file \in Files /\ c.version \in Version \cup {Absent}
  BY <1>2, <1>3
<1>5. c.version < NextCl
  <2>1. c.version <= lastCl + 1
    BY <1>3 DEF IInv, KnownContents
  <2>2. c.version \in Int /\ lastCl + 1 < NextCl
    BY <1>2, <1>3, <1>4 DEF Version
  <2> HIDE DEF c
  <2> QED
    BY <1>2, <1>3, <2>1, <2>2
<1>6. tree' \in [Files -> Version \cup {Absent, Damaged, Unreadable}]
  BY <1>1, <1>4 DEF IInv, TypeOK
<1>7. lastCl' \in 0..Cardinality(DOMAIN change')
  BY <1>1, <1>2, <1>3
<1>8. TypeOK'
  BY <1>1, <1>6, <1>7 DEF IInv, TypeOK
<1>9. KnownContents'
  <2>1. \A g \in Files : tree'[g] < NextCl
    BY <1>1, <1>4, <1>5 DEF IInv, KnownContents, TypeOK
  <2> QED
    BY <1>1, <2>1, SameNext DEF IInv, KnownContents
<1>10. ComparedInv' /\ OpenInv'
  BY <1>1 DEF IInv, ComparedInv, OpenInv
<1> QED
  BY <1>8, <1>9, <1>10 DEF IInv

-----------------------------------------------------------------------------

\* Nothing is submitted when the service is installed.
LEMMA InitInv == Init => IInv
<1> SUFFICES ASSUME Init PROVE IInv
    OBVIOUS
<1> USE BoundsAreNat DEF Absent, Damaged, Unreadable
<1>1. DOMAIN change = {} /\ Cardinality(DOMAIN change) = 0 /\ NextCl = 1
  BY FS_EmptySet DEF Init, NextCl, Submitted
<1>2. \E n \in 0..MaxCL : change \in [1..n -> [file : Files, version : Version \cup {Absent}]]
  <2>1. change \in [1..0 -> [file : Files, version : Version \cup {Absent}]] /\ 0 \in 0..MaxCL
    BY DEF Init
  <2> QED
    BY <2>1
<1>3. /\ head \in [Files -> Version \cup {Absent}]
      /\ tree \in [Files -> Version \cup {Absent, Damaged, Unreadable}]
      /\ age \in [Schedule -> 0..Month]
      /\ \A f \in Files : head[f] = 0 /\ tree[f] = 0
  BY DEF Init
<1>4. TypeOK
  <2>1. /\ lastCl \in 0..Cardinality(DOMAIN change)
        /\ faults \in 0..MaxFaults /\ damages \in 0..MaxDamage /\ restarts \in 0..MaxRestarts
    BY <1>1 DEF Init
  <2> QED
    BY <1>2, <1>3, <2>1 DEF Init, TypeOK
<1>5. KnownContents
  BY <1>1, <1>3 DEF KnownContents, Submitted
<1>6. ComparedInv /\ OpenInv
  BY DEF Init, ComparedInv, OpenInv
<1> QED
  BY <1>4, <1>5, <1>6 DEF IInv

\* Every step keeps the inductive invariant.
LEMMA NextInv == IInv /\ [Next]_vars => IInv'
<1> SUFFICES ASSUME IInv, [Next]_vars PROVE IInv'
    OBVIOUS
<1>1. ASSUME NEW f \in Files, NEW version \in {NextCl, Absent} \cup Earlier(f),
           SubmitChange(f, version)
      PROVE  IInv'
  BY <1>1, SubmitStep
<1>2. ASSUME NEW f \in Files, NEW content \in {Damaged, Unreadable}, Damage(f, content)
      PROVE  IInv'
  BY <1>2, DamageStep
<1>3. CASE Restart
  BY <1>3, RestartStep
<1>4. CASE BeginCheck
  BY <1>4, BeginCheckStep
<1>5. ASSUME NEW f \in Files, CompareFile(f) PROVE IInv'
  BY <1>5, CompareStep
<1>6. CASE CheckRaises \/ CheckPasses \/ Trip
  BY <1>6, VerdictStep
<1>7. CASE NothingDue \/ SilenceAlert \/ NoSilence \/ EndRound \/ EndDay \/ UNCHANGED vars
  BY <1>7, QuietStep
<1>8. CASE SyncChangelist
  BY <1>8, SyncStep
<1> QED
  BY <1>1, <1>2, <1>3, <1>4, <1>5, <1>6, <1>7, <1>8 DEF Next, Environment, Maintain, Sync

(***************************************************************************)
(* Every state of the loop that watches itself is well typed.               *)
(***************************************************************************)
THEOREM IntegrityTypeCorrect == Spec => []TypeOK
<1>1. IInv => TypeOK
  BY DEF IInv
<1> QED
  BY InitInv, NextInv, <1>1, PTL DEF Spec

(***************************************************************************)
(* While the breaker is open some compared file differs between P4 and Git, or *)
(* P4 users rolled it back, whatever else they submit and delete behind the    *)
(* check: the sync stands still, and no new content, no deletion and no damage *)
(* makes the two sides equal.                                                *)
(***************************************************************************)
THEOREM OpenHasReason == Spec => []OpenMeansDifference
<1>1. IInv => OpenMeansDifference
  BY DEF IInv, OpenInv, OpenMeansDifference, StaysDifferent
<1> QED
  BY InitInv, NextInv, <1>1, PTL DEF Spec
=============================================================================
