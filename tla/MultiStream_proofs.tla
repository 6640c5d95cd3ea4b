-------------------------- MODULE MultiStream_proofs --------------------------
(***************************************************************************)
(* Type correctness of the sync of several streams, that no changelist is    *)
(* passed over, that branches keep the recorded commits, and that merges get   *)
(* their source, for all streams and any number of changelists, merges and      *)
(* faults.                                                                 *)
(***************************************************************************)
EXTENDS MultiStreamProps, SequenceTheorems, WellFoundedInduction, TLAPS

\* The constants are what the model assumes of them.
LEMMA BoundsAreNat ==
    /\ MaxCL \in Nat /\ MaxCL >= 2 /\ MaxFaults \in Nat
    /\ Main \in Stream /\ Dev \in Stream /\ Main # Dev /\ Main \notin Late /\ Dev \notin Late
    /\ Late \subseteq Stream /\ NoParent \notin Stream
BY MultiStreamAssumption DEF Stream

\* Changelists are numbers from 1.
LEMMA ChangelistFacts == \A n \in CL : n \in Int /\ 1 <= n /\ n <= MaxCL /\ n # None
BY BoundsAreNat DEF CL, None

-----------------------------------------------------------------------------
(* The newest and the oldest of a set of changelists.                        *)

\* Every set of numbers has a least one.
LEMMA MinimumExists ==
    ASSUME NEW S \in SUBSET Nat, S # {}
    PROVE  \E m \in S : \A k \in S : m <= k
<1>1. PICK m \in S : \A k \in S : ~ (<<k, m>> \in OpToRel(<, Nat))
  BY NatLessThanWellFounded, WFMin
<1>2. \A k \in S : ~(k < m)
  BY <1>1 DEF OpToRel
<1> QED
  BY <1>2

\* A set of changelists has an earliest and a latest one.
LEMMA EndFacts ==
    ASSUME NEW S \in SUBSET CL, S # {}
    PROVE  /\ Earliest(S) \in S /\ \A m \in S : Earliest(S) <= m
           /\ Latest(S) \in S /\ \A m \in S : m <= Latest(S)
<1>1. \A k \in S : k \in Nat /\ MaxCL - k \in Nat /\ k \in Int
  BY ChangelistFacts, BoundsAreNat
<1>2. \E m \in S : \A k \in S : m <= k
  BY <1>1, MinimumExists
<1>3. \E m \in S : \A k \in S : k <= m
  <2> DEFINE T == {MaxCL - k : k \in S}
  <2>1. T \in SUBSET Nat /\ T # {}
    BY <1>1
  <2>2. PICK t \in T : \A u \in T : t <= u
    BY <2>1, MinimumExists
  <2>3. PICK m \in S : t = MaxCL - m
    OBVIOUS
  <2>4. \A k \in S : MaxCL - m <= MaxCL - k
    BY <2>2, <2>3
  <2> QED
    BY <1>1, <2>4, BoundsAreNat
<1> QED
  BY <1>2, <1>3 DEF Earliest, Latest

-----------------------------------------------------------------------------
(* Commits.                                                                 *)

\* One commit is an ancestor of another when its chain is the beginning.
LEMMA PrefixPointwise ==
    ASSUME NEW s \in Seq(CL), NEW t \in Seq(CL)
    PROVE  IsPrefix(s, t) <=> /\ Len(s) <= Len(t)
                              /\ \A k \in 1..Len(s) : s[k] = t[k]
BY DEF IsPrefix

\* Every commit is its own ancestor, and nothing precedes everything.
LEMMA PrefixReflexive == \A s \in Seq(CL) : IsPrefix(s, s) /\ IsPrefix(NoCommit, s)
<1> TAKE s \in Seq(CL)
<1>1. NoCommit \in Seq(CL) /\ Len(NoCommit) = 0 /\ Len(s) \in Nat
  BY LenProperties, EmptySeq DEF NoCommit
<1>2. IsPrefix(s, s)
  BY <1>1, PrefixPointwise
<1>3. IsPrefix(NoCommit, s) <=> Len(NoCommit) <= Len(s) /\ \A k \in 1..Len(NoCommit) : NoCommit[k] = s[k]
  BY <1>1, PrefixPointwise
<1>4. IsPrefix(NoCommit, s)
  BY <1>1, <1>3
<1> QED
  BY <1>2, <1>4

\* Ancestry is transitive.
LEMMA PrefixTransitive ==
    ASSUME NEW s \in Seq(CL), NEW t \in Seq(CL), NEW u \in Seq(CL),
           IsPrefix(s, t), IsPrefix(t, u)
    PROVE  IsPrefix(s, u)
<1>1. Len(s) \in Nat /\ Len(t) \in Nat /\ Len(u) \in Nat
  BY LenProperties
<1> QED
  BY <1>1, PrefixPointwise

\* A commit's first parent is its ancestor.
LEMMA PrefixOfAppend ==
    ASSUME NEW s \in Seq(CL), NEW n \in CL
    PROVE  Append(s, n) \in Seq(CL) /\ Append(s, n) # NoCommit /\ IsPrefix(s, Append(s, n))
<1>1. /\ Append(s, n) \in Seq(CL) /\ Append(s, n) # <<>>
      /\ Len(Append(s, n)) = Len(s) + 1 /\ Len(s) \in Nat
      /\ \A k \in 1..Len(s) : Append(s, n)[k] = s[k]
  BY AppendProperties, LenProperties
<1>2. IsPrefix(s, Append(s, n)) <=> /\ Len(s) <= Len(Append(s, n))
                                   /\ \A k \in 1..Len(s) : s[k] = Append(s, n)[k]
  BY <1>1, PrefixPointwise
<1> QED
  BY <1>1, <1>2 DEF NoCommit

\* Changelists are numbered from 1, each of one stream.
LEMMA DepotFacts ==
    ASSUME TypeOK
    PROVE  /\ Len(depot) \in 0..MaxCL /\ Len(depot) \in Nat /\ DOMAIN depot = 1..Len(depot)
           /\ DOMAIN depot \subseteq CL
           /\ \A n \in DOMAIN depot : depot[n].stream \in Stream /\ depot[n].sources \subseteq CL
           /\ \A s : ChangesOf(s) \subseteq DOMAIN depot /\ ChangesOf(s) \subseteq CL
           /\ \A s : \A n : n \in ChangesOf(s) <=> n \in DOMAIN depot /\ depot[n].stream = s
<1> DEFINE Change == [stream : Stream, sources : SUBSET CL]
<1>1. depot \in Seq(Change) /\ Len(depot) <= MaxCL
  BY DEF TypeOK
<1>2. Len(depot) \in Nat /\ DOMAIN depot = 1..Len(depot) /\ \A n \in 1..Len(depot) : depot[n] \in Change
  BY <1>1, LenProperties, ElementOfSeq
<1> QED
  BY <1>1, <1>2, BoundsAreNat DEF ChangesOf, CL

\* Checkpoints are changelists or None.
LEMMA CheckpointType ==
    ASSUME TypeOK
    PROVE  \A s \in Stream : lastCl[s] \in 0..MaxCL /\ lastCl[s] \in Int
<1>1. lastCl \in [Stream -> 0..MaxCL]
  BY DEF TypeOK
<1> QED
  BY <1>1

\* What the database and the branches have for a stream are commits.
LEMMA CommitFacts ==
    ASSUME TypeOK, NEW s \in Stream
    PROVE  /\ LastCommit(s) \in Seq(CL) /\ branch[s] \in Seq(CL)
           /\ \A n : LastCommitBefore(s, n) \in Seq(CL)
           /\ FirstChangelist(s) \in 0..MaxCL
<1>1. LastCommit(s) \in Seq(CL) /\ branch[s] \in Seq(CL)
  <2>1. lastCl[s] \in 0..MaxCL /\ NoCommit \in Seq(CL)
    BY EmptySeq DEF TypeOK, NoCommit
  <2>2. lastCl[s] # None => lastCl[s] \in CL
    BY <2>1, BoundsAreNat DEF None, CL
  <2> QED
    BY <2>1, <2>2 DEF TypeOK, LastCommit
<1>2. ASSUME NEW n
      PROVE  LastCommitBefore(s, n) \in Seq(CL)
  <2> DEFINE rows == {m \in ChangesOf(s) : m < n /\ row[m] # NoCommit}
  <2>1. rows \in SUBSET CL /\ NoCommit \in Seq(CL)
    BY DepotFacts, EmptySeq DEF NoCommit
  <2>2. rows # {} => Latest(rows) \in CL
    BY <2>1, EndFacts
  <2>3. LastCommitBefore(s, n) = IF rows = {} THEN NoCommit ELSE row[Latest(rows)]
    BY DEF LastCommitBefore
  <2> HIDE DEF rows
  <2> QED
    BY <2>1, <2>2, <2>3 DEF TypeOK
<1>3. FirstChangelist(s) \in 0..MaxCL
  <2>1. ChangesOf(s) \in SUBSET CL
    BY DepotFacts
  <2>2. ChangesOf(s) # {} => Earliest(ChangesOf(s)) \in CL
    BY <2>1, EndFacts
  <2> QED
    BY <2>2, ChangelistFacts, BoundsAreNat DEF FirstChangelist, None
<1> QED
  BY <1>1, <1>2, <1>3

-----------------------------------------------------------------------------
(* What a step leaves alone.                                                *)

\* Without a commit or a checkpoint the rows stay on their chains.
LEMMA SameRows ==
    ASSUME UNCHANGED <<depot, stateVars>>
    PROVE  /\ \A s : ChangesOf(s)' = ChangesOf(s) /\ LastCommit(s)' = LastCommit(s)
           /\ UNCHANGED registered /\ RowsInv => RowsInv'
           /\ UNCHANGED registered /\ NothingPassedOver => NothingPassedOver'
           /\ UNCHANGED refs /\ RecordedCommitsKept => RecordedCommitsKept'
           /\ SourcesAreOlder => SourcesAreOlder'
<1> USE DEF stateVars
<1>1. \A s : ChangesOf(s)' = ChangesOf(s)
  BY DEF ChangesOf
<1>2. \A s : LastCommit(s)' = LastCommit(s)
  BY DEF LastCommit
<1>3. UNCHANGED registered /\ RowsInv => RowsInv'
  BY DEF RowsInv, Chained, IsNextOf, ChangesOf, LastCommit
<1>4. UNCHANGED registered /\ NothingPassedOver => NothingPassedOver'
  BY DEF NothingPassedOver, ChangesOf
<1>5. UNCHANGED refs /\ RecordedCommitsKept => RecordedCommitsKept'
  BY DEF RecordedCommitsKept, refs
<1>6. SourcesAreOlder => SourcesAreOlder'
  BY DEF SourcesAreOlder
<1> QED
  BY <1>1, <1>2, <1>3, <1>4, <1>5, <1>6

\* The process is between two rounds, or gone.
LEMMA IdleSteps ==
    ASSUME IInv,
           \/ Start \/ (\E s \in Late : RegisterFails(s)) \/ CollectFails
           \/ (\E e \in events : EventFails(e)) \/ EndRound \/ Kill
    PROVE  IInv'
<1>1. /\ UNCHANGED <<backend, p4Vars, registry, refs, stateVars, begun>>
      /\ pc' \in {"watch", "down"}
      /\ events' = {} \/ events' = events
      /\ todo' \subseteq {s \in Late \ Ignored : Exists(s)} \cup todo
      /\ pc = "watch" \/ todo' \subseteq {s \in Late \ Ignored : Exists(s)}
      /\ faults' = faults \/ (faults < MaxFaults /\ faults' = faults + 1)
  <2>1. CASE Start
    BY <2>1 DEF Start
  <2>2. CASE \E s \in Late : RegisterFails(s)
    BY <2>2 DEF RegisterFails, Fault
  <2>3. CASE CollectFails
    BY <2>3 DEF CollectFails, Fault
  <2>4. CASE \E e \in events : EventFails(e)
    BY <2>4 DEF EventFails, NewRound, Fault
  <2>5. CASE EndRound
    BY <2>5 DEF EndRound, NewRound
  <2>6. CASE Kill
    BY <2>6 DEF Kill, Fault
  <2> QED
    BY <2>1, <2>2, <2>3, <2>4, <2>5, <2>6
<1>2. \A s \in Late : Exists(s) => parent[s] # NoParent
  BY BoundsAreNat DEF Exists
<1>3. TypeOK'
  <2>1. todo' \subseteq Stream /\ faults' \in 0..MaxFaults /\ events' \subseteq Event
    BY <1>1, BoundsAreNat DEF IInv, TypeOK
  <2> QED
    BY <1>1, <2>1 DEF IInv, TypeOK, p4Vars, refs, registry, stateVars
<1>4. TodoInv'
  BY <1>1, <1>2 DEF IInv, TodoInv, p4Vars
<1>5. EventsInv'
  BY <1>1 DEF IInv, EventsInv, Due, EventOf, ChangesOf, p4Vars, registry, stateVars
<1> QED
  BY <1>1, <1>3, <1>4, <1>5, SameRows DEF IInv, p4Vars, registry

\* A round begins: all the registered streams are to be queried.
LEMMA BeginRoundStep ==
    ASSUME IInv, BeginRound
    PROVE  IInv'
<1>1. /\ pc' = "collect" /\ todo' = registered /\ begun' = Len(depot) /\ events' = {}
      /\ UNCHANGED <<backend, p4Vars, registry, refs, stateVars, faults>>
  BY DEF BeginRound
<1>2. TypeOK'
  BY <1>1, DepotFacts DEF IInv, TypeOK, p4Vars, refs, registry, stateVars
<1>3. TodoInv'
  BY <1>1 DEF TodoInv, registry
<1>4. EventsInv'
  BY <1>1, DepotFacts DEF IInv, EventsInv, Due, p4Vars, registry
<1> QED
  BY <1>1, <1>2, <1>3, <1>4, SameRows DEF IInv, p4Vars, registry

\* A branch that is created belongs to a stream without commits.
LEMMA CreateBranchFacts ==
    ASSUME TypeOK, NEW s \in Stream, NEW commit \in Seq(CL), CreateBranch(s, commit)
    PROVE  /\ branch' \in [Stream -> Seq(CL)]
           /\ \A t \in Stream : branch[t] = NoCommit \/ branch'[t] = branch[t]
BY DEF CreateBranch, TypeOK

\* So it holds no fewer commits than before.
LEMMA CreateBranchKeeps ==
    ASSUME TypeOK, RecordedCommitsKept, UNCHANGED <<depot, row, behind>>, branch' \in [Stream -> Seq(CL)],
           \A t \in Stream : branch[t] = NoCommit \/ branch'[t] = branch[t]
    PROVE  RecordedCommitsKept'
<1> SUFFICES ASSUME NEW n \in DOMAIN depot, depot[n].stream \notin behind
             PROVE  IsPrefix(row[n], branch'[depot[n].stream])
  BY DEF RecordedCommitsKept
<1> DEFINE t == depot[n].stream
<1>1. t \in Stream /\ n \in CL /\ row[n] \in Seq(CL) /\ branch[t] \in Seq(CL) /\ branch'[t] \in Seq(CL)
  BY DepotFacts DEF TypeOK
<1>2. IsPrefix(row[n], branch[t])
  BY DEF RecordedCommitsKept
<1>3. CASE branch[t] = NoCommit
  <2>1. NoCommit \in Seq(CL) /\ Len(NoCommit) = 0
    BY EmptySeq DEF NoCommit
  <2>2. Len(row[n]) <= 0 /\ Len(row[n]) \in Nat
    BY <1>1, <1>2, <1>3, <2>1, PrefixPointwise, LenProperties
  <2>3. row[n] = NoCommit
    BY <1>1, <2>2, EmptySeq DEF NoCommit
  <2> QED
    BY <1>1, <2>3, PrefixReflexive
<1>4. CASE branch'[t] = branch[t]
  BY <1>2, <1>4
<1> QED
  BY <1>1, <1>3, <1>4

\* A new stream has no checkpoint.
LEMMA RegisterStep ==
    ASSUME IInv, NEW s \in Late, RegisterStream(s)
    PROVE  IInv'
<1> DEFINE first == FirstChangelist(s)
           before == LastCommitBefore(parent[s], first)
           commit == IF before # NoCommit THEN before ELSE branch[parent[s]]
<1>1. /\ pc = "watch" /\ s \in todo /\ CreateBranch(s, commit)
      /\ registered' = registered \cup {s}
      /\ pointCl' = [pointCl EXCEPT ![s] = first]
      /\ todo' = todo \ {s}
      /\ UNCHANGED <<backend, p4Vars, behind, stateVars, pc, begun, events, faults>>
  BY DEF RegisterStream
<1>2. s \in Stream /\ parent[s] \in Stream
  BY <1>1, BoundsAreNat DEF IInv, TodoInv, TypeOK
<1>3. first \in 0..MaxCL /\ commit \in Seq(CL)
  BY <1>2, CommitFacts DEF IInv
<1> HIDE DEF first, before, commit
<1>4. /\ branch' \in [Stream -> Seq(CL)]
      /\ \A t \in Stream : branch[t] = NoCommit \/ branch'[t] = branch[t]
  BY <1>1, <1>2, <1>3, CreateBranchFacts DEF IInv
<1>5. TypeOK'
  BY <1>1, <1>2, <1>3, <1>4 DEF IInv, TypeOK, p4Vars, stateVars
<1>6. RecordedCommitsKept'
  BY <1>1, <1>4, CreateBranchKeeps DEF IInv, p4Vars, stateVars
<1>7. TodoInv'
  BY <1>1 DEF IInv, TodoInv, p4Vars
<1>8. RowsInv' /\ NothingPassedOver'
  <2>1. UNCHANGED <<depot, lastCl, row, second>>
    BY <1>1 DEF p4Vars, stateVars
  <2>2. RowsInv'
    BY <1>1, <2>1 DEF IInv, RowsInv, Chained, IsNextOf, ChangesOf, LastCommit
  <2>3. s \notin registered => lastCl[s] = None
    BY <1>2 DEF IInv, RowsInv
  <2>4. \A n \in ChangesOf(s) : n \in Int /\ 1 <= n
    BY DepotFacts, ChangelistFacts DEF IInv
  <2>5. NothingPassedOver'
    <3>1. ChangesOf(s)' = ChangesOf(s) /\ \A t : ChangesOf(t)' = ChangesOf(t)
      BY <2>1 DEF ChangesOf
    <3>2. \A n \in ChangesOf(s) : n <= lastCl[s] => row[n] # NoCommit
      BY <2>3, <2>4 DEF IInv, NothingPassedOver, None
    <3> QED
      BY <1>1, <2>1, <3>1, <3>2 DEF IInv, NothingPassedOver
  <2> QED
    BY <2>2, <2>5
<1>9. EventsInv'
  <2>1. UNCHANGED <<depot, parent, lastCl, begun, events, pc>>
    BY <1>1 DEF p4Vars, stateVars
  <2>2. \A t : ChangesOf(t)' = ChangesOf(t)
    BY <2>1 DEF ChangesOf
  <2>3. \A n \in DOMAIN depot : depot[n].stream \in registered => (Due(n)' <=> Due(n))
    BY <1>1, <2>1 DEF Due
  <2>4. \A e \in events : e.stream \in registered'
    BY <1>1 DEF IInv, EventsInv
  <2>5. \A e \in events : e.priority = 1 => e.cl \in ChangesOf(e.stream)' /\ Due(e.cl)'
    <3> TAKE e \in events
    <3> HAVE e.priority = 1
    <3>1. e.cl \in ChangesOf(e.stream) /\ Due(e.cl) /\ e.stream \in registered
      BY DEF IInv, EventsInv
    <3> QED
      BY <2>2, <2>3, <3>1, DepotFacts DEF IInv
  <2>6. \A e \in events : \A n \in ChangesOf(e.stream)' :
            e.priority = 1 /\ n < e.cl /\ Due(n)' => EventOf(n)' \in events
    <3> TAKE e \in events
    <3> TAKE n \in ChangesOf(e.stream)'
    <3> HAVE e.priority = 1 /\ n < e.cl /\ Due(n)'
    <3>1. n \in ChangesOf(e.stream) /\ e.stream \in registered /\ n \in DOMAIN depot
          /\ depot[n].stream = e.stream
      BY <2>2, DepotFacts DEF IInv, EventsInv
    <3>2. Due(n) /\ EventOf(n)' = EventOf(n)
      BY <2>1, <2>3, <3>1 DEF EventOf
    <3> QED
      BY <3>1, <3>2 DEF IInv, EventsInv
  <2> QED
    BY <1>1, <2>1, <2>4, <2>5, <2>6 DEF IInv, EventsInv
<1> QED
  BY <1>1, <1>5, <1>6, <1>7, <1>8, <1>9, SameRows DEF IInv, p4Vars

-----------------------------------------------------------------------------
(* P4.                                                                      *)

\* The newest changelist comes after all there were.
LEMMA SubmitStep ==
    ASSUME IInv, NEW s \in Stream, NEW sources \in Integrated, Submit(s, sources)
    PROVE  IInv'
<1> DEFINE last == Len(depot) + 1
           added == [stream |-> s, sources |-> sources]
           Change == [stream : Stream, sources : SUBSET CL]
<1>1. /\ Len(depot) < MaxCL /\ depot' = Append(depot, added)
      /\ UNCHANGED <<backend, parent, nested, registry, refs, stateVars, pc, todo, begun, events, faults>>
  BY DEF Submit
<1>2. /\ Len(depot) \in Nat /\ DOMAIN depot = 1..Len(depot) /\ DOMAIN depot \subseteq CL
      /\ last \in Nat /\ last >= 3 /\ last \in CL /\ depot \in Seq(Change)
  <2>1. Len(depot) \in Nat /\ DOMAIN depot = 1..Len(depot) /\ DOMAIN depot \subseteq CL
    BY DepotFacts DEF IInv
  <2>2. Len(depot) >= 2
    BY DEF IInv, SourcesAreOlder
  <2>3. last \in Nat /\ last >= 3 /\ last <= MaxCL
    BY <1>1, <2>1, <2>2, BoundsAreNat
  <2>4. last \in CL
    BY <2>3, BoundsAreNat DEF CL
  <2>5. depot \in Seq(Change)
    BY DEF IInv, TypeOK
  <2> QED
    BY <2>1, <2>3, <2>4, <2>5
<1>3. sources \subseteq 1..(last - 1) /\ sources \subseteq CL
  BY <1>2, BoundsAreNat DEF Integrated, CL
<1>4. /\ depot' \in Seq(Change) /\ Len(depot') = last /\ DOMAIN depot' = 1..last
      /\ \A n \in DOMAIN depot : depot'[n] = depot[n]
      /\ depot'[last] = added
  <2>1. added \in Change
    BY <1>3
  <2>2. /\ depot' \in Seq(Change) /\ Len(depot') = last
        /\ \A n \in 1..Len(depot) : depot'[n] = depot[n]
        /\ depot'[last] = added
    BY <1>1, <1>2, <2>1, AppendProperties
  <2> QED
    BY <1>2, <2>2, LenProperties
<1>5. DOMAIN depot' = DOMAIN depot \cup {last} /\ last \notin DOMAIN depot
      /\ \A n \in DOMAIN depot : n < last /\ n \in Int
  BY <1>2, <1>4
<1> HIDE DEF last, Change
<1>6. \A t : /\ ChangesOf(t) \subseteq ChangesOf(t)' /\ ChangesOf(t)' \subseteq ChangesOf(t) \cup {last}
             /\ ChangesOf(t) \subseteq DOMAIN depot
  BY <1>4, <1>5 DEF ChangesOf
<1>7. TypeOK'
  <2>1. depot' \in Seq([stream : Stream, sources : SUBSET CL]) /\ Len(depot') <= MaxCL
    BY <1>2, <1>4, ChangelistFacts DEF Change
  <2> QED
    BY <1>1, <2>1 DEF IInv, TypeOK, refs, registry, stateVars
<1>8. SourcesAreOlder'
  <2>1. \A n \in DOMAIN depot' : depot'[n].sources \subseteq 1..(n - 1)
    <3> TAKE n \in DOMAIN depot'
    <3>1. CASE n \in DOMAIN depot
      BY <1>4, <3>1 DEF IInv, SourcesAreOlder
    <3>2. CASE n = last
      BY <1>3, <1>4, <3>2
    <3> QED
      BY <1>5, <3>1, <3>2
  <2> QED
    BY <1>2, <1>4, <2>1 DEF SourcesAreOlder
<1>9. UNCHANGED <<parent, registered, branch, behind, lastCl, row, pc, todo, begun, events>>
  BY <1>1 DEF registry, refs, stateVars
<1>10. TodoInv'
  BY <1>9 DEF IInv, TodoInv
<1>11. row[last] = NoCommit
  BY <1>2, <1>5 DEF IInv, RowsInv
<1>12. \A t : LastCommit(t)' = LastCommit(t)
  BY <1>9 DEF LastCommit
<1>13. RowsInv'
  <2>1. ASSUME NEW t \in Stream
        PROVE  Chained(t)'
    <3>1. \A n \in ChangesOf(t)' :
             /\ n <= lastCl[t] => IsPrefix(row[n], LastCommit(t))
             /\ n > lastCl[t] /\ row[n] # NoCommit
                   => IsNextOf(t, n)' /\ row[n] = Append(LastCommit(t), n)
      <4> TAKE n \in ChangesOf(t)'
      <4>1. CASE n \in ChangesOf(t)
        <5>1. IsNextOf(t, n) => IsNextOf(t, n)'
          <6>1. ChangesOf(t) \subseteq DOMAIN depot /\ ChangesOf(t)' \subseteq ChangesOf(t) \cup {last}
            BY <1>6
          <6>2. n < last /\ n \in Int /\ last \in Int
            BY <1>2, <1>5, <4>1, <6>1
          <6>3. IsNextOf(t, n)' <=> \A m \in ChangesOf(t)' : lastCl[t] < m => n <= m
            BY <1>9 DEF IsNextOf
          <6>4. ASSUME \A m \in ChangesOf(t) : lastCl[t] < m => n <= m,
                       NEW m \in ChangesOf(t)', lastCl[t] < m
                PROVE  n <= m
            <7>1. m \in ChangesOf(t) \/ m = last
              BY <6>1
            <7> QED
              BY <6>2, <6>4, <7>1
          <6>5. IsNextOf(t, n) <=> \A m \in ChangesOf(t) : lastCl[t] < m => n <= m
            BY DEF IsNextOf
          <6> QED
            BY <6>3, <6>4, <6>5
        <5> QED
          BY <4>1, <5>1 DEF IInv, RowsInv, Chained
      <4>2. CASE n = last
        <5>1. LastCommit(t) \in Seq(CL)
          BY CommitFacts DEF IInv
        <5> QED
          BY <1>11, <4>2, <5>1, PrefixReflexive
      <4> QED
        BY <1>6, <4>1, <4>2
    <3> QED
      BY <1>9, <1>12, <3>1 DEF Chained
  <2>2. \A t \in Stream : /\ lastCl[t] \in ChangesOf(t)' \cup {None}
                          /\ t \notin registered => lastCl[t] = None
    BY <1>6 DEF IInv, RowsInv
  <2>3. \A n \in CL \ DOMAIN depot' : row[n] = NoCommit
    BY <1>5 DEF IInv, RowsInv
  <2> QED
    BY <1>9, <2>1, <2>2, <2>3 DEF RowsInv
<1>14. NothingPassedOver'
  <2>1. \A t \in registered : lastCl[t] < last
    <3>1. \A t \in Stream : lastCl[t] \in DOMAIN depot \cup {None}
      BY <1>6 DEF IInv, RowsInv
    <3> TAKE t \in registered
    <3>2. t \in Stream
      BY DEF IInv, TypeOK
    <3>3. CASE lastCl[t] = None
      BY <1>2, <3>3 DEF None
    <3>4. CASE lastCl[t] \in DOMAIN depot
      BY <1>5, <3>4
    <3> QED
      BY <3>1, <3>2, <3>3, <3>4
  <2>2. \A t \in registered : lastCl[t] \in Int /\ last \in Int
    BY <1>2 DEF IInv, TypeOK
  <2> QED
    BY <1>6, <1>9, <2>1, <2>2 DEF IInv, NothingPassedOver
<1>15. RecordedCommitsKept'
  <2>1. \A n \in DOMAIN depot' :
            depot'[n].stream \notin behind => IsPrefix(row[n], branch[depot'[n].stream])
    <3> TAKE n \in DOMAIN depot'
    <3>1. CASE n \in DOMAIN depot
      BY <1>4, <3>1 DEF IInv, RecordedCommitsKept
    <3>2. CASE n = last
      BY <1>4, <1>11, <3>2, PrefixReflexive DEF IInv, TypeOK
    <3> QED
      BY <1>5, <3>1, <3>2
  <2> QED
    BY <1>9, <2>1 DEF RecordedCommitsKept
<1>16. EventsInv'
  <2>1. \A n \in DOMAIN depot : (Due(n)' <=> Due(n)) /\ EventOf(n)' = EventOf(n)
    BY <1>4, <1>9 DEF Due, EventOf
  <2>2. begun <= Len(depot') /\ 1..begun \subseteq DOMAIN depot
    <3>1. begun \in Int /\ begun <= Len(depot) /\ Len(depot') = Len(depot) + 1
      BY <1>4, BoundsAreNat DEF IInv, EventsInv, TypeOK, last
    <3> QED
      BY <1>2, <3>1
  <2>3. \A e \in events : e.priority = 1 => e.cl \in ChangesOf(e.stream)' /\ Due(e.cl)'
    BY <1>6, <2>1 DEF IInv, EventsInv
  <2>4. \A e \in events : \A n \in ChangesOf(e.stream)' :
            e.priority = 1 /\ n < e.cl /\ Due(n)' => EventOf(n)' \in events
    <3> TAKE e \in events
    <3> TAKE n \in ChangesOf(e.stream)'
    <3> HAVE e.priority = 1 /\ n < e.cl /\ Due(n)'
    <3>1. e.cl \in DOMAIN depot
      BY <1>6 DEF IInv, EventsInv
    <3>2. n \in ChangesOf(e.stream) /\ n \in DOMAIN depot
      BY <1>2, <1>5, <1>6, <3>1
    <3> QED
      BY <2>1, <3>2 DEF IInv, EventsInv
  <2>5. pc = "collect" =>
            \A n \in 1..begun : depot'[n].stream \notin todo /\ Due(n)' => EventOf(n)' \in events
    BY <1>4, <2>1, <2>2 DEF IInv, EventsInv
  <2>6. pc = "process" =>
            \A e \in events : \A n \in 1..begun : n < e.cl /\ Due(n)' => EventOf(n)' \in events
    BY <2>1, <2>2 DEF IInv, EventsInv
  <2> QED
    BY <1>9, <2>2, <2>3, <2>4, <2>5, <2>6 DEF IInv, EventsInv
<1> QED
  BY <1>7, <1>8, <1>10, <1>13, <1>14, <1>15, <1>16 DEF IInv

\* A stream that is created had no parent, and nothing to do with the rows.
LEMMA CreateStreamStep ==
    ASSUME IInv, NEW s \in Late, NEW p \in Stream, CreateStream(s, p)
    PROVE  IInv'
<1>1. /\ parent' = [parent EXCEPT ![s] = p]
      /\ UNCHANGED <<backend, depot, nested, registry, refs, stateVars, pc, todo, begun, events, faults>>
  BY DEF CreateStream
<1>2. /\ parent' \in [Stream -> Stream \cup {NoParent}]
      /\ \A t \in Stream : parent[t] # NoParent => parent'[t] # NoParent
  BY <1>1, BoundsAreNat DEF IInv, TypeOK
<1>3. TypeOK'
  BY <1>1, <1>2 DEF IInv, TypeOK, refs, registry, stateVars
<1>4. TodoInv'
  BY <1>1, <1>2 DEF IInv, TodoInv, TypeOK, registry
<1>5. EventsInv'
  <2>1. \A e \in events : e.stream \in Stream
    BY DEF IInv, TypeOK, Event
  <2> QED
    BY <1>1, <1>2, <2>1 DEF IInv, EventsInv, Due, EventOf, ChangesOf, registry, stateVars
<1> QED
  BY <1>1, <1>3, <1>4, <1>5, SameRows DEF IInv, registry

-----------------------------------------------------------------------------
(* The collector.                                                           *)

\* A query finds all that is due on its stream.
LEMMA QueryStep ==
    ASSUME IInv, NEW s \in Stream, QueryStream(s)
    PROVE  IInv'
<1> DEFINE create == IF lastCl[s] = None /\ parent[s] # NoParent
                     THEN {[cl |-> pointCl[s], priority |-> 0, stream |-> s]} ELSE {}
           changes == {[cl |-> n, priority |-> 1, stream |-> s] :
                          n \in {m \in ChangesOf(s) : m > lastCl[s]}}
<1>1. /\ pc = "collect" /\ s \in todo
      /\ events' = events \cup create \cup changes
      /\ todo' = todo \ {s}
      /\ UNCHANGED <<backend, p4Vars, registry, refs, stateVars, pc, begun, faults>>
  BY DEF QueryStream
<1>2. s \in registered
  BY <1>1 DEF IInv, TodoInv
<1>3. \A e \in create : /\ e \in Event /\ e.stream = s /\ e.priority = 0 /\ parent[s] # NoParent
  BY DEF IInv, TypeOK, Event
<1>4. \A n \in ChangesOf(s) : n > lastCl[s] =>
          /\ EventOf(n) = [cl |-> n, priority |-> 1, stream |-> s] /\ EventOf(n) \in Event
          /\ Due(n)
  BY <1>2, DepotFacts, ChangelistFacts DEF EventOf, Due, Event, IInv
<1>5. \A e \in changes : \E n \in ChangesOf(s) : n > lastCl[s] /\ e = EventOf(n)
  BY <1>4
<1>6. \A n \in ChangesOf(s) : n > lastCl[s] => EventOf(n) \in changes
  BY <1>4
<1>7. \A e \in changes : /\ e \in Event /\ e.stream = s /\ e.priority = 1
                         /\ e.cl \in ChangesOf(s) /\ Due(e.cl)
  <2> TAKE e \in changes
  <2>1. PICK n \in ChangesOf(s) : n > lastCl[s] /\ e = EventOf(n)
    BY <1>5
  <2>2. e = [cl |-> n, priority |-> 1, stream |-> s] /\ e \in Event /\ Due(n)
    BY <1>4, <2>1
  <2> QED
    BY <2>1, <2>2
<1> HIDE DEF create, changes
<1>8. UNCHANGED <<depot, parent, registered, lastCl, row, second, pc, begun, branch, behind>>
  BY <1>1 DEF p4Vars, refs, registry, stateVars
<1>9. TypeOK'
  BY <1>1, <1>3, <1>7 DEF IInv, TypeOK, p4Vars, refs, registry, stateVars
<1>10. TodoInv'
  BY <1>1, <1>8 DEF IInv, TodoInv
<1>11. EventsInv'
  <2>1. /\ \A n : (Due(n)' <=> Due(n)) /\ EventOf(n)' = EventOf(n)
        /\ \A t : ChangesOf(t)' = ChangesOf(t)
    BY <1>8 DEF Due, EventOf, ChangesOf
  <2>2. \A n \in ChangesOf(s) : Due(n) => EventOf(n) \in changes
    BY <1>6, DepotFacts DEF Due, IInv
  <2>3. \A e \in events' :
          /\ e.stream \in registered
          /\ e.priority = 0 => parent[e.stream] # NoParent
          /\ e.priority = 1 => e.cl \in ChangesOf(e.stream) /\ Due(e.cl)
    <3> TAKE e \in events'
    <3>1. CASE e \in events
      BY <3>1 DEF IInv, EventsInv
    <3>2. CASE e \in create
      BY <1>2, <1>3, <3>2
    <3>3. CASE e \in changes
      BY <1>2, <1>7, <3>3
    <3> QED
      BY <1>1, <3>1, <3>2, <3>3
  <2>4. \A e \in events' : \A n \in ChangesOf(e.stream) :
            e.priority = 1 /\ n < e.cl /\ Due(n) => EventOf(n) \in events'
    <3> TAKE e \in events'
    <3>1. CASE e \in events
      BY <1>1, <3>1 DEF IInv, EventsInv
    <3>2. CASE e \in create
      BY <1>3, <3>2
    <3>3. CASE e \in changes
      BY <1>1, <1>7, <2>2, <3>3
    <3> QED
      BY <1>1, <3>1, <3>2, <3>3
  <2>5. \A n \in 1..begun : depot[n].stream \notin todo' /\ Due(n) => EventOf(n) \in events'
    <3> TAKE n \in 1..begun
    <3>1. n \in DOMAIN depot
      BY DepotFacts DEF IInv, EventsInv, TypeOK
    <3>2. CASE depot[n].stream = s
      <4>1. n \in ChangesOf(s)
        BY <3>1, <3>2, DepotFacts DEF IInv
      <4> QED
        BY <1>1, <2>2, <4>1
    <3>3. CASE depot[n].stream # s
      BY <1>1, <3>3 DEF IInv, EventsInv
    <3> QED
      BY <3>2, <3>3
  <2> QED
    BY <1>1, <1>8, <2>1, <2>3, <2>4, <2>5 DEF IInv, EventsInv
<1> QED
  BY <1>8, <1>9, <1>10, <1>11, SameRows DEF IInv, refs, stateVars

\* What is cut off comes after all that stays.
LEMMA SortStep ==
    ASSUME IInv, SortAndCut
    PROVE  IInv'
<1>1. /\ pc = "collect" /\ todo = {} /\ pc' = "process"
      /\ events' \subseteq events
      /\ \A e \in events', f \in events \ events' : ~Before(f, e)
      /\ UNCHANGED <<backend, p4Vars, registry, refs, stateVars, todo, begun, faults>>
  BY DEF SortAndCut
<1>2. UNCHANGED <<depot, parent, registered, lastCl, row, second, begun, branch, behind, todo>>
  BY <1>1 DEF p4Vars, refs, registry, stateVars
<1>3. TypeOK'
  BY <1>1 DEF IInv, TypeOK, p4Vars, refs, registry, stateVars
<1>4. TodoInv'
  BY <1>1 DEF TodoInv
<1>5. \A e \in events', n \in CL : n < e.cl /\ EventOf(n) \in events => EventOf(n) \in events'
  <2> TAKE e \in events', n \in CL
  <2> HAVE n < e.cl /\ EventOf(n) \in events
  <2>1. Before(EventOf(n), e)
    BY DEF Before, EventOf
  <2> QED
    BY <1>1, <2>1
<1>6. EventsInv'
  <2>1. /\ \A n : (Due(n)' <=> Due(n)) /\ EventOf(n)' = EventOf(n)
        /\ \A t : ChangesOf(t)' = ChangesOf(t)
    BY <1>2 DEF Due, EventOf, ChangesOf
  <2>2. 1..begun \subseteq CL /\ \A t : ChangesOf(t) \subseteq CL
    <3>1. begun \in Int /\ begun <= MaxCL
      BY BoundsAreNat DEF IInv, TypeOK
    <3>2. 1..begun \subseteq CL
      BY <3>1, BoundsAreNat DEF CL
    <3> QED
      BY <3>2, DepotFacts DEF IInv
  <2>3. \A e \in events' : \A n \in ChangesOf(e.stream) :
            e.priority = 1 /\ n < e.cl /\ Due(n) => EventOf(n) \in events'
    BY <1>1, <1>5, <2>2 DEF IInv, EventsInv
  <2>4. \A e \in events' : \A n \in 1..begun : n < e.cl /\ Due(n) => EventOf(n) \in events'
    BY <1>1, <1>5, <2>2 DEF IInv, EventsInv
  <2>5. \A e \in events' :
          /\ e.stream \in registered
          /\ e.priority = 0 => parent[e.stream] # NoParent
          /\ e.priority = 1 => e.cl \in ChangesOf(e.stream) /\ Due(e.cl)
    BY <1>1 DEF IInv, EventsInv
  <2> QED
    BY <1>1, <1>2, <2>1, <2>3, <2>4, <2>5 DEF IInv, EventsInv
<1> QED
  BY <1>2, <1>3, <1>4, <1>6, SameRows DEF IInv, refs, stateVars

-----------------------------------------------------------------------------
(* The handler.                                                             *)

\* The branch of a stream is created, if there is none.
LEMMA BranchCreateStep ==
    ASSUME IInv, NEW e \in events, HandleBranchCreate(e)
    PROVE  IInv'
<1>1. /\ pc = "process" /\ e.priority = 0
      /\ CreateBranch(e.stream, BranchPoint(e))
      /\ events' = events \ {e}
      /\ UNCHANGED <<backend, p4Vars, registry, behind, stateVars, pc, todo, begun, faults>>
  BY DEF HandleBranchCreate, IsNext
<1>2. e.stream \in Stream /\ parent[e.stream] \in Stream
  BY <1>1 DEF IInv, EventsInv, TypeOK
<1>3. BranchPoint(e) \in Seq(CL)
  BY <1>2, CommitFacts DEF BranchPoint, IInv
<1>4. /\ branch' \in [Stream -> Seq(CL)]
      /\ \A t \in Stream : branch[t] = NoCommit \/ branch'[t] = branch[t]
  BY <1>1, <1>2, <1>3, CreateBranchFacts DEF IInv
<1>5. UNCHANGED <<depot, parent, registered, lastCl, row, second, begun, todo, pc, behind>>
  BY <1>1 DEF p4Vars, registry, stateVars
<1>6. TypeOK'
  BY <1>1, <1>4 DEF IInv, TypeOK, p4Vars, refs, registry, stateVars
<1>7. RecordedCommitsKept'
  BY <1>4, <1>5, CreateBranchKeeps DEF IInv
<1>8. TodoInv'
  BY <1>5 DEF IInv, TodoInv
<1>9. EventsInv'
  <2>1. /\ \A n : (Due(n)' <=> Due(n)) /\ EventOf(n)' = EventOf(n)
        /\ \A t : ChangesOf(t)' = ChangesOf(t)
    BY <1>5 DEF Due, EventOf, ChangesOf
  <2>2. \A n : EventOf(n) # e
    BY <1>1 DEF EventOf
  <2> QED
    BY <1>1, <1>5, <2>1, <2>2 DEF IInv, EventsInv
<1> QED
  BY <1>5, <1>6, <1>7, <1>8, <1>9, SameRows DEF IInv, stateVars

\* The next event is that of the next changelist of its stream, and every commit
\* recorded for the stream is an ancestor of the new one.
LEMMA NextFacts ==
    ASSUME IInv, NEW e \in events, IsNext(e), e.priority = 1
    PROVE  /\ e.cl \in ChangesOf(e.stream) /\ e.cl \in CL /\ e.stream \in Stream
           /\ e.stream \in registered /\ e.cl > lastCl[e.stream] /\ depot[e.cl].stream = e.stream
           /\ IsNextOf(e.stream, e.cl)
           /\ NewCommit(e.stream, e.cl) \in Seq(CL) /\ NewCommit(e.stream, e.cl) # NoCommit
           /\ \A n \in ChangesOf(e.stream) : IsPrefix(row[n], NewCommit(e.stream, e.cl))
           /\ \A t \in Stream : /\ t # e.stream => lastCl[t] # e.cl
                                /\ lastCl[t] \in Int
<1> DEFINE s == e.stream
           new == NewCommit(s, e.cl)
<1>1. /\ e.cl \in ChangesOf(s) /\ e.cl \in CL /\ s \in Stream /\ s \in registered
      /\ e.cl > lastCl[s] /\ depot[e.cl].stream = s
      /\ \A f \in events : ~Before(f, e)
  BY DepotFacts DEF IInv, EventsInv, TypeOK, Event, IsNext, Due
<1>2. IsNextOf(s, e.cl)
  <2> SUFFICES ASSUME NEW m \in ChangesOf(s), lastCl[s] < m, m < e.cl
               PROVE  FALSE
    BY <1>1, DepotFacts, ChangelistFacts DEF IsNextOf, IInv
  <2>1. depot[m].stream = s /\ m \in Int
    BY DepotFacts, ChangelistFacts DEF IInv
  <2>2. lastCl[s] \in Int
    BY <1>1, CheckpointType DEF IInv
  <2>3. Due(m)
    BY <1>1, <2>1, <2>2 DEF Due
  <2>4. EventOf(m) \in events
    BY <2>3 DEF IInv, EventsInv
  <2>5. Before(EventOf(m), e)
    BY DEF Before, EventOf
  <2> QED
    BY <1>1, <2>4, <2>5
<1>3. /\ LastCommit(s) \in Seq(CL) /\ new \in Seq(CL) /\ new # NoCommit
      /\ IsPrefix(LastCommit(s), new)
  BY <1>1, CommitFacts, PrefixOfAppend DEF IInv, NewCommit
<1>4. \A n \in ChangesOf(s) : IsPrefix(row[n], new)
  <2> TAKE n \in ChangesOf(s)
  <2>1. n \in CL /\ row[n] \in Seq(CL) /\ n \in Int /\ lastCl[s] \in Int
    <3>1. row \in [CL -> Seq(CL)] /\ n \in CL
      BY DepotFacts DEF IInv, TypeOK
    <3> QED
      BY <1>1, <3>1, ChangelistFacts, CheckpointType DEF IInv
  <2>2. CASE n <= lastCl[s]
    <3>1. IsPrefix(row[n], LastCommit(s))
      BY <1>1, <2>2 DEF IInv, RowsInv, Chained
    <3> QED
      BY <1>3, <2>1, <3>1, PrefixTransitive
  <2>3. CASE n > lastCl[s] /\ row[n] # NoCommit
    <3>1. IsNextOf(s, n) /\ row[n] = Append(LastCommit(s), n)
      BY <1>1, <2>3 DEF IInv, RowsInv, Chained
    <3>2. n = e.cl
      <4>1. e.cl <= n
        BY <1>2, <2>3 DEF IsNextOf
      <4>2. n <= e.cl
        BY <1>1, <3>1 DEF IsNextOf
      <4>3. n \in Int /\ e.cl \in Int
        BY <1>1, <2>1, ChangelistFacts
      <4> QED
        BY <4>1, <4>2, <4>3
    <3> QED
      BY <1>3, <3>1, <3>2, PrefixReflexive DEF NewCommit
  <2>4. CASE row[n] = NoCommit
    BY <1>3, <2>4, PrefixReflexive
  <2> QED
    BY <2>1, <2>2, <2>3, <2>4
<1>5. ASSUME NEW t \in Stream
      PROVE  (t # s => lastCl[t] # e.cl) /\ lastCl[t] \in Int
  <2>1. lastCl[t] \in ChangesOf(t) \cup {None} /\ lastCl[t] \in Int
    BY DEF IInv, RowsInv, TypeOK
  <2>2. e.cl \in ChangesOf(t) => t = s
    BY <1>1, DepotFacts DEF IInv
  <2> QED
    BY <1>1, <2>1, <2>2, ChangelistFacts
<1> QED
  BY <1>1, <1>2, <1>3, <1>4, <1>5

\* The branch that gets the new commit keeps all that were recorded, with or
\* without the row of the new one; one that does not get it counts as behind.
LEMMA CommitKeeps ==
    ASSUME IInv, NEW e \in events, IsNext(e), e.priority = 1,
           UNCHANGED depot,
           MoveBranch(e.stream, NewCommit(e.stream, e.cl)) \/ UpdateRefFails(e.stream),
           row' \in {row, [row EXCEPT ![e.cl] = NewCommit(e.stream, e.cl)]}
    PROVE  /\ RecordedCommitsKept'
           /\ branch' \in [Stream -> Seq(CL)] /\ behind' \subseteq Stream
           /\ row' \in [CL -> Seq(CL)]
           /\ \A n \in CL : row'[n] = row[n] \/ (n = e.cl /\ row'[n] = NewCommit(e.stream, e.cl))
           /\ \A n \in CL : n # e.cl => row'[n] = row[n]
<1> DEFINE s == e.stream
           new == NewCommit(s, e.cl)
<1>1. /\ e.cl \in ChangesOf(s) /\ e.cl \in CL /\ s \in Stream /\ depot[e.cl].stream = s
      /\ new \in Seq(CL) /\ \A n \in ChangesOf(s) : IsPrefix(row[n], new)
  BY NextFacts
<1> HIDE DEF new
<1>2. /\ \/ branch' = [branch EXCEPT ![s] = new] /\ behind' = behind \ {s}
         \/ branch' = branch /\ behind' = behind \cup {s}
      /\ row' = row \/ row' = [row EXCEPT ![e.cl] = new]
  BY DEF new, MoveBranch, UpdateRefFails
<1>3. /\ branch' \in [Stream -> Seq(CL)] /\ behind' \subseteq Stream
      /\ row' \in [CL -> Seq(CL)]
      /\ branch'[s] = new \/ s \in behind'
      /\ \A t \in Stream : t # s => branch'[t] = branch[t] /\ (t \in behind' <=> t \in behind)
      /\ \A n \in CL : row'[n] = row[n] \/ (n = e.cl /\ row'[n] = new)
      /\ \A n \in CL : n # e.cl => row'[n] = row[n]
  <2>1. branch \in [Stream -> Seq(CL)] /\ behind \subseteq Stream /\ row \in [CL -> Seq(CL)]
    BY DEF IInv, TypeOK
  <2>2. /\ branch' \in [Stream -> Seq(CL)] /\ behind' \subseteq Stream
        /\ branch'[s] = new \/ s \in behind'
        /\ \A t \in Stream : t # s => branch'[t] = branch[t] /\ (t \in behind' <=> t \in behind)
    BY <1>1, <1>2, <2>1
  <2>3. /\ row' \in [CL -> Seq(CL)]
        /\ \A n \in CL : row'[n] = row[n] \/ (n = e.cl /\ row'[n] = new)
        /\ \A n \in CL : n # e.cl => row'[n] = row[n]
    BY <1>1, <1>2, <2>1
  <2> QED
    BY <2>2, <2>3
<1>4. ASSUME NEW n \in DOMAIN depot, depot[n].stream \notin behind'
      PROVE  IsPrefix(row'[n], branch'[depot[n].stream])
  <2>1. n \in CL /\ depot[n].stream \in Stream
    BY DepotFacts DEF IInv
  <2>2. CASE depot[n].stream = s
    <3>1. n \in ChangesOf(s)
      BY <2>2, DepotFacts DEF IInv
    <3> QED
      BY <1>1, <1>3, <1>4, <2>1, <2>2, <3>1, PrefixReflexive
  <2>3. CASE depot[n].stream # s
    <3>1. /\ row'[n] = row[n] /\ branch'[depot[n].stream] = branch[depot[n].stream]
          /\ depot[n].stream \notin behind
      BY <1>1, <1>3, <1>4, <2>1, <2>3
    <3> QED
      BY <3>1 DEF IInv, RecordedCommitsKept
  <2> QED
    BY <2>2, <2>3
<1>5. RecordedCommitsKept'
  BY <1>4 DEF RecordedCommitsKept
<1> QED
  BY <1>3, <1>5 DEF new

\* The source of a merge is a changelist.
LEMMA SecondParentType ==
    ASSUME NEW s, NEW found \in SUBSET CL
    PROVE  SecondParent(s, found) \in 0..MaxCL
<1>1. SourceChangelist(found) \in CL \cup {None}
  BY EndFacts DEF SourceChangelist
<1> QED
  BY <1>1, ChangelistFacts, BoundsAreNat DEF SecondParent, None

\* A changelist is committed and becomes the checkpoint of its stream.
LEMMA HandleStep ==
    ASSUME IInv, NEW e \in events, e.cl # None, NEW found \in SUBSET depot[e.cl].sources,
           HandleChangelist(e, found)
    PROVE  IInv'
<1> DEFINE s == e.stream
           new == NewCommit(s, e.cl)
<1>1. /\ IsNext(e) /\ e.priority = 1 /\ pc = "process"
      /\ (MoveBranch(s, new) /\ Analyze(e.cl, found)) \/ UpdateRefFails(s)
      /\ row' = [row EXCEPT ![e.cl] = new]
      /\ lastCl' = [lastCl EXCEPT ![s] = e.cl]
      /\ second' = [second EXCEPT ![e.cl] = SecondParent(s, found)]
      /\ events' = events \ {e}
      /\ UNCHANGED <<backend, p4Vars, registry, pc, todo, begun>>
  BY DEF HandleChangelist, IsNext
<1>2. /\ e.cl \in ChangesOf(s) /\ e.cl \in CL /\ s \in Stream /\ s \in registered
      /\ e.cl > lastCl[s] /\ depot[e.cl].stream = s
      /\ IsNextOf(s, e.cl) /\ new \in Seq(CL) /\ new # NoCommit
      /\ \A n \in ChangesOf(s) : IsPrefix(row[n], new)
      /\ \A t \in Stream : (t # s => lastCl[t] # e.cl) /\ lastCl[t] \in Int
  BY <1>1, NextFacts
<1>3. UNCHANGED <<depot, parent, registered, pc, todo, begun>>
  BY <1>1 DEF p4Vars, registry
<1>4. /\ RecordedCommitsKept'
      /\ branch' \in [Stream -> Seq(CL)] /\ behind' \subseteq Stream
      /\ row' \in [CL -> Seq(CL)]
      /\ \A n \in CL : n # e.cl => row'[n] = row[n]
  BY <1>1, <1>3, CommitKeeps
<1> HIDE DEF new
<1>5. /\ row'[e.cl] = new
      /\ lastCl'[s] = e.cl /\ \A t \in Stream : t # s => lastCl'[t] = lastCl[t]
      /\ lastCl' \in [Stream -> 0..MaxCL]
  <2>1. lastCl \in [Stream -> 0..MaxCL] /\ row \in [CL -> Seq(CL)]
    BY DEF IInv, TypeOK
  <2>2. e.cl \in 0..MaxCL
    BY <1>2, ChangelistFacts, BoundsAreNat
  <2> QED
    BY <1>1, <1>2, <2>1, <2>2
<1>6. faults' \in 0..MaxFaults
  <2>1. faults' = faults \/ (faults < MaxFaults /\ faults' = faults + 1)
    BY <1>1 DEF Analyze, UpdateRefFails, Fault
  <2>2. faults \in 0..MaxFaults
    BY DEF IInv, TypeOK
  <2> QED
    BY <2>1, <2>2, BoundsAreNat
<1>7. TypeOK'
  <2>1. depot[e.cl].sources \subseteq CL
    BY <1>2, DepotFacts DEF IInv
  <2>2. SecondParent(s, found) \in 0..MaxCL
    BY <2>1, SecondParentType
  <2>3. second' \in [CL -> 0..MaxCL]
    BY <1>1, <2>2 DEF IInv, TypeOK
  <2> QED
    BY <1>1, <1>4, <1>5, <1>6, <2>3 DEF IInv, TypeOK, p4Vars, registry
<1>8. SourcesAreOlder' /\ TodoInv'
  BY <1>3 DEF IInv, SourcesAreOlder, TodoInv
<1>9. \A t : ChangesOf(t)' = ChangesOf(t)
  BY <1>3 DEF ChangesOf
<1>10. \A t \in Stream : \A n \in ChangesOf(t) : n \in CL /\ n \in Int /\ 1 <= n /\ (t # s => n # e.cl)
  BY <1>2, DepotFacts, ChangelistFacts DEF IInv
<1>11. RowsInv'
  <2>1. ASSUME NEW t \in Stream
        PROVE  Chained(t)'
    <3>1. CASE t = s
      <4>1. LastCommit(s)' = new
        BY <1>2, <1>5, ChangelistFacts DEF LastCommit
      <4>2. \A n \in ChangesOf(s) : n <= e.cl => IsPrefix(row'[n], new)
        BY <1>2, <1>4, <1>5, <1>10, PrefixReflexive
      <4>3. \A n \in ChangesOf(s) : n > e.cl => row'[n] = NoCommit
        <5> TAKE n \in ChangesOf(s)
        <5> HAVE n > e.cl
        <5>1. row'[n] = row[n] /\ n > lastCl[s]
          BY <1>2, <1>4, <1>10, ChangelistFacts
        <5>2. row[n] # NoCommit => IsNextOf(s, n)
          BY <1>2, <5>1 DEF IInv, RowsInv, Chained
        <5>3. ~IsNextOf(s, n)
          BY <1>2, <1>10 DEF IsNextOf
        <5> QED
          BY <5>1, <5>2, <5>3
      <4> QED
        BY <1>5, <1>9, <3>1, <4>1, <4>2, <4>3 DEF Chained
    <3>2. CASE t # s
      <4>1. lastCl'[t] = lastCl[t] /\ lastCl[t] # e.cl /\ lastCl[t] \in CL \cup {None}
        BY <1>2, <1>5, <1>10, <3>2 DEF IInv, RowsInv
      <4>2. LastCommit(t)' = LastCommit(t)
        BY <1>4, <4>1 DEF LastCommit
      <4>3. \A n \in ChangesOf(t) : row'[n] = row[n] /\ (IsNextOf(t, n)' <=> IsNextOf(t, n))
        BY <1>4, <1>9, <1>10, <3>2, <4>1 DEF IsNextOf
      <4> QED
        BY <1>9, <4>1, <4>2, <4>3 DEF IInv, RowsInv, Chained
    <3> QED
      BY <3>1, <3>2
  <2>2. \A t \in Stream : /\ lastCl'[t] \in ChangesOf(t) \cup {None}
                          /\ t \notin registered => lastCl'[t] = None
    BY <1>2, <1>5 DEF IInv, RowsInv
  <2>3. \A n \in CL \ DOMAIN depot : row'[n] = NoCommit
    <3>1. e.cl \in DOMAIN depot
      BY <1>2, DepotFacts DEF IInv
    <3> QED
      BY <1>4, <3>1 DEF IInv, RowsInv
  <2> QED
    BY <1>3, <1>9, <2>1, <2>2, <2>3 DEF RowsInv
<1>12. NothingPassedOver'
  <2>1. ASSUME NEW t \in registered, NEW n \in ChangesOf(t), n <= lastCl'[t]
        PROVE  row'[n] # NoCommit
    <3>0. t \in Stream
      BY DEF IInv, TypeOK
    <3>1. CASE t # s
      BY <1>4, <1>5, <1>10, <2>1, <3>0, <3>1 DEF IInv, NothingPassedOver
    <3>2. CASE t = s /\ n = e.cl
      BY <1>2, <1>5, <3>2
    <3>3. CASE t = s /\ n # e.cl
      <4>1. n < e.cl
        BY <1>2, <1>5, <1>10, <2>1, <3>0, <3>3
      <4>2. n <= lastCl[s]
        BY <1>2, <1>10, <3>0, <3>3, <4>1 DEF IsNextOf
      <4> QED
        BY <1>2, <1>4, <1>10, <3>0, <3>3, <4>2 DEF IInv, NothingPassedOver
    <3> QED
      BY <3>1, <3>2, <3>3
  <2> QED
    BY <1>3, <1>9, <2>1 DEF NothingPassedOver
<1>13. EventsInv'
  <2>1. \A n : EventOf(n)' = EventOf(n)
    BY <1>3 DEF EventOf
  <2>2. \A n \in DOMAIN depot : Due(n)' <=> Due(n) /\ (depot[n].stream = s => n > e.cl)
    <3> TAKE n \in DOMAIN depot
    <3>1. depot[n].stream \in Stream /\ n \in Int /\ e.cl \in Int
      BY <1>2, DepotFacts, ChangelistFacts DEF IInv
    <3> QED
      BY <1>2, <1>3, <1>5, <3>1 DEF Due
  <2>3. \A n \in DOMAIN depot : Due(n)' => Due(n) /\ EventOf(n) # e
    <3> TAKE n \in DOMAIN depot
    <3> HAVE Due(n)'
    <3>1. Due(n) /\ n # e.cl
      BY <1>2, <2>2, ChangelistFacts
    <3> QED
      BY <3>1 DEF EventOf
  <2>4. \A f \in events' : f.priority = 1 => f.cl \in ChangesOf(f.stream) /\ Due(f.cl)'
    <3> TAKE f \in events'
    <3> HAVE f.priority = 1
    <3>1. /\ f \in events /\ f # e /\ f.cl \in ChangesOf(f.stream) /\ Due(f.cl)
          /\ f \in Event /\ e \in Event
      BY <1>1 DEF IInv, EventsInv, TypeOK
    <3>2. f.cl \in DOMAIN depot /\ f.cl \in CL /\ depot[f.cl].stream = f.stream
      BY <3>1, DepotFacts DEF IInv
    <3>3. ASSUME f.stream = s
          PROVE  f.cl > e.cl
      <4>1. ~(f.cl < e.cl)
        BY <1>1, <3>1 DEF IsNext, Before
      <4>2. f.cl # e.cl
        BY <1>1, <3>1, <3>3 DEF Event
      <4> QED
        BY <1>2, <3>2, <4>1, <4>2, ChangelistFacts
    <3> QED
      BY <2>2, <3>1, <3>2, <3>3
  <2>5. \A f \in events' : f.stream \in registered /\ (f.priority = 0 => parent[f.stream] # NoParent)
    BY <1>1 DEF IInv, EventsInv
  <2>6. \A f \in events' : \A n \in ChangesOf(f.stream) :
            f.priority = 1 /\ n < f.cl /\ Due(n)' => EventOf(n) \in events'
    <3> TAKE f \in events'
    <3> TAKE n \in ChangesOf(f.stream)
    <3> HAVE f.priority = 1 /\ n < f.cl /\ Due(n)'
    <3>1. n \in DOMAIN depot
      BY DepotFacts DEF IInv
    <3>2. f \in events /\ Due(n) /\ EventOf(n) # e
      BY <1>1, <2>3, <3>1
    <3> QED
      BY <1>1, <3>2 DEF IInv, EventsInv
  <2>7. \A f \in events' : \A n \in 1..begun : n < f.cl /\ Due(n)' => EventOf(n) \in events'
    <3> TAKE f \in events'
    <3> TAKE n \in 1..begun
    <3> HAVE n < f.cl /\ Due(n)'
    <3>1. n \in DOMAIN depot
      BY DepotFacts DEF IInv, EventsInv, TypeOK
    <3>2. f \in events /\ Due(n) /\ EventOf(n) # e
      BY <1>1, <2>3, <3>1
    <3> QED
      BY <1>1, <3>2 DEF IInv, EventsInv
  <2> QED
    BY <1>1, <1>3, <1>9, <2>1, <2>4, <2>5, <2>6, <2>7 DEF IInv, EventsInv
<1> QED
  BY <1>4, <1>7, <1>8, <1>11, <1>12, <1>13 DEF IInv

\* The process is killed inside an event: the row, if there is one, is that of the
\* next changelist.
LEMMA KillInsideStep ==
    ASSUME IInv, NEW e \in events, KillInside(e)
    PROVE  IInv'
<1> DEFINE s == e.stream
           new == NewCommit(s, e.cl)
<1>1. /\ IsNext(e) /\ e.priority = 1
      /\ faults < MaxFaults /\ faults' = faults + 1
      /\ MoveBranch(s, new) \/ UpdateRefFails(s)
      /\ row' \in {row, [row EXCEPT ![e.cl] = new]}
      /\ second' = [second EXCEPT ![e.cl] = SecondParent(s, depot[e.cl].sources)]
      /\ pc' = "down" /\ todo' = {} /\ events' = {}
      /\ UNCHANGED <<backend, p4Vars, registry, lastCl, begun>>
  BY DEF KillInside, UpdateRefFails, Fault
<1>2. /\ e.cl \in ChangesOf(s) /\ e.cl \in CL /\ s \in Stream
      /\ e.cl > lastCl[s] /\ depot[e.cl].stream = s
      /\ IsNextOf(s, e.cl) /\ new \in Seq(CL) /\ new # NoCommit
      /\ \A t \in Stream : (t # s => lastCl[t] # e.cl) /\ lastCl[t] \in Int
  BY <1>1, NextFacts
<1>3. UNCHANGED <<depot, parent, registered, lastCl, begun>>
  BY <1>1 DEF p4Vars, registry
<1>4. /\ RecordedCommitsKept'
      /\ branch' \in [Stream -> Seq(CL)] /\ behind' \subseteq Stream
      /\ row' \in [CL -> Seq(CL)]
      /\ \A n \in CL : row'[n] = row[n] \/ (n = e.cl /\ row'[n] = new)
      /\ \A n \in CL : n # e.cl => row'[n] = row[n]
  BY <1>1, <1>3, CommitKeeps
<1>5. new = Append(LastCommit(s), e.cl)
  BY DEF NewCommit
<1> HIDE DEF new
<1>6. TypeOK'
  <2>1. depot[e.cl].sources \subseteq CL
    BY <1>2, DepotFacts DEF IInv
  <2>2. SecondParent(s, depot[e.cl].sources) \in 0..MaxCL
    BY <2>1, SecondParentType
  <2>3. second' \in [CL -> 0..MaxCL]
    BY <1>1, <2>2 DEF IInv, TypeOK
  <2>4. faults' \in 0..MaxFaults
    <3>1. faults \in 0..MaxFaults
      BY DEF IInv, TypeOK
    <3> QED
      BY <1>1, <3>1, BoundsAreNat
  <2> QED
    BY <1>1, <1>4, <2>3, <2>4 DEF IInv, TypeOK, p4Vars, registry
<1>7. SourcesAreOlder' /\ TodoInv'
  BY <1>1, <1>3 DEF IInv, SourcesAreOlder, TodoInv
<1>8. \A t : ChangesOf(t)' = ChangesOf(t) /\ \A n : IsNextOf(t, n)' <=> IsNextOf(t, n)
  BY <1>3 DEF ChangesOf, IsNextOf
<1>9. \A t \in Stream : LastCommit(t)' = LastCommit(t)
  <2> TAKE t \in Stream
  <2>1. lastCl[t] \in CL \cup {None} /\ lastCl[t] # e.cl
    BY <1>2, DepotFacts DEF IInv, RowsInv
  <2> QED
    BY <1>3, <1>4, <2>1 DEF LastCommit
<1>10. \A t \in Stream : \A n \in ChangesOf(t) : n \in CL /\ n \in Int /\ 1 <= n /\ (t # s => n # e.cl)
  BY <1>2, DepotFacts, ChangelistFacts DEF IInv
<1>11. RowsInv'
  <2>1. ASSUME NEW t \in Stream
        PROVE  Chained(t)'
    <3>1. ASSUME NEW n \in ChangesOf(t), n = e.cl, row'[n] = new
          PROVE  /\ ~(n <= lastCl[t])
                 /\ IsNextOf(t, n) /\ row'[n] = Append(LastCommit(t), n)
      <4>1. t = s
        BY <1>10, <3>1
      <4> QED
        BY <1>2, <1>5, <1>10, <3>1, <4>1
    <3>2. ASSUME NEW n \in ChangesOf(t), row'[n] = row[n]
          PROVE  /\ n <= lastCl[t] => IsPrefix(row'[n], LastCommit(t))
                 /\ n > lastCl[t] /\ row'[n] # NoCommit
                       => IsNextOf(t, n) /\ row'[n] = Append(LastCommit(t), n)
      BY <3>2 DEF IInv, RowsInv, Chained
    <3>3. \A n \in ChangesOf(t) :
             /\ n <= lastCl[t] => IsPrefix(row'[n], LastCommit(t))
             /\ n > lastCl[t] /\ row'[n] # NoCommit
                   => IsNextOf(t, n) /\ row'[n] = Append(LastCommit(t), n)
      BY <1>4, <1>10, <3>1, <3>2
    <3>4. LastCommit(t)' = LastCommit(t) /\ lastCl'[t] = lastCl[t]
      BY <1>3, <1>9
    <3> QED
      BY <1>8, <3>3, <3>4 DEF Chained
  <2>2. \A n \in CL \ DOMAIN depot : row'[n] = NoCommit
    <3>1. e.cl \in DOMAIN depot
      BY <1>2, DepotFacts DEF IInv
    <3> QED
      BY <1>4, <3>1 DEF IInv, RowsInv
  <2> QED
    BY <1>3, <1>8, <2>1, <2>2 DEF IInv, RowsInv
<1>12. NothingPassedOver'
  <2>1. ASSUME NEW t \in registered, NEW n \in ChangesOf(t), n <= lastCl[t]
        PROVE  row'[n] # NoCommit
    <3>1. t \in Stream /\ n \in CL
      BY <1>10 DEF IInv, TypeOK
    <3> QED
      BY <1>2, <1>4, <2>1, <3>1 DEF IInv, NothingPassedOver
  <2> QED
    BY <1>3, <1>8, <2>1 DEF NothingPassedOver
<1>13. EventsInv'
  BY <1>1, <1>3 DEF IInv, EventsInv
<1> QED
  BY <1>4, <1>6, <1>7, <1>11, <1>12, <1>13 DEF IInv

-----------------------------------------------------------------------------
(* The theorems.                                                            *)

\* The two imported changelists are on their branches.
LEMMA InitInv ==
    ASSUME Init
    PROVE  IInv
<1> USE BoundsAreNat DEF Init
<1>1. /\ Len(depot) = 2 /\ DOMAIN depot = {1, 2}
      /\ depot[1] = [stream |-> Main, sources |-> {}] /\ depot[2] = [stream |-> Dev, sources |-> {1}]
      /\ 1 \in CL /\ 2 \in CL
  BY DEF CL
<1>2. \A s : ChangesOf(s) = IF s = Main THEN {1} ELSE IF s = Dev THEN {2} ELSE {}
  BY <1>1 DEF ChangesOf
<1>3. <<1>> \in Seq(CL) /\ <<1, 2>> \in Seq(CL) /\ NoCommit \in Seq(CL)
  BY <1>1, EmptySeq DEF NoCommit
<1>4. depot \in Seq([stream : Stream, sources : SUBSET CL])
  BY <1>1
<1>5. TypeOK
  <2>1. branch \in [Stream -> Seq(CL)] /\ row \in [CL -> Seq(CL)]
    BY <1>3
  <2>2. /\ lastCl \in [Stream -> 0..MaxCL] /\ pointCl \in [Stream -> 0..MaxCL]
        /\ second \in [CL -> 0..MaxCL]
    BY DEF None
  <2>3. parent \in [Stream -> Stream \cup {NoParent}] /\ begun \in 0..MaxCL /\ faults \in 0..MaxFaults
    OBVIOUS
  <2> QED
    BY <1>1, <1>4, <2>1, <2>2, <2>3 DEF TypeOK
<1>6. SourcesAreOlder /\ TodoInv /\ EventsInv
  BY <1>1 DEF SourcesAreOlder, TodoInv, EventsInv
<1>7. \A n \in DOMAIN depot : IsPrefix(row[n], branch[depot[n].stream])
  <2>1. row[1] = <<1>> /\ row[2] = <<1, 2>> /\ branch[Main] = <<1>> /\ branch[Dev] = <<1, 2>>
    BY <1>1
  <2>2. IsPrefix(row[1], branch[Main]) /\ IsPrefix(row[2], branch[Dev])
    BY <2>1, <1>3, PrefixReflexive
  <2>3. depot[1].stream = Main /\ depot[2].stream = Dev
    BY <1>1
  <2> HIDE DEF Init
  <2> QED
    BY <1>1, <2>2, <2>3
<1>8. lastCl[Main] = 1 /\ lastCl[Dev] = 2 /\ \A s \in Stream \ {Main, Dev} : lastCl[s] = None
  OBVIOUS
<1>9. LastCommit(Main) = row[1] /\ LastCommit(Dev) = row[2] /\ row[1] = <<1>> /\ row[2] = <<1, 2>>
  BY <1>1, <1>8 DEF LastCommit, None
<1>10. RowsInv
  <2>1. \A s \in Stream : Chained(s)
    <3> TAKE s \in Stream
    <3> HIDE DEF Init
    <3>1. IsPrefix(row[1], row[1]) /\ IsPrefix(row[2], row[2])
      BY <1>3, <1>9, PrefixReflexive
    <3>2. CASE s = Main
      <4>1. ChangesOf(s) = {1} /\ lastCl[s] = 1 /\ LastCommit(s) = row[1]
        BY <1>2, <1>8, <1>9, <3>2
      <4> QED
        BY <3>1, <4>1 DEF Chained
    <3>3. CASE s = Dev /\ s # Main
      <4>1. ChangesOf(s) = {2} /\ lastCl[s] = 2 /\ LastCommit(s) = row[2]
        BY <1>2, <1>8, <1>9, <3>3
      <4> QED
        BY <3>1, <4>1 DEF Chained
    <3>4. CASE s \notin {Main, Dev}
      BY <1>2, <3>4 DEF Chained
    <3> QED
      BY <3>2, <3>3, <3>4
  <2>2. \A s \in Stream : /\ lastCl[s] \in ChangesOf(s) \cup {None}
                          /\ s \notin registered => lastCl[s] = None
    BY <1>2, <1>8
  <2>3. \A n \in CL \ DOMAIN depot : row[n] = NoCommit
    BY <1>1
  <2> QED
    BY <2>1, <2>2, <2>3 DEF RowsInv
<1>11. NothingPassedOver
  <2> HIDE DEF Init
  <2>1. row[1] # NoCommit /\ row[2] # NoCommit
    <3>1. <<1>> # NoCommit /\ <<1, 2>> # NoCommit
      BY DEF NoCommit
    <3> QED
      BY <1>9, <3>1
  <2>2. \A s : \A n \in ChangesOf(s) : n \in {1, 2}
    BY <1>2
  <2> QED
    BY <2>1, <2>2 DEF NothingPassedOver
<1>12. RecordedCommitsKept
  BY <1>7 DEF RecordedCommitsKept
<1> QED
  BY <1>5, <1>6, <1>10, <1>11, <1>12 DEF IInv

\* Every step keeps the invariant.
LEMMA NextInv ==
    ASSUME IInv, [Next]_vars
    PROVE  IInv'
<1>1. CASE UNCHANGED vars
  <2>1. UNCHANGED <<backend, p4Vars, registry, refs, stateVars, pc, todo, begun, events, faults>>
    BY <1>1 DEF vars
  <2>2. TypeOK' /\ TodoInv'
    BY <2>1 DEF IInv, TypeOK, TodoInv, p4Vars, refs, registry, stateVars
  <2>3. EventsInv'
    BY <2>1 DEF IInv, EventsInv, Due, EventOf, ChangesOf, p4Vars, registry, stateVars
  <2> QED
    BY <2>1, <2>2, <2>3, SameRows DEF IInv, p4Vars, registry
<1>2. CASE \E s \in Stream, sources \in Integrated : Submit(s, sources)
  BY <1>2, SubmitStep
<1>3. CASE \E s \in Late, p \in Stream : CreateStream(s, p)
  BY <1>3, CreateStreamStep
<1>4. CASE Work
  <2>1. CASE \E s \in Late : RegisterStream(s)
    BY <2>1, RegisterStep
  <2>2. CASE BeginRound \/ SortAndCut \/ \E s \in Stream : QueryStream(s)
    BY <2>2, BeginRoundStep, SortStep, QueryStep
  <2>3. CASE \E e \in events : HandleBranchCreate(e)
    BY <2>3, BranchCreateStep
  <2>4. CASE \E e \in events :
                e.cl # None /\ \E found \in SUBSET depot[e.cl].sources : HandleChangelist(e, found)
    BY <2>4, HandleStep
  <2>5. CASE Start \/ (\E e \in events : EventFails(e)) \/ EndRound
    BY <2>5, IdleSteps
  <2> QED
    BY <1>4, <2>1, <2>2, <2>3, <2>4, <2>5 DEF Work
<1>5. CASE (\E s \in Late : RegisterFails(s)) \/ CollectFails \/ Kill
  BY <1>5, IdleSteps
<1>6. CASE \E e \in events : KillInside(e)
  BY <1>6, KillInsideStep
<1> QED
  BY <1>1, <1>2, <1>3, <1>4, <1>5, <1>6 DEF Next

\* The invariant holds throughout.
LEMMA StreamsInvariant == Spec => []IInv
<1>1. Init => IInv
  BY InitInv
<1>2. IInv /\ [Next]_vars => IInv'
  BY NextInv
<1> QED
  BY <1>1, <1>2, PTL DEF Spec

\* A row that is new is that of the event in work; its source, if it was there when
\* the round began, has its commit already.
LEMMA MergeStep ==
    ASSUME IInv, [Next]_vars, NEW n \in CL, row'[n] # row[n], SourceKnown(n)
    PROVE  second'[n] = Source(n) \/ faults' # faults
<1> USE DEF p4Vars, registry, stateVars
<1>1. CASE \E e \in events : KillInside(e)
  BY <1>1 DEF KillInside, UpdateRefFails, Fault, IInv, TypeOK
<1>2. ASSUME NEW e \in events, NEW found \in SUBSET depot[e.cl].sources, HandleChangelist(e, found)
      PROVE  second'[n] = Source(n) \/ faults' # faults
  <2> DEFINE s == e.stream
             source == Source(n)
             t == depot[source].stream
  <2>1. /\ IsNext(e) /\ e.priority = 1 /\ pc = "process"
        /\ Analyze(e.cl, found) \/ UpdateRefFails(s)
        /\ row' = [row EXCEPT ![e.cl] = NewCommit(s, e.cl)]
        /\ second' = [second EXCEPT ![e.cl] = SecondParent(s, found)]
    BY <1>2 DEF HandleChangelist, IsNext
  <2>2. n = e.cl
    BY <2>1 DEF IInv, TypeOK
  <2>3. s \in Stream /\ s \in registered /\ e.cl \in ChangesOf(s) /\ depot[n].stream = s
        /\ n \in DOMAIN depot
    BY <2>1, <2>2, NextFacts, DepotFacts DEF IInv
  <2>4. SUFFICES ASSUME faults' = faults PROVE second'[n] = source
    OBVIOUS
  <2>5. found = depot[n].sources
    BY <2>1, <2>2, <2>4 DEF Analyze, UpdateRefFails, Fault, IInv, TypeOK
  <2>6. source \in 1..begun /\ t \in registered /\ lastCl[s] # None
    BY <2>3 DEF SourceKnown
  <2>7. source \in DOMAIN depot /\ source # None
    <3>1. begun \in 0..MaxCL /\ begun <= Len(depot)
      BY DEF IInv, EventsInv, TypeOK
    <3>2. Len(depot) \in Nat /\ DOMAIN depot = 1..Len(depot)
      BY DepotFacts DEF IInv
    <3> HIDE DEF source
    <3> QED
      BY <2>6, <3>1, <3>2, BoundsAreNat DEF None
  <2>8. found # {} /\ source = Latest(found)
    BY <2>5, <2>7 DEF Source
  <2>9. source \in found /\ source < n
    <3>1. found \subseteq 1..(n - 1) /\ found \subseteq CL
      BY <2>3, <2>5, DepotFacts DEF IInv, SourcesAreOlder
    <3>2. source \in found
      BY <2>8, <3>1, EndFacts
    <3>3. source \in 1..(n - 1) /\ n \in Int
      BY <3>1, <3>2, ChangelistFacts
    <3> HIDE DEF source
    <3> QED
      BY <3>2, <3>3
  <2>10. row[source] # NoCommit
    <3> SUFFICES ASSUME row[source] = NoCommit PROVE FALSE
      OBVIOUS
    <3>1. t \in Stream /\ lastCl[t] \in Int /\ source \in Int /\ source \in ChangesOf(t)
      BY <2>6, <2>7, DepotFacts, CheckpointType, ChangelistFacts DEF IInv
    <3>2. source > lastCl[t]
      BY <2>6, <3>1 DEF IInv, NothingPassedOver
    <3>3. EventOf(source) \in events
      BY <2>1, <2>2, <2>6, <2>9, <3>2 DEF IInv, EventsInv, Due
    <3>4. Before(EventOf(source), e)
      BY <2>2, <2>9 DEF Before, EventOf
    <3> QED
      BY <2>1, <3>3, <3>4 DEF IsNext
  <2>11. LastCommit(s) # NoCommit
    <3>1. lastCl[s] \in ChangesOf(s) /\ lastCl[s] \in Int
      BY <2>3, <2>6, CheckpointType DEF IInv, RowsInv
    <3>2. row[lastCl[s]] # NoCommit
      BY <2>3, <3>1 DEF IInv, NothingPassedOver
    <3> QED
      BY <2>6, <3>2 DEF LastCommit
  <2>12. SecondParent(s, found) = source
    BY <2>7, <2>8, <2>10, <2>11 DEF SecondParent, SourceChangelist
  <2> QED
    BY <2>1, <2>2, <2>12 DEF IInv, TypeOK
<1>3. CASE row' = row
  BY <1>3
<1>4. row' = row \/ (\E e \in events : KillInside(e))
      \/ \E e \in events : \E found \in SUBSET depot[e.cl].sources : HandleChangelist(e, found)
  <2>1. CASE UNCHANGED vars
    BY <2>1 DEF vars
  <2>2. CASE Work
    BY <2>2 DEF Work, Start, BeginRound, RegisterStream, QueryStream, SortAndCut,
                HandleBranchCreate, EventFails, EndRound
  <2>3. CASE (\E s \in Stream, sources \in Integrated : Submit(s, sources))
             \/ (\E s \in Late, p \in Stream : CreateStream(s, p))
             \/ (\E s \in Late : RegisterFails(s)) \/ CollectFails \/ Kill
    BY <2>3 DEF Submit, CreateStream, RegisterFails, CollectFails, Kill
  <2> QED
    BY <2>1, <2>2, <2>3 DEF Next
<1> QED
  BY <1>1, <1>2, <1>3, <1>4

\* Every variable of the watcher, the collector, the handler and the repository has
\* its type.
THEOREM StreamsTypeCorrect == Spec => []TypeOK
<1>1. IInv => TypeOK
  BY DEF IInv
<1> QED
  BY <1>1, StreamsInvariant, PTL

\* Up to its checkpoint every changelist of a registered stream has a commit, though
\* a batch of all streams is cut and given up at the first failure.
THEOREM StreamsPassNothingOver == Spec => []NothingPassedOver
<1>1. IInv => NothingPassedOver
  BY DEF IInv
<1> QED
  BY <1>1, StreamsInvariant, PTL

\* No branch loses a commit recorded for its stream, with either backend.
THEOREM BranchesKeepCommits == Spec => []RecordedCommitsKept
<1>1. IInv => RecordedCommitsKept
  BY DEF IInv
<1> QED
  BY <1>1, StreamsInvariant, PTL

\* A merge gets the commit of its newest source as second parent, if the source was
\* there when the round began and P4 does not fail.
THEOREM MergesGetTheirSource == Spec => MergesHaveTheirSource
<1>1. ASSUME IInv, [Next]_vars
      PROVE  [\A n \in CL :
                  row'[n] # row[n] /\ SourceKnown(n)
                      => second'[n] = Source(n) \/ faults' # faults]_vars
  BY <1>1, MergeStep
<1> QED
  BY <1>1, StreamsInvariant, PTL DEF Spec, MergesHaveTheirSource
=============================================================================
