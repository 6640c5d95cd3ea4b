---------------------------- MODULE Content_proofs ----------------------------
(***************************************************************************)
(* Type correctness of Content, that whoever clones the remote finds every     *)
(* LFS object, and that the tree of the newest commit is the stream, for every  *)
(* backend, kind of file, batch size and number of changelists and faults.      *)
(***************************************************************************)
EXTENDS ContentProps, FiniteSetTheorems, TLAPS

\* The constants are what the model assumes of them.
LEMMA BoundsAreNat ==
    /\ Backends \subseteq {"pygit2", "cli"}
    /\ Kinds \subseteq {"text", "script", "small", "large", "odd"}
    /\ AutoDetect \in BOOLEAN /\ Replacing \in BOOLEAN /\ OtherPushes \in BOOLEAN
    /\ MaxCL \in Nat /\ MaxFaults \in Nat
BY ContentAssumption

\* Three different paths, the second of them in the directory of the first's name.
LEMMA PathFacts ==
    /\ <<"a">> \in Path /\ <<"a", "x">> \in Path /\ Path \subseteq DepotPath
    /\ \A p \in Path : Included(p)
    /\ \A p \in Path : Len(p) > 1 <=> p = <<"a", "x">>
    /\ \A p \in Path : Len(p) = 1 <=> p \in {<<"a">>, <<"b.png">>}
    /\ Head(<<"a">>) = "a" /\ Head(<<"a", "x">>) = "a" /\ Head(<<"b.png">>) = "b.png"
    /\ <<"a">> # <<"a", "x">> /\ <<"a">> # <<"b.png">> /\ <<"b.png">> # <<"a", "x">>
BY DEF Path, DepotPath, Included, Excluded

\* The routing rules give a file one of its forms, whatever P4 answers.
LEMMA RouteFacts ==
    ASSUME NEW p \in Path, NEW kind \in Kinds, NEW sized \in BOOLEAN, NEW sniffed \in BOOLEAN
    PROVE  (IF RoutedToLfs(p, kind, sized, sniffed) THEN "pointer" ELSE GitMode(kind))
               \in Forms(p, kind) \cup IF cutover THEN {GitMode(kind)} ELSE {}
<1>0. CASE cutover
  BY <1>0 DEF RoutedToLfs
<1> SUFFICES ASSUME ~cutover
             PROVE  (IF RoutedToLfs(p, kind, sized, sniffed) THEN "pointer" ELSE GitMode(kind))
                        \in Forms(p, kind)
  BY <1>0
<1>1. kind \in {"text", "script", "small", "large", "odd"} /\ AutoDetect \in BOOLEAN
  BY BoundsAreNat
<1>2. CASE kind \in {"text", "script"}
  BY <1>2 DEF RoutedToLfs, DecideRoute, IsBinary, TypeClass, Forms
<1>3. CASE kind = "small"
  <2>1. GitMode(kind) = "file"
    BY <1>3 DEF GitMode
  <2> QED
    BY <1>1, <1>3, <2>1 DEF RoutedToLfs, Forms
<1>4. CASE kind \in {"large", "odd"}
  <2>1. SizeOf(kind, sized) # "less"
    BY <1>4 DEF SizeOf
  <2>2. IsBinary(kind, sized, sniffed)
    BY <1>4, <2>1 DEF IsBinary, TypeClass, SniffIsBinary
  <2> QED
    BY <1>4, <2>1, <2>2, <1>1 DEF RoutedToLfs, DecideRoute, Forms
<1> QED
  BY <1>1, <1>2, <1>3, <1>4

\* A form is one of the three ways content stands in Git.
LEMMA FormFacts ==
    ASSUME NEW p \in Path, NEW kind \in Kinds
    PROVE  Forms(p, kind) \cup {GitMode(kind)} \subseteq {"file", "exec", "pointer"}
BY DEF Forms, GitMode

\* What P4 has after a changelist is files, and what it leaves alone it had before.
LEMMA AfterFacts ==
    ASSUME NEW files \in [Path -> File], NEW n \in CL,
           NEW c \in [DepotPath -> {"none", "delete"} \cup Kinds]
    PROVE  /\ After(files, n, c) \in [Path -> File]
           /\ \A p \in Path : c[p] = "none" => After(files, n, c)[p] = files[p]
           /\ \A p \in Path : c[p] = "delete" => After(files, n, c)[p] = NoFile
           /\ \A p \in Path : c[p] \notin {"none", "delete"} =>
                 /\ After(files, n, c)[p] = [cl |-> n, kind |-> c[p]]
                 /\ c[p] \in Kinds
<1>1. \A p \in Path : c[p] \in {"none", "delete"} \cup Kinds /\ files[p] \in File
  BY PathFacts
<1>2. \A p \in Path : c[p] \notin {"none", "delete"} => [cl |-> n, kind |-> c[p]] \in File
  BY <1>1 DEF File
<1>3. NoFile \in File
  BY DEF File
<1> QED
  BY <1>1, <1>2, <1>3 DEF After

\* Nothing submitted, nothing there.
LEMMA AfterNothing ==
    ASSUME NEW n
    PROVE  After([p \in Path |-> NoFile], n, [p \in DepotPath |-> "none"]) = [p \in Path |-> NoFile]
BY PathFacts DEF After

\* The stream is a function to files, and a change names its kinds.
LEMMA ViewFacts ==
    ASSUME TypeOK
    PROVE  /\ submitted > 0 => View \in [Path -> File]
           /\ \A p \in Path : change[p] \in {"none", "delete"} \cup Kinds
           /\ Added = {p \in Path : change[p] \notin {"none", "delete"}}
           /\ Deleted = {p \in Path : change[p] = "delete"}
<1>1. submitted > 0 => submitted \in CL
  BY BoundsAreNat DEF TypeOK, CL
<1>2. submitted > 0 => View \in [Path -> File]
  BY <1>1, AfterFacts DEF TypeOK, View
<1> QED
  BY <1>2, PathFacts DEF TypeOK, Added, Deleted

\* What the newest changelist did to the stream.
LEMMA ViewOfChange ==
    ASSUME TypeOK, submitted \in CL
    PROVE  \A p \in Path :
              /\ change[p] = "none" => View[p] = before[p]
              /\ change[p] = "delete" => View[p] = NoFile
              /\ change[p] \notin {"none", "delete"} =>
                    View[p] = [cl |-> submitted, kind |-> change[p]] /\ change[p] \in Kinds
<1>1. /\ before \in [Path -> File]
      /\ change \in [DepotPath -> {"none", "delete"} \cup Kinds]
  BY DEF TypeOK
<1> QED
  BY <1>1, AfterFacts DEF View

-----------------------------------------------------------------------------
(* Steps that leave P4, the state database and the branch alone.            *)

\* Then the tree is as right as it was.
LEMMA SameTree ==
    ASSUME UNCHANGED <<backend, plain, p4Vars, stateVars, branchVars>>,
           pc' = "record" => pc = "record"
    PROVE  /\ View' = View /\ Added' = Added /\ Deleted' = Deleted /\ HasGap' = HasGap
           /\ TreeInv => TreeInv'
           /\ KeepsDirectories => KeepsDirectories'
           /\ (pc' \notin {"extract", "commit", "record"} \/ pc' = pc) /\ OneAtATime => OneAtATime'
<1> USE DEF p4Vars, stateVars, branchVars
<1>1. View' = View /\ Added' = Added /\ Deleted' = Deleted /\ HasGap' = HasGap
  BY DEF View, Added, Deleted, HasGap
<1>2. TreeInv => TreeInv'
  BY <1>1 DEF TreeInv, RecordedIsView, TreeIsView, Mirrors, FormsOf
<1>3. KeepsDirectories => KeepsDirectories'
  BY <1>1 DEF KeepsDirectories
<1>4. (pc' \notin {"extract", "commit", "record"} \/ pc' = pc) /\ OneAtATime => OneAtATime'
  BY DEF OneAtATime
<1> QED
  BY <1>1, <1>2, <1>3, <1>4

\* A changelist is described.
LEMMA DescribeStep ==
    ASSUME IInv, Describe
    PROVE  IInv'
<1>1. /\ pc' = "extract" /\ lastCl < submitted
      /\ UNCHANGED <<process, plain, p4Vars, stateVars, branchVars, extracted, objects,
                     lfsVars, faults>>
  BY DEF Describe
<1>2. LfsInv'
  BY <1>1 DEF IInv, LfsInv, TypeOK, ObjectsInv, PublishedPointersResolve, process, p4Vars, stateVars,
              branchVars, extracted, lfsVars
<1>3. OneAtATime'
  BY <1>1 DEF IInv, ChangeInv, OneAtATime, p4Vars, stateVars, branchVars
<1>4. ExtractedIsChange'
  BY <1>1 DEF ExtractedIsChange
<1> QED
  BY <1>1, <1>2, <1>3, <1>4, SameTree DEF IInv, ChangeInv, process

\* What is pushed is what was uploaded; what failed is tried again.
LEMMA PushSteps ==
    ASSUME IInv, Upload \/ Push \/ PushFails \/ PushAlone \/ (\E B \in SUBSET tree.pointers : Batch(B))
                 \/ ResetProgress
    PROVE  IInv'
<1>1. /\ UNCHANGED <<process, plain, p4Vars, stateVars, branchVars, extracted, objects>>
      /\ pc' = pc \/ pc' \in {"idle", "push"}
  BY DEF Upload, Push, PushFails, PushAlone, Batch, ResetProgress, lfsVars
<1>2. faults' \in 0..MaxFaults
  BY BoundsAreNat DEF IInv, LfsInv, TypeOK, Upload, Push, PushFails, PushAlone, Batch, ResetProgress, Fault
<1>3. /\ uploaded' \cup published' \cup ahead' \cup progress' \subseteq objects
      /\ published' \subseteq uploaded' \cup ahead' /\ progress' \subseteq uploaded'
      /\ pc' = "push" /\ ~cutover => tree.pointers \subseteq uploaded'
  <2> USE DEF IInv, LfsInv, TypeOK, ObjectsInv, PublishedPointersResolve
  <2>1. CASE Upload
    BY <2>1 DEF Upload
  <2>2. CASE Push
    BY <2>2 DEF Push
  <2>3. CASE PushFails
    BY <2>3 DEF PushFails, lfsVars
  <2>4. CASE \E B \in SUBSET tree.pointers : Batch(B)
    BY <2>4 DEF Batch
  <2>5. CASE ResetProgress
    BY <2>5 DEF ResetProgress
  <2>6. CASE PushAlone
    BY <2>6 DEF PushAlone
  <2> QED
    BY <2>1, <2>2, <2>3, <2>4, <2>5, <2>6
<1>4. LfsInv'
  <2>1. pc' \in {"idle", "extract", "commit", "record", "upload", "push"}
    BY <1>1 DEF IInv, LfsInv, TypeOK
  <2>2. TypeOK'
    BY <1>1, <1>2, <1>3, <2>1
       DEF IInv, LfsInv, TypeOK, process, p4Vars, stateVars, branchVars, extracted
  <2>3. ObjectsInv'
    BY <1>1, <1>3 DEF IInv, LfsInv, ObjectsInv, process, stateVars, branchVars, extracted, PointersOf
  <2> QED
    BY <1>3, <2>2, <2>3 DEF LfsInv, PublishedPointersResolve
<1>5. ChangeInv'
  <2>1. ExtractedIsChange'
    BY <1>1, SameTree DEF IInv, ChangeInv, ExtractedIsChange, FormsOf, process, extracted, p4Vars
  <2> QED
    BY <1>1, <2>1, SameTree DEF IInv, ChangeInv, process
<1> QED
  BY <1>1, <1>4, <1>5, SameTree DEF IInv, process

\* The cutover changes places with the service between two rounds.
LEMMA CutoverStep ==
    ASSUME IInv, CutoverOrService
    PROVE  IInv'
<1>1. /\ pc = "idle" /\ cutover' = ~cutover
      /\ UNCHANGED <<backend, headIsBranch, plain, p4Vars, stateVars, branchVars, pc, extracted,
                     objects, lfsVars, faults>>
  BY DEF CutoverOrService
<1>2. LfsInv'
  BY <1>1 DEF IInv, LfsInv, TypeOK, ObjectsInv, PublishedPointersResolve, PointersOf, p4Vars,
              stateVars, branchVars, extracted, lfsVars
<1>3. ExtractedIsChange'
  BY <1>1 DEF ExtractedIsChange
<1> QED
  BY <1>1, <1>2, <1>3, SameTree DEF IInv, ChangeInv

\* A round that ends early leaves at most objects behind.
LEMMA EndSteps ==
    ASSUME IInv, ExtractFails \/ CommitRefused \/ Kill
    PROVE  IInv'
<1>1. /\ UNCHANGED <<process, plain, p4Vars, stateVars, branchVars, lfsVars>>
      /\ pc' = "idle"
      /\ puts' \in [Path -> Entry] /\ deletes' \subseteq Path /\ addsAttributes' \in BOOLEAN
  <2>1. CASE ExtractFails
    BY <2>1 DEF ExtractFails, extracted, IInv, LfsInv, TypeOK
  <2>2. CASE CommitRefused \/ Kill
    BY <2>2 DEF CommitRefused, Kill, Forget, NoPuts, Entry
  <2> QED
    BY <2>1, <2>2
<1>2. faults' \in 0..MaxFaults
  <2>1. faults' = faults \/ (faults < MaxFaults /\ faults' = faults + 1)
    BY DEF ExtractFails, CommitRefused, Kill, Fault
  <2> QED
    BY <2>1, BoundsAreNat DEF IInv, LfsInv, TypeOK
<1>3. objects \subseteq objects' /\ objects' \subseteq Object
  <2>1. CASE ExtractFails
    <3>1. pc = "extract" /\ ToLfs(TRUE, TRUE) \subseteq Path
      BY <2>1 DEF ExtractFails, ToLfs, Added
    <3>2. submitted \in CL
      BY <3>1, BoundsAreNat DEF IInv, LfsInv, TypeOK, ChangeInv, OneAtATime, CL
    <3>3. \A S \in SUBSET ToLfs(TRUE, TRUE) : {<<submitted, p>> : p \in S} \subseteq Object
      <4> TAKE S \in SUBSET ToLfs(TRUE, TRUE)
      <4>1. \A p \in S : <<submitted, p>> \in Object
        BY <3>1, <3>2 DEF Object
      <4> QED
        BY <4>1
    <3> QED
      BY <2>1, <3>3 DEF ExtractFails, IInv, LfsInv, TypeOK
  <2>2. CASE CommitRefused \/ Kill
    BY <2>2 DEF CommitRefused, Kill, IInv, LfsInv, TypeOK
  <2> QED
    BY <2>1, <2>2
<1>4. TypeOK'
  BY <1>1, <1>2, <1>3 DEF IInv, LfsInv, TypeOK, process, p4Vars, stateVars, branchVars, lfsVars
<1>5. ObjectsInv'
  BY <1>1 DEF IInv, LfsInv, ObjectsInv, PointersOf, stateVars, branchVars
<1>6. ExtractedIsChange'
  BY <1>1 DEF ExtractedIsChange
<1> QED
  BY <1>1, <1>4, <1>5, <1>6, SameTree
     DEF IInv, LfsInv, ChangeInv, PublishedPointersResolve, process, lfsVars

-----------------------------------------------------------------------------
(* P4 and the extraction.                                                   *)

\* The newest changelist is synced, so that its stream is the one before the next.
LEMMA SubmitStep ==
    ASSUME IInv, NEW c \in [DepotPath -> {"none", "delete"} \cup Kinds], Submit(c)
    PROVE  IInv'
<1>1. /\ pc = "idle" /\ submitted = lastCl /\ submitted < MaxCL /\ Possible(View, c)
      /\ submitted' = submitted + 1 /\ before' = View /\ change' = c
      /\ UNCHANGED <<process, plain, stateVars, branchVars, pc, extracted, objects, lfsVars, faults>>
  BY DEF Submit
<1>2. submitted \in Nat /\ submitted' \in 0..MaxCL /\ submitted' \in CL
  BY <1>1, BoundsAreNat DEF IInv, LfsInv, TypeOK, CL
<1>3. View \in [Path -> File]
  <2>1. CASE submitted > 0
    BY <2>1, ViewFacts DEF IInv, LfsInv
  <2>2. CASE submitted = 0
    BY <2>2, AfterNothing DEF IInv, ChangeInv, OneAtATime, View, File
  <2> QED
    BY <1>2, <2>1, <2>2
<1>4. TypeOK'
  BY <1>1, <1>2, <1>3
     DEF IInv, LfsInv, TypeOK, process, stateVars, branchVars, extracted, lfsVars
<1>5. LfsInv'
  BY <1>1, <1>4 DEF IInv, LfsInv, ObjectsInv, PublishedPointersResolve, PointersOf, process,
                    stateVars, branchVars, extracted, lfsVars
<1>6. OneAtATime'
  <2>1. lastCl = 0 => View = [p \in Path |-> NoFile]
    BY <1>1, AfterNothing DEF IInv, ChangeInv, OneAtATime, View
  <2> QED
    BY <1>1, <1>2, <2>1 DEF IInv, ChangeInv, OneAtATime, stateVars, branchVars
<1>7. KeepsDirectories'
  <2>1. View' = After(View, submitted + 1, c)
    BY <1>1 DEF View
  <2> QED
    BY <1>1, <2>1 DEF Possible, KeepsDirectories
<1>8. ExtractedIsChange'
  BY <1>1 DEF ExtractedIsChange
<1>9. TreeInv'
  <2>1. HasGap' = HasGap
    BY <1>1 DEF HasGap, stateVars
  <2>2. /\ tree' = tree /\ recorded' = recorded /\ UNCHANGED <<backend, plain, behind>>
        /\ pc' # "record" /\ tip' # submitted' /\ lastCl' # submitted' /\ lastCl = submitted /\ before' = View
    BY <1>1, <1>2 DEF IInv, LfsInv, TypeOK, process, stateVars, branchVars
  <2>3. Mirrors(tree, View) => Mirrors(tree, before)'
    BY <2>2 DEF Mirrors, FormsOf
  <2>4. Mirrors(recorded, View) => Mirrors(recorded, before)'
    BY <2>2 DEF Mirrors, FormsOf
  <2> HIDE DEF View, Mirrors
  <2>5. RecordedIsView => RecordedIsView'
    BY <2>1, <2>2, <2>4 DEF RecordedIsView
  <2>6. TreeIsView => TreeIsView'
    BY <2>1, <2>2, <2>3 DEF TreeIsView, HasGap
  <2> QED
    BY <2>2, <2>5, <2>6 DEF IInv, TreeInv
<1> QED
  BY <1>5, <1>6, <1>7, <1>8, <1>9 DEF IInv, ChangeInv

\* What is extracted has an object for every pointer, and is what the changelist does.
LEMMA ExtractStep ==
    ASSUME IInv, NEW sized \in BOOLEAN, NEW sniffed \in BOOLEAN, Extract(sized, sniffed)
    PROVE  IInv'
<1>1. /\ pc = "extract"
      /\ puts' = [p \in Path |-> IF p \in Added THEN NewEntry(p, sized, sniffed) ELSE NoEntry]
      /\ deletes' = Deleted
      /\ objects' = objects \cup {<<submitted, p>> : p \in ToLfs(sized, sniffed)}
      /\ addsAttributes' = ~HeadHasAttributes
      /\ plain' = IF cutover THEN plain \cup {submitted} ELSE plain
      /\ pc' = "commit"
      /\ UNCHANGED <<process, p4Vars, stateVars, branchVars, lfsVars>>
  BY DEF Extract
<1>2. faults' \in 0..MaxFaults
  <2>1. faults' = faults \/ (faults < MaxFaults /\ faults' = faults + 1)
    BY DEF Extract, Fault
  <2> QED
    BY <2>1, BoundsAreNat DEF IInv, LfsInv, TypeOK
<1>3. submitted \in CL
  BY <1>1, BoundsAreNat DEF IInv, LfsInv, TypeOK, ChangeInv, OneAtATime, CL
<1>4. \A p \in Added :
         /\ NewEntry(p, sized, sniffed).cl = submitted
         /\ NewEntry(p, sized, sniffed).form \in Forms(p, change[p]) \cup
                IF cutover THEN {GitMode(change[p])} ELSE {}
         /\ NewEntry(p, sized, sniffed) \in Entry
         /\ NewEntry(p, sized, sniffed).form = "pointer" => p \in ToLfs(sized, sniffed)
  <2> TAKE p \in Added
  <2>1. p \in Path /\ change[p] \in Kinds
    BY ViewFacts DEF IInv, LfsInv
  <2>2. (IF RoutedToLfs(p, change[p], sized, sniffed) THEN "pointer" ELSE GitMode(change[p]))
            \in Forms(p, change[p]) \cup IF cutover THEN {GitMode(change[p])} ELSE {}
    BY <2>1, RouteFacts
  <2>3. Forms(p, change[p]) \cup {GitMode(change[p])} \subseteq {"file", "exec", "pointer"}
    BY <2>1, FormFacts
  <2> QED
    BY <1>3, <2>2, <2>3 DEF NewEntry, Entry, GitMode, ToLfs
<1>5. puts' \in [Path -> Entry] /\ deletes' \subseteq Path /\ addsAttributes' \in BOOLEAN
  BY <1>1, <1>4 DEF Deleted, HeadHasAttributes, Entry, IInv, LfsInv, TypeOK, Tree
<1>6. objects' \subseteq Object /\ objects \subseteq objects'
  <2>1. \A p \in ToLfs(sized, sniffed) : <<submitted, p>> \in Object
    BY <1>3 DEF ToLfs, Added, Object
  <2>2. {<<submitted, p>> : p \in ToLfs(sized, sniffed)} \subseteq Object
    BY <2>1
  <2> QED
    BY <1>1, <2>2 DEF IInv, LfsInv, TypeOK
<1>7. TypeOK'
  <2>1. plain' \subseteq 1..submitted /\ cutover' \in BOOLEAN
    <3>1. submitted \in 1..submitted /\ plain \subseteq 1..submitted /\ cutover \in BOOLEAN
      BY <1>3, BoundsAreNat DEF IInv, LfsInv, TypeOK, CL
    <3>2. plain' \in {plain, plain \cup {submitted}} /\ cutover' = cutover
      BY <1>1 DEF process
    <3> QED
      BY <3>1, <3>2
  <2> QED
    BY <1>1, <1>2, <1>5, <1>6, <2>1
       DEF IInv, LfsInv, TypeOK, process, p4Vars, stateVars, branchVars, lfsVars
<1>8. PointersOf(puts') \subseteq objects'
  <2>1. \A p \in Path : puts'[p].form = "pointer" =>
            p \in Added /\ puts'[p].cl = submitted /\ p \in ToLfs(sized, sniffed)
    BY <1>1, <1>4 DEF NoEntry
  <2>2. \A p \in Path : puts'[p].form = "pointer" => <<puts'[p].cl, p>> \in objects'
    BY <1>1, <2>1
  <2> QED
    BY <2>2 DEF PointersOf
<1>9. ObjectsInv'
  <2>1. PointersOf(puts)' = PointersOf(puts')
    BY DEF PointersOf
  <2> QED
    BY <1>1, <1>8, <2>1 DEF IInv, LfsInv, ObjectsInv, PointersOf, process, stateVars, branchVars
<1>10. View' = View /\ Added' = Added /\ Deleted' = Deleted /\ HasGap' = HasGap
  BY <1>1 DEF View, Added, Deleted, HasGap, p4Vars, stateVars
<1>11. ExtractedIsChange'
  <2>1. \A p \in Added : puts'[p].form \in FormsOf(p, View[p])'
    <3> TAKE p \in Added
    <3>1. p \in Path /\ View[p] = [cl |-> submitted, kind |-> change[p]]
      BY <1>3, ViewFacts, AfterFacts DEF IInv, LfsInv, TypeOK, View
    <3>2. View[p].cl = submitted /\ View[p].kind = change[p] /\ (cutover => submitted \in plain')
      BY <1>1, <3>1
    <3>3. Forms(p, change[p]) \cup (IF cutover THEN {GitMode(change[p])} ELSE {})
              \subseteq FormsOf(p, View[p])'
      BY <1>10, <3>2 DEF FormsOf
    <3> QED
      BY <1>1, <1>4, <3>1, <3>3
  <2> QED
    BY <1>1, <1>4, <1>10, <2>1 DEF ExtractedIsChange, p4Vars
<1>12. OneAtATime' /\ KeepsDirectories'
  BY <1>1, <1>10 DEF IInv, ChangeInv, OneAtATime, KeepsDirectories, p4Vars, stateVars, branchVars
\* More forms are allowed than before.
<1>13. TreeInv'
  <2>1. plain \subseteq plain'
    BY <1>1
  <2>3. /\ Mirrors(tree, View) => Mirrors(tree, View)'
        /\ Mirrors(tree, before) => Mirrors(tree, before)'
        /\ Mirrors(recorded, View) => Mirrors(recorded, View)'
        /\ Mirrors(recorded, before) => Mirrors(recorded, before)'
    BY <1>1, <1>10, <2>1 DEF Mirrors, FormsOf, p4Vars, stateVars, branchVars
  <2> HIDE DEF View, Mirrors
  <2>4. /\ UNCHANGED <<backend, behind, tip, lastCl, submitted, rows>>
        /\ pc' # "record"
    BY <1>1 DEF process, p4Vars, stateVars, branchVars
  <2> QED
    BY <1>10, <2>3, <2>4 DEF IInv, TreeInv, TreeIsView, RecordedIsView, HasGap
<1> QED
  BY <1>1, <1>7, <1>9, <1>11, <1>12, <1>13
     DEF IInv, LfsInv, ChangeInv, PublishedPointersResolve, lfsVars

-----------------------------------------------------------------------------
(* The commit.                                                              *)

\* An edited directory has the entries of both and points to nothing else.
LEMMA EditedFacts ==
    ASSUME NEW files \in [Path -> Entry], NEW lost \in SUBSET Path, puts \in [Path -> Entry]
    PROVE  /\ Edited(files, lost) \in [Path -> Entry]
           /\ PointersOf(Edited(files, lost)) \subseteq PointersOf(files) \cup PointersOf(puts)
<1>1. \A p \in Path : /\ Edited(files, lost)[p] \in {puts[p], files[p], NoEntry}
                      /\ NoEntry \in Entry /\ NoEntry.form # "pointer"
  BY DEF Edited, Entry, NoEntry
<1>2. Edited(files, lost) = [p \in Path |-> Edited(files, lost)[p]]
  BY DEF Edited
<1>3. Edited(files, lost) \in [Path -> Entry]
  BY <1>1, <1>2
<1>4. \A p \in Path : Edited(files, lost)[p].form = "pointer" =>
          <<Edited(files, lost)[p].cl, p>> \in PointersOf(files) \cup PointersOf(puts)
  <2> TAKE p \in Path
  <2>1. files[p].form = "pointer" => <<files[p].cl, p>> \in PointersOf(files)
    BY DEF PointersOf
  <2>2. puts[p].form = "pointer" => <<puts[p].cl, p>> \in PointersOf(puts)
    BY DEF PointersOf
  <2> QED
    BY <1>1, <2>1, <2>2
<1>5. PointersOf(Edited(files, lost)) \subseteq PointersOf(files) \cup PointersOf(puts)
  <2> DEFINE e == Edited(files, lost)
  <2> HIDE DEF e
  <2>1. \A p \in Path : e[p].form = "pointer" =>
            <<e[p].cl, p>> \in PointersOf(files) \cup PointersOf(puts)
    BY <1>4 DEF e
  <2>2. PointersOf(e) \subseteq PointersOf(files) \cup PointersOf(puts)
    BY <2>1, Zenon DEF PointersOf
  <2> QED
    BY <2>2 DEF e
<1> QED
  BY <1>3, <1>5

\* A tree that was right before the changelist is right after it is edited, when
\* only what the changelist leaves away is shadowed.
LEMMA EditedMirrors ==
    ASSUME IInv, pc = "commit", NEW t, Mirrors(t, before), NEW s \in SUBSET Path,
           \A p \in s : View[p] = NoFile, NEW b, NEW o
    PROVE  Mirrors([files |-> Edited(t.files, s), attributes |-> b,
                    lost |-> {p \in t.lost \ deletes : ~Put(p)}, pointers |-> o], View)
<1>1. submitted \in CL
  BY BoundsAreNat DEF IInv, LfsInv, TypeOK, ChangeInv, OneAtATime, CL
<1> DEFINE lost == {p \in t.lost \ deletes : ~Put(p)}
<1>2. SUFFICES ASSUME NEW p \in Path
               PROVE  IF View[p] = NoFile \/ p \in lost THEN Edited(t.files, s)[p] = NoEntry
                      ELSE /\ Edited(t.files, s)[p].cl = View[p].cl
                           /\ Edited(t.files, s)[p].form \in FormsOf(p, View[p])
  BY DEF Mirrors
<1>3. IF p \in Added THEN puts[p].cl = submitted /\ puts[p].form \in FormsOf(p, View[p])
      ELSE puts[p] = NoEntry
  BY DEF IInv, ChangeInv, ExtractedIsChange
<1>4. deletes = Deleted
  BY DEF IInv, ChangeInv, ExtractedIsChange
<1>5. /\ change[p] \in {"none", "delete"} \cup Kinds
      /\ p \in Added <=> change[p] \notin {"none", "delete"}
      /\ p \in Deleted <=> change[p] = "delete"
  BY ViewFacts DEF IInv, LfsInv
<1>6. /\ change[p] = "none" => View[p] = before[p]
      /\ change[p] = "delete" => View[p] = NoFile
      /\ change[p] \notin {"none", "delete"} =>
            View[p] = [cl |-> submitted, kind |-> change[p]] /\ change[p] \in Kinds
  BY <1>1, ViewOfChange DEF IInv, LfsInv
<1>7. /\ Put(p) /\ p \notin deletes \cup s => Edited(t.files, s)[p] = puts[p]
      /\ ~Put(p) /\ p \notin deletes /\ p \notin s => Edited(t.files, s)[p] = t.files[p]
      /\ (~Put(p) /\ p \in deletes) \/ p \in s => Edited(t.files, s)[p] = NoEntry
  BY DEF Edited
<1>8. CASE change[p] = "none"
  <2>1. ~Put(p) /\ p \notin deletes
    BY <1>3, <1>4, <1>5, <1>8 DEF Put
  <2>2. IF before[p] = NoFile \/ p \in t.lost THEN t.files[p] = NoEntry
        ELSE t.files[p].cl = before[p].cl /\ t.files[p].form \in FormsOf(p, before[p])
    BY DEF Mirrors
  <2>3. p \in lost <=> p \in t.lost
    BY <2>1
  <2>4. View[p] = before[p]
    BY <1>6, <1>8
  <2>5. CASE p \in s
    BY <1>7, <2>5
  <2>6. CASE p \notin s
    <3>1. Edited(t.files, s)[p] = t.files[p]
      BY <1>7, <2>1, <2>6
    <3> HIDE DEF lost
    <3> QED
      BY <2>2, <2>3, <2>4, <3>1
  <2> HIDE DEF lost
  <2> QED
    BY <2>5, <2>6
<1>9. CASE change[p] = "delete"
  BY <1>3, <1>4, <1>5, <1>6, <1>7, <1>9 DEF Put
<1>10. CASE change[p] \notin {"none", "delete"}
  <2>1. View[p] = [cl |-> submitted, kind |-> change[p]] /\ View[p] # NoFile
    BY <1>1, <1>6, <1>10 DEF NoFile, CL
  <2>2. puts[p].cl = submitted /\ puts[p].form \in FormsOf(p, View[p])
    BY <1>3, <1>5, <1>10
  <2>3. Put(p) /\ p \notin deletes \cup s
    BY <1>1, <1>4, <1>5, <1>10, <2>1, <2>2 DEF Put, NoEntry, CL
  <2>4. Edited(t.files, s)[p] = puts[p]
    BY <1>7, <2>3
  <2>5. View[p].cl = submitted /\ p \notin lost
    BY <2>1, <2>3
  <2> QED
    BY <2>1, <2>2, <2>4, <2>5
<1> QED
  BY <1>5, <1>8, <1>9, <1>10

\* Only the file that has the name of a directory is shadowed, and the changelist
\* has no such file.
LEMMA ShadowedFacts ==
    ASSUME IInv, ~Replacing, NEW t, Mirrors(t, before)
    PROVE  \A p \in Shadowed(t.files) : View[p] = NoFile
<1> TAKE p \in Shadowed(t.files)
<1>1. Len(p) = 1 /\ p \in Path /\ \E q \in Path : Len(q) > 1 /\ Head(q) = Head(p) /\ t.files[q] # NoEntry
  BY DEF Shadowed, IsDirectory
<1>2. p = <<"a">> /\ t.files[<<"a", "x">>] # NoEntry
  BY <1>1, PathFacts
<1>3. before[<<"a", "x">>] # NoFile
  BY <1>2, PathFacts DEF Mirrors
<1> QED
  BY <1>2, <1>3 DEF IInv, ChangeInv, KeepsDirectories

\* The parent is a commit of the branch or of the database; read or not, it points to
\* stored objects.
LEMMA BaseFacts ==
    ASSUME IInv, NEW read \in BOOLEAN
    PROVE  /\ Base(read) \in Tree
           /\ PointersOf(Base(read).files) \subseteq Base(read).pointers
           /\ Base(read).pointers \subseteq objects
<1>1. NoEntry \in Entry /\ NoEntry.form # "pointer"
  BY DEF Entry, NoEntry
<1>2. NoPuts \in [Path -> Entry] /\ PointersOf(NoPuts) = {}
  BY <1>1 DEF NoPuts, PointersOf
<1>3. /\ EmptyTree \in Tree /\ PointersOf(EmptyTree.files) = {} /\ EmptyTree.pointers = {}
  BY <1>2 DEF EmptyTree, Tree
<1>4. /\ Parent \in Tree /\ PointersOf(Parent.files) \subseteq Parent.pointers
      /\ Parent.pointers \subseteq objects
  BY <1>3 DEF Parent, IInv, LfsInv, TypeOK, ObjectsInv
<1>5. CASE read
  BY <1>4, <1>5 DEF Base
<1>6. CASE ~read
  <2>1. Base(read) = [Parent EXCEPT !.files = NoPuts, !.attributes = FALSE, !.lost = Path]
    BY <1>6 DEF Base
  <2>2. /\ Base(read) \in Tree /\ Base(read).files = NoPuts
        /\ Base(read).pointers = Parent.pointers
    BY <1>2, <1>4, <2>1 DEF Tree
  <2> QED
    BY <1>2, <1>4, <2>2
<1> QED
  BY <1>5, <1>6

\* What is committed is a tree that points to stored objects.
LEMMA NewTreeFacts ==
    ASSUME IInv, pc = "commit", NEW read \in BOOLEAN
    PROVE  /\ NewTree(read) \in Tree
           /\ PointersOf(NewTree(read).files) \subseteq NewTree(read).pointers
           /\ NewTree(read).pointers \subseteq objects
<1> DEFINE base == Base(read)
           s == IF backend = "pygit2" THEN Shadowed(base.files) ELSE {}
           files == Edited(base.files, s)
<1>1. /\ base \in Tree /\ PointersOf(base.files) \subseteq base.pointers
      /\ base.pointers \subseteq objects
  BY BaseFacts
<1>2. s \in SUBSET Path
  BY DEF Shadowed
<1>3. NewTree(read) = [files |-> files, attributes |-> base.attributes \/ addsAttributes,
                       lost |-> {p \in base.lost \ deletes : ~Put(p)},
                       pointers |-> base.pointers \cup PointersOf(files)]
  BY DEF NewTree
<1> HIDE DEF base, s
<1>4. base.files \in [Path -> Entry] /\ puts \in [Path -> Entry] /\ addsAttributes \in BOOLEAN
  BY <1>1 DEF Tree, IInv, LfsInv, TypeOK
<1>5. files \in [Path -> Entry] /\ PointersOf(files) \subseteq PointersOf(base.files) \cup PointersOf(puts)
  BY <1>2, <1>4, EditedFacts
<1> HIDE DEF files
<1>6. PointersOf(puts) \subseteq objects /\ objects \subseteq Object
  BY DEF IInv, LfsInv, ObjectsInv, TypeOK
<1>7. base.pointers \cup PointersOf(files) \subseteq objects
  BY <1>1, <1>5, <1>6
<1>8. /\ base.attributes \/ addsAttributes \in BOOLEAN
      /\ {p \in base.lost \ deletes : ~Put(p)} \in SUBSET Path
      /\ base.pointers \cup PointersOf(files) \in SUBSET Object
  BY <1>1, <1>4, <1>6, <1>7 DEF Tree
<1>9. NewTree(read) \in Tree
  BY <1>3, <1>5, <1>8 DEF Tree
<1> QED
  BY <1>3, <1>7, <1>9

\* It is the stream as of the changelist, when its parent was the one as of the
\* changelist before.
LEMMA NewTreeMirrors ==
    ASSUME IInv, pc = "commit", CommitAccepted, ~Replacing \/ backend = "cli",
           ~(backend = "cli" /\ HasGap), NEW read \in BOOLEAN
    PROVE  Mirrors(NewTree(read), View)
<1> DEFINE base == Base(read)
           s == IF backend = "pygit2" THEN Shadowed(base.files) ELSE {}
<1>1. /\ lastCl \in Int /\ submitted \in Int /\ 0 <= lastCl /\ lastCl < submitted
      /\ tip \in Int
  BY BoundsAreNat DEF IInv, LfsInv, TypeOK, ChangeInv, OneAtATime
<1>2. Mirrors(Parent, before)
  <2>1. CASE backend = "pygit2"
    <3>1. tip # submitted /\ ~behind
      BY <1>1, <2>1 DEF CommitAccepted, IInv, TreeInv
    <3> QED
      BY <1>1, <2>1, <3>1 DEF IInv, TreeInv, TreeIsView, Parent
  <2>2. CASE backend # "pygit2"
    <3>1. backend = "cli" /\ ~HasGap
      BY <2>2, BoundsAreNat DEF IInv, LfsInv, TypeOK
    <3>2. CASE HasParent
      BY <1>1, <3>1, <3>2 DEF IInv, TreeInv, RecordedIsView, Parent
    <3>3. CASE ~HasParent
      <4>1. lastCl = 0
        BY <1>1, <3>1, <3>3 DEF HasParent, HasGap
      <4>2. before = [p \in Path |-> NoFile]
        BY <4>1 DEF IInv, ChangeInv, OneAtATime
      <4> QED
        BY <3>1, <3>3, <4>2 DEF Parent, Mirrors, EmptyTree, NoPuts
    <3> QED
      BY <3>2, <3>3
  <2> QED
    BY <2>1, <2>2
<1>3. Mirrors(base, before)
  <2>1. CASE read
    BY <1>2, <2>1 DEF Base
  <2>2. CASE ~read
    <3>1. Parent \in Tree
      BY BaseFacts DEF Base
    <3>2. base.files = NoPuts /\ base.lost = Path
      BY <2>2, <3>1 DEF Base, Tree
    <3> HIDE DEF base
    <3> QED
      BY <3>2 DEF Mirrors, NoPuts
  <2> QED
    BY <2>1, <2>2
<1>4. s \in SUBSET Path /\ \A p \in s : View[p] = NoFile
  <2>1. CASE backend = "pygit2"
    BY <1>3, <2>1, ShadowedFacts DEF Shadowed
  <2>2. CASE backend # "pygit2"
    BY <2>2
  <2> QED
    BY <2>1, <2>2
<1>5. NewTree(read) = [files |-> Edited(base.files, s),
                       attributes |-> base.attributes \/ addsAttributes,
                       lost |-> {p \in base.lost \ deletes : ~Put(p)},
                       pointers |-> base.pointers \cup PointersOf(Edited(base.files, s))]
  BY DEF NewTree
<1> HIDE DEF base, s
<1> QED
  BY <1>3, <1>4, <1>5, EditedMirrors

\* The commit is made, and the branch gets it or not.
LEMMA CommitStep ==
    ASSUME IInv, NEW read \in BOOLEAN, NEW moved \in BOOLEAN, Commit(read, moved)
    PROVE  IInv'
<1>1. /\ pc = "commit" /\ CommitAccepted
      /\ moved \/ backend = "cli"
      /\ made' = NewTree(read) /\ behind' = ~moved
      /\ IF moved THEN tree' = NewTree(read) /\ tip' = submitted ELSE UNCHANGED <<tree, tip>>
      /\ pc' = "record"
      /\ puts' = NoPuts /\ deletes' = {} /\ addsAttributes' = FALSE
      /\ UNCHANGED <<process, plain, p4Vars, stateVars, objects, lfsVars>>
  BY DEF Commit, Forget
<1>2. faults' \in 0..MaxFaults
  <2>1. faults' = faults \/ (faults < MaxFaults /\ faults' = faults + 1)
    BY DEF Commit, Fault
  <2> QED
    BY <2>1, BoundsAreNat DEF IInv, LfsInv, TypeOK
<1>3. /\ lastCl \in Int /\ submitted \in Int /\ 0 <= lastCl /\ lastCl < submitted
      /\ tip \in Int
  BY <1>1, BoundsAreNat DEF IInv, LfsInv, TypeOK, ChangeInv, OneAtATime
<1>4. /\ NewTree(read) \in Tree
      /\ PointersOf(NewTree(read).files) \subseteq NewTree(read).pointers
      /\ NewTree(read).pointers \subseteq objects
  BY <1>1, NewTreeFacts
<1>5. tree' \in {tree, NewTree(read)} /\ tip' \in {tip, submitted}
  BY <1>1
<1>6. puts' \in [Path -> Entry] /\ deletes' \subseteq Path /\ addsAttributes' \in BOOLEAN
  BY <1>1 DEF NoPuts, Entry
<1>7. TypeOK'
  <2>1. /\ tree' \in Tree /\ made' \in Tree /\ tip' \in 0..submitted /\ behind' \in BOOLEAN
        /\ tree'.pointers \cup recorded.pointers \cup made'.pointers \subseteq objects
    BY <1>1, <1>3, <1>4, <1>5 DEF IInv, LfsInv, TypeOK
  <2> QED
    BY <1>1, <1>2, <1>6, <2>1 DEF IInv, LfsInv, TypeOK, process, p4Vars, stateVars, lfsVars
<1>8. ObjectsInv'
  <2>1. \A t \in {tree', recorded', made'} : PointersOf(t.files) \subseteq t.pointers
    BY <1>1, <1>4, <1>5 DEF IInv, LfsInv, ObjectsInv, stateVars
  <2> QED
    BY <1>1, <2>1 DEF ObjectsInv, PointersOf
<1>9. LfsInv'
  BY <1>1, <1>7, <1>8 DEF IInv, LfsInv, PublishedPointersResolve, lfsVars
<1>10. View' = View /\ HasGap' = HasGap /\ KeepsDirectories'
  BY <1>1 DEF View, HasGap, KeepsDirectories, IInv, ChangeInv, p4Vars, stateVars
<1>11. ChangeInv'
  <2>1. OneAtATime'
    BY <1>1, <1>3 DEF IInv, ChangeInv, OneAtATime, p4Vars, stateVars
  <2>2. ExtractedIsChange'
    BY <1>1 DEF ExtractedIsChange
  <2> QED
    BY <1>10, <2>1, <2>2 DEF ChangeInv
<1>12. ASSUME ~Replacing \/ backend = "cli", ~(backend = "cli" /\ HasGap)
       PROVE  Mirrors(made, View)'
  <2> DEFINE new == NewTree(read)
  <2>1. Mirrors(new, View)
    BY <1>1, <1>12, NewTreeMirrors
  <2>2. made' = new /\ plain' = plain
    BY <1>1
  <2> HIDE DEF new
  <2> QED
    BY <1>10, <2>1, <2>2 DEF Mirrors, FormsOf
<1>13. TreeInv'
  <2>1. backend' = backend /\ lastCl' = lastCl /\ submitted' = submitted /\ rows' = rows
    BY <1>1 DEF process, p4Vars, stateVars
  <2>2. ASSUME ~Replacing \/ backend = "cli", ~(backend = "cli" /\ HasGap)
        PROVE  TreeIsView'
    <3>1. CASE moved
      <4>1. tree' = made' /\ tip' = submitted'
        BY <1>1, <2>1, <3>1
      <4>2. Mirrors(tree, View)'
        BY <1>12, <2>2, <4>1 DEF Mirrors
      <4> QED
        BY <4>1, <4>2 DEF TreeIsView
    <3>2. CASE ~moved
      BY <1>1, <3>2 DEF TreeIsView
    <3> QED
      BY <3>1, <3>2
  <2>3. ASSUME ~Replacing \/ backend = "cli", ~(backend = "cli" /\ HasGap)
        PROVE  RecordedIsView'
    <3>1. CASE backend = "pygit2"
      BY <2>1, <3>1 DEF RecordedIsView
    <3>2. CASE backend # "pygit2"
      <4>0. backend = "cli" /\ ~HasGap
        BY <2>3, <3>2, BoundsAreNat DEF IInv, LfsInv, TypeOK
      <4>1. Mirrors(recorded, before) /\ lastCl # submitted
        BY <1>3, <2>3, <4>0 DEF IInv, TreeInv, RecordedIsView
      <4>2. UNCHANGED <<recorded, before, plain>>
        BY <1>1 DEF p4Vars, stateVars
      <4>3. Mirrors(recorded, before)'
        BY <4>1, <4>2 DEF Mirrors, FormsOf
      <4>4. lastCl' # submitted'
        BY <2>1, <4>1
      <4> QED
        BY <1>12, <2>3, <4>3, <4>4 DEF RecordedIsView
    <3> QED
      BY <3>1, <3>2
  <2>4. ASSUME backend = "cli", HasGap
        PROVE  TreeIsView' /\ RecordedIsView'
    BY <1>10, <2>1, <2>4 DEF TreeIsView, RecordedIsView, HasGap
  <2>5. behind' => backend' = "cli"
    BY <1>1, <2>1
  <2> QED
    BY <2>1, <2>2, <2>3, <2>4, <2>5 DEF TreeInv
<1> QED
  BY <1>9, <1>11, <1>13 DEF IInv

\* The commit of the newest changelist is recorded, with the checkpoint.
LEMMA RecordStep ==
    ASSUME IInv, Record
    PROVE  IInv'
<1>1. /\ pc = "record" /\ (behind \/ tip = submitted) /\ lastCl < submitted
      /\ rows' = rows \cup {submitted} /\ recorded' = made /\ lastCl' = submitted
      /\ pc' \in {"push", "upload"} /\ (pc' = "push" => cutover)
      /\ UNCHANGED <<process, plain, p4Vars, branchVars, extracted, objects, lfsVars, faults>>
  BY DEF Record, IInv, ChangeInv, OneAtATime
<1>2. /\ submitted \in 0..MaxCL /\ lastCl \in 0..submitted /\ submitted = lastCl + 1
      /\ rows \subseteq 1..lastCl /\ submitted \in CL
  BY <1>1, BoundsAreNat DEF IInv, LfsInv, TypeOK, ChangeInv, OneAtATime, CL
<1>3. TypeOK'
  BY <1>1, <1>2, BoundsAreNat
     DEF IInv, LfsInv, TypeOK, process, p4Vars, branchVars, extracted, lfsVars
<1>4. LfsInv'
  BY <1>1, <1>3 DEF IInv, LfsInv, ObjectsInv, PublishedPointersResolve, PointersOf, process,
                    branchVars, lfsVars
<1>5. View' = View /\ KeepsDirectories'
  BY <1>1 DEF View, KeepsDirectories, IInv, ChangeInv, p4Vars
<1>6. ChangeInv'
  <2>1. OneAtATime'
    BY <1>1, <1>2, BoundsAreNat DEF OneAtATime, p4Vars
  <2>2. ExtractedIsChange'
    BY <1>1 DEF ExtractedIsChange
  <2> QED
    BY <1>5, <2>1, <2>2 DEF ChangeInv
<1>7. HasGap => HasGap'
  BY <1>1, <1>2, BoundsAreNat DEF HasGap
<1>8. /\ Mirrors(tree, View) => Mirrors(tree, View)'
      /\ Mirrors(made, View) => Mirrors(recorded, View)'
  BY <1>1, <1>5 DEF Mirrors, FormsOf, branchVars
<1>9. TreeInv'
  <2>1. /\ UNCHANGED <<backend, behind>> /\ (behind \/ tip' = submitted') /\ lastCl' = submitted'
        /\ pc' # "record" /\ backend \in {"pygit2", "cli"}
    BY <1>1, BoundsAreNat DEF process, p4Vars, branchVars, IInv, LfsInv, TypeOK
  <2>2. TreeIsView => TreeIsView'
    BY <1>1, <1>7, <1>8, <2>1 DEF TreeIsView, HasGap
  <2>3. RecordedIsView => RecordedIsView'
    BY <1>1, <1>7, <1>8, <2>1 DEF RecordedIsView
  <2> QED
    BY <2>1, <2>2, <2>3 DEF IInv, TreeInv
<1> QED
  BY <1>4, <1>6, <1>9 DEF IInv

\* A changelist that leaves the stream as it was is passed over.
LEMMA SkipStep ==
    ASSUME IInv, Skip
    PROVE  IInv'
<1>1. /\ pc = "commit" /\ Nothing /\ lastCl < submitted
      /\ lastCl' = submitted /\ pc' = "idle"
      /\ puts' = NoPuts /\ deletes' = {} /\ addsAttributes' = FALSE
      /\ UNCHANGED <<process, plain, p4Vars, rows, recorded, branchVars, objects, lfsVars, faults>>
  BY DEF Skip, Forget, IInv, ChangeInv, OneAtATime
<1>2. /\ submitted \in 0..MaxCL /\ lastCl \in 0..submitted /\ submitted = lastCl + 1
      /\ rows \subseteq 1..lastCl /\ submitted \in CL
  BY <1>1, BoundsAreNat DEF IInv, LfsInv, TypeOK, ChangeInv, OneAtATime, CL
<1>3. puts' \in [Path -> Entry] /\ deletes' \subseteq Path /\ addsAttributes' \in BOOLEAN
  BY <1>1 DEF NoPuts, Entry
<1>4. TypeOK'
  BY <1>1, <1>2, <1>3, BoundsAreNat
     DEF IInv, LfsInv, TypeOK, process, p4Vars, branchVars, lfsVars
<1>5. LfsInv'
  BY <1>1, <1>4 DEF IInv, LfsInv, ObjectsInv, PublishedPointersResolve, PointersOf, branchVars,
                    lfsVars
<1>6. View' = View /\ KeepsDirectories'
  BY <1>1 DEF View, KeepsDirectories, IInv, ChangeInv, p4Vars
<1>7. ChangeInv'
  <2>1. OneAtATime'
    BY <1>1, <1>2, BoundsAreNat DEF OneAtATime, p4Vars
  <2>2. ExtractedIsChange'
    BY <1>1 DEF ExtractedIsChange
  <2> QED
    BY <1>6, <2>1, <2>2 DEF ChangeInv
\* The row is missing from now on: under cli there is a gap.
<1>8. HasGap'
  BY <1>1, <1>2, BoundsAreNat DEF HasGap
<1>9. View = before
  <2>1. \A p \in Path : change[p] = "none"
    <3> TAKE p \in Path
    <3>1. p \notin Deleted /\ puts[p] = NoEntry
      BY <1>1 DEF Nothing, NoPuts, IInv, ChangeInv, ExtractedIsChange
    <3>2. p \notin Added
      BY <1>1, <1>2, <3>1 DEF Nothing, Skip, IInv, ChangeInv, ExtractedIsChange, NoEntry, CL
    <3> QED
      BY <1>1, <3>1, <3>2, ViewFacts DEF IInv, LfsInv
  <2>2. \A p \in Path : View[p] = before[p]
    BY <1>2, <2>1, AfterFacts DEF IInv, LfsInv, TypeOK, View
  <2>3. View \in [Path -> File] /\ before \in [Path -> File]
    BY <1>2, ViewFacts, BoundsAreNat DEF IInv, LfsInv, TypeOK, CL
  <2> QED
    BY <2>2, <2>3
<1>10. TreeInv'
  <2>1. ASSUME ~Replacing \/ backend = "cli", backend # "cli"
        PROVE  Mirrors(tree, View)
    BY <1>9, <2>1 DEF IInv, TreeInv, TreeIsView
  <2>2. Mirrors(tree, View) => Mirrors(tree, View)'
    BY <1>1, <1>6 DEF Mirrors, FormsOf, branchVars
  <2>3. UNCHANGED <<backend, behind>> /\ lastCl' = submitted'
    BY <1>1 DEF process, p4Vars, branchVars
  <2>4. ASSUME ~Replacing \/ backend = "cli"
        PROVE  TreeIsView'
    BY <1>8, <2>1, <2>2, <2>3, <2>4 DEF TreeIsView, HasGap, Mirrors
  <2>5. RecordedIsView'
    BY <1>8 DEF RecordedIsView
  <2> QED
    BY <2>3, <2>4, <2>5 DEF IInv, TreeInv
<1> QED
  BY <1>5, <1>7, <1>10 DEF IInv

-----------------------------------------------------------------------------
(* The theorems.                                                            *)

\* Nothing was submitted, committed or uploaded.
LEMMA InitInv ==
    ASSUME Init
    PROVE  IInv
<1> USE BoundsAreNat DEF Init
<1>1. NoEntry \in Entry /\ NoFile \in File /\ NoEntry.form # "pointer"
  BY DEF Entry, File, NoEntry
<1>2. EmptyTree \in Tree /\ PointersOf(EmptyTree.files) = {}
  BY <1>1 DEF EmptyTree, NoPuts, Tree, PointersOf
<1>3. TypeOK
  <2>1. puts \in [Path -> Entry] /\ before \in [Path -> File] /\ recorded \in Tree /\ tree \in Tree
        /\ made \in Tree /\ tree.pointers \cup recorded.pointers \cup made.pointers = {}
    BY <1>1, <1>2 DEF NoPuts, EmptyTree
  <2>2. /\ change \in [DepotPath -> {"none", "delete"} \cup Kinds] /\ headIsBranch \in BOOLEAN
        /\ submitted \in 0..MaxCL /\ lastCl \in 0..submitted /\ tip \in 0..submitted
        /\ faults \in 0..MaxFaults
    OBVIOUS
  <2> QED
    BY <2>1, <2>2 DEF TypeOK
<1>4. ObjectsInv /\ PublishedPointersResolve
  BY <1>2 DEF ObjectsInv, PublishedPointersResolve
<1>5. View = before
  BY AfterNothing DEF View
<1>6. ChangeInv
  BY <1>5, PathFacts DEF ChangeInv, OneAtATime, KeepsDirectories, ExtractedIsChange
<1>7. Mirrors(EmptyTree, before)
  BY DEF Mirrors, EmptyTree, NoPuts
<1>8. TreeInv
  BY <1>5, <1>7 DEF TreeInv, RecordedIsView, TreeIsView
<1> QED
  BY <1>3, <1>4, <1>6, <1>8 DEF IInv, LfsInv

\* Every step keeps the invariant.
LEMMA NextInv ==
    ASSUME IInv, [Next]_vars
    PROVE  IInv'
<1>1. CASE UNCHANGED vars
  <2>1. UNCHANGED <<process, plain, p4Vars, stateVars, branchVars, pc, extracted, objects,
                    lfsVars, faults>>
    BY <1>1 DEF vars
  <2>2. LfsInv'
    BY <2>1 DEF IInv, LfsInv, TypeOK, ObjectsInv, PublishedPointersResolve, PointersOf, process,
                p4Vars, stateVars, branchVars, extracted, lfsVars
  <2>3. ExtractedIsChange'
    BY <2>1, SameTree DEF IInv, ChangeInv, ExtractedIsChange, FormsOf, process, extracted, p4Vars
  <2> QED
    BY <2>1, <2>2, <2>3, SameTree DEF IInv, ChangeInv, process
<1>2. CASE \E c \in [DepotPath -> {"none", "delete"} \cup Kinds] : Submit(c)
  BY <1>2, SubmitStep
<1>3. CASE \E sized, sniffed \in BOOLEAN : Extract(sized, sniffed)
  BY <1>3, ExtractStep
<1>4. CASE Describe \/ Skip \/ (\E read, moved \in BOOLEAN : Commit(read, moved)) \/ Record
  BY <1>4, DescribeStep, SkipStep, CommitStep, RecordStep
<1>5. CASE ExtractFails \/ CommitRefused \/ Kill
  BY <1>5, EndSteps
<1>6. CASE Upload \/ Push \/ PushFails \/ PushAlone \/ (\E B \in SUBSET tree.pointers : Batch(B))
           \/ ResetProgress
  BY <1>6, PushSteps
<1>7. CASE CutoverOrService
  BY <1>7, CutoverStep
<1> QED
  BY <1>1, <1>2, <1>3, <1>4, <1>5, <1>6, <1>7 DEF Next

\* The invariant holds throughout.
LEMMA ContentInvariant == Spec => []IInv
<1>1. Init => IInv
  BY InitInv
<1>2. IInv /\ [Next]_vars => IInv'
  BY NextInv
<1> QED
  BY <1>1, <1>2, PTL DEF Spec

\* Every variable of the extraction, the branch and the LFS store has its type;
\* in particular a commit points only to objects that are stored.
THEOREM ContentTypeCorrect == Spec => []TypeOK
<1>1. IInv => TypeOK
  BY DEF IInv, LfsInv
<1> QED
  BY <1>1, ContentInvariant, PTL

\* Whoever clones the remote gets every file: git lfs push comes before git push,
\* and what lfs-push noted as uploaded is on the server.  What is missing there was
\* published by a push without an upload, and by no push of the service since.
THEOREM PointersResolve == Spec => []PublishedPointersResolve
<1>1. IInv => PublishedPointersResolve
  BY DEF IInv, LfsInv
<1> QED
  BY <1>1, ContentInvariant, PTL

\* The newest commit holds the stream as of its changelist, through failures, kills,
\* retries and cutovers, unless pygit2 rebuilds a tree in which a file replaces a
\* directory.  It lacks only files that were there when a tree could not be read.
THEOREM BranchShowsTheStream ==
    ASSUME ~Replacing \/ Backends \subseteq {"cli"}
    PROVE  Spec => []TreeIsView
<1>1. IInv => TreeIsView
  BY DEF IInv, LfsInv, TypeOK, TreeInv
<1> QED
  BY <1>1, ContentInvariant, PTL
=============================================================================
