-------------------------------- MODULE Content --------------------------------
(***************************************************************************)
(* What a commit contains: CommitBuilder extracts the files of a changelist,   *)
(* the LFS rules decide which of them become pointers, the Git operator makes  *)
(* the tree, a push uploads the LFS objects and then the commits, and          *)
(* p4gitsync lfs-push uploads objects in batches beside it.  p4gitsync cutover  *)
(* makes commits without an LFS store, and pushes without an upload; so does     *)
(* the push of a conflict branch.                                            *)
(*                                                                         *)
(* One stream and one changelist at a time; which changelists there are, and   *)
(* in which order they are synced, is ForwardSync's, and so is a kill between    *)
(* the row and the checkpoint.  A path is a sequence of names; the revision of   *)
(* a file is the changelist that submitted it, and so is its content.          *)
(***************************************************************************)
EXTENDS Integers, FiniteSets, SequencesExt

CONSTANTS
    Backends,    \* the values of git.backend considered
    Kinds,       \* kinds of files that are submitted
    AutoDetect,  \* lfs.auto_detect_binary
    Replacing,   \* does a changelist put a file where it deletes a directory?
    OtherPushes, \* does p4gitsync cutover run, is a conflict branch pushed?
    BatchSize,   \* lfs-push --batch-size
    MaxCL,       \* bound: changelists ever submitted
    MaxFaults    \* bound: failing calls and kills

ASSUME ContentAssumption ==
    /\ Backends \subseteq {"pygit2", "cli"}
    /\ Kinds \subseteq {"text", "script", "small", "large", "odd"}
    /\ AutoDetect \in BOOLEAN /\ Replacing \in BOOLEAN /\ OtherPushes \in BOOLEAN
    /\ BatchSize \in Nat \ {0} /\ MaxCL \in Nat /\ MaxFaults \in Nat

CL == 1..MaxCL

\* A file, a file in a directory of its name, a file with an extension of
\* lfs.extensions; and one that the virtual stream excludes.
Path == {<<"a">>, <<"a", "x">>, <<"b.png">>}
DepotPath == Path \cup {<<"v">>}
Excluded == {"v"}

\* is_included, depot_to_git_path
Included(p) == Head(p) \notin Excluded

NoFile == [cl |-> 0, kind |-> "none"]
File == [cl : CL, kind : Kinds] \cup {NoFile}

\* What Git has of it: a blob with the content and mode 100644 or 100755, or a
\* pointer to the LFS object of the content.
NoEntry == [cl |-> 0, form |-> "none"]
Entry == [cl : CL, form : {"file", "exec", "pointer"}] \cup {NoEntry}
Object == CL \X Path

\* A commit also holds the .gitattributes generated from the configuration.  What
\* follows from its history: the paths it lacks because the tree of a parent was
\* not read, and the objects to which it or an ancestor points.
Tree == [files : [Path -> Entry], attributes : BOOLEAN, lost : SUBSET Path,
         pointers : SUBSET Object]
NoPuts == [p \in Path |-> NoEntry]
EmptyTree == [files |-> NoPuts, attributes |-> FALSE, lost |-> {}, pointers |-> {}]

VARIABLES
    backend,
    headIsBranch, \* does HEAD of the repository name the branch?
    cutover,      \* is it p4gitsync cutover that runs, and not the service?
    submitted,    \* P4: changelists 1..submitted
    before,       \* the files of the stream before the newest changelist
    change,       \* and what that one does
    lastCl,       \* sync_state.last_cl
    rows,         \* the changelists with a row in cl_commit_map
    recorded,     \* the tree of the commit recorded for the last of them
    tip, tree,    \* the branch: the changelist and the tree of its newest commit
    made,         \* the tree of the last commit that was made
    behind,       \* did the branch stay where it was when that was made?
    pc,
    puts, deletes, addsAttributes,  \* what was extracted
    plain,        \* the changelists that a cutover extracted, without an LFS store
    objects,      \* .git/lfs/objects
    uploaded,     \* objects of the LFS server
    published,    \* objects to which some commit of the remote branch points
    ahead,        \* those published without an upload, and none came after
    progress,     \* .lfs-push-progress.json
    faults

p4Vars == <<submitted, before, change>>
stateVars == <<lastCl, rows, recorded>>
branchVars == <<tip, tree, made, behind>>
extracted == <<puts, deletes, addsAttributes>>
lfsVars == <<uploaded, published, ahead, progress>>
process == <<backend, headIsBranch, cutover>>
vars == <<process, plain, p4Vars, stateVars, branchVars, pc, extracted, objects, lfsVars,
          faults>>

TypeOK ==
    /\ backend \in Backends /\ headIsBranch \in BOOLEAN /\ cutover \in BOOLEAN
    /\ submitted \in 0..MaxCL /\ plain \subseteq 1..submitted
    /\ before \in [Path -> File]
    /\ change \in [DepotPath -> {"none", "delete"} \cup Kinds]
    /\ lastCl \in 0..submitted /\ rows \subseteq 1..submitted
    /\ recorded \in Tree /\ tree \in Tree /\ made \in Tree
    /\ tip \in 0..submitted /\ behind \in BOOLEAN
    /\ pc \in {"idle", "extract", "commit", "record", "upload", "push"}
    /\ puts \in [Path -> Entry] /\ deletes \subseteq Path
    /\ addsAttributes \in BOOLEAN
    /\ objects \subseteq Object
    /\ tree.pointers \cup recorded.pointers \cup made.pointers \subseteq objects
    /\ uploaded \cup published \cup ahead \cup progress \subseteq objects
    /\ faults \in 0..MaxFaults

Init ==
    /\ backend \in Backends /\ headIsBranch \in BOOLEAN /\ cutover = FALSE
    /\ submitted = 0 /\ plain = {}
    /\ before = [p \in Path |-> NoFile]
    /\ change = [p \in DepotPath |-> "none"]
    /\ lastCl = 0 /\ rows = {} /\ recorded = EmptyTree
    /\ tip = 0 /\ tree = EmptyTree /\ made = EmptyTree /\ behind = FALSE
    /\ pc = "idle"
    /\ puts = NoPuts /\ deletes = {} /\ addsAttributes = FALSE
    /\ objects = {} /\ uploaded = {} /\ published = {} /\ ahead = {} /\ progress = {}
    /\ faults = 0

\* What was extracted is gone when build_commit ends.
Forget == puts' = NoPuts /\ deletes' = {} /\ addsAttributes' = FALSE

Fault == faults < MaxFaults /\ faults' = faults + 1

-----------------------------------------------------------------------------
(* P4.                                                                     *)

After(files, n, c) ==
    [p \in Path |-> CASE c[p] = "none" -> files[p]
                      [] c[p] = "delete" -> NoFile
                      [] OTHER -> [cl |-> n, kind |-> c[p]]]
View == After(before, submitted, change)

\* Nobody has a file and a directory of one name; bounds: two files, one kind of
\* the excluded one.
Possible(files, c) ==
    LET after == After(files, submitted + 1, c)
    IN  /\ \A p \in Path : c[p] = "delete" => files[p] # NoFile
        /\ c[<<"v">>] \in {"none", CHOOSE kind \in Kinds : TRUE}
        /\ Cardinality({p \in DepotPath : c[p] # "none"}) <= 2
        /\ \E p \in DepotPath : c[p] # "none"
        /\ after[<<"a">>] = NoFile \/ after[<<"a", "x">>] = NoFile
        /\ Replacing \/ files[<<"a", "x">>] = NoFile \/ after[<<"a">>] = NoFile

\* The next changelist, when the one before is synced.
Submit(c) ==
    /\ pc = "idle"
    /\ submitted = lastCl /\ submitted < MaxCL
    /\ Possible(View, c)
    /\ submitted' = submitted + 1
    /\ before' = View
    /\ change' = c
    /\ UNCHANGED <<process, plain, stateVars, branchVars, pc, extracted, objects, lfsVars,
                   faults>>

-----------------------------------------------------------------------------
(* LFS routing.                                                            *)

TypeClass(kind) == CASE kind \in {"text", "script"} -> "text"
                     [] kind \in {"small", "large"} -> "binary"
                     [] OTHER -> "unknown"
GitMode(kind) == IF kind = "script" THEN "exec" ELSE "file"

IsLfsExtension(p) == Last(p) = "b.png"

\* What p4 sizes tells of the file, compared with the threshold.
SizeOf(kind, sized) == CASE ~sized -> "unknown"
                         [] kind \in {"large", "odd"} -> "threshold"
                         [] OTHER -> "less"

\* Does the file begin like a binary one?  Unknown when its head was not read.
SniffIsBinary(kind, sniffed) ==
    IF sniffed THEN {kind \in {"small", "large", "odd"}} ELSE {}

\* An unknown type, and no head: binary unless the size is known to be small.
IsBinary(kind, sized, sniffed) ==
    \/ TypeClass(kind) = "binary"
    \/ /\ TypeClass(kind) = "unknown"
       /\ IF SniffIsBinary(kind, sniffed) = {} THEN SizeOf(kind, sized) # "less"
          ELSE TRUE \in SniffIsBinary(kind, sniffed)

DecideRoute(kind, sized, sniffed) ==
    IsBinary(kind, sized, sniffed) /\ SizeOf(kind, sized) # "less"

\* Wrong: a file of unknown size would stay in Git.
SmallUnlessSized(p, kind, sized, sniffed) ==
    ~cutover /\ (IsLfsExtension(p) \/ (AutoDetect /\ sized /\ DecideRoute(kind, sized, sniffed)))

\* partition_for_lfs: sized and sniffed say whether P4 answered.  A CommitBuilder
\* without an LFS store, which is the cutover's, does not ask.
RoutedToLfs(p, kind, sized, sniffed) ==
    ~cutover /\ (IsLfsExtension(p) \/ (AutoDetect /\ DecideRoute(kind, sized, sniffed)))

-----------------------------------------------------------------------------
(* CommitBuilder.                                                          *)

Added == {p \in Path : Included(p) /\ change[p] \notin {"none", "delete"}}
Deleted == {p \in Path : Included(p) /\ change[p] = "delete"}

NewEntry(p, sized, sniffed) ==
    [cl |-> submitted,
     form |-> IF RoutedToLfs(p, change[p], sized, sniffed) THEN "pointer"
              ELSE GitMode(change[p])]

\* A changelist after the checkpoint is described.
Describe ==
    /\ pc = "idle"
    /\ lastCl < submitted
    /\ pc' = "extract"
    /\ UNCHANGED <<process, plain, p4Vars, stateVars, branchVars, extracted, objects,
                   lfsVars, faults>>

\* HEAD has the .gitattributes that the configuration asks for.
HeadHasAttributes == headIsBranch /\ tree.attributes

\* Wrong: only files with a listed extension would get an object.
ToLfsByExtension(sized, sniffed) == {p \in Added : IsLfsExtension(p)}

ToLfs(sized, sniffed) ==
    {p \in Added : RoutedToLfs(p, change[p], sized, sniffed)}

\* _extract_file_changes.  An object is stored before there is a pointer to it.
Extract(sized, sniffed) ==
    /\ pc = "extract"
    /\ IF sized /\ sniffed THEN UNCHANGED faults ELSE Fault
    /\ puts' = [p \in Path |-> IF p \in Added THEN NewEntry(p, sized, sniffed) ELSE NoEntry]
    /\ deletes' = Deleted
    /\ objects' = objects \cup {<<submitted, p>> : p \in ToLfs(sized, sniffed)}
    /\ addsAttributes' = ~HeadHasAttributes
    /\ plain' = IF cutover THEN plain \cup {submitted} ELSE plain
    /\ pc' = "commit"
    /\ UNCHANGED <<process, p4Vars, stateVars, branchVars, lfsVars>>

\* print_files_batch falls back to one print per file: every file may fail.
Unprintable == Added # {}

\* ContentExtractionError: a file cannot be printed; some objects may be stored.
ExtractFails ==
    /\ pc = "extract"
    /\ Unprintable
    /\ Fault
    /\ \E S \in SUBSET ToLfs(TRUE, TRUE) :
          objects' = objects \cup {<<submitted, p>> : p \in S}
    /\ pc' = "idle"
    /\ UNCHANGED <<process, plain, p4Vars, stateVars, branchVars, extracted, lfsVars>>

Nothing == puts = NoPuts /\ deletes = {} /\ ~addsAttributes

\* build_commit returns "": the checkpoint moves on without a row.
Skip ==
    /\ pc = "commit"
    /\ Nothing
    /\ lastCl' = submitted
    /\ pc' = "idle"
    /\ Forget
    /\ UNCHANGED <<process, plain, p4Vars, rows, recorded, branchVars, objects, lfsVars, faults>>

-----------------------------------------------------------------------------
(* The Git operators.                                                      *)

HasParent == lastCl \in rows

\* libgit2 moves the branch only from the first parent of the new commit.
CommitAccepted == backend = "cli" \/ tip = (IF HasParent THEN lastCl ELSE 0)

Put(p) == puts[p] # NoEntry
IsDirectory(files, name) ==
    \E p \in Path : Len(p) > 1 /\ Head(p) = name /\ files[p] # NoEntry
Enters(name) == \E p \in Path : Len(p) > 1 /\ Head(p) = name /\ (Put(p) \/ p \in deletes)

\* _rebuild_tree: an entry of the old tree that is a directory the changelist
\* enters counts as done, and a file of its name is not put in any more.
Shadowed(files) ==
    {p \in Path : Len(p) = 1 /\ IsDirectory(files, Head(p)) /\ Enters(Head(p))}

Edited(files, shadowed) ==
    [p \in Path |-> CASE Put(p) /\ p \notin shadowed -> puts[p]
                      [] p \in deletes \cup shadowed -> NoEntry
                      [] OTHER -> files[p]]

PointersOf(files) == {<<files[p].cl, p>> : p \in {q \in Path : files[q].form = "pointer"}}

\* libgit2 starts from the tip of the branch, git mktree from the parent.
Parent == IF backend = "pygit2" THEN tree ELSE IF HasParent THEN recorded ELSE EmptyTree

\* An exception on the way to the parent's tree, and a failing git ls-tree, are
\* passed over: only what the changelist touches gets into the tree.
Base(read) ==
    IF read THEN Parent
    ELSE [Parent EXCEPT !.files = NoPuts, !.attributes = FALSE, !.lost = Path]

NewTree(read) ==
    LET base == Base(read)
        files == Edited(base.files, IF backend = "pygit2" THEN Shadowed(base.files) ELSE {})
    IN  [files |-> files,
         attributes |-> base.attributes \/ addsAttributes,
         lost |-> {p \in base.lost \ deletes : ~Put(p)},
         pointers |-> base.pointers \cup PointersOf(files)]

\* git mktree makes one directory: a path with a slash is an error.
TreeAccepted(read) ==
    backend = "cli" => \A p \in Path : Len(p) > 1 => NewTree(read).files[p] = NoEntry

\* git commit-tree, and git update-ref, whose failure nobody notices; libgit2
\* makes the commit and moves the branch in one call.
Commit(read, moved) ==
    /\ pc = "commit"
    /\ ~Nothing
    /\ TreeAccepted(read) /\ CommitAccepted
    /\ read \/ HasParent
    /\ moved \/ backend = "cli"
    /\ IF read /\ moved THEN UNCHANGED faults ELSE Fault
    /\ made' = NewTree(read)
    /\ behind' = ~moved
    /\ IF moved THEN tree' = NewTree(read) /\ tip' = submitted ELSE UNCHANGED <<tree, tip>>
    /\ pc' = "record"
    /\ Forget
    /\ UNCHANGED <<process, plain, p4Vars, stateVars, objects, lfsVars>>

\* The changelist is tried again in the next round.
CommitRefused ==
    /\ pc = "commit"
    /\ ~Nothing
    /\ ~TreeAccepted(TRUE) \/ ~CommitAccepted
    /\ pc' = "idle"
    /\ Forget
    /\ UNCHANGED <<process, plain, p4Vars, stateVars, branchVars, objects,
                   lfsVars, faults>>

Record ==
    /\ pc = "record"
    /\ rows' = rows \cup {submitted}
    /\ recorded' = made
    /\ lastCl' = submitted
    /\ pc' = IF cutover THEN "push" ELSE "upload"
    /\ UNCHANGED <<process, plain, p4Vars, branchVars, extracted, objects, lfsVars, faults>>

-----------------------------------------------------------------------------
(* Push: git lfs push --all, then git push.  A push that fails is made good by  *)
(* one of the next, which pushes the whole branch.                           *)

\* Wrong: a failing upload would not matter.
UploadOrNot ==
    /\ pc = "upload"
    /\ \/ uploaded' = uploaded \cup tree.pointers /\ UNCHANGED faults
       \/ Fault /\ UNCHANGED uploaded
    /\ ahead' = ahead \ tree.pointers
    /\ pc' = "push"
    /\ UNCHANGED <<process, plain, p4Vars, stateVars, branchVars, extracted, objects, published,
                   progress>>

Upload ==
    /\ pc = "upload"
    /\ uploaded' = uploaded \cup tree.pointers
    /\ ahead' = ahead \ tree.pointers
    /\ pc' = "push"
    /\ UNCHANGED <<process, plain, p4Vars, stateVars, branchVars, extracted, objects, published,
                   progress, faults>>

\* The cutover comes here without an upload.
Push ==
    /\ pc = "push"
    /\ published' = published \cup tree.pointers
    /\ ahead' = IF cutover THEN ahead \cup tree.pointers ELSE ahead
    /\ pc' = "idle"
    /\ UNCHANGED <<process, plain, p4Vars, stateVars, branchVars, extracted, objects, uploaded,
                   progress, faults>>

\* The last push of a cutover, or that of a conflict branch, which starts from the
\* branch.
PushAlone ==
    /\ pc = "idle"
    /\ OtherPushes
    /\ published' = published \cup tree.pointers
    /\ ahead' = ahead \cup tree.pointers
    /\ UNCHANGED <<process, plain, p4Vars, stateVars, branchVars, pc, extracted, objects, uploaded,
                   progress, faults>>

\* p4gitsync cutover is run instead of the service, or the service again.
CutoverOrService ==
    /\ pc = "idle"
    /\ OtherPushes
    /\ cutover' = ~cutover
    /\ UNCHANGED <<backend, headIsBranch, plain, p4Vars, stateVars, branchVars, pc, extracted,
                   objects, lfsVars, faults>>

PushFails ==
    /\ pc \in {"upload", "push"}
    /\ Fault
    /\ pc' = "idle"
    /\ UNCHANGED <<process, plain, p4Vars, stateVars, branchVars, extracted, objects,
                   lfsVars>>

\* A batch of lfs-push, then the progress file; it may fail, or die in between.
Batch(B) ==
    /\ B # {} /\ Cardinality(B) <= BatchSize
    /\ B \subseteq tree.pointers \ progress
    /\ uploaded' = uploaded \cup B
    /\ (progress' = progress \cup B /\ UNCHANGED faults) \/ (Fault /\ UNCHANGED progress)
    /\ UNCHANGED <<process, plain, p4Vars, stateVars, branchVars, pc, extracted, objects,
                   published, ahead>>

\* --reset-progress, or a progress file that cannot be read.
ResetProgress ==
    /\ progress # {}
    /\ progress' = {}
    /\ Fault
    /\ UNCHANGED <<process, plain, p4Vars, stateVars, branchVars, pc, extracted, objects,
                   uploaded, published, ahead>>

Kill ==
    /\ pc # "idle"
    /\ Fault
    /\ pc' = "idle"
    /\ Forget
    /\ UNCHANGED <<process, plain, p4Vars, stateVars, branchVars, objects,
                   lfsVars>>

-----------------------------------------------------------------------------
Next ==
    \/ \E c \in [DepotPath -> {"none", "delete"} \cup Kinds] : Submit(c)
    \/ Describe
    \/ \E sized, sniffed \in BOOLEAN : Extract(sized, sniffed)
    \/ ExtractFails
    \/ \E read, moved \in BOOLEAN : Commit(read, moved)
    \/ Skip \/ CommitRefused \/ Record
    \/ Upload \/ Push \/ PushFails
    \/ PushAlone \/ CutoverOrService
    \/ \E B \in SUBSET tree.pointers : Batch(B)
    \/ ResetProgress
    \/ Kill

Spec == Init /\ [][Next]_vars
=============================================================================
