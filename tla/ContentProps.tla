----------------------------- MODULE ContentProps -----------------------------
(***************************************************************************)
(* What the commits contain.                                               *)
(***************************************************************************)
EXTENDS Content

\* How the content of a file may stand in Git.  Only when P4 did not tell its
\* size is a small binary file a pointer.
Forms(p, kind) ==
    CASE IsLfsExtension(p) -> {"pointer"}
      [] AutoDetect /\ kind \in {"large", "odd"} -> {"pointer"}
      [] AutoDetect /\ kind = "small" -> {"file", "pointer"}
      [] OTHER -> {GitMode(kind)}

\* The cutover routes nothing to LFS.
FormsOf(p, f) == Forms(p, f.kind) \cup IF f.cl \in plain THEN {GitMode(f.kind)} ELSE {}

Mirrors(t, files) ==
    \A p \in Path :
        IF files[p] = NoFile \/ p \in t.lost THEN t.files[p] = NoEntry
        ELSE t.files[p].cl = files[p].cl /\ t.files[p].form \in FormsOf(p, files[p])

(***************************************************************************)
(* The tree of the newest commit is the stream as of its changelist: no file   *)
(* that the virtual stream has not, and each with the content, the mode and the  *)
(* form the routing rules give it, through failures, kills, retries and         *)
(* cutovers.  A file is missing only when some tree could not be read and no     *)
(* changelist has touched the file since.  Left out are, with the cli backend, a *)
(* history cut by a skipped changelist (OneCommitPerChangelist of               *)
(* ForwardSyncProps) and a branch that git update-ref did not move.            *)
(***************************************************************************)
TreeIsView ==
    \/ backend = "cli" /\ ~((1..lastCl) \subseteq rows)
    \/ behind
    \/ Mirrors(tree, IF tip = submitted \/ lastCl = submitted THEN View ELSE before)

(***************************************************************************)
(* Whoever clones the remote gets every file: the objects to which its commits *)
(* point are on the LFS server, after uploads and pushes that fail halfway,     *)
(* unless the cutover or a conflict branch was pushed and the service has not    *)
(* pushed the branch since; and what lfs-push believes uploaded is there.       *)
(***************************************************************************)
PublishedPointersResolve == published \subseteq uploaded \cup ahead /\ progress \subseteq uploaded

\* What a cloner needs, and does not get from the pushes without an upload.
AllPublishedResolve == published \subseteq uploaded

\* Nothing gets lost from the branch.  Holds only while trees can be read.
NothingLost == tree.lost = {}

(***************************************************************************)
(* Documents/02-Configuration.md:277-291: large binary files without a listed  *)
(* extension become pointers, and .gitattributes makes Git resolve them.       *)
(***************************************************************************)
PointersHaveARule ==
    \A p \in Path : tree.files[p].form = "pointer" => tree.attributes /\ IsLfsExtension(p)
-----------------------------------------------------------------------------
(* What the proofs need besides.                                           *)

\* One changelist at a time; a row is made together with the checkpoint, and
\* only while there is none is nothing recorded.
OneAtATime ==
    /\ submitted \in {lastCl, lastCl + 1}
    /\ rows \subseteq 1..lastCl
    /\ pc \in {"extract", "commit", "record"} => lastCl < submitted
    /\ pc = "record" /\ ~behind => tip = submitted
    /\ submitted = 0 => before = [p \in Path |-> NoFile] /\ change = [p \in DepotPath |-> "none"]
    /\ lastCl = 0 => recorded = EmptyTree /\ before = [p \in Path |-> NoFile]

\* A changelist that takes a file from a directory puts none of its name.
KeepsDirectories == Replacing \/ before[<<"a", "x">>] = NoFile \/ View[<<"a">>] = NoFile

\* What was extracted is what the changelist does.
ExtractedIsChange ==
    pc = "commit" =>
        /\ deletes = Deleted
        /\ \A p \in Path :
              IF p \in Added THEN puts[p].cl = submitted /\ puts[p].form \in FormsOf(p, View[p])
              ELSE puts[p] = NoEntry

\* Some changelist at or before the checkpoint has no commit.
HasGap == ~((1..lastCl) \subseteq rows)

\* The recorded commit is the stream as of the checkpoint.
RecordedIsView ==
    backend = "pygit2" \/ HasGap
        \/ /\ Mirrors(recorded, IF lastCl = submitted THEN View ELSE before)
           /\ pc = "record" => Mirrors(made, View)

\* There is an object for every pointer, and the service pushes after a whole upload.
ObjectsInv ==
    /\ pc = "commit" => PointersOf(puts) \subseteq objects
    /\ \A t \in {tree, recorded, made} : PointersOf(t.files) \subseteq t.pointers
    /\ pc = "push" /\ ~cutover => tree.pointers \subseteq uploaded

ChangeInv == OneAtATime /\ KeepsDirectories /\ ExtractedIsChange
LfsInv == TypeOK /\ ObjectsInv /\ PublishedPointersResolve

\* Under pygit2 a directory that is replaced by a file is lost.
TreeInv ==
    /\ behind => backend = "cli"
    /\ ~Replacing \/ backend = "cli" => RecordedIsView /\ TreeIsView
IInv == LfsInv /\ ChangeInv /\ TreeInv
=============================================================================
