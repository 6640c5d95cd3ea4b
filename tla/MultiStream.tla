----------------------------- MODULE MultiStream -----------------------------
(***************************************************************************)
(* The sync of several streams by one loop: StreamWatcher registers streams  *)
(* that appear in P4, EventCollector collects what is to be done on all of    *)
(* them, in the order of the changelists, and MultiStreamHandler does it      *)
(* until one event fails.                                                    *)
(*                                                                         *)
(* A commit is the sequence of changelists on its first-parent chain, as in   *)
(* ForwardSync.  A second parent is only a flag.  Left out: pushing (a push   *)
(* that fails is logged and sets the status of a row), gc, notifications,    *)
(* retry counts, streams that disappear (polled like before), the breaker.    *)
(***************************************************************************)
EXTENDS Integers, FiniteSets, SequencesExt

CONSTANTS
    Main, Dev,    \* imported before the service starts; Dev is a child of Main
    NoParent,     \* no stream
    Late,         \* streams that may be created while the service runs
    Ignored,      \* those of Late that stream_policy excludes
    Backends,     \* the values of git.backend considered
    InDirectories,  \* the sets of changelists considered that write into a directory
    MaxCL,        \* bound: changelists ever submitted
    MaxMerges,    \* bound: changelists, after the imported ones, that merge one
    BatchSize,    \* sync.batch_size
    MaxFaults     \* bound: failing calls and kills

Stream == {Main, Dev} \cup Late

ASSUME MultiStreamAssumption ==
    /\ Main # Dev /\ {Main, Dev} \cap Late = {}
    /\ NoParent \notin Stream
    /\ Ignored \subseteq Late
    /\ Backends \subseteq {"pygit2", "cli"}
    /\ InDirectories \subseteq SUBSET (1..MaxCL)
    /\ MaxCL \in Nat /\ MaxCL >= 2
    \* One slot for each new stream without a changelist, one for the others.
    /\ BatchSize \in Nat /\ BatchSize > Cardinality(Late \ Ignored)
    /\ MaxFaults \in Nat /\ MaxMerges \in Nat

CL == 1..MaxCL
None == 0          \* no changelist, as a source, a branch point or a checkpoint
NoCommit == <<>>   \* no row, or no ref
Event == [cl : 0..MaxCL, priority : {0, 1}, stream : Stream]

VARIABLES
    backend,
    depot,       \* P4: the stream of each changelist, and those it integrates from
    parent,      \* P4: the parent of each stream that exists
    nested,      \* P4: the changelists, there or to come, with a file in a directory
    registered,  \* stream_registry
    pointCl,     \* stream_registry.branch_point_cl
    branch,      \* refs/heads/<branch> of each stream
    behind,      \* the streams whose last git update-ref failed: nothing reads it
    lastCl,      \* sync_state.last_cl, None when there is no row
    row,         \* cl_commit_map: changelist -> commit
    second,      \* the changelist whose commit is the second parent of each one's
    pc,
    todo,        \* streams still to register, or to query
    begun,       \* how many changelists there were when the queries began
    events,      \* collected and not yet handled
    faults

p4Vars == <<depot, parent, nested>>
refs == <<branch, behind>>
registry == <<registered, pointCl>>
stateVars == <<lastCl, row, second>>
vars == <<backend, p4Vars, registry, refs, stateVars, pc, todo, begun, events, faults>>

TypeOK ==
    /\ backend \in Backends
    /\ depot \in Seq([stream : Stream, sources : SUBSET CL]) /\ Len(depot) <= MaxCL
    /\ parent \in [Stream -> Stream \cup {NoParent}]
    /\ {Main, Dev} \subseteq registered /\ registered \subseteq Stream
    /\ pointCl \in [Stream -> 0..MaxCL]
    /\ nested \in InDirectories \cup {{}}
    /\ branch \in [Stream -> Seq(CL)] /\ behind \subseteq Stream
    /\ lastCl \in [Stream -> 0..MaxCL]
    /\ row \in [CL -> Seq(CL)]
    /\ second \in [CL -> 0..MaxCL]
    /\ pc \in {"watch", "collect", "process", "down"}
    /\ todo \subseteq Stream
    /\ begun \in 0..MaxCL
    /\ events \subseteq Event
    /\ faults \in 0..MaxFaults

\* Main's first changelist and the one that filled Dev have been imported.  Whether a
\* file is in a directory matters to the CLI backend alone.
Init ==
    /\ backend \in Backends
    /\ nested \in IF backend = "cli" THEN InDirectories ELSE {{}}
    /\ behind = {}
    /\ depot = <<[stream |-> Main, sources |-> {}], [stream |-> Dev, sources |-> {1}]>>
    /\ parent = [s \in Stream |-> IF s = Dev THEN Main ELSE NoParent]
    /\ registered = {Main, Dev}
    /\ pointCl = [s \in Stream |-> IF s = Dev THEN 1 ELSE None]
    /\ branch = [s \in Stream |-> CASE s = Main -> <<1>> [] s = Dev -> <<1, 2>>
                                    [] OTHER -> NoCommit]
    /\ lastCl = [s \in Stream |-> CASE s = Main -> 1 [] s = Dev -> 2 [] OTHER -> None]
    /\ row = [n \in CL |-> CASE n = 1 -> <<1>> [] n = 2 -> <<1, 2>> [] OTHER -> NoCommit]
    /\ second = [n \in CL |-> None]
    /\ pc = "down"
    /\ todo = {} /\ begun = 0 /\ events = {}
    /\ faults = 0

Exists(s) == s = Main \/ parent[s] # NoParent
ChangesOf(s) == {n \in DOMAIN depot : depot[n].stream = s}
Latest(S) == CHOOSE n \in S : \A m \in S : m <= n
Earliest(S) == CHOOSE n \in S : \A m \in S : n <= m

\* Wrong: the next changelist would be expected to be the first.
FirstToCome(s) == IF ChangesOf(s) = {} THEN Len(depot) + 1 ELSE Earliest(ChangesOf(s))
FirstChangelist(s) == IF ChangesOf(s) = {} THEN None ELSE Earliest(ChangesOf(s))

Fault == faults < MaxFaults /\ faults' = faults + 1

-----------------------------------------------------------------------------
(* P4.  A changelist belongs to one stream; its files may be integrated from  *)
(* revisions of others.  Those of an ignored stream are never queried, and a   *)
(* merge of one is like no merge: they are left out.                         *)

\* Bound: a changelist integrates from the newest one, or from the first two.
Integrated == {{}, {1, 2}, {Len(depot)}}

Submit(s, sources) ==
    /\ Exists(s) /\ s \notin Ignored
    /\ Len(depot) < MaxCL
    /\ sources # {} => Cardinality({n \in DOMAIN depot : depot[n].sources # {}}) <= MaxMerges
    /\ depot' = Append(depot, [stream |-> s, sources |-> sources])
    /\ UNCHANGED <<backend, parent, nested, registry, refs, stateVars, pc, todo, begun, events,
                   faults>>

CreateStream(s, p) ==
    /\ ~Exists(s)
    /\ Exists(p)
    /\ parent' = [parent EXCEPT ![s] = p]
    /\ UNCHANGED <<backend, depot, nested, registry, refs, stateVars, pc, todo, begun, events,
                   faults>>

-----------------------------------------------------------------------------
(* The StateStore and the Git operator.                                     *)

\* get_commit_sha(last_cl, stream)
LastCommit(s) == IF lastCl[s] = None THEN NoCommit ELSE row[lastCl[s]]

\* get_last_commit_before
LastCommitBefore(s, cl) ==
    LET rows == {n \in ChangesOf(s) : n < cl /\ row[n] # NoCommit}
    IN  IF rows = {} THEN NoCommit ELSE row[Latest(rows)]

\* create_branch leaves a branch that exists.
CreateBranch(s, commit) ==
    branch' = IF branch[s] = NoCommit THEN [branch EXCEPT ![s] = commit] ELSE branch

\* Wrong: each commit would be a root.
RootCommit(s, n) == <<n>>
NewCommit(s, n) == Append(LastCommit(s), n)

\* git mktree takes names, and the CLI backend gives it the paths of all the files of
\* the commit: one in a directory, new or of the parent, and there is no tree.
TreeAccepted(s, n) == backend = "cli" => Range(NewCommit(s, n)) \cap nested = {}

\* libgit2 moves a branch only if its tip is the first parent of the new commit;
\* git update-ref moves it anywhere.
CommitAccepted(s, n) ==
    /\ TreeAccepted(s, n)
    /\ backend = "cli" \/ branch[s] = LastCommit(s)

\* The exit code of git update-ref is not looked at: the commit is made, and returned
\* as if the branch had it.
MoveBranch(s, commit) ==
    /\ branch' = [branch EXCEPT ![s] = commit]
    /\ behind' = behind \ {s}
UpdateRefFails(s) ==
    /\ backend = "cli"
    /\ Fault
    /\ behind' = behind \cup {s}
    /\ UNCHANGED branch

-----------------------------------------------------------------------------
(* StreamWatcher.                                                          *)

\* verify_consistency of the default branch, that of Main.
Start ==
    /\ pc = "down"
    /\ branch[Main] = LastCommit(Main)
    /\ pc' = "watch"
    /\ todo' = {s \in Late \ Ignored : Exists(s)} \ registered
    /\ UNCHANGED <<backend, p4Vars, registry, refs, stateVars, begun, events, faults>>

BeginRound ==
    /\ pc = "watch"
    /\ todo = {}
    /\ pc' = "collect"
    /\ todo' = registered
    /\ begun' = Len(depot)
    /\ events' = {}
    /\ UNCHANGED <<backend, p4Vars, registry, refs, stateVars, faults>>

\* handle_created_stream: without a row of the parent the branch starts at the
\* parent's head, and without such a head there is none before the first commit.
RegisterStream(s) ==
    LET first == FirstChangelist(s)
        before == LastCommitBefore(parent[s], first)
    IN  /\ pc = "watch"
        /\ s \in todo
        /\ CreateBranch(s, IF before # NoCommit THEN before ELSE branch[parent[s]])
        /\ registered' = registered \cup {s}
        /\ pointCl' = [pointCl EXCEPT ![s] = first]
        /\ todo' = todo \ {s}
        /\ UNCHANGED <<backend, p4Vars, behind, stateVars, pc, begun, events, faults>>

\* A call of P4 or Git fails: the stream is found again in the next round.
RegisterFails(s) ==
    /\ pc = "watch"
    /\ s \in todo
    /\ Fault
    /\ todo' = todo \ {s}
    /\ UNCHANGED <<backend, p4Vars, registry, refs, stateVars, pc, begun, events>>

-----------------------------------------------------------------------------
(* EventCollector.collect, one query after the other.                        *)

\* get_all_registered_streams: in the order of registration, open for late ones.
IsFirst(s) == /\ s # Main => Main \notin todo
              /\ s \in Late => Dev \notin todo

QueryStream(s) ==
    LET create == IF lastCl[s] = None /\ parent[s] # NoParent
                  THEN {[cl |-> pointCl[s], priority |-> 0, stream |-> s]} ELSE {}
        changes == {[cl |-> n, priority |-> 1, stream |-> s] :
                      n \in {m \in ChangesOf(s) : m > lastCl[s]}}
    IN  /\ pc = "collect"
        /\ s \in todo /\ IsFirst(s)
        /\ events' = events \cup create \cup changes
        /\ todo' = todo \ {s}
        /\ UNCHANGED <<backend, p4Vars, registry, refs, stateVars, pc, begun, faults>>

CollectFails ==
    /\ pc = "collect"
    /\ Fault
    /\ pc' = "watch"
    /\ todo' = {s \in Late \ Ignored : Exists(s)} \ registered
    /\ events' = {}
    /\ UNCHANGED <<backend, p4Vars, registry, refs, stateVars, begun>>

\* sort_key
Before(e, f) == e.cl < f.cl \/ (e.cl = f.cl /\ e.priority < f.priority)

\* Wrong: the batch would be cut before it is sorted.
CutAnywhere ==
    /\ pc = "collect"
    /\ todo = {}
    /\ pc' = "process"
    /\ events' \in {b \in SUBSET events : /\ Cardinality(b) <= BatchSize
                                          /\ b # events => Cardinality(b) = BatchSize}
    /\ UNCHANGED <<backend, p4Vars, registry, refs, stateVars, todo, begun, faults>>

\* Sorted, and cut to the batch; events that are equal stay in any order.
SortAndCut ==
    /\ pc = "collect"
    /\ todo = {}
    /\ pc' = "process"
    /\ events' \in {b \in SUBSET events :
                       /\ Cardinality(b) <= BatchSize
                       /\ b # events => Cardinality(b) = BatchSize
                       /\ \A e \in b, f \in events \ b : ~Before(f, e)}
    /\ UNCHANGED <<backend, p4Vars, registry, refs, stateVars, todo, begun, faults>>

-----------------------------------------------------------------------------
(* MultiStreamHandler.poll_and_sync.                                        *)

IsNext(e) == pc = "process" /\ e \in events /\ \A f \in events : ~Before(f, e)

NewRound ==
    /\ pc' = "watch"
    /\ todo' = {s \in Late \ Ignored : Exists(s)} \ registered

\* handle_branch_create
\* Wrong: the branch point would have to be known.
BranchPointExactly(e) == LastCommitBefore(parent[e.stream], e.cl + 1)
BranchPoint(e) ==
    LET p == parent[e.stream]
        before == LastCommitBefore(p, e.cl + 1)
    IN  IF before # NoCommit THEN before ELSE LastCommit(p)

HandleBranchCreate(e) ==
    /\ IsNext(e)
    /\ e.priority = 0
    /\ BranchPoint(e) # NoCommit
    /\ CreateBranch(e.stream, BranchPoint(e))
    /\ events' = events \ {e}
    /\ UNCHANGED <<backend, p4Vars, registry, behind, stateVars, pc, todo, begun, faults>>

\* MergeAnalyzer: a file whose filelog fails, or that of its source, is left out;
\* what is found is as new as its newest source.
Analyze(n, found) ==
    \/ found = depot[n].sources /\ UNCHANGED faults
    \/ found \subseteq depot[n].sources /\ found # depot[n].sources /\ Fault

SourceChangelist(found) == IF found = {} THEN None ELSE Latest(found)

\* _try_merge_commit: there is a second parent if the source has a row, of
\* whatever stream, and if there is a first one.
SecondParent(s, found) ==
    LET source == SourceChangelist(found)
    IN  IF source # None /\ row[source] # NoCommit /\ LastCommit(s) # NoCommit
        THEN source ELSE None

\* handle_changelist_event.  A fault is one of the analysis or of git update-ref.
HandleChangelist(e, found) ==
    LET s == e.stream
        commit == NewCommit(s, e.cl)
    IN  /\ IsNext(e)
        /\ e.priority = 1
        /\ CommitAccepted(s, e.cl)
        /\ \/ MoveBranch(s, commit) /\ Analyze(e.cl, found)
           \/ UpdateRefFails(s) /\ found = depot[e.cl].sources
        /\ row' = [row EXCEPT ![e.cl] = commit]
        /\ lastCl' = [lastCl EXCEPT ![s] = e.cl]
        /\ second' = [second EXCEPT ![e.cl] = SecondParent(s, found)]
        /\ events' = events \ {e}
        /\ UNCHANGED <<backend, p4Vars, registry, pc, todo, begun>>

\* An event that fails by itself, or by a call of P4 or Git that fails.
Refused(e) ==
    IF e.priority = 0 THEN BranchPoint(e) = NoCommit ELSE ~CommitAccepted(e.stream, e.cl)

\* Wrong: the other events of the batch would be handled all the same.
EventSkipped(e) ==
    /\ IsNext(e)
    /\ (Refused(e) /\ UNCHANGED faults) \/ Fault
    /\ events' = events \ {e}
    /\ UNCHANGED <<backend, p4Vars, registry, refs, stateVars, pc, todo, begun>>

\* break: the next round begins with this event.
EventFails(e) ==
    /\ IsNext(e)
    /\ (Refused(e) /\ UNCHANGED faults) \/ Fault
    /\ NewRound
    /\ events' = {}
    /\ UNCHANGED <<backend, p4Vars, registry, refs, stateVars, begun>>

EndRound ==
    /\ pc = "process"
    /\ events = {}
    /\ NewRound
    /\ UNCHANGED <<backend, p4Vars, registry, refs, stateVars, begun, events, faults>>

-----------------------------------------------------------------------------
(* The process is killed: between two events, or inside one, after the        *)
(* commit and with or without the row of the changelist.                     *)

Kill ==
    /\ pc # "down"
    /\ Fault
    /\ pc' = "down"
    /\ todo' = {} /\ events' = {}
    /\ UNCHANGED <<backend, p4Vars, registry, refs, stateVars, begun>>

KillInside(e) ==
    LET s == e.stream
        commit == NewCommit(s, e.cl)
    IN  /\ IsNext(e)
        /\ e.priority = 1
        /\ CommitAccepted(s, e.cl)
        /\ (MoveBranch(s, commit) /\ Fault) \/ UpdateRefFails(s)
        /\ row' \in {row, [row EXCEPT ![e.cl] = commit]}
        /\ second' = [second EXCEPT ![e.cl] = SecondParent(s, depot[e.cl].sources)]
        /\ pc' = "down"
        /\ todo' = {} /\ events' = {}
        /\ UNCHANGED <<backend, p4Vars, registry, lastCl, begun>>

-----------------------------------------------------------------------------
Work ==
    \/ Start
    \/ BeginRound
    \/ \E s \in Late : RegisterStream(s)
    \/ \E s \in Stream : QueryStream(s)
    \/ SortAndCut
    \/ \E e \in events : HandleBranchCreate(e) \/ EventFails(e)
    \/ \E e \in events :
          e.cl # None /\ \E found \in SUBSET depot[e.cl].sources : HandleChangelist(e, found)
    \/ EndRound

Next ==
    \/ \E s \in Stream, sources \in Integrated : Submit(s, sources)
    \/ \E s \in Late, p \in Stream : CreateStream(s, p)
    \/ Work
    \/ \E s \in Late : RegisterFails(s)
    \/ CollectFails
    \/ Kill
    \/ \E e \in events : KillInside(e)

Spec == Init /\ [][Next]_vars

\* The loop keeps running and the supervisor restarts the service.
FairSpec == Spec /\ WF_vars(Work)
=============================================================================
