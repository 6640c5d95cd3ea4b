---------------------------- MODULE InitialImport ----------------------------
(***************************************************************************)
(* The import of a stream's history: InitialImporter.run.  Worker threads    *)
(* extract chunks of changelists from P4, a dispatcher puts the results into  *)
(* a bounded queue in order, and the main thread writes them to git           *)
(* fast-import, which it ends and starts anew at every checkpoint.           *)
(*                                                                         *)
(* A commit is the sequence of changelists on its chain; -n stands for a      *)
(* commit with only a part of changelist n.  git fast-import gives the first  *)
(* commit of a process no parent (no "from" is written), moves the branch     *)
(* when it ends, by --force to anywhere, and completes a commit that was      *)
(* only begun.  A process that fails leaves nothing of what it was given.     *)
(* Left out: contents and LFS objects, progress, throttling, repack and gc.   *)
(***************************************************************************)
EXTENDS Integers, FiniteSets, SequencesExt

CONSTANTS
    MaxCL,      \* the history: changelists 1..MaxCL are there before the import
    Workers,    \* _PREFETCH_WORKERS
    ChunkSize,  \* _DESCRIBE_BATCH_SIZE
    Interval,   \* initial_import.checkpoint_interval
    MaxFaults   \* bound: extractions, print threads, writes, fast-imports that
                \* fail, kills

ASSUME InitialImportAssumption ==
    /\ MaxCL \in Nat /\ MaxFaults \in Nat
    /\ Workers \in Nat \ {0} /\ ChunkSize \in Nat \ {0} /\ Interval \in Nat \ {0}

CL == 1..MaxCL
QueueSize == Workers * 2
Sentinel == 0

VARIABLES
    skipped,   \* changelists of which the virtual filter leaves no file
    branch,    \* refs/heads/<branch>
    objects,   \* changelists with a finished commit in the repository, on the branch or not
    lost,      \* changelists given to a fast-import that failed
    lastCl,    \* sync_state.last_cl
    lastSha,   \* sync_state.commit_sha
    rows,      \* the changelists with a row in cl_commit_map
    pc,        \* where the main thread is
    start,     \* the checkpoint this run resumed from
    i,         \* changelists of this run taken from the queue
    item,      \* the one in work
    lastWritten,  \* last_written_cl
    session,   \* what was written to the running fast-import
    chunk,     \* the state of each chunk of changelists
    taken,     \* chunks the dispatcher has got
    enqueued,  \* changelists it has put into the queue
    dispatcher,\* where it is
    queue,     \* result_queue
    stop,      \* stop_event
    lossy,     \* changelists of whose files the last extraction lost some
    faults

gitVars == <<branch, objects, lost>>
stateVars == <<lastCl, lastSha, rows>>
mainVars == <<start, i, item, lastWritten, session>>
dispatchVars == <<taken, enqueued, dispatcher>>
pipeVars == <<chunk, dispatchVars, queue, stop, lossy>>
vars == <<skipped, gitVars, stateVars, pc, mainVars, pipeVars, faults>>

Commit == Seq(CL \cup {-n : n \in CL})

TypeOK ==
    /\ skipped \subseteq CL
    /\ branch \in Commit /\ objects \subseteq CL /\ lost \subseteq CL
    /\ lastCl \in 0..MaxCL /\ lastSha \in Commit /\ rows \subseteq CL
    /\ pc \in {"off", "get", "write", "checkpoint", "record", "map",
               "final", "recordfinal", "mapfinal", "raise"}
    /\ start \in 0..MaxCL /\ i \in 0..MaxCL /\ item \in 0..MaxCL
    /\ lastWritten \in 0..MaxCL /\ session \in Commit
    /\ chunk \in [CL -> {"unsent", "sent", "done", "failed"}]
    /\ taken \in 0..MaxCL /\ enqueued \in 0..MaxCL
    /\ dispatcher \in {"get", "put", "end", "gone"}
    /\ queue \in Seq(0..MaxCL) /\ Len(queue) <= QueueSize
    /\ stop \in BOOLEAN
    /\ lossy \subseteq CL
    /\ faults \in 0..MaxFaults

Init ==
    /\ skipped \in SUBSET CL
    /\ branch = <<>> /\ objects = {} /\ lost = {}
    /\ lastCl = 0 /\ lastSha = <<>> /\ rows = {}
    /\ pc = "off"
    /\ start = 0 /\ i = 0 /\ item = 0 /\ lastWritten = 0 /\ session = <<>>
    /\ chunk = [k \in CL |-> "unsent"]
    /\ taken = 0 /\ enqueued = 0 /\ dispatcher = "gone"
    /\ queue = <<>> /\ stop = FALSE /\ lossy = {}
    /\ faults = 0

Fault == faults < MaxFaults /\ faults' = faults + 1

Total == MaxCL - start
Chunks == (Total + ChunkSize - 1) \div ChunkSize
\* How many changelists the first k chunks have.
ChunkEnd(k) == IF k * ChunkSize < Total THEN k * ChunkSize ELSE Total
ChunkOf(k) == {start + n : n \in ChunkEnd(k - 1) + 1 .. ChunkEnd(k)}

-----------------------------------------------------------------------------
(* The beginning of run.                                                   *)

\* Changelists from the checkpoint on; the first chunks go to the workers.
Begin ==
    /\ pc = "off"
    /\ lastCl < MaxCL
    /\ start' = lastCl
    /\ pc' = "get"
    /\ i' = 0 /\ item' = 0 /\ lastWritten' = 0 /\ session' = <<>>
    /\ chunk' = [k \in CL |-> IF k <= Workers /\ k <= Chunks' THEN "sent" ELSE "unsent"]
    /\ taken' = 0 /\ enqueued' = 0 /\ dispatcher' = "get"
    /\ queue' = <<>> /\ stop' = FALSE
    /\ UNCHANGED <<skipped, gitVars, stateVars, lossy, faults>>

-----------------------------------------------------------------------------
(* _prefetch_loop: the worker threads.                                      *)

\* Each has its own connection, and one chunk at a time.  (One that finds the
\* stop event set may also end without doing its chunk.)
Extract(k) ==
    /\ chunk[k] = "sent"
    /\ chunk' = [chunk EXCEPT ![k] = "done"]
    /\ lossy' = lossy \ ChunkOf(k)
    /\ UNCHANGED <<skipped, gitVars, stateVars, pc, mainVars, dispatchVars, queue, stop, faults>>

\* The thread that prints the files of a changelist of 500 and more dies when P4
\* cannot be reached: nobody looks, its files are neither there nor missing.
PrintThreadDies(k) ==
    /\ chunk[k] = "sent"
    /\ Fault
    /\ chunk' = [chunk EXCEPT ![k] = "done"]
    /\ \E n \in ChunkOf(k) \ skipped : lossy' = (lossy \ ChunkOf(k)) \cup {n}
    /\ UNCHANGED <<skipped, gitVars, stateVars, pc, mainVars, dispatchVars, queue, stop>>

\* Wrong: only the log would know.
ExtractFailsSilently(k) ==
    /\ chunk[k] = "sent"
    /\ Fault
    /\ chunk' = [chunk EXCEPT ![k] = "unsent"]
    /\ UNCHANGED <<skipped, gitVars, stateVars, pc, mainVars, dispatchVars, queue, stop, lossy>>

ExtractFails(k) ==
    /\ chunk[k] = "sent"
    /\ Fault
    /\ chunk' = [chunk EXCEPT ![k] = "failed"]
    /\ stop' = TRUE
    /\ UNCHANGED <<skipped, gitVars, stateVars, pc, mainVars, dispatchVars, queue, lossy>>

-----------------------------------------------------------------------------
(* _prefetch_loop: the dispatcher.                                          *)

\* It waits for the workers in the order of the chunks.
TakeChunk ==
    /\ dispatcher = "get"
    /\ taken < Chunks
    /\ ~stop
    /\ chunk[taken + 1] = "done"
    /\ taken' = taken + 1
    /\ dispatcher' = "put"
    /\ UNCHANGED <<skipped, gitVars, stateVars, pc, mainVars, chunk, enqueued, queue, stop,
                   lossy, faults>>

\* Wrong: a full queue would lose what does not fit.
PutOrDrop ==
    /\ dispatcher = "put"
    /\ enqueued < ChunkEnd(taken)
    /\ enqueued' = enqueued + 1
    /\ queue' = IF Len(queue) < QueueSize THEN Append(queue, start + enqueued + 1) ELSE queue
    /\ UNCHANGED <<skipped, gitVars, stateVars, pc, mainVars, chunk, taken, dispatcher, stop,
                   lossy, faults>>

\* Wrong: queue.Queue without a maxsize.
PutUnbounded ==
    /\ dispatcher = "put"
    /\ enqueued < ChunkEnd(taken)
    /\ enqueued' = enqueued + 1
    /\ queue' = Append(queue, start + enqueued + 1)
    /\ UNCHANGED <<skipped, gitVars, stateVars, pc, mainVars, chunk, taken, dispatcher, stop,
                   lossy, faults>>

\* It blocks while the queue is full.
PutChangelist ==
    /\ dispatcher = "put"
    /\ enqueued < ChunkEnd(taken)
    /\ Len(queue) < QueueSize
    /\ enqueued' = enqueued + 1
    /\ queue' = Append(queue, start + enqueued + 1)
    /\ UNCHANGED <<skipped, gitVars, stateVars, pc, mainVars, chunk, taken, dispatcher, stop,
                   lossy, faults>>

\* The worker whose chunk is through gets the next one.
SendChunk ==
    /\ dispatcher = "put"
    /\ enqueued = ChunkEnd(taken)
    /\ chunk' = [k \in CL |-> IF k = taken + Workers /\ k <= Chunks /\ ~stop
                              THEN "sent" ELSE chunk[k]]
    /\ dispatcher' = "get"
    /\ UNCHANGED <<skipped, gitVars, stateVars, pc, mainVars, taken, enqueued, queue, stop,
                   lossy, faults>>

\* No more chunks, a stop, or the None of a failed worker.
StopDispatching ==
    /\ dispatcher = "get"
    /\ \/ taken = Chunks
       \/ stop
       \/ taken < Chunks /\ chunk[taken + 1] = "failed"
    /\ dispatcher' = "end"
    /\ UNCHANGED <<skipped, gitVars, stateVars, pc, mainVars, chunk, taken, enqueued, queue,
                   stop, lossy, faults>>

PutSentinel ==
    /\ dispatcher = "end"
    /\ Len(queue) < QueueSize
    /\ queue' = Append(queue, Sentinel)
    /\ dispatcher' = "gone"
    /\ UNCHANGED <<skipped, gitVars, stateVars, pc, mainVars, chunk, taken, enqueued, stop,
                   lossy, faults>>

-----------------------------------------------------------------------------
(* run: the main thread.                                                   *)

Get ==
    /\ pc = "get"
    /\ i < Total
    /\ queue # <<>>
    /\ Head(queue) # Sentinel
    /\ item' = Head(queue)
    /\ queue' = Tail(queue)
    /\ i' = i + 1
    /\ pc' = IF Head(queue) \in skipped THEN "get" ELSE "write"
    /\ UNCHANGED <<skipped, gitVars, stateVars, start, lastWritten, session, chunk,
                   dispatchVars, stop, lossy, faults>>

\* All taken, the sentinel, or an empty queue while the stop event is set.
NothingToGet ==
    /\ pc = "get"
    /\ \/ i = Total
       \/ queue # <<>> /\ Head(queue) = Sentinel
       \/ queue = <<>> /\ stop
    /\ pc' = "final"
    /\ UNCHANGED <<skipped, gitVars, stateVars, mainVars, pipeVars, faults>>

\* _write_cl_to_importer
Write ==
    /\ pc = "write"
    /\ session' = Append(session, item)
    /\ lastWritten' = item
    /\ pc' = IF i % Interval = 0 THEN "checkpoint" ELSE "get"
    /\ UNCHANGED <<skipped, gitVars, stateVars, start, i, item, pipeVars, faults>>

\* A file of a large changelist cannot be extracted while it is written: run
\* leaves the loop on ContentExtractionError, and P4 errors go to its caller.
WriteFails ==
    /\ pc = "write"
    /\ Fault
    /\ session' = Append(session, -item)
    /\ pc' \in {"final", "raise"}
    /\ UNCHANGED <<skipped, gitVars, stateVars, start, i, item, lastWritten, pipeVars>>

\* fast_importer.finish
Finish(s) ==
    /\ branch' = IF s = <<>> THEN branch ELSE s
    /\ objects' = objects \cup (ToSet(s) \cap CL)
    /\ UNCHANGED lost

EndSession(next) ==
    /\ Finish(session)
    /\ session' = <<>>
    /\ pc' = next
    /\ UNCHANGED <<skipped, stateVars, start, i, item, lastWritten, chunk, dispatchVars, queue,
                   lossy, faults>>

\* Checkpoint: the process is ended, then its head is recorded.
FinishForCheckpoint ==
    /\ pc = "checkpoint"
    /\ EndSession("record")
    /\ UNCHANGED stop

\* The process dies (a write to it then raises), ends with an error, which is seen
\* at the end but overlooked at a checkpoint: the finish of the finally clause
\* has no process and returns 0; or is killed after ten seconds: its returncode
\* is not known yet and counts as 0.
FastImportFails ==
    /\ session # <<>>
    /\ Fault
    /\ \/ pc \in {"write", "final", "raise"} /\ pc' = "off" /\ stop' = TRUE
       \/ pc = "final" /\ pc' = "recordfinal" /\ stop' = TRUE
       \/ pc = "checkpoint" /\ pc' \in {"final", "record"} /\ UNCHANGED stop
    /\ lost' = lost \cup (ToSet(session) \cap CL)
    /\ session' = <<>>
    /\ UNCHANGED <<skipped, branch, objects, stateVars, start, i, item, lastWritten, chunk, dispatchVars,
                   queue, lossy>>

\* Wrong: the changelists handed to the workers would count.
RecordEnqueued(cl) ==
    /\ lastCl' = start + enqueued
    /\ lastSha' = branch
    /\ UNCHANGED rows

\* set_last_synced_cl
RecordState(cl) ==
    /\ lastCl' = cl
    /\ lastSha' = branch
    /\ UNCHANGED rows

RecordCheckpoint ==
    /\ pc = "record"
    /\ RecordState(lastWritten)
    /\ pc' = "map"
    /\ UNCHANGED <<skipped, gitVars, mainVars, pipeVars, faults>>

\* finally
FinishForGood ==
    /\ pc \in {"final", "raise"}
    /\ EndSession(IF pc = "final" THEN "recordfinal" ELSE "off")
    /\ stop' = TRUE

\* _post_import, if this run has written anything.
RecordFinal ==
    /\ pc = "recordfinal"
    /\ IF lastWritten > 0 THEN RecordState(lastWritten) /\ pc' = "mapfinal"
       ELSE UNCHANGED stateVars /\ pc' = "off"
    /\ UNCHANGED <<skipped, gitVars, mainVars, pipeVars, faults>>

\* record_commit for the same commit, in a transaction of its own
RecordCommit ==
    /\ pc \in {"map", "mapfinal"}
    /\ rows' = rows \cup {lastWritten}
    /\ pc' = IF pc = "map" THEN "get" ELSE "off"
    /\ UNCHANGED <<skipped, gitVars, lastCl, lastSha, mainVars, pipeVars, faults>>

\* The process is killed: fast-import finds the end of its input and completes
\* what has reached it, or dies as well.
Kill ==
    /\ pc # "off"
    /\ Fault
    /\ \/ UNCHANGED gitVars
       \/ \E n \in 1..Len(session) : Finish(SubSeq(session, 1, n))
       \/ \E n \in 1..Len(session) :
             session[n] > 0 /\ Finish(Append(SubSeq(session, 1, n - 1), -session[n]))
    /\ pc' = "off"
    /\ session' = <<>>
    /\ stop' = TRUE
    /\ UNCHANGED <<skipped, stateVars, start, i, item, lastWritten, chunk, dispatchVars, queue,
                   lossy>>

-----------------------------------------------------------------------------
Dispatch == TakeChunk \/ PutChangelist \/ SendChunk \/ StopDispatching \/ PutSentinel

Main ==
    \/ Get \/ NothingToGet
    \/ Write
    \/ FinishForCheckpoint \/ RecordCheckpoint
    \/ FinishForGood \/ RecordFinal
    \/ RecordCommit

\* With the process gone the threads are gone; daemon threads that outlive run
\* touch nothing any more.
Running == pc # "off"

Next ==
    \/ Begin
    \/ Running /\ \E k \in CL : Extract(k) \/ PrintThreadDies(k) \/ ExtractFails(k)
    \/ Running /\ Dispatch
    \/ Main
    \/ WriteFails \/ FastImportFails
    \/ Kill

Spec == Init /\ [][Next]_vars

\* The import is started again until there is nothing to import; its threads run.
Fairness ==
    /\ WF_vars(Begin) /\ WF_vars(Main) /\ WF_vars(Running /\ Dispatch)
    /\ \A k \in CL : WF_vars(Running /\ ~stop /\ Extract(k))

FairSpec == Spec /\ Fairness
=============================================================================
