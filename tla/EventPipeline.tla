---------------------------- MODULE EventPipeline ----------------------------
(***************************************************************************)
(* The event pipeline: the HTTP API publishes a message in a Redis stream   *)
(* for every call of the P4 trigger, and EventConsumer, on a thread of its   *)
(* own, reads the messages as the only consumer of a group, hands them to    *)
(* SyncOrchestrator._on_redis_changelist and acknowledges them.  The main    *)
(* thread polls P4 all the same.                                           *)
(*                                                                         *)
(* _on_redis_changelist begins with a query of the StateStore.  Its SQLite   *)
(* connection belongs to the main thread, which opened it, and sqlite3       *)
(* raises when another thread uses it: the handler always raises, and so     *)
(* does the fallback poll of the heartbeat.                                *)
(*                                                                         *)
(* Redis may be down.  A consumer that runs keeps trying; a service that     *)
(* starts meanwhile does not come up, its polling thread included.          *)
(*                                                                         *)
(* A message is its position in the order of publication and the changelist  *)
(* it names; redis-py and Redis are modelled by what the consumer uses.     *)
(***************************************************************************)
EXTENDS Integers, FiniteSets

CONSTANTS
    MaxCL,       \* bound: changelists ever submitted
    MaxMessages, \* bound: messages ever published
    MaxLen,      \* redis.max_stream_length
    BatchSize,   \* redis.batch_size
    ScanFactor,  \* XAUTOCLAIM: pending entries it looks at for each of COUNT (10)
    MaxFaults    \* bound: connections that break, stops of Redis or the service

ASSUME EventPipelineAssumption ==
    /\ MaxCL \in Nat /\ MaxMessages \in Nat /\ MaxFaults \in Nat
    /\ MaxLen \in Nat \ {0} /\ BatchSize \in Nat \ {0}
    /\ ScanFactor \in Nat \ {0}

Message == 1..MaxMessages
Invalid == 0   \* a changelist number <= 0

VARIABLES
    submitted,  \* P4: changelists submitted
    lastCl,     \* sync_state.last_cl
    published,  \* the changelist each message names, in order of publication
    up,         \* Redis: can it be reached?
    stream,     \* Redis: messages in the stream
    group,      \* Redis: does the consumer group exist?
    delivered,  \* Redis: last-delivered-id of the group
    pending,    \* Redis: delivered and not acknowledged
    idle,       \* those pending for pending_claim_timeout_hours
    pc,         \* where the consumer thread is; "off" when the service is
    batch,      \* messages read or claimed and not yet processed
    tried,      \* messages the handler was called with
    faults

redisVars == <<stream, group, delivered, pending, idle>>
consumerVars == <<pc, batch, tried>>
vars == <<submitted, lastCl, published, up, redisVars, consumerVars, faults>>

TypeOK ==
    /\ submitted \in 0..MaxCL /\ lastCl \in 0..submitted
    /\ \E n \in 0..MaxMessages : published \in [1..n -> 0..MaxCL]
    /\ up \in BOOLEAN
    /\ stream \subseteq DOMAIN published
    /\ group \in BOOLEAN
    /\ delivered \in 0..MaxMessages
    /\ pending \subseteq Message /\ idle \subseteq pending
    /\ pc \in {"off", "claim", "claimed", "read", "process", "heartbeat", "down"}
    /\ batch \subseteq Message
    /\ tried \subseteq Message
    /\ faults \in 0..MaxFaults

Init ==
    /\ submitted = 0 /\ lastCl = 0
    /\ published = <<>>
    /\ up = TRUE
    /\ stream = {} /\ group = FALSE /\ delivered = 0 /\ pending = {} /\ idle = {}
    /\ pc = "off" /\ batch = {} /\ tried = {}
    /\ faults = 0

Fault == faults < MaxFaults /\ faults' = faults + 1

\* The first n of a set of messages.
Oldest(s, n) == {m \in s : Cardinality({k \in s : k < m}) < n}
Youngest(s, n) == {m \in s : Cardinality({k \in s : k > m}) < n}

-----------------------------------------------------------------------------
(* P4 and the API.                                                         *)

Submit ==
    /\ submitted < MaxCL
    /\ submitted' = submitted + 1
    /\ UNCHANGED <<lastCl, published, up, redisVars, consumerVars, faults>>

\* publish_event, called by /api/trigger and /api/retry with any number: a
\* changelist may be published twice, late, or never.  XADD drops the oldest
\* entries beyond the length, about.
Publish(cl) ==
    LET m == Cardinality(DOMAIN published) + 1 IN
    /\ pc # "off" /\ up
    /\ m <= MaxMessages
    /\ published' = [k \in 1..m |-> IF k = m THEN cl ELSE published[k]]
    /\ \/ stream' = stream \cup {m}
       \/ stream' = Youngest(stream \cup {m}, MaxLen)
    /\ UNCHANGED <<submitted, lastCl, up, group, delivered, pending, idle, consumerVars, faults>>

-----------------------------------------------------------------------------
(* Redis.                                                                  *)

RedisStops ==
    /\ up
    /\ Fault
    /\ up' = FALSE
    /\ UNCHANGED <<submitted, lastCl, published, redisVars, consumerVars>>

\* With what it had saved, or without anything.
RedisStarts ==
    /\ ~up
    /\ up' = TRUE
    /\ \/ UNCHANGED redisVars
       \/ stream' = {} /\ group' = FALSE /\ delivered' = 0 /\ pending' = {} /\ idle' = {}
    /\ UNCHANGED <<submitted, lastCl, published, consumerVars, faults>>

\* pending_claim_timeout_hours go by.
HoursPass ==
    /\ pending # idle
    /\ idle' = pending
    /\ UNCHANGED <<submitted, lastCl, published, up, stream, group, delivered, pending,
                   consumerVars, faults>>

\* _ensure_consumer_group: XGROUP CREATE with id "0" and MKSTREAM.
EnsureGroup ==
    /\ group' = TRUE
    /\ delivered' = IF group THEN delivered ELSE 0
    /\ UNCHANGED <<stream, pending, idle>>

-----------------------------------------------------------------------------
(* The service.                                                            *)

\* _initialize_components: EventConsumer.connect raises when Redis is down, and a
\* service that cannot connect ends before any of its threads runs.
Start ==
    /\ pc = "off"
    /\ up
    /\ EnsureGroup
    /\ pc' = "claim"
    /\ UNCHANGED <<submitted, lastCl, published, up, batch, tried, faults>>

Kill ==
    /\ pc # "off"
    /\ Fault
    /\ pc' = "off"
    /\ batch' = {}
    /\ UNCHANGED <<submitted, lastCl, published, up, redisVars, tried>>

\* Wrong: the checkpoint would move although P4 has nothing new.
PollTooFar ==
    /\ pc # "off"
    /\ lastCl < MaxCL
    /\ lastCl' = lastCl + 1
    /\ UNCHANGED <<submitted, published, up, redisVars, consumerVars, faults>>

\* The main thread's loop (ForwardSync), one changelist.
PollAndSync ==
    /\ pc # "off"
    /\ lastCl < submitted
    /\ lastCl' = lastCl + 1
    /\ UNCHANGED <<submitted, published, up, redisVars, consumerVars, faults>>

-----------------------------------------------------------------------------
(* EventConsumer.consume.                                                  *)

\* XAUTOCLAIM starts at 0-0 in every round and looks at so many of the pending
\* entries: the next_start_id it answers with is dropped.  Entries that are gone
\* from the stream go, and what it returns is no longer idle.
Seen == Oldest(pending \cap stream, ScanFactor * BatchSize)

\* Wrong: it would look at no more entries than it may return.
ClaimedOfFirst == Oldest(Oldest(pending \cap stream, BatchSize) \cap idle, BatchSize)

Claimed == Oldest(Seen \cap idle, BatchSize)

Claim ==
    /\ group
    /\ idle' = (idle \cap stream) \ Claimed
    /\ pending' = pending \cap stream
    /\ UNCHANGED <<stream, group, delivered>>

\* _claim_stale_pending
ClaimStalePending ==
    /\ pc = "claim" /\ up
    /\ Claim
    /\ batch' = Claimed
    /\ pc' = "claimed"
    /\ UNCHANGED <<submitted, lastCl, published, up, tried, faults>>

ClaimWithoutGroup ==
    /\ pc = "claim" /\ up
    /\ ~group
    /\ EnsureGroup
    /\ pc' = "read"
    /\ UNCHANGED <<submitted, lastCl, published, up, batch, tried, faults>>

\* XREADGROUP ">": what it returns is pending from now on.
Deliver ==
    LET new == Oldest({m \in stream : m > delivered}, BatchSize)
    IN  /\ group
        /\ pending' = pending \cup new
        /\ delivered' = IF new = {} THEN delivered
                                    ELSE CHOOSE m \in new : \A k \in new : k <= m
        /\ UNCHANGED <<stream, group, idle>>

\* _read_and_process
ReadBatch ==
    /\ pc = "read" /\ up
    /\ Deliver
    /\ batch' = pending' \ pending
    /\ pc' = "process"
    /\ UNCHANGED <<submitted, lastCl, published, up, tried, faults>>

\* NOGROUP is an error of the loop like any other: sleep, next round.
ReadWithoutGroup ==
    /\ pc = "read" /\ up
    /\ ~group
    /\ pc' = "claim"
    /\ UNCHANGED <<submitted, lastCl, published, up, redisVars, batch, tried, faults>>

Processing == pc \in {"claimed", "process"} /\ batch # {}
InWork == CHOOSE m \in batch : \A k \in batch : m <= k

Ack(m) ==
    /\ pending' = pending \ {m}
    /\ idle' = idle \ {m}
    /\ UNCHANGED <<stream, group, delivered>>

\* _process_message with a changelist <= 0
AckInvalid ==
    /\ Processing /\ up
    /\ published[InWork] = Invalid
    /\ Ack(InWork)
    /\ batch' = batch \ {InWork}
    /\ UNCHANGED <<submitted, lastCl, published, up, pc, tried, faults>>

\* Wrong: a message would be acknowledged whatever the handler did.
AckAnyway ==
    /\ Processing /\ up
    /\ published[InWork] # Invalid
    /\ tried' = tried \cup {InWork}
    /\ batch' = batch \ {InWork}
    /\ Ack(InWork)
    /\ UNCHANGED <<submitted, lastCl, published, up, pc, faults>>

\* _process_message with a changelist: _on_redis_changelist raises, the message
\* stays pending.
HandlerRaises ==
    /\ Processing
    /\ published[InWork] # Invalid
    /\ tried' = tried \cup {InWork}
    /\ batch' = batch \ {InWork}
    /\ UNCHANGED <<submitted, lastCl, published, up, redisVars, pc, faults>>

BatchDone ==
    /\ pc \in {"claimed", "process"}
    /\ batch = {}
    /\ pc' = IF pc = "claimed" THEN "read" ELSE "heartbeat"
    /\ UNCHANGED <<submitted, lastCl, published, up, redisVars, batch, tried, faults>>

\* _check_heartbeat: the fallback poll, when it is due, raises as well.
CheckHeartbeat ==
    /\ pc = "heartbeat"
    /\ pc' = "claim"
    /\ UNCHANGED <<submitted, lastCl, published, up, redisVars, batch, tried, faults>>

\* The connection breaks in a call of Redis, which may have had its effect: a
\* batch that was claimed or delivered, an acknowledgement.  The rest of the
\* batch is left.
ConnectionBreaks ==
    /\ up
    /\ Fault
    /\ \/ pc \in {"claim", "read"} /\ UNCHANGED redisVars
       \/ pc = "claim" /\ Claim
       \/ pc = "read" /\ Deliver
       \/ Processing /\ published[InWork] = Invalid /\ (Ack(InWork) \/ UNCHANGED redisVars)
    /\ batch' = {}
    /\ pc' = "down"
    /\ UNCHANGED <<submitted, lastCl, published, up, tried>>

\* Every call of a Redis that is down ends the same way.
Unreachable ==
    /\ ~up
    /\ pc \in {"claim", "read"} \/ (Processing /\ published[InWork] = Invalid)
    /\ batch' = {}
    /\ pc' = "down"
    /\ UNCHANGED <<submitted, lastCl, published, up, redisVars, tried, faults>>

\* connect; when it fails too, the loop goes on with the client it has.
Reconnect ==
    /\ pc = "down"
    /\ (up /\ EnsureGroup) \/ UNCHANGED redisVars
    /\ pc' = "claim"
    /\ UNCHANGED <<submitted, lastCl, published, up, batch, tried, faults>>

-----------------------------------------------------------------------------
Environment ==
    \/ Submit
    \/ \E cl \in 0..submitted : Publish(cl)
    \/ RedisStops
    \/ Kill

Consume ==
    \/ ClaimStalePending
    \/ ClaimWithoutGroup
    \/ ReadBatch
    \/ ReadWithoutGroup
    \/ AckInvalid
    \/ HandlerRaises
    \/ BatchDone
    \/ CheckHeartbeat
    \/ ConnectionBreaks
    \/ Unreachable
    \/ Reconnect

Next == Environment \/ RedisStarts \/ HoursPass \/ Start \/ PollAndSync \/ Consume

Spec == Init /\ [][Next]_vars

\* Both threads keep running and the supervisor restarts the service.
ServiceFairness == WF_vars(Start) /\ WF_vars(PollAndSync) /\ WF_vars(Consume)

\* Somebody brings Redis back, and hours go by.  A round takes seconds and a
\* message is idle for hours: in the long run what can be claimed has been claimed
\* when the hours have passed again.
RedisFairness ==
    /\ WF_vars(RedisStarts) /\ WF_vars(HoursPass)
    /\ <>[][HoursPass => Claimed = {}]_vars

ServiceSpec == Spec /\ ServiceFairness
FairSpec == ServiceSpec /\ RedisFairness
=============================================================================
