-------------------------- MODULE EventPipelineProps --------------------------
(***************************************************************************)
(* What the event pipeline promises.                                       *)
(***************************************************************************)
EXTENDS EventPipeline

(***************************************************************************)
(* No event is forgotten: as long as Redis has a message that names a        *)
(* changelist, the group will deliver it or has it pending, through broken    *)
(* connections, aborted batches, restarts and groups created anew.          *)
(***************************************************************************)
NoEventForgotten ==
    \A m \in stream :
        published[m] # Invalid => (group => m > delivered) \/ m \in pending

\* As many messages as XAUTOCLAIM looks at are pending before this one: as the
\* handler never succeeds, they stay there until the stream drops them.
OutOfSight(m) ==
    Cardinality({k \in pending \cap stream : k < m}) >= ScanFactor * BatchSize

(***************************************************************************)
(* Every message that names a changelist gets to the handler, through broken  *)
(* connections, aborted batches, restarts of both and groups created anew,    *)
(* unless Redis drops it before or it stays out of the consumer's sight: one  *)
(* whose delivery was lost is claimed later, also when it comes into sight    *)
(* only after older ones were dropped.                                      *)
(***************************************************************************)
EveryEventTried ==
    \A m \in Message :
        (m \in stream /\ published[m] # Invalid)
            ~> (m \in tried \/ m \notin stream \/ []OutOfSight(m))

(***************************************************************************)
(* Documents/05-Sync-Mechanism.md:58: messages pending for longer than        *)
(* pending_claim_timeout_hours are claimed.  Not so behind as many others.    *)
(***************************************************************************)
StaleReclaimed ==
    \A m \in Message :
        (m \in pending /\ published[m] # Invalid) ~> (m \in tried \/ m \notin stream)

(***************************************************************************)
(* Documents/05-Sync-Mechanism.md:70: polling is what the sync falls back on  *)
(* when the connection to Redis is lost.  Not when the service starts then.   *)
(***************************************************************************)
PolledWithoutRedis == \A n \in 1..MaxCL : submitted >= n ~> lastCl >= n

(***************************************************************************)
(* Documents/05-Sync-Mechanism.md:55-59: the message is acknowledged after   *)
(* its changelist was processed.                                           *)
(***************************************************************************)
EventsAcknowledged == \A m \in Message : m \in tried ~> m \notin pending

-----------------------------------------------------------------------------
(* What the proofs need besides: the group and the consumer only know of      *)
(* messages that were published, so a new one is always still to deliver.     *)

KnownInv ==
    /\ delivered <= Cardinality(DOMAIN published)
    /\ pending \cup batch \cup tried \subseteq DOMAIN published

\* The inductive invariant of the proofs.
IInv == TypeOK /\ KnownInv /\ NoEventForgotten
=============================================================================
