------------------------- MODULE EventPipeline_proofs -------------------------
(***************************************************************************)
(* Type correctness of the event pipeline and that no event is forgotten,    *)
(* for every number of messages, changelists and faults, every length of     *)
(* the stream and every batch size.                                        *)
(***************************************************************************)
EXTENDS EventPipelineProps, FiniteSetTheorems, WellFoundedInduction, TLAPS

\* The numeric constants are numbers.
LEMMA BoundsAreNat ==
    /\ MaxCL \in Nat /\ MaxMessages \in Nat /\ MaxFaults \in Nat
    /\ MaxLen \in Nat \ {0} /\ BatchSize \in Nat \ {0} /\ ScanFactor \in Nat \ {0}
BY EventPipelineAssumption

-----------------------------------------------------------------------------
(* The ends of sets of messages, and the first n of them.                    *)

\* Every set of messages has an oldest one.
LEMMA MinimumExists ==
    ASSUME NEW S \in SUBSET Nat, S # {}
    PROVE  \E m \in S : \A k \in S : m <= k
<1>1. PICK m \in S : \A k \in S : ~ (<<k, m>> \in OpToRel(<, Nat))
  BY NatLessThanWellFounded, WFMin
<1>2. \A k \in S : ~(k < m)
  BY <1>1 DEF OpToRel
<1> QED
  BY <1>2

\* Every bounded set of messages has a youngest one.
LEMMA MaximumExists ==
    ASSUME NEW n \in Nat, NEW S \in SUBSET (0..n), S # {}
    PROVE  \E m \in S : \A k \in S : k <= m
<1> DEFINE T == {n - k : k \in S}
<1>1. T \in SUBSET Nat /\ T # {}
  <2>1. \A k \in S : k \in Int /\ 0 <= k /\ k <= n
    OBVIOUS
  <2>2. \A k \in S : n - k \in Nat /\ n - k \in T
    BY <2>1
  <2> QED
    BY <2>2
<1>2. PICK t \in T : \A u \in T : t <= u
  BY <1>1, MinimumExists
<1>3. PICK m \in S : t = n - m
  OBVIOUS
<1>4. \A k \in S : n - m <= n - k
  BY <1>2, <1>3
<1> QED
  BY <1>4
\* The oldest messages of a set are among it, and nothing older is left out.
LEMMA OldestFacts ==
    ASSUME NEW S \in SUBSET Message, NEW n \in Nat
    PROVE  /\ Oldest(S, n) \subseteq S
           /\ \A m \in Oldest(S, n), k \in S : k <= m => k \in Oldest(S, n)
<1>1. Oldest(S, n) \subseteq S
  BY DEF Oldest
<1>2. ASSUME NEW m \in Oldest(S, n), NEW k \in S, k <= m
      PROVE  k \in Oldest(S, n)
  <2> DEFINE below(x) == {j \in S : j < x}
  <2>0. m \in S /\ \A j \in S : j \in Int
    BY <1>1, BoundsAreNat DEF Message
  <2>1. below(k) \subseteq below(m)
    BY <1>2, <2>0
  <2>2. IsFiniteSet(below(m))
    <3>1. IsFiniteSet(1..MaxMessages)
      BY FS_Interval, BoundsAreNat
    <3> QED
      BY <3>1, FS_Subset DEF Message
  <2>3. IsFiniteSet(below(k)) /\ Cardinality(below(k)) <= Cardinality(below(m))
    BY <2>1, <2>2, FS_Subset
  <2>4. Cardinality(below(k)) \in Nat /\ Cardinality(below(m)) \in Nat
    BY <2>2, <2>3, FS_CardinalityType
  <2>5. Cardinality(below(m)) < n
    BY DEF Oldest
  <2>6. Cardinality(below(k)) < n
    BY <2>3, <2>4, <2>5
  <2> QED
    BY <2>6 DEF Oldest
<1> QED
  BY <1>1, <1>2

-----------------------------------------------------------------------------
(* What the calls of Redis do.                                              *)

\* Messages are numbered from 1 in the order of publication.
LEMMA PublishedFacts ==
    ASSUME TypeOK
    PROVE  /\ Cardinality(DOMAIN published) \in 0..MaxMessages
           /\ DOMAIN published = 1..Cardinality(DOMAIN published)
           /\ published \in [1..Cardinality(DOMAIN published) -> 0..MaxCL]
           /\ DOMAIN published \subseteq Message
<1>1. PICK n \in 0..MaxMessages : published \in [1..n -> 0..MaxCL]
  BY DEF TypeOK
<1>2. DOMAIN published = 1..n /\ n \in Nat /\ n <= MaxMessages
  BY <1>1, BoundsAreNat
<1>3. Cardinality(1..n) = n
  BY <1>2, FS_Interval
<1> QED
  BY <1>1, <1>2, <1>3, BoundsAreNat DEF Message

\* The consumer works on one of the messages of its batch.
LEMMA InWorkFacts ==
    ASSUME TypeOK, Processing
    PROVE  InWork \in batch
<1>1. batch \in SUBSET Nat /\ batch # {}
  BY BoundsAreNat DEF TypeOK, Message, Processing
<1>2. \E m \in batch : \A k \in batch : m <= k
  BY <1>1, MinimumExists
<1> QED
  BY <1>2 DEF InWork

\* XREADGROUP hands out the oldest messages behind the last delivered one and
\* puts all of them on the pending list: none is passed over.
LEMMA DeliverFacts ==
    ASSUME TypeOK, KnownInv, Deliver
    PROVE  /\ pending \subseteq pending' /\ pending' \subseteq DOMAIN published
           /\ delivered' \in 0..MaxMessages
           /\ delivered' <= Cardinality(DOMAIN published)
           /\ \A m \in stream : delivered < m /\ m <= delivered' => m \in pending'
           /\ UNCHANGED <<stream, group, idle>>
<1> DEFINE late == {m \in stream : m > delivered}
           new == Oldest(late, BatchSize)
<1>0. /\ stream \subseteq DOMAIN published /\ DOMAIN published \subseteq Message
      /\ delivered \in 0..MaxMessages /\ delivered <= Cardinality(DOMAIN published)
      /\ pending \subseteq DOMAIN published
  BY PublishedFacts DEF TypeOK, KnownInv
<1>1. late \in SUBSET Message
  BY <1>0
<1>2. new \subseteq late /\ \A m \in new, k \in late : k <= m => k \in new
  BY <1>1, OldestFacts, BoundsAreNat
<1>3. pending' = pending \cup new /\ UNCHANGED <<stream, group, idle>>
  BY DEF Deliver
<1>4. CASE new = {}
  <2>1. delivered' = delivered
    BY <1>4 DEF Deliver
  <2> QED
    BY <1>0, <1>2, <1>3, <2>1, BoundsAreNat DEF Message
<1>5. CASE new # {}
  <2>1. delivered' = CHOOSE m \in new : \A k \in new : k <= m
    BY <1>5 DEF Deliver
  <2>2. new \in SUBSET (0..MaxMessages)
    BY <1>1, <1>2, BoundsAreNat DEF Message
  <2>3. delivered' \in new /\ \A k \in new : k <= delivered'
    <3>1. \E m \in new : \A k \in new : k <= m
      BY <1>5, <2>2, MaximumExists, BoundsAreNat
    <3> HIDE DEF new
    <3> QED
      BY <2>1, <3>1
  <2>4. delivered' \in stream /\ delivered' \in 1..Cardinality(DOMAIN published)
    BY <1>0, <1>2, <2>3, PublishedFacts
  <2>5. \A m \in stream : delivered < m /\ m <= delivered' => m \in new
    BY <1>2, <2>3
  <2>6. delivered' \in 0..MaxMessages
    BY <2>2, <2>3
  <2>7. new \subseteq DOMAIN published
    BY <1>0, <1>2
  <2>8. delivered' <= Cardinality(DOMAIN published)
    BY <2>4, PublishedFacts
  <2> QED
    BY <1>0, <1>3, <2>5, <2>6, <2>7, <2>8
<1> QED
  BY <1>4, <1>5

\* XAUTOCLAIM returns pending messages, and only drops those the stream lost.
LEMMA ClaimFacts ==
    ASSUME TypeOK, KnownInv, Claim
    PROVE  /\ Claimed \subseteq pending
           /\ pending' = pending \cap stream /\ idle' \subseteq pending'
           /\ UNCHANGED <<stream, group, delivered>>
<1>1. pending \cap stream \in SUBSET Message
  BY DEF TypeOK
<1>2. ScanFactor * BatchSize \in Nat
  BY BoundsAreNat
<1>3. Seen \subseteq pending \cap stream
  BY <1>1, <1>2, OldestFacts DEF Seen
<1>4. Seen \cap idle \in SUBSET Message
  BY <1>1, <1>3
<1>5. Claimed \subseteq Seen \cap idle
  BY <1>4, OldestFacts, BoundsAreNat DEF Claimed
<1> QED
  BY <1>3, <1>5 DEF Claim, TypeOK

-----------------------------------------------------------------------------
(* The steps, in two groups: those that leave Redis alone, and those that do  *)
(* not.                                                                     *)

\* A message that is published is not delivered yet, and the others stay.
LEMMA PublishStep ==
    ASSUME IInv, NEW cl \in 0..submitted, Publish(cl)
    PROVE  IInv'
<1> USE BoundsAreNat
<1> DEFINE n == Cardinality(DOMAIN published)
           m == n + 1
<1>1. /\ n \in 0..MaxMessages /\ DOMAIN published = 1..n
      /\ published \in [1..n -> 0..MaxCL]
  BY PublishedFacts DEF IInv
<1>2. /\ m <= MaxMessages /\ m \in Nat
      /\ published' = [k \in 1..m |-> IF k = m THEN cl ELSE published[k]]
      /\ stream' \subseteq stream \cup {m}
      /\ UNCHANGED <<submitted, lastCl, up, group, delivered, pending, idle, pc, batch, tried, faults>>
  <2>1. /\ m <= MaxMessages
        /\ published' = [k \in 1..m |-> IF k = m THEN cl ELSE published[k]]
        /\ stream' = stream \cup {m} \/ stream' = Youngest(stream \cup {m}, MaxLen)
        /\ UNCHANGED <<submitted, lastCl, up, group, delivered, pending, idle, pc, batch, tried, faults>>
    BY DEF Publish, consumerVars
  <2>2. Youngest(stream \cup {m}, MaxLen) \subseteq stream \cup {m}
    BY DEF Youngest
  <2>3. stream' \subseteq stream \cup {m}
    BY <2>1, <2>2
  <2>4. m \in Nat
    BY <1>1
  <2> HIDE DEF m
  <2> QED
    BY <2>1, <2>3, <2>4
<1>3. cl \in 0..MaxCL
  BY DEF IInv, TypeOK
<1>4. published' \in [1..m -> 0..MaxCL] /\ DOMAIN published' = 1..m
  BY <1>1, <1>2, <1>3
<1>5. Cardinality(DOMAIN published') = m
  BY <1>2, <1>4, FS_Interval
<1>6. \A k \in 1..n : published'[k] = published[k]
  BY <1>1, <1>2
<1>7. stream' \subseteq 1..m /\ m \in 0..MaxMessages
  BY <1>1, <1>2 DEF IInv, TypeOK
<1>8. TypeOK'
  BY <1>2, <1>4, <1>7 DEF IInv, TypeOK
<1>9. KnownInv'
  <2>1. 1..n \subseteq 1..m
    BY <1>1
  <2>2. pending \cup batch \cup tried \subseteq 1..n /\ delivered <= n /\ delivered \in Nat
    BY <1>1 DEF IInv, KnownInv, TypeOK
  <2> QED
    BY <1>1, <1>2, <1>4, <1>5, <2>1, <2>2 DEF KnownInv
<1>10. NoEventForgotten'
  <2> SUFFICES ASSUME NEW k \in stream', published'[k] # Invalid
               PROVE  (group => k > delivered) \/ k \in pending
    BY <1>2 DEF NoEventForgotten
  <2>1. CASE k \in stream
    <3>1. k \in 1..n
      BY <1>1, <2>1 DEF IInv, TypeOK
    <3> QED
      BY <1>6, <2>1, <3>1 DEF IInv, NoEventForgotten
  <2>2. CASE k = m
    <3>1. delivered <= n /\ delivered \in Nat
      BY DEF IInv, KnownInv, TypeOK
    <3> QED
      BY <1>1, <2>2, <3>1
  <2> QED
    BY <1>2, <2>1, <2>2
<1> QED
  BY <1>8, <1>9, <1>10 DEF IInv

\* Every message that Redis has is before the beginning of a new group.
LEMMA EnsureGroupStep ==
    ASSUME IInv, EnsureGroup, UNCHANGED <<submitted, lastCl, published, up, batch, tried, faults>>,
           pc' \in {"claim", "read"}
    PROVE  IInv'
<1> USE BoundsAreNat
<1>1. /\ group' = TRUE /\ delivered' = (IF group THEN delivered ELSE 0)
      /\ UNCHANGED <<stream, pending, idle>>
  BY DEF EnsureGroup
<1>2. TypeOK'
  <2>1. group' \in BOOLEAN /\ delivered' \in 0..MaxMessages
    BY <1>1 DEF IInv, TypeOK
  <2>2. UNCHANGED <<stream, pending, idle, submitted, lastCl, published, up, batch, tried, faults>>
    BY <1>1
  <2> QED
    BY <2>1, <2>2 DEF IInv, TypeOK
<1>3. KnownInv'
  BY <1>1, PublishedFacts DEF IInv, KnownInv
<1>4. NoEventForgotten'
  <2> SUFFICES ASSUME NEW k \in stream, published[k] # Invalid
               PROVE  k > delivered' \/ k \in pending
    BY <1>1 DEF NoEventForgotten
  <2>1. k \in Nat /\ k > 0
    BY PublishedFacts DEF IInv, TypeOK, Message
  <2> QED
    BY <1>1, <2>1 DEF IInv, NoEventForgotten
<1> QED
  BY <1>2, <1>3, <1>4 DEF IInv

\* The steps of the others that leave the messages in Redis alone.
LEMMA QuietStep ==
    ASSUME IInv, Submit \/ Kill \/ RedisStops \/ HoursPass \/ PollAndSync \/ ReadWithoutGroup
                 \/ BatchDone \/ CheckHeartbeat \/ Unreachable \/ UNCHANGED vars
    PROVE  IInv'
<1> USE BoundsAreNat DEF redisVars, consumerVars
<1>1. TypeOK'
  <2> USE DEF IInv, TypeOK
  <2>1. CASE Submit
    <3>1. /\ submitted' \in 0..MaxCL /\ lastCl' \in 0..submitted'
          /\ UNCHANGED <<published, up, redisVars, consumerVars, faults>>
      BY <2>1 DEF Submit
    <3> QED
      BY <3>1
  <2>2. CASE Kill
    <3>1. /\ faults' \in 0..MaxFaults /\ pc' = "off" /\ batch' = {}
          /\ UNCHANGED <<submitted, lastCl, published, up, redisVars, tried>>
      BY <2>2 DEF Kill, Fault
    <3> QED
      BY <3>1
  <2>3. CASE HoursPass
    BY <2>3 DEF HoursPass
  <2>4. CASE PollAndSync
    <3>1. /\ lastCl' \in 0..submitted'
          /\ UNCHANGED <<submitted, published, up, redisVars, consumerVars, faults>>
      BY <2>4 DEF PollAndSync
    <3> QED
      BY <3>1
  <2>5. CASE ReadWithoutGroup \/ BatchDone \/ CheckHeartbeat
    BY <2>5 DEF ReadWithoutGroup, BatchDone, CheckHeartbeat
  <2>6. CASE UNCHANGED vars
    BY <2>6 DEF vars
  <2>7. CASE RedisStops
    <3>1. /\ faults' \in 0..MaxFaults /\ up' = FALSE
          /\ UNCHANGED <<submitted, lastCl, published, redisVars, consumerVars>>
      BY <2>7 DEF RedisStops, Fault
    <3> QED
      BY <3>1
  <2>8. CASE Unreachable
    BY <2>8 DEF Unreachable
  <2> QED
    BY <2>1, <2>2, <2>3, <2>4, <2>5, <2>6, <2>7, <2>8
<1>2. /\ UNCHANGED <<published, stream, group, delivered, pending, tried>>
      /\ batch' \subseteq batch
  BY DEF Submit, Kill, RedisStops, HoursPass, PollAndSync, ReadWithoutGroup, BatchDone,
         CheckHeartbeat, Unreachable, vars
<1>3. KnownInv' /\ NoEventForgotten'
  BY <1>2 DEF IInv, KnownInv, NoEventForgotten
<1> QED
  BY <1>1, <1>3 DEF IInv

\* Redis comes back with what it had, or without a message to forget.
LEMMA RedisStartsStep ==
    ASSUME IInv, RedisStarts
    PROVE  IInv'
<1> USE BoundsAreNat DEF consumerVars
<1>0. up' = TRUE /\ UNCHANGED <<submitted, lastCl, published, pc, batch, tried, faults>>
  BY DEF RedisStarts
<1>1. CASE UNCHANGED redisVars
  <2>1. TypeOK'
    BY <1>0, <1>1 DEF IInv, TypeOK, redisVars
  <2>2. KnownInv' /\ NoEventForgotten'
    BY <1>0, <1>1 DEF IInv, KnownInv, NoEventForgotten, redisVars
  <2> QED
    BY <2>1, <2>2 DEF IInv
<1>2. CASE stream' = {} /\ group' = FALSE /\ delivered' = 0 /\ pending' = {} /\ idle' = {}
  <2>1. TypeOK'
    <3>1. 0 \in 0..MaxMessages
      OBVIOUS
    <3> QED
      BY <1>0, <1>2, <3>1 DEF IInv, TypeOK
  <2>2. KnownInv'
    BY <1>0, <1>2, PublishedFacts DEF IInv, KnownInv
  <2>3. NoEventForgotten'
    BY <1>2 DEF NoEventForgotten
  <2> QED
    BY <2>1, <2>2, <2>3 DEF IInv
<1> QED
  BY <1>1, <1>2 DEF RedisStarts

\* XAUTOCLAIM, seen by the consumer or not, keeps what the stream has pending.
LEMMA ClaimStep ==
    ASSUME IInv, Claim, batch' \in {{}, Claimed}, pc' \in {"claimed", "down"},
           UNCHANGED <<submitted, lastCl, published, up, tried>>, faults' \in 0..MaxFaults
    PROVE  IInv'
<1> USE BoundsAreNat
<1>1. /\ Claimed \subseteq pending
      /\ pending' = pending \cap stream /\ idle' \subseteq pending'
      /\ UNCHANGED <<stream, group, delivered>>
  BY ClaimFacts DEF IInv
<1>2. TypeOK'
  BY <1>1 DEF IInv, TypeOK
<1>3. KnownInv'
  BY <1>1 DEF IInv, KnownInv
<1>4. NoEventForgotten'
  BY <1>1 DEF IInv, NoEventForgotten
<1> QED
  BY <1>2, <1>3, <1>4 DEF IInv

\* XREADGROUP, seen by the consumer or not, makes pending what it delivers.
LEMMA DeliverStep ==
    ASSUME IInv, Deliver, batch' \in {{}, pending' \ pending}, pc' \in {"process", "down"},
           UNCHANGED <<submitted, lastCl, published, up, tried>>, faults' \in 0..MaxFaults
    PROVE  IInv'
<1> USE BoundsAreNat
<1>1. /\ pending \subseteq pending' /\ pending' \subseteq DOMAIN published
      /\ delivered' \in 0..MaxMessages
      /\ delivered' <= Cardinality(DOMAIN published)
      /\ \A m \in stream : delivered < m /\ m <= delivered' => m \in pending'
      /\ UNCHANGED <<stream, group, idle>>
  BY DeliverFacts DEF IInv
<1>2. TypeOK'
  BY <1>1, PublishedFacts DEF IInv, TypeOK
<1>3. KnownInv'
  BY <1>1 DEF IInv, KnownInv
<1>4. NoEventForgotten'
  <2>1. \A m \in stream : m \in Nat
    BY PublishedFacts DEF IInv, TypeOK, Message
  <2> QED
    BY <1>1, <2>1 DEF IInv, NoEventForgotten
<1> QED
  BY <1>2, <1>3, <1>4 DEF IInv

\* Only a message without a changelist is acknowledged.
LEMMA AckStep ==
    ASSUME IInv, Processing, published[InWork] = Invalid, Ack(InWork), batch' \subseteq batch,
           pc' \in {pc, "down"},
           UNCHANGED <<submitted, lastCl, published, up, tried>>, faults' \in 0..MaxFaults
    PROVE  IInv'
<1> USE BoundsAreNat
<1>1. /\ pending' = pending \ {InWork} /\ idle' = idle \ {InWork}
      /\ UNCHANGED <<stream, group, delivered>>
  BY DEF Ack
<1>2. TypeOK'
  BY <1>1 DEF IInv, TypeOK
<1>3. KnownInv'
  BY <1>1 DEF IInv, KnownInv
<1>4. NoEventForgotten'
  BY <1>1 DEF IInv, NoEventForgotten
<1> QED
  BY <1>2, <1>3, <1>4 DEF IInv

\* The handler raises: the message stays pending.
LEMMA HandlerStep ==
    ASSUME IInv, HandlerRaises
    PROVE  IInv'
<1> USE BoundsAreNat DEF redisVars
<1>0. InWork \in batch
  BY InWorkFacts DEF IInv, HandlerRaises
<1>1. TypeOK'
  BY <1>0 DEF IInv, TypeOK, HandlerRaises
<1>2. KnownInv'
  BY <1>0 DEF IInv, KnownInv, HandlerRaises
<1>3. NoEventForgotten'
  BY DEF IInv, NoEventForgotten, HandlerRaises
<1> QED
  BY <1>1, <1>2, <1>3 DEF IInv

\* A connection that breaks may have done its work before.
LEMMA BreakStep ==
    ASSUME IInv, ConnectionBreaks
    PROVE  IInv'
<1> USE BoundsAreNat
<1>0. /\ batch' = {} /\ pc' = "down" /\ faults' \in 0..MaxFaults
      /\ UNCHANGED <<submitted, lastCl, published, up, tried>>
  BY DEF ConnectionBreaks, Fault, IInv, TypeOK
<1>1. CASE UNCHANGED redisVars
  <2>1. TypeOK'
    BY <1>0, <1>1 DEF IInv, TypeOK, redisVars
  <2>2. KnownInv' /\ NoEventForgotten'
    BY <1>0, <1>1 DEF IInv, KnownInv, NoEventForgotten, redisVars
  <2> QED
    BY <2>1, <2>2 DEF IInv
<1>2. CASE Claim
  BY <1>0, <1>2, ClaimStep
<1>3. CASE Deliver
  BY <1>0, <1>3, DeliverStep
<1>4. CASE Processing /\ published[InWork] = Invalid /\ Ack(InWork)
  <2>1. batch' \subseteq batch /\ pc' \in {pc, "down"}
    BY <1>0
  <2> QED
    BY <1>0, <1>4, <2>1, AckStep
<1> QED
  BY <1>1, <1>2, <1>3, <1>4 DEF ConnectionBreaks

\* Connecting again: with a group made anew, or with what Redis has.
LEMMA ReconnectStep ==
    ASSUME IInv, Reconnect
    PROVE  IInv'
<1>0. pc' = "claim" /\ UNCHANGED <<submitted, lastCl, published, up, batch, tried, faults>>
  BY DEF Reconnect
<1>1. CASE EnsureGroup
  BY <1>0, <1>1, EnsureGroupStep
<1>2. CASE UNCHANGED redisVars
  <2>1. TypeOK'
    BY <1>0, <1>2 DEF IInv, TypeOK, redisVars
  <2>2. KnownInv' /\ NoEventForgotten'
    BY <1>0, <1>2 DEF IInv, KnownInv, NoEventForgotten, redisVars
  <2> QED
    BY <2>1, <2>2 DEF IInv
<1> QED
  BY <1>1, <1>2 DEF Reconnect

-----------------------------------------------------------------------------

\* Nothing is published when the system is installed.
LEMMA InitInv == Init => IInv
<1> SUFFICES ASSUME Init PROVE IInv
    OBVIOUS
<1> USE BoundsAreNat
<1>0. DOMAIN published = {} /\ Cardinality({}) = 0
  BY FS_EmptySet DEF Init
<1>1. TypeOK
  <2>1. published \in [1..0 -> 0..MaxCL]
    BY DEF Init
  <2>2. 0 \in 0..MaxMessages /\ 0 \in 0..MaxCL /\ 0 \in 0..MaxFaults /\ 0 \in 0..0
    OBVIOUS
  <2>3. \E n \in 0..MaxMessages : published \in [1..n -> 0..MaxCL]
    BY <2>1, <2>2
  <2> QED
    BY <2>2, <2>3 DEF Init, TypeOK
<1>2. KnownInv /\ NoEventForgotten
  BY <1>0 DEF Init, KnownInv, NoEventForgotten
<1> QED
  BY <1>1, <1>2 DEF IInv

\* Every step keeps the inductive invariant.
LEMMA NextInv == IInv /\ [Next]_vars => IInv'
<1> SUFFICES ASSUME IInv, [Next]_vars PROVE IInv'
    OBVIOUS
<1>1. CASE Submit \/ Kill \/ RedisStops \/ HoursPass \/ PollAndSync \/ ReadWithoutGroup
             \/ BatchDone \/ CheckHeartbeat \/ Unreachable \/ UNCHANGED vars
  BY <1>1, QuietStep
<1>2. ASSUME NEW cl \in 0..submitted, Publish(cl) PROVE IInv'
  BY <1>2, PublishStep
<1>3. CASE RedisStarts
  BY <1>3, RedisStartsStep
<1>4. CASE Start
  <2>1. EnsureGroup /\ pc' = "claim" /\ UNCHANGED <<submitted, lastCl, published, up, batch, tried, faults>>
    BY <1>4 DEF Start
  <2> QED
    BY <2>1, EnsureGroupStep
<1>5. CASE ClaimStalePending
  <2>1. /\ Claim /\ batch' = Claimed /\ pc' = "claimed"
        /\ UNCHANGED <<submitted, lastCl, published, up, tried>> /\ faults' \in 0..MaxFaults
    BY <1>5 DEF ClaimStalePending, IInv, TypeOK
  <2> QED
    BY <2>1, ClaimStep
<1>6. CASE ClaimWithoutGroup
  <2>1. /\ EnsureGroup /\ pc' = "read"
        /\ UNCHANGED <<submitted, lastCl, published, up, batch, tried, faults>>
    BY <1>6 DEF ClaimWithoutGroup
  <2> QED
    BY <2>1, EnsureGroupStep
<1>7. CASE ReadBatch
  <2>1. /\ Deliver /\ batch' = pending' \ pending /\ pc' = "process"
        /\ UNCHANGED <<submitted, lastCl, published, up, tried>> /\ faults' \in 0..MaxFaults
    BY <1>7 DEF ReadBatch, IInv, TypeOK
  <2> QED
    BY <2>1, DeliverStep
<1>8. CASE AckInvalid
  <2>1. /\ Processing /\ published[InWork] = Invalid /\ Ack(InWork)
        /\ batch' \subseteq batch /\ pc' = pc
        /\ UNCHANGED <<submitted, lastCl, published, up, tried>> /\ faults' \in 0..MaxFaults
    BY <1>8 DEF AckInvalid, IInv, TypeOK
  <2> QED
    BY <2>1, AckStep
<1>9. CASE HandlerRaises
  BY <1>9, HandlerStep
<1>10. CASE ConnectionBreaks
  BY <1>10, BreakStep
<1>11. CASE Reconnect
  BY <1>11, ReconnectStep
<1> QED
  BY <1>1, <1>2, <1>3, <1>4, <1>5, <1>6, <1>7, <1>8, <1>9, <1>10, <1>11
  DEF Next, Environment, Consume

(***************************************************************************)
(* Every state of the pipeline is well typed.                               *)
(***************************************************************************)
THEOREM EventsTypeCorrect == Spec => []TypeOK
<1>1. IInv => TypeOK
  BY DEF IInv
<1> QED
  BY InitInv, NextInv, <1>1, PTL DEF Spec

(***************************************************************************)
(* However connections break, batches are left, Redis trims or loses its     *)
(* stream and groups are created anew: a message that Redis has and that      *)
(* names a changelist is pending or still to be delivered.                   *)
(***************************************************************************)
THEOREM EventsAreKept == Spec => []NoEventForgotten
<1>1. IInv => NoEventForgotten
  BY DEF IInv
<1> QED
  BY InitInv, NextInv, <1>1, PTL DEF Spec
=============================================================================
