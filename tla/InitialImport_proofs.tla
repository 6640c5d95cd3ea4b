------------------------- MODULE InitialImport_proofs -------------------------
(***************************************************************************)
(* Type correctness of the initial import, that what is written is the history *)
(* in order, and that the checkpoint passes nothing over, for every length of   *)
(* the history, number of workers, size of chunks, checkpoint interval and      *)
(* number of faults.                                                       *)
(***************************************************************************)
EXTENDS InitialImportProps, SequenceTheorems, TLAPS

\* The elements of a commit: whole changelists and parts of one.
Elements == CL \cup {-n : n \in CL}

\* The constants are numbers.
LEMMA BoundsAreNat ==
    /\ MaxCL \in Nat /\ MaxFaults \in Nat
    /\ Workers \in Nat /\ Workers > 0 /\ ChunkSize \in Nat /\ ChunkSize > 0
    /\ Interval \in Nat /\ QueueSize \in Nat
BY InitialImportAssumption DEF QueueSize

\* Changelists are numbers, their parts are negative.
LEMMA ElementFacts ==
    /\ CL \subseteq Elements /\ Commit = Seq(Elements)
    /\ \A n \in CL : n \in Int /\ 1 <= n /\ n <= MaxCL /\ -n \in Elements
    /\ \A n \in Elements : n \in Int /\ (n > 0 => n \in CL)
    /\ <<>> \in Commit /\ Len(<<>>) = 0
<1>1. \A n \in CL : n \in Int /\ 1 <= n /\ n <= MaxCL
  BY BoundsAreNat DEF CL
<1>2. \A n \in Elements : n \in Int /\ (n > 0 => n \in CL)
  BY <1>1 DEF Elements
<1> QED
  BY <1>1, <1>2 DEF Elements, Commit

\* A chunk is at most the rest of the history.
LEMMA ChunkFacts ==
    ASSUME start \in 0..MaxCL, NEW k \in CL
    PROVE  /\ Total \in Nat /\ ChunkEnd(k) \in Int /\ ChunkEnd(k) <= Total
           /\ ChunkOf(k) \subseteq CL
<1>1. Total \in Nat /\ start + Total = MaxCL
  BY BoundsAreNat DEF Total
<1>2. k \in Int /\ k >= 1
  BY BoundsAreNat DEF CL
<1>3. k * ChunkSize \in Int /\ (k - 1) * ChunkSize \in Int /\ (k - 1) * ChunkSize >= 0
  BY <1>2, BoundsAreNat
<1>4. ChunkEnd(k) \in Int /\ ChunkEnd(k) <= Total /\ ChunkEnd(k - 1) \in Int /\ ChunkEnd(k - 1) >= 0
  BY <1>1, <1>3 DEF ChunkEnd
<1>5. \A n \in ChunkEnd(k - 1) + 1 .. ChunkEnd(k) : start + n \in CL
  BY <1>1, <1>4, BoundsAreNat DEF CL
<1>6. ChunkOf(k) \subseteq CL
  BY <1>5 DEF ChunkOf
<1> QED
  BY <1>1, <1>4, <1>6

\* There are no more chunks than changelists.
LEMMA ChunksFacts ==
    ASSUME start \in 0..MaxCL
    PROVE  Chunks \in Int /\ Chunks <= MaxCL
<1>1. Total \in Nat /\ Total <= MaxCL
  BY BoundsAreNat DEF Total
<1>2. \A t, c \in Nat : c > 0 => (t + c - 1) \div c \in Int /\ (t + c - 1) \div c <= t
  <2> TAKE t, c \in Nat
  <2> HAVE c > 0
  <2> DEFINE q == (t + c - 1) \div c
  <2>1. q \in Int /\ q * c <= t + c - 1
    BY SMTT(60)
  <2> HIDE DEF q
  <2>2. SUFFICES ASSUME q >= t + 1 PROVE FALSE
    BY <2>1 DEF q
  <2>3. q * c >= (t + 1) * c
    BY <2>1, <2>2, SMTT(60)
  <2>4. (t + 1) * c >= t + c
    BY SMTT(60)
  <2> QED
    BY <2>1, <2>3, <2>4
<1> QED
  BY <1>1, <1>2, BoundsAreNat DEF Chunks

\* Another element at the end of a sequence, which it then has.
LEMMA AppendFacts ==
    ASSUME NEW S, NEW s \in Seq(S), NEW e \in S
    PROVE  /\ Append(s, e) \in Seq(S) /\ Len(Append(s, e)) = Len(s) + 1 /\ Len(s) \in Nat
           /\ DOMAIN Append(s, e) = 1..(Len(s) + 1) /\ DOMAIN s = 1..Len(s)
           /\ \A j \in 1..Len(s) : Append(s, e)[j] = s[j]
           /\ Append(s, e)[Len(s) + 1] = e
           /\ ToSet(s) \cup {e} \subseteq ToSet(Append(s, e))
<1>1. /\ Append(s, e) \in Seq(S) /\ Len(Append(s, e)) = Len(s) + 1 /\ Len(s) \in Nat
      /\ \A j \in 1..Len(s) : Append(s, e)[j] = s[j]
      /\ Append(s, e)[Len(s) + 1] = e
  BY AppendProperties, LenProperties
<1>2. DOMAIN Append(s, e) = 1..(Len(s) + 1) /\ DOMAIN s = 1..Len(s)
  BY <1>1, LenProperties
<1>3. ToSet(s) \cup {e} \subseteq ToSet(Append(s, e))
  <2>1. \A j \in 1..Len(s) : j \in 1..(Len(s) + 1) /\ Append(s, e)[j] = s[j]
    BY <1>1
  <2>2. Len(s) + 1 \in 1..(Len(s) + 1)
    BY <1>1
  <2>3. ToSet(s) \subseteq ToSet(Append(s, e))
    BY <1>2, <2>1, Zenon DEF ToSet
  <2>4. e \in ToSet(Append(s, e))
    BY <1>1, <1>2, <2>2, Zenon DEF ToSet
  <2> QED
    BY <2>3, <2>4
<1> QED
  BY <1>1, <1>2, <1>3

\* Stretches of the history.
LEMMA RealFacts ==
    /\ \A m \in Int : Real(m, m) = {}
    /\ \A n \in CL \ skipped : Real(n - 1, n) = {n}
    /\ \A m, k, n \in Int : m <= k /\ k <= n => Real(m, n) = Real(m, k) \cup Real(k, n)
<1>1. \A n \in CL : n \in Int
  BY ElementFacts
<1>2. ASSUME NEW m \in Int
      PROVE  Real(m, m) = {}
  <2>1. \A n \in CL : ~(m < n /\ n <= m)
    BY <1>1
  <2> QED
    BY <2>1 DEF Real
<1>3. ASSUME NEW n \in CL \ skipped
      PROVE  Real(n - 1, n) = {n}
  <2>1. \A k \in CL : n - 1 < k /\ k <= n <=> k = n
    BY <1>1
  <2> QED
    BY <2>1 DEF Real
<1>4. ASSUME NEW m \in Int, NEW k \in Int, NEW n \in Int, m <= k, k <= n
      PROVE  Real(m, n) = Real(m, k) \cup Real(k, n)
  <2>1. \A c \in CL : m < c /\ c <= n <=> (m < c /\ c <= k) \/ (k < c /\ c <= n)
    BY <1>1, <1>4
  <2> QED
    BY <2>1, Zenon DEF Real
<1> QED
  BY <1>2, <1>3, <1>4

-----------------------------------------------------------------------------
(* What a step leaves alone.                                                *)

\* Nothing written, nothing out of order; what is finished or lost stays so.
LEMMA SameParts ==
    ASSUME UNCHANGED skipped
    PROVE  /\ \A m, n : Real(m, n)' = Real(m, n)
           /\ UNCHANGED <<session, lastWritten>> /\ WrittenInOrder => WrittenInOrder'
           /\ session' = <<>> => WrittenInOrder'
           /\ objects \cup lost \subseteq objects' \cup lost' /\ UNCHANGED lastCl /\ NothingPassedOver
                 => NothingPassedOver'
<1>1. \A m, n : Real(m, n)' = Real(m, n)
  BY DEF Real
<1>2. UNCHANGED <<session, lastWritten>> /\ WrittenInOrder => WrittenInOrder'
  BY DEF WrittenInOrder, Whole, Real
<1>3. ASSUME session' = <<>>
      PROVE  WrittenInOrder'
  <2>1. DOMAIN session' = {} /\ Whole' = {}
    BY <1>3 DEF Whole
  <2> QED
    BY <2>1 DEF WrittenInOrder
<1>4. objects \cup lost \subseteq objects' \cup lost' /\ UNCHANGED lastCl /\ NothingPassedOver
          => NothingPassedOver'
  BY DEF NothingPassedOver, Real
<1> QED
  BY <1>1, <1>2, <1>3, <1>4

\* While the main thread does nothing its part of the invariant is as it was.
LEMMA SameMain ==
    ASSUME UNCHANGED <<skipped, gitVars, stateVars, pc, mainVars>>
    PROVE  (MainInv => MainInv') /\ (WrittenInv => WrittenInv')
<1>1. UNCHANGED <<skipped, pc, start, i, item, lastWritten, session, objects, lost, lastCl>>
  BY DEF gitVars, stateVars, mainVars
<1>2. \A m, n : Real(m, n)' = Real(m, n)
  BY <1>1, SameParts
<1>3. Upto' = Upto
  BY <1>1 DEF Upto
<1>4. MainInv => MainInv'
  BY <1>1, <1>3 DEF MainInv, Real
<1>5. WrittenInv => WrittenInv'
  BY <1>1, <1>3 DEF WrittenInv, Real
<1> QED
  BY <1>4, <1>5

-----------------------------------------------------------------------------
(* The threads.                                                             *)

\* A run begins at the checkpoint, up to which everything is there.
LEMMA BeginStep ==
    ASSUME IInv, Begin
    PROVE  IInv'
<1>1. /\ pc = "off" /\ session = <<>> /\ lastCl \in 0..MaxCL
      /\ start' = lastCl /\ pc' = "get"
      /\ i' = 0 /\ item' = 0 /\ lastWritten' = 0 /\ session' = <<>>
      /\ taken' = 0 /\ enqueued' = 0 /\ dispatcher' = "get" /\ queue' = <<>> /\ stop' = FALSE
      /\ chunk' \in [CL -> {"unsent", "sent", "done", "failed"}]
      /\ UNCHANGED <<skipped, branch, objects, lost, lastCl, lastSha, rows, lossy, faults>>
  BY DEF Begin, gitVars, stateVars, IInv, TypeOK
<1>2. TypeOK'
  <2>1. queue' \in Seq(0..MaxCL) /\ Len(queue') <= QueueSize
    BY <1>1, BoundsAreNat, EmptySeq
  <2>2. /\ start' \in 0..MaxCL /\ i' \in 0..MaxCL /\ item' \in 0..MaxCL
        /\ lastWritten' \in 0..MaxCL /\ taken' \in 0..MaxCL /\ enqueued' \in 0..MaxCL
    BY <1>1, BoundsAreNat
  <2> QED
    BY <1>1, <2>1, <2>2, ElementFacts DEF IInv, TypeOK
<1>3. WrittenInOrder' /\ NothingPassedOver'
  BY <1>1, SameParts DEF IInv
<1>4. Upto' = lastCl /\ Total' \in Nat
  BY <1>1, BoundsAreNat DEF Upto, Total
<1>5. QueueInv'
  BY <1>1, <1>4 DEF QueueInv
<1>6. MainInv'
  <2>1. Real(lastCl, lastCl + 0) = {}
    BY <1>1, ElementFacts DEF Real
  <2>2. Real(Upto, start + i)' = {}
    BY <1>1, <1>4, <2>1 DEF Real
  <2> QED
    BY <1>1, <1>4, <2>2 DEF MainInv
<1>7. WrittenInv'
  <2>1. Real(lastCl, lastCl) = {}
    BY <1>1, ElementFacts DEF Real
  <2> QED
    BY <1>1, <1>4, <2>1 DEF IInv, NothingPassedOver, WrittenInv, Real
<1> QED
  BY <1>1, <1>2, <1>3, <1>5, <1>6, <1>7 DEF IInv

\* The workers touch neither the queue nor what is written.
LEMMA WorkerSteps ==
    ASSUME IInv, pc # "off", NEW k \in CL, Extract(k) \/ PrintThreadDies(k) \/ ExtractFails(k)
    PROVE  IInv'
<1>1. UNCHANGED <<skipped, gitVars, stateVars, pc, mainVars, dispatchVars, queue>>
  BY DEF Extract, PrintThreadDies, ExtractFails
<1>2. /\ chunk' \in [CL -> {"unsent", "sent", "done", "failed"}]
      /\ stop' \in BOOLEAN
  BY DEF Extract, PrintThreadDies, ExtractFails, IInv, TypeOK
<1>3. faults' \in 0..MaxFaults
  <2>1. faults' = faults \/ (faults < MaxFaults /\ faults' = faults + 1)
    BY DEF Extract, PrintThreadDies, ExtractFails, Fault
  <2> QED
    BY <2>1, BoundsAreNat DEF IInv, TypeOK
<1>4. lossy' \subseteq CL
  <2>1. ChunkOf(k) \subseteq CL
    BY ChunkFacts DEF IInv, TypeOK
  <2> QED
    BY <2>1 DEF Extract, PrintThreadDies, ExtractFails, IInv, TypeOK
<1>5. TypeOK'
  BY <1>1, <1>2, <1>3, <1>4
     DEF IInv, TypeOK, gitVars, stateVars, mainVars, dispatchVars
<1>6. QueueInv => QueueInv'
  BY <1>1 DEF QueueInv, Total, mainVars, dispatchVars
<1> QED
  BY <1>1, <1>5, <1>6, SameParts, SameMain DEF IInv, gitVars, stateVars, mainVars

\* The dispatcher puts in order what it has, and the sentinel last.
LEMMA DispatchStep ==
    ASSUME IInv, pc # "off", Dispatch
    PROVE  IInv'
<1> USE BoundsAreNat
<1>1. UNCHANGED <<skipped, gitVars, stateVars, pc, mainVars, stop, lossy, faults>>
  BY DEF Dispatch, TakeChunk, PutChangelist, SendChunk, StopDispatching, PutSentinel
<1>2. /\ Total \in Nat /\ start + Total = MaxCL /\ Total' = Total
      /\ i \in Nat /\ enqueued \in Nat /\ queue \in Seq(0..MaxCL) /\ Len(queue) \in Nat
      /\ QueueInv /\ QueueSize \in Nat
  BY <1>1, LenProperties DEF IInv, TypeOK, Total, mainVars
<1>3. chunk' \in [CL -> {"unsent", "sent", "done", "failed"}] /\ taken' \in 0..MaxCL
  <2>1. CASE TakeChunk
    BY <2>1, ChunksFacts DEF TakeChunk, IInv, TypeOK
  <2>2. CASE SendChunk
    BY <2>2 DEF SendChunk, IInv, TypeOK
  <2>3. CASE PutChangelist \/ StopDispatching \/ PutSentinel
    BY <2>3 DEF PutChangelist, StopDispatching, PutSentinel, IInv, TypeOK
  <2> QED
    BY <2>1, <2>2, <2>3 DEF Dispatch
<1>4. /\ QueueInv'
      /\ enqueued' \in 0..MaxCL /\ dispatcher' \in {"get", "put", "end", "gone"}
      /\ queue' \in Seq(0..MaxCL) /\ Len(queue') <= QueueSize
  <2>1. CASE TakeChunk \/ SendChunk \/ StopDispatching
    <3>1. /\ UNCHANGED <<enqueued, queue, start, i>>
          /\ dispatcher # "gone" /\ dispatcher' \in {"get", "put", "end"}
      BY <1>1, <2>1 DEF TakeChunk, SendChunk, StopDispatching, mainVars
    <3> QED
      BY <1>2, <3>1 DEF QueueInv, IInv, TypeOK
  <2>2. CASE PutChangelist
    <3>1. /\ enqueued < ChunkEnd(taken) /\ Len(queue) < QueueSize
          /\ enqueued' = enqueued + 1 /\ queue' = Append(queue, start + enqueued + 1)
          /\ dispatcher = "put" /\ dispatcher' = "put" /\ start' = start /\ i' = i
      BY <1>1, <2>2 DEF PutChangelist, mainVars
    <3>2. enqueued' <= Total
      BY <1>2, <3>1, InitialImportAssumption DEF ChunkEnd, IInv, TypeOK
    <3>3. start + enqueued + 1 \in 0..MaxCL
      BY <1>2, <3>1, <3>2 DEF IInv, TypeOK
    <3>4. /\ queue' \in Seq(0..MaxCL) /\ Len(queue') = Len(queue) + 1
          /\ \A j \in 1..Len(queue) : queue'[j] = queue[j]
          /\ queue'[Len(queue) + 1] = start + enqueued + 1
      BY <1>2, <3>1, <3>3, AppendFacts
    <3>5. Len(queue) = enqueued - i
      BY <1>2, <3>1 DEF QueueInv
    <3>6. \A j \in 1..(enqueued' - i) : queue'[j] = start + i + j
      <4> TAKE j \in 1..(enqueued' - i)
      <4>1. CASE j <= enqueued - i
        BY <1>2, <3>1, <3>4, <3>5, <4>1 DEF QueueInv
      <4>2. CASE j > enqueued - i
        <5>1. j = enqueued - i + 1 /\ start \in Int
          BY <1>2, <3>1, <4>2 DEF IInv, TypeOK
        <5> QED
          BY <1>2, <3>4, <3>5, <5>1
      <4> QED
        BY <1>2, <4>1, <4>2
    <3>7. QueueInv'
      BY <1>2, <3>1, <3>2, <3>4, <3>5, <3>6 DEF QueueInv
    <3> QED
      BY <1>2, <3>1, <3>2, <3>4, <3>7 DEF IInv, TypeOK
  <2>3. CASE PutSentinel
    <3>1. /\ Len(queue) < QueueSize /\ queue' = Append(queue, Sentinel)
          /\ dispatcher = "end" /\ dispatcher' = "gone" /\ start' = start /\ i' = i
          /\ enqueued' = enqueued
      BY <1>1, <2>3 DEF PutSentinel, mainVars
    <3>2. Sentinel \in 0..MaxCL
      BY DEF Sentinel
    <3>3. /\ queue' \in Seq(0..MaxCL) /\ Len(queue') = Len(queue) + 1
          /\ \A j \in 1..Len(queue) : queue'[j] = queue[j]
          /\ queue'[Len(queue) + 1] = Sentinel
      BY <1>2, <3>1, <3>2, AppendFacts
    <3>4. Len(queue) = enqueued - i
      BY <1>2, <3>1 DEF QueueInv
    <3>5. QueueInv'
      BY <1>2, <3>1, <3>3, <3>4 DEF QueueInv
    <3> QED
      BY <1>2, <3>1, <3>3, <3>5 DEF IInv, TypeOK
  <2> QED
    BY <2>1, <2>2, <2>3 DEF Dispatch
<1>5. TypeOK'
  BY <1>1, <1>3, <1>4 DEF IInv, TypeOK, gitVars, stateVars, mainVars
<1> QED
  BY <1>1, <1>4, <1>5, SameParts, SameMain DEF IInv, gitVars, stateVars, mainVars

-----------------------------------------------------------------------------
(* The main thread.                                                         *)

\* The next of the queue is the next of the history.
LEMMA GetStep ==
    ASSUME IInv, Get
    PROVE  IInv'
<1> USE BoundsAreNat
<1>1. /\ pc = "get" /\ i < Total /\ queue # <<>> /\ Head(queue) # Sentinel
      /\ item' = Head(queue) /\ queue' = Tail(queue) /\ i' = i + 1
      /\ pc' = IF Head(queue) \in skipped THEN "get" ELSE "write"
      /\ UNCHANGED <<skipped, gitVars, stateVars, start, lastWritten, session, chunk,
                     dispatchVars, stop, lossy, faults>>
  BY DEF Get
<1>2. /\ Total \in Nat /\ start + Total = MaxCL /\ Total' = Total
      /\ i \in Nat /\ enqueued \in Nat /\ queue \in Seq(0..MaxCL) /\ start \in Nat
      /\ QueueInv /\ MainInv /\ WrittenInv /\ start' = start /\ enqueued' = enqueued
      /\ dispatcher' = dispatcher
  BY <1>1 DEF IInv, TypeOK, Total, dispatchVars
<1>3. /\ Head(queue) = queue[1] /\ Len(queue) \in Nat /\ Len(queue) > 0
      /\ queue' \in Seq(0..MaxCL) /\ Len(queue') = Len(queue) - 1
      /\ \A j \in 1..(Len(queue) - 1) : queue'[j] = queue[j + 1]
  BY <1>1, <1>2, HeadTailProperties, LenProperties, EmptySeq
<1>4. enqueued > i
  <2>1. CASE enqueued = i
    BY <1>1, <1>2, <1>3, <2>1 DEF QueueInv
  <2> QED
    BY <1>2, <2>1 DEF QueueInv
<1>5. item' = start + i + 1 /\ item' \in CL /\ item' = start + i'
  BY <1>1, <1>2, <1>3, <1>4 DEF QueueInv, CL
<1>6. TypeOK'
  <2>1. Len(queue') <= QueueSize /\ i' \in 0..MaxCL /\ item' \in 0..MaxCL
    BY <1>1, <1>2, <1>3, <1>5 DEF IInv, TypeOK, CL
  <2> QED
    BY <1>1, <1>3, <2>1 DEF IInv, TypeOK, gitVars, stateVars, dispatchVars
<1>7. QueueInv'
  <2>1. \A j \in 1..(enqueued - i') : queue'[j] = start + i' + j
    <3> TAKE j \in 1..(enqueued - i')
    <3>1. j + 1 \in 1..(enqueued - i) /\ j \in 1..(Len(queue) - 1)
      BY <1>1, <1>2, <1>4 DEF QueueInv
    <3>2. queue[j + 1] = start + i + (j + 1)
      BY <1>2, <3>1 DEF QueueInv
    <3> QED
      BY <1>1, <1>2, <1>3, <3>1, <3>2
  <2>2. dispatcher = "gone" => queue'[enqueued - i' + 1] = Sentinel
    <3> HAVE dispatcher = "gone"
    <3>1. enqueued - i' + 1 \in 1..(Len(queue) - 1) /\ enqueued - i' + 1 + 1 = enqueued - i + 1
      BY <1>1, <1>2, <1>4 DEF QueueInv
    <3> QED
      BY <1>2, <1>3, <3>1 DEF QueueInv
  <2>3. i' <= enqueued
    BY <1>1, <1>2, <1>4
  <2>4. Len(queue') = enqueued - i' + (IF dispatcher = "gone" THEN 1 ELSE 0)
    BY <1>1, <1>2, <1>3 DEF QueueInv
  <2> QED
    BY <1>2, <2>1, <2>2, <2>3, <2>4 DEF QueueInv
<1>8. UNCHANGED <<skipped, session, lastWritten, start, objects, lost, lastCl>> /\ Upto' = Upto
  BY <1>1 DEF gitVars, stateVars, Upto
<1>9. MainInv'
  <2>1. Upto \in Int /\ start <= Upto /\ Upto <= start + i /\ Real(Upto, start + i) = {}
    BY <1>1, <1>2 DEF MainInv, Upto, IInv, TypeOK
  <2>2. Real(Upto, start + i + 1) = IF item' \in skipped THEN {} ELSE {item'}
    <3>1. \A n \in CL : n \in Int
      BY ElementFacts
    <3>2. \A n \in CL \ skipped : Upto < n /\ n <= start + i => FALSE
      BY <2>1 DEF Real
    <3>3. Real(Upto, start + i + 1) = {n \in CL \ skipped : n = start + i + 1}
      BY <1>2, <2>1, <3>1, <3>2 DEF Real
    <3> QED
      BY <1>5, <3>3
  <2>3. Real(Upto, start + i)' = Real(Upto, start + i + 1) /\ Real(Upto, item)' = Real(Upto, item')
    BY <1>1, <1>2, <1>8 DEF Real
  <2>4. item' = (start + i)' /\ (start <= Upto)' /\ (Upto <= start + i)'
    BY <1>1, <1>2, <1>5, <1>8, <2>1
  <2>5. \A j \in DOMAIN session' : session'[j] > 0
    BY <1>1, <1>2, <1>8 DEF MainInv
  <2>6. item' \in skipped <=> pc' = "get"
    BY <1>1
  <2>7. pc' \in {"get", "write"}
    BY <1>1
  <2>8. CASE pc' = "get"
    BY <1>8, <2>2, <2>3, <2>4, <2>5, <2>6, <2>8 DEF MainInv
  <2>9. CASE pc' = "write"
    BY <1>2, <1>5, <1>8, <2>2, <2>3, <2>4, <2>5, <2>6, <2>9 DEF MainInv
  <2> QED
    BY <2>7, <2>8, <2>9
<1>10. WrittenInv'
  BY <1>2, <1>8 DEF WrittenInv, Real
<1>11. WrittenInOrder' /\ NothingPassedOver'
  BY <1>8, SameParts DEF IInv
<1> QED
  BY <1>1, <1>6, <1>7, <1>9, <1>10, <1>11 DEF IInv

\* The loop ends.
LEMMA NothingToGetStep ==
    ASSUME IInv, NothingToGet
    PROVE  IInv'
<1>1. /\ pc = "get" /\ pc' = "final"
      /\ UNCHANGED <<skipped, gitVars, stateVars, mainVars, pipeVars, faults>>
  BY DEF NothingToGet
<1>2. TypeOK'
  BY <1>1 DEF IInv, TypeOK, gitVars, stateVars, mainVars, pipeVars, dispatchVars
<1>3. QueueInv'
  BY <1>1 DEF IInv, QueueInv, Total, mainVars, pipeVars, dispatchVars
<1>4. UNCHANGED <<skipped, session, lastWritten, start, i, objects, lost, lastCl>> /\ Upto' = Upto
  BY <1>1 DEF gitVars, stateVars, mainVars, Upto
<1>5. MainInv'
  BY <1>1, <1>4 DEF IInv, MainInv
<1>6. WrittenInv'
  BY <1>1, <1>4 DEF IInv, WrittenInv, Real
<1> QED
  BY <1>1, <1>2, <1>3, <1>4, <1>5, <1>6, SameParts DEF IInv

\* The changelist in work follows the last that was written, and none is between.
LEMMA WriteStep ==
    ASSUME IInv, Write
    PROVE  IInv'
<1> USE BoundsAreNat
<1>1. /\ pc = "write" /\ session' = Append(session, item) /\ lastWritten' = item
      /\ pc' \in {"checkpoint", "get"}
      /\ UNCHANGED <<skipped, gitVars, stateVars, start, i, item, pipeVars, faults>>
  BY DEF Write
<1>2. /\ item = start + i /\ item \in CL \ skipped /\ Real(Upto, item) = {item}
      /\ start <= Upto /\ Upto <= start + i /\ MainInv /\ WrittenInv /\ QueueInv
      /\ \A j \in DOMAIN session : session[j] > 0
      /\ item \in Int /\ item > 0 /\ item <= MaxCL /\ start \in Nat /\ lastWritten \in Nat
  BY <1>1, ElementFacts DEF IInv, MainInv, TypeOK
<1>3. item \in Elements /\ session \in Seq(Elements)
  BY <1>2, ElementFacts DEF IInv, TypeOK
<1>4. /\ session' \in Seq(Elements) /\ Len(session) \in Nat
      /\ DOMAIN session = 1..Len(session) /\ DOMAIN session' = 1..(Len(session) + 1)
      /\ \A j \in 1..Len(session) : session'[j] = session[j]
      /\ session'[Len(session) + 1] = item
      /\ ToSet(session) \cup {item} \subseteq ToSet(session')
  BY <1>1, <1>3, AppendFacts
<1>5. TypeOK'
  BY <1>1, <1>2, <1>4, ElementFacts
     DEF IInv, TypeOK, gitVars, stateVars, pipeVars, dispatchVars
<1>6. UNCHANGED <<skipped, start, i, objects, lost, lastCl, item>> /\ Upto' = item
  BY <1>1, <1>2 DEF gitVars, stateVars, Upto
<1>7. \A m, n : Real(m, n)' = Real(m, n)
  BY <1>6, SameParts
<1>8. Upto \in Int /\ Upto < item /\ lastWritten <= Upto
  <2>1. Upto \in Int /\ lastWritten <= Upto
    BY <1>2 DEF Upto
  <2>2. item \in Real(Upto, item)
    BY <1>2
  <2> QED
    BY <2>1, <2>2 DEF Real
<1>9. QueueInv'
  BY <1>1, <1>2 DEF QueueInv, Total, pipeVars, dispatchVars
<1>10. \A j \in DOMAIN session' : session'[j] > 0
  <2> TAKE j \in DOMAIN session'
  <2>1. CASE j \in 1..Len(session)
    BY <1>2, <1>4, <2>1
  <2>2. CASE j = Len(session) + 1
    BY <1>2, <1>4, <2>2
  <2> QED
    BY <1>4, <2>1, <2>2
<1>11. MainInv'
  <2>1. Real(item, item) = {}
    BY <1>2, RealFacts
  <2>2. Real(Upto, start + i)' = {}
    BY <1>2, <1>6, <2>1 DEF Real
  <2> QED
    BY <1>1, <1>2, <1>6, <1>8, <1>10, <2>2 DEF MainInv
<1>12. WrittenInv'
  <2>1. Real(start, item) = Real(start, Upto) \cup {item}
    <3>1. Real(start, item) = Real(start, Upto) \cup Real(Upto, item)
      BY <1>2, <1>8, RealFacts
    <3> QED
      BY <1>2, <3>1
  <2>2. Real(start, item) \subseteq objects \cup lost \cup ToSet(session')
    BY <1>2, <1>4, <2>1 DEF WrittenInv
  <2>3. Real(start, Upto)' = Real(start, item) /\ Real(0, start)' = Real(0, start)
    BY <1>6 DEF Real
  <2> QED
    BY <1>2, <1>6, <2>2, <2>3 DEF WrittenInv
<1>13. WrittenInOrder'
  <2>1. Whole = DOMAIN session /\ Whole' = DOMAIN session'
    BY <1>2, <1>10 DEF Whole
  <2>2. /\ \A j, k \in 1..Len(session) : j < k => session[j] < session[k]
        /\ 1..Len(session) # {} => {session[j] : j \in 1..Len(session)}
                                     = Real(session[1] - 1, lastWritten)
    BY <1>4, <2>1 DEF IInv, WrittenInOrder
  <2>3. \A j \in 1..Len(session) : session[j] \in Int /\ session[j] <= lastWritten
    <3> TAKE j \in 1..Len(session)
    <3>1. session[j] \in {session[k] : k \in 1..Len(session)}
      OBVIOUS
    <3>2. session[j] \in Real(session[1] - 1, lastWritten)
      BY <2>2, <3>1
    <3> QED
      BY <3>2, ElementFacts DEF Real
  <2>4. \A j, k \in 1..(Len(session) + 1) : j < k => session'[j] < session'[k]
    <3> TAKE j, k \in 1..(Len(session) + 1)
    <3> HAVE j < k
    <3>1. j \in 1..Len(session)
      BY <1>4
    <3>2. CASE k \in 1..Len(session)
      BY <1>4, <2>2, <3>1, <3>2
    <3>3. CASE k = Len(session) + 1
      BY <1>2, <1>4, <1>8, <2>3, <3>1, <3>3
    <3> QED
      BY <1>4, <3>2, <3>3
  <2>5. {session'[j] : j \in 1..(Len(session) + 1)} = {session[j] : j \in 1..Len(session)} \cup {item}
    <3>1. 1..(Len(session) + 1) = (1..Len(session)) \cup {Len(session) + 1}
      BY <1>4
    <3> QED
      BY <1>4, <3>1
  <2>6. {session'[j] : j \in 1..(Len(session) + 1)} = Real(session'[1] - 1, item)
    <3>1. CASE Len(session) = 0
      <4>1. session'[1] = item /\ {session[j] : j \in 1..Len(session)} = {}
        BY <1>4, <3>1
      <4>2. Real(item - 1, item) = {item}
        BY <1>2, RealFacts
      <4> QED
        BY <2>5, <4>1, <4>2
    <3>2. CASE Len(session) > 0
      <4>1. /\ session'[1] = session[1] /\ 1 \in 1..Len(session)
            /\ {session[j] : j \in 1..Len(session)} = Real(session[1] - 1, lastWritten)
        BY <1>4, <2>2, <3>2
      <4>2. session[1] \in {session[j] : j \in 1..Len(session)}
        BY <4>1
      <4>3. session[1] \in Int /\ 0 < session[1] /\ session[1] <= lastWritten /\ Upto = lastWritten
        BY <2>3, <4>1, <4>2, ElementFacts DEF Real, Upto
      <4>4. Real(session[1] - 1, item) = Real(session[1] - 1, lastWritten) \cup Real(lastWritten, item)
        <5>1. /\ session[1] - 1 \in Int /\ session[1] - 1 <= lastWritten /\ lastWritten <= item
              /\ lastWritten \in Int
          BY <1>2, <1>8, <4>3
        <5> DEFINE m == session[1] - 1
        <5>2. m \in Int /\ m <= lastWritten /\ lastWritten <= item /\ lastWritten \in Int
          BY <5>1
        <5> HIDE DEF m
        <5>3. Real(m, item) = Real(m, lastWritten) \cup Real(lastWritten, item)
          BY <1>2, <5>2, RealFacts
        <5> QED
          BY <5>3 DEF m
      <4> QED
        BY <1>2, <2>5, <4>1, <4>3, <4>4
    <3> QED
      BY <1>4, <3>1, <3>2
  <2>7. Real(session[1] - 1, lastWritten)' = Real(session'[1] - 1, item)
    BY <1>1, <1>6 DEF Real
  <2> QED
    BY <1>1, <1>4, <2>1, <2>4, <2>6, <2>7 DEF WrittenInOrder
<1>14. NothingPassedOver'
  BY <1>6, SameParts DEF IInv
<1> QED
  BY <1>1, <1>5, <1>9, <1>11, <1>12, <1>13, <1>14 DEF IInv

\* The part of a changelist is the last that is written.
LEMMA WriteFailsStep ==
    ASSUME IInv, WriteFails
    PROVE  IInv'
<1> USE BoundsAreNat
<1>1. /\ pc = "write" /\ session' = Append(session, -item)
      /\ pc' \in {"final", "raise"} /\ faults < MaxFaults /\ faults' = faults + 1
      /\ UNCHANGED <<skipped, gitVars, stateVars, start, i, item, lastWritten, pipeVars>>
  BY DEF WriteFails, Fault
<1>2. /\ item \in CL /\ item \in Int /\ item > 0
      /\ MainInv /\ WrittenInv /\ QueueInv
      /\ \A j \in DOMAIN session : session[j] > 0
  BY <1>1, ElementFacts DEF IInv, MainInv, TypeOK
<1>3. -item \in Elements /\ session \in Seq(Elements)
  BY <1>2, ElementFacts DEF IInv, TypeOK
<1>4. /\ session' \in Seq(Elements) /\ Len(session) \in Nat
      /\ DOMAIN session = 1..Len(session) /\ DOMAIN session' = 1..(Len(session) + 1)
      /\ \A j \in 1..Len(session) : session'[j] = session[j]
      /\ session'[Len(session) + 1] = -item
      /\ ToSet(session) \subseteq ToSet(session')
  BY <1>1, <1>3, AppendFacts
<1>5. TypeOK'
  BY <1>1, <1>4, ElementFacts
     DEF IInv, TypeOK, gitVars, stateVars, pipeVars, dispatchVars
<1>6. /\ UNCHANGED <<skipped, start, i, objects, lost, lastCl, lastWritten>> /\ Upto' = Upto
  BY <1>1 DEF gitVars, stateVars, Upto
<1>7. QueueInv'
  BY <1>1, <1>2 DEF QueueInv, Total, pipeVars, dispatchVars
<1>8. MainInv'
  BY <1>1, <1>2, <1>6 DEF MainInv
<1>9. WrittenInv'
  BY <1>2, <1>4, <1>6 DEF WrittenInv, Real
<1>10. WrittenInOrder'
  <2>1. Whole = 1..Len(session) /\ Whole' = 1..Len(session)
    <3>1. ~(-item > 0)
      BY <1>2
    <3>2. \A j \in 1..(Len(session) + 1) : session'[j] > 0 <=> j \in 1..Len(session)
      BY <1>2, <1>4, <3>1
    <3> QED
      BY <1>2, <1>4, <3>2 DEF Whole
  <2>2. /\ \A j, k \in 1..Len(session) : j < k => session[j] < session[k]
        /\ 1..Len(session) # {} => {session[j] : j \in 1..Len(session)}
                                     = Real(session[1] - 1, lastWritten)
    BY <2>1 DEF IInv, WrittenInOrder
  <2>3. /\ \A j, k \in 1..Len(session) : j < k => session'[j] < session'[k]
        /\ 1..Len(session) # {} => {session'[j] : j \in 1..Len(session)}
                                     = Real(session'[1] - 1, lastWritten)
    <3>1. {session'[j] : j \in 1..Len(session)} = {session[j] : j \in 1..Len(session)}
      BY <1>4
    <3>2. 1..Len(session) # {} => session'[1] = session[1]
      BY <1>4
    <3> QED
      BY <1>4, <2>2, <3>1, <3>2
  <2>4. Real(session[1] - 1, lastWritten)' = Real(session'[1] - 1, lastWritten)
    BY <1>6 DEF Real
  <2>5. \A j, k \in DOMAIN session' : j < k => j \in Whole'
    BY <1>4, <2>1
  <2> QED
    BY <2>1, <2>3, <2>4, <2>5 DEF WrittenInOrder
<1>11. NothingPassedOver'
  BY <1>6, SameParts DEF IInv
<1> QED
  BY <1>1, <1>5, <1>7, <1>8, <1>9, <1>10, <1>11 DEF IInv

\* What is finished is there; the branch has a commit of the session.
LEMMA FinishFacts ==
    ASSUME TypeOK, NEW s \in Commit, Finish(s)
    PROVE  /\ branch' \in Commit /\ objects' \subseteq CL /\ lost' = lost
           /\ objects \subseteq objects' /\ ToSet(s) \cap CL \subseteq objects'
BY DEF Finish, TypeOK

\* A fast-import ends, and what was written is finished.
LEMMA FinishSteps ==
    ASSUME IInv, FinishForCheckpoint \/ FinishForGood
    PROVE  IInv'
<1>1. /\ pc \in {"checkpoint", "final", "raise"} /\ Finish(session) /\ session' = <<>>
      /\ pc = "checkpoint" => pc' = "record"
      /\ pc # "checkpoint" => pc' \in {"recordfinal", "off"}
      /\ UNCHANGED <<skipped, stateVars, start, i, item, lastWritten, chunk, dispatchVars, queue,
                     lossy, faults>>
      /\ stop' \in BOOLEAN
  BY DEF FinishForCheckpoint, FinishForGood, EndSession, IInv, TypeOK
<1>2. /\ branch' \in Commit /\ objects' \subseteq CL /\ lost' = lost
      /\ objects \subseteq objects' /\ ToSet(session) \cap CL \subseteq objects'
  BY <1>1, FinishFacts DEF IInv, TypeOK
<1>3. TypeOK'
  BY <1>1, <1>2, ElementFacts DEF IInv, TypeOK, stateVars, dispatchVars
<1>4. UNCHANGED <<skipped, start, i, lastCl, lastWritten, item>> /\ Upto' = Upto
  BY <1>1 DEF stateVars, Upto
<1>5. QueueInv'
  BY <1>1 DEF IInv, QueueInv, Total, dispatchVars
<1>6. MainInv'
  <2>1. pc = "checkpoint" => Real(Upto, start + i) = {}
    <3> HAVE pc = "checkpoint"
    <3>1. Upto = start + i /\ Upto \in Int
      BY <1>1 DEF IInv, MainInv, Upto, TypeOK
    <3> QED
      BY <3>1, RealFacts
  <2>2. Real(Upto, start + i)' = Real(Upto, start + i)
    BY <1>4 DEF Real
  <2>3. start <= Upto /\ Upto <= start + i
    BY <1>1 DEF IInv, MainInv
  <2>4. pc = "checkpoint" => lastWritten = start + i /\ lastWritten > 0
    BY <1>1 DEF IInv, MainInv
  <2> QED
    BY <1>1, <1>4, <2>1, <2>2, <2>3, <2>4 DEF MainInv
<1>7. WrittenInv'
  <2>1. Real(start, Upto) \subseteq CL /\ Real(start, Upto)' = Real(start, Upto)
        /\ Real(0, start)' = Real(0, start)
    BY <1>4 DEF Real
  <2>2. WrittenInv
    BY <1>1 DEF IInv
  <2> QED
    BY <1>2, <1>4, <2>1, <2>2 DEF WrittenInv
<1>8. WrittenInOrder' /\ NothingPassedOver'
  BY <1>1, <1>2, <1>4, SameParts DEF IInv
<1> QED
  BY <1>1, <1>3, <1>5, <1>6, <1>7, <1>8 DEF IInv

\* What was given to a process that failed is lost.
LEMMA FastImportFailsStep ==
    ASSUME IInv, FastImportFails
    PROVE  IInv'
<1>1. /\ faults < MaxFaults /\ faults' = faults + 1
      /\ \/ pc' = "off"
         \/ pc = "final" /\ pc' = "recordfinal"
         \/ pc = "checkpoint" /\ pc' \in {"final", "record"}
      /\ pc # "off"
      /\ lost' = lost \cup (ToSet(session) \cap CL) /\ session' = <<>>
      /\ UNCHANGED <<skipped, branch, objects, stateVars, start, i, item, lastWritten, chunk,
                     dispatchVars, queue, lossy>>
      /\ stop' \in BOOLEAN
  BY DEF FastImportFails, Fault, IInv, TypeOK
<1>2. TypeOK'
  <2>1. session' \in Commit
    BY <1>1, ElementFacts
  <2>2. lost' \subseteq CL
    BY <1>1 DEF IInv, TypeOK
  <2>3. faults' \in 0..MaxFaults
    BY <1>1, BoundsAreNat DEF IInv, TypeOK
  <2>4. pc' \in {"off", "get", "write", "checkpoint", "record", "final", "recordfinal", "raise"}
    BY <1>1
  <2>5. /\ UNCHANGED <<skipped, branch, objects, stateVars, start, i, item, lastWritten, chunk,
                        dispatchVars, queue, lossy>>
        /\ stop' \in BOOLEAN
    BY <1>1
  <2> QED
    BY <2>1, <2>2, <2>3, <2>4, <2>5 DEF IInv, TypeOK, stateVars, dispatchVars
<1>3. UNCHANGED <<skipped, start, i, lastCl, lastWritten, item>> /\ Upto' = Upto
  BY <1>1 DEF stateVars, Upto
<1>4. QueueInv'
  BY <1>1 DEF IInv, QueueInv, Total, dispatchVars
<1>5. MainInv'
  <2>1. pc = "checkpoint" => Real(Upto, start + i) = {}
    <3> HAVE pc = "checkpoint"
    <3>1. Upto = start + i /\ Upto \in Int
      BY <1>1 DEF IInv, MainInv, Upto, TypeOK
    <3> QED
      BY <3>1, RealFacts
  <2>2. Real(Upto, start + i)' = Real(Upto, start + i)
    BY <1>3 DEF Real
  <2>3. start <= Upto /\ Upto <= start + i
    BY <1>1 DEF IInv, MainInv
  <2>4. pc = "checkpoint" => lastWritten = start + i /\ lastWritten > 0
    BY <1>1 DEF IInv, MainInv
  <2> QED
    BY <1>1, <1>3, <2>1, <2>2, <2>3, <2>4 DEF MainInv
<1>6. WrittenInv'
  <2>1. Real(start, Upto) \subseteq CL /\ Real(start, Upto)' = Real(start, Upto)
        /\ Real(0, start)' = Real(0, start)
    BY <1>3 DEF Real
  <2>2. WrittenInv
    BY <1>1 DEF IInv
  <2> QED
    BY <1>1, <2>1, <2>2 DEF WrittenInv
<1>7. WrittenInOrder' /\ NothingPassedOver'
  BY <1>1, <1>3, SameParts DEF IInv
<1> QED
  BY <1>1, <1>2, <1>4, <1>5, <1>6, <1>7 DEF IInv

\* The checkpoint moves to where everything is finished or lost.
LEMMA RecordSteps ==
    ASSUME IInv, RecordCheckpoint \/ RecordFinal
    PROVE  IInv'
<1>1. /\ pc \in {"record", "recordfinal"} /\ session = <<>>
      /\ pc = "record" => lastWritten > 0
      /\ rows' = rows
      /\ \/ lastWritten > 0 /\ lastCl' = lastWritten /\ lastSha' = branch /\ pc' \in {"map", "mapfinal"}
         \/ pc = "recordfinal" /\ UNCHANGED stateVars /\ pc' = "off"
      /\ pc = "record" => pc' = "map"
      /\ pc = "recordfinal" => pc' \in {"mapfinal", "off"}
      /\ UNCHANGED <<skipped, gitVars, mainVars, pipeVars, faults>>
  BY DEF RecordCheckpoint, RecordFinal, RecordState, IInv, MainInv, stateVars
<1>2. TypeOK'
  BY <1>1 DEF IInv, TypeOK, gitVars, stateVars, mainVars, pipeVars, dispatchVars
<1>3. UNCHANGED <<skipped, start, i, item, lastWritten, session, objects, lost>> /\ Upto' = Upto
  BY <1>1 DEF gitVars, mainVars, Upto
<1>4. QueueInv'
  BY <1>1 DEF IInv, QueueInv, Total, mainVars, pipeVars, dispatchVars
<1>5. MainInv'
  <2>1. Real(Upto, start + i)' = Real(Upto, start + i) /\ DOMAIN session' = {}
    BY <1>1, <1>3 DEF Real
  <2> QED
    BY <1>1, <1>3, <2>1 DEF IInv, MainInv
<1>6. WrittenInv'
  BY <1>1, <1>3 DEF IInv, WrittenInv, Real
<1>7. NothingPassedOver'
  <2>1. CASE lastWritten > 0 /\ lastCl' = lastWritten
    <3>1. Upto = lastWritten /\ ToSet(session) = {} /\ start <= Upto
      BY <1>1, <2>1 DEF Upto, ToSet, IInv, MainInv
    <3>2. Real(0, lastWritten) = Real(0, start) \cup Real(start, lastWritten)
      BY <3>1, RealFacts, BoundsAreNat DEF IInv, TypeOK
    <3>3. Real(0, lastWritten) \subseteq objects \cup lost
      BY <1>1, <3>1, <3>2 DEF IInv, WrittenInv
    <3>4. Real(0, lastCl)' = Real(0, lastWritten)
      BY <1>3, <2>1 DEF Real
    <3> QED
      BY <1>3, <3>3, <3>4 DEF NothingPassedOver
  <2>2. CASE UNCHANGED stateVars
    BY <1>3, <2>2, SameParts DEF IInv, stateVars
  <2> QED
    BY <1>1, <2>1, <2>2
<1>8. WrittenInOrder'
  BY <1>3, SameParts DEF IInv
<1> QED
  BY <1>1, <1>2, <1>3, <1>4, <1>5, <1>6, <1>7, <1>8 DEF IInv

\* The row of the checkpoint is written.
LEMMA RecordCommitStep ==
    ASSUME IInv, RecordCommit
    PROVE  IInv'
<1>1. /\ pc \in {"map", "mapfinal"} /\ session = <<>> /\ lastWritten > 0
      /\ rows' = rows \cup {lastWritten}
      /\ pc = "map" => pc' = "get"
      /\ pc = "mapfinal" => pc' = "off"
      /\ UNCHANGED <<skipped, gitVars, lastCl, lastSha, mainVars, pipeVars, faults>>
  BY DEF RecordCommit, IInv, MainInv
<1>2. TypeOK'
  <2>1. lastWritten \in CL
    BY <1>1, BoundsAreNat DEF IInv, TypeOK, CL
  <2> QED
    BY <1>1, <2>1 DEF IInv, TypeOK, gitVars, mainVars, pipeVars, dispatchVars
<1>3. /\ UNCHANGED <<skipped, start, i, item, lastWritten, session, objects, lost, lastCl>>
      /\ Upto' = Upto
  BY <1>1 DEF gitVars, mainVars, Upto
<1>4. QueueInv'
  BY <1>1 DEF IInv, QueueInv, Total, mainVars, pipeVars, dispatchVars
<1>5. MainInv'
  <2>1. Real(Upto, start + i)' = Real(Upto, start + i) /\ DOMAIN session' = {}
    BY <1>1, <1>3 DEF Real
  <2> QED
    BY <1>1, <1>3, <2>1 DEF IInv, MainInv
<1>6. WrittenInv'
  BY <1>1, <1>3 DEF IInv, WrittenInv, Real
<1>7. WrittenInOrder' /\ NothingPassedOver'
  BY <1>3, SameParts DEF IInv
<1> QED
  BY <1>1, <1>2, <1>3, <1>4, <1>5, <1>6, <1>7 DEF IInv

\* A kill leaves what is finished, and at most adds what had reached fast-import.
LEMMA KillStep ==
    ASSUME IInv, Kill
    PROVE  IInv'
<1>1. /\ faults < MaxFaults /\ faults' = faults + 1 /\ pc' = "off" /\ session' = <<>>
      /\ stop' = TRUE
      /\ UNCHANGED <<skipped, stateVars, start, i, item, lastWritten, chunk, dispatchVars, queue,
                     lossy>>
  BY DEF Kill, Fault
<1>2. session \in Seq(Elements) /\ Len(session) \in Nat /\ \A n \in 1..Len(session) : session[n] \in Elements
  BY ElementFacts, LenProperties, ElementOfSeq DEF IInv, TypeOK
<1>3. /\ branch' \in Commit /\ objects' \subseteq CL /\ lost' \subseteq CL
      /\ objects \cup lost \subseteq objects' \cup lost'
  <2>1. CASE UNCHANGED gitVars
    BY <2>1 DEF gitVars, IInv, TypeOK
  <2>2. ASSUME NEW n \in 1..Len(session), Finish(SubSeq(session, 1, n))
        PROVE  /\ branch' \in Commit /\ objects' \subseteq CL /\ lost' \subseteq CL
               /\ objects \cup lost \subseteq objects' \cup lost'
    <3>1. \A k \in 1..n : session[k] \in Elements
      BY <1>2
    <3>2. SubSeq(session, 1, n) \in Commit
      BY <3>1, ElementFacts, SubSeqProperties
    <3> QED
      BY <2>2, <3>2, FinishFacts DEF IInv, TypeOK
  <2>3. ASSUME NEW n \in 1..Len(session), session[n] > 0,
               Finish(Append(SubSeq(session, 1, n - 1), -session[n]))
        PROVE  /\ branch' \in Commit /\ objects' \subseteq CL /\ lost' \subseteq CL
               /\ objects \cup lost \subseteq objects' \cup lost'
    <3>1. \A k \in 1..(n - 1) : session[k] \in Elements
      BY <1>2
    <3>2. SubSeq(session, 1, n - 1) \in Seq(Elements)
      BY <3>1, SubSeqProperties
    <3>3. -session[n] \in Elements
      BY <1>2, <2>3, ElementFacts
    <3>4. Append(SubSeq(session, 1, n - 1), -session[n]) \in Commit
      BY <3>2, <3>3, AppendProperties, ElementFacts
    <3> QED
      BY <2>3, <3>4, FinishFacts DEF IInv, TypeOK
  <2> QED
    BY <2>1, <2>2, <2>3 DEF Kill
<1>4. TypeOK'
  BY <1>1, <1>3, BoundsAreNat, ElementFacts DEF IInv, TypeOK, stateVars, dispatchVars
<1>5. WrittenInOrder' /\ NothingPassedOver'
  BY <1>1, <1>3, SameParts DEF IInv, stateVars
<1> QED
  BY <1>1, <1>4, <1>5 DEF IInv

-----------------------------------------------------------------------------
(* The theorems.                                                            *)

\* Nothing is imported.
LEMMA InitInv ==
    ASSUME Init
    PROVE  IInv
<1>1. TypeOK
  <2>1. queue \in Seq(0..MaxCL) /\ Len(queue) <= QueueSize
    BY BoundsAreNat, EmptySeq DEF Init
  <2>2. /\ skipped \subseteq CL /\ branch \in Commit /\ lastSha \in Commit /\ session \in Commit
        /\ chunk \in [CL -> {"unsent", "sent", "done", "failed"}]
    BY ElementFacts DEF Init
  <2>3. 0 \in 0..MaxCL /\ 0 \in 0..MaxFaults
    BY BoundsAreNat
  <2> QED
    BY <2>1, <2>2, <2>3 DEF Init, TypeOK
<1>2. WrittenInOrder
  BY DEF Init, WrittenInOrder, Whole
<1>3. NothingPassedOver
  BY RealFacts DEF Init, NothingPassedOver
<1> QED
  BY <1>1, <1>2, <1>3 DEF Init, IInv

\* Every step keeps the invariant.
LEMMA NextInv ==
    ASSUME IInv, [Next]_vars
    PROVE  IInv'
<1>1. CASE UNCHANGED vars
  <2>1. UNCHANGED <<skipped, gitVars, stateVars, pc, mainVars, pipeVars, faults>>
    BY <1>1 DEF vars
  <2>2. TypeOK'
    BY <2>1 DEF IInv, TypeOK, gitVars, stateVars, mainVars, pipeVars, dispatchVars
  <2>3. WrittenInOrder' /\ NothingPassedOver'
    BY <2>1, SameParts DEF IInv, gitVars, stateVars, mainVars
  <2>4. QueueInv => QueueInv'
    BY <2>1 DEF QueueInv, Total, mainVars, pipeVars, dispatchVars
  <2> QED
    BY <2>1, <2>2, <2>3, <2>4, SameMain DEF IInv, mainVars
<1>2. CASE Begin \/ Kill \/ WriteFails \/ FastImportFails
  BY <1>2, BeginStep, KillStep, WriteFailsStep, FastImportFailsStep
<1>3. CASE Running /\ \E k \in CL : Extract(k) \/ PrintThreadDies(k) \/ ExtractFails(k)
  BY <1>3, WorkerSteps DEF Running
<1>4. CASE Running /\ Dispatch
  BY <1>4, DispatchStep DEF Running
<1>5. CASE Main
  BY <1>5, GetStep, NothingToGetStep, WriteStep, FinishSteps, RecordSteps, RecordCommitStep
     DEF Main
<1> QED
  BY <1>1, <1>2, <1>3, <1>4, <1>5 DEF Next

\* The invariant holds throughout.
LEMMA ImportInvariant == Spec => []IInv
<1>1. Init => IInv
  BY InitInv
<1>2. IInv /\ [Next]_vars => IInv'
  BY NextInv
<1> QED
  BY <1>1, <1>2, PTL DEF Spec

\* Every variable of the threads, the queue and the repository has its type; in
\* particular the queue never has more than its bound.
THEOREM ImportTypeCorrect == Spec => []TypeOK
<1>1. IInv => TypeOK
  BY DEF IInv
<1> QED
  BY <1>1, ImportInvariant, PTL

\* fast-import gets the history in order, without holes or repetitions, whatever
\* the workers, the dispatcher and the main thread do in between.
THEOREM HistoryIsWrittenInOrder == Spec => []WrittenInOrder
<1>1. IInv => WrittenInOrder
  BY DEF IInv
<1> QED
  BY <1>1, ImportInvariant, PTL

\* The checkpoint passes over nothing but what went down with a fast-import.
THEOREM ImportPassesNothingOver == Spec => []NothingPassedOver
<1>1. IInv => NothingPassedOver
  BY DEF IInv
<1> QED
  BY <1>1, ImportInvariant, PTL
=============================================================================
