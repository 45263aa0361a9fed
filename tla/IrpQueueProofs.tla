--------------------------- MODULE IrpQueueProofs ---------------------------
(***************************************************************************)
(* Proofs about IrpQueue for any number of requests, reports and threads   *)
(* and any limit on the deferred list.                                     *)
(***************************************************************************)
EXTENDS IrpQueue, FiniteSetTheorems, TLAPS

\* Zenon first: it needs far less time than the translation for SMT.
USE ZenonT(10), SMTT(30)

\* A buffer in use belongs to a report that was handed over, and the count of
\* deferred reports is never below the length of the list: a report that does
\* not fit is unlinked without the count going down.
SentInv ==
    /\ pool \subseteq sent
    /\ deferred_count >= Len(deferred)

\* Threads that passed the limit test and have not linked their report yet.
Linking == {t \in Threads : pc[t] = "link"}

\* Reports in the list, with those about to enter it.
LinkingInv ==
    Len(deferred) + Cardinality(Linking)
        <= MAX_DEFERRED_REPORTS_COUNT + Cardinality(Threads)

IInv ==
    /\ TypeOK
    /\ ParkedRequestsAreLinked
    /\ ReportInOnePlace
    /\ SentInv
    /\ LinkingInv

-----------------------------------------------------------------------------
(* Facts about the sequence operators.                                     *)

\* RemoveEntryList: one element less, the others in the same order.
LEMMA UnlinkProperties ==
    ASSUME NEW S, NEW s \in Seq(S), NEW k \in 1..Len(s)
    PROVE  /\ Unlink(s, k) \in Seq(S)
           /\ Len(Unlink(s, k)) = Len(s) - 1
           /\ \A j \in 1..(Len(s) - 1) :
                 Unlink(s, k)[j] = IF j < k THEN s[j] ELSE s[j + 1]
BY DEF Unlink

\* What Append, Head and Tail return, in terms of positions.
LEMMA AppendProperties ==
    ASSUME NEW S, NEW s \in Seq(S), NEW e \in S
    PROVE  /\ Append(s, e) \in Seq(S)
           /\ Len(Append(s, e)) = Len(s) + 1
           /\ \A j \in 1..Len(s) : Append(s, e)[j] = s[j]
           /\ Append(s, e)[Len(s) + 1] = e
OBVIOUS

\* An appended sequence has one member more.
LEMMA AppendMembers ==
    ASSUME NEW S, NEW s \in Seq(S), NEW e \in S, NEW x
    PROVE  (\E k \in 1..Len(Append(s, e)) : Append(s, e)[k] = x)
              <=> x = e \/ \E k \in 1..Len(s) : s[k] = x
<1>1. ASSUME NEW k \in 1..Len(Append(s, e)), Append(s, e)[k] = x
      PROVE  x = e \/ \E m \in 1..Len(s) : s[m] = x
  <2>1. k \in 1..Len(s) \/ k = Len(s) + 1
    BY AppendProperties
  <2> QED BY <1>1, <2>1, AppendProperties
<1>2. ASSUME x = e \/ \E k \in 1..Len(s) : s[k] = x
      PROVE  \E k \in 1..Len(Append(s, e)) : Append(s, e)[k] = x
  <2>1. Len(s) \in Nat /\ Len(Append(s, e)) = Len(s) + 1
    BY AppendProperties
  <2>2. CASE x = e
    <3>1. Len(s) + 1 \in 1..Len(Append(s, e)) /\ Append(s, e)[Len(s) + 1] = x
      BY <2>1, <2>2, AppendProperties
    <3> QED BY <3>1
  <2>3. ASSUME NEW k \in 1..Len(s), s[k] = x
        PROVE  \E m \in 1..Len(Append(s, e)) : Append(s, e)[m] = x
    <3>1. k \in 1..Len(Append(s, e)) /\ Append(s, e)[k] = x
      BY <2>1, <2>3, AppendProperties
    <3> QED BY <3>1
  <2> QED BY <1>2, <2>2, <2>3
<1> QED BY <1>1, <1>2

\* Appending a new element keeps a sequence free of repetitions.
LEMMA AppendFresh ==
    ASSUME NEW S, NEW s \in Seq(S), NEW e \in S,
           \A j, k \in 1..Len(s) : s[j] = s[k] => j = k,
           \A k \in 1..Len(s) : s[k] # e
    PROVE  \A j, k \in 1..Len(Append(s, e)) :
              Append(s, e)[j] = Append(s, e)[k] => j = k
<1>1. SUFFICES ASSUME NEW j \in 1..(Len(s) + 1), NEW k \in 1..(Len(s) + 1),
                      Append(s, e)[j] = Append(s, e)[k]
               PROVE  j = k
  BY AppendProperties
<1>2. CASE j <= Len(s) /\ k <= Len(s)
  BY <1>1, <1>2, AppendProperties
<1>3. CASE j = Len(s) + 1 \/ k = Len(s) + 1
  BY <1>1, <1>3, AppendProperties
<1> QED BY <1>2, <1>3

\* The first element of a sequence and the others.
LEMMA TailProperties ==
    ASSUME NEW S, NEW s \in Seq(S), s # <<>>
    PROVE  /\ Head(s) \in S /\ Head(s) = s[1] /\ Len(s) >= 1
           /\ Tail(s) \in Seq(S)
           /\ Len(Tail(s)) = Len(s) - 1
           /\ \A j \in 1..(Len(s) - 1) : Tail(s)[j] = s[j + 1]
OBVIOUS

-----------------------------------------------------------------------------
\* Unlinking a parked request leaves every other one where it was.
LEMMA RemoveProperties ==
    ASSUME TypeOK, ParkedRequestsAreLinked, NEW i \in Irps, IrpQueueRemove(i)
    PROVE  /\ queue' \in Seq(Irps)
           /\ queue_count' = Len(queue') /\ queue_count' \in Nat
           /\ irp[i] = "parked"
           /\ \A j \in Irps : (\E k \in 1..Len(queue') : queue'[k] = j)
                                 <=> irp[j] = "parked" /\ j # i
           /\ \A j, k \in 1..Len(queue') : queue'[j] = queue'[k] => j = k
<1> USE DEF TypeOK, ParkedRequestsAreLinked
<1>1. PICK k \in 1..Len(queue) : queue[k] = i /\ queue' = Unlink(queue, k)
  BY DEF IrpQueueRemove
<1>2. /\ queue' \in Seq(Irps)
      /\ Len(queue') = Len(queue) - 1
      /\ \A j \in 1..(Len(queue) - 1) :
            queue'[j] = IF j < k THEN queue[j] ELSE queue[j + 1]
  <2>0. queue \in Seq(Irps) /\ k \in 1..Len(queue)
    OBVIOUS
  <2>1. /\ Unlink(queue, k) \in Seq(Irps)
        /\ Len(Unlink(queue, k)) = Len(queue) - 1
        /\ \A j \in 1..(Len(queue) - 1) :
              Unlink(queue, k)[j] = IF j < k THEN queue[j] ELSE queue[j + 1]
    BY ONLY <2>0, UnlinkProperties, ZenonT(20), SMTT(30)
  <2> QED
    BY <1>1, <2>1, Zenon
<1>3. queue_count' = queue_count - 1
  BY DEF IrpQueueRemove
<1>4. queue_count' = Len(queue') /\ queue_count' \in Nat
  BY <1>1, <1>2, <1>3
<1>5. irp[i] = "parked"
  BY <1>1
<1>6. ASSUME NEW j \in Irps, NEW m \in 1..Len(queue'), queue'[m] = j
      PROVE  irp[j] = "parked" /\ j # i
  <2>1. CASE m < k
    BY <1>1, <1>2, <1>6, <2>1
  <2>2. CASE ~(m < k)
    BY <1>1, <1>2, <1>6, <2>2
  <2> QED BY <2>1, <2>2
<1>7. ASSUME NEW j \in Irps, irp[j] = "parked", j # i
      PROVE  \E m \in 1..Len(queue') : queue'[m] = j
  <2>1. PICK m \in 1..Len(queue) : queue[m] = j
    BY <1>7
  <2>2. CASE m < k
    <3>1. m \in 1..Len(queue') /\ queue'[m] = j
      BY <1>2, <2>1, <2>2
    <3> QED BY <3>1
  <2>3. CASE m > k
    <3>1. m - 1 \in 1..Len(queue') /\ queue'[m - 1] = j
      BY <1>2, <2>1, <2>3
    <3> QED BY <3>1
  <2>4. m # k
    BY <1>1, <1>7, <2>1
  <2> QED BY SMTT(40), <2>2, <2>3, <2>4
<1>8. ASSUME NEW j \in 1..Len(queue'), NEW m \in 1..Len(queue'),
             queue'[j] = queue'[m]
      PROVE  j = m
  <2>1. Len(queue) \in Nat /\ \A a, b \in 1..Len(queue) : queue[a] = queue[b] => a = b
    OBVIOUS
  <2> QED
    BY ONLY <1>1, <1>2, <1>8, <2>1, SMTT(30)
<1> QED BY SMTT(40), <1>2, <1>4, <1>5, <1>6, <1>7, <1>8

-----------------------------------------------------------------------------
(* The inductive invariant, one lemma per conjunct.                        *)

\* It holds at the start.
LEMMA InitInv == Init => IInv
<1> SUFFICES ASSUME Init PROVE IInv
  OBVIOUS
<1>1. TypeOK
  <2>1. irp \in [Irps -> IrpStates] /\ system_buffer \in [Irps -> Reports \cup {NoReport}]
    BY DEF Init, IrpStates, Completed
  <2>2. /\ pc \in [Threads -> {"idle", "defer", "link"}]
        /\ buffer \in [Threads -> Reports \cup {NoReport}]
    BY DEF Init
  <2>3. /\ queue \in Seq(Irps) /\ queue_count \in Nat
        /\ deferred \in Seq(Reports) /\ deferred_count \in Nat
        /\ delivered \in Seq(Reports)
    BY DEF Init
  <2>4. /\ cancel \in SUBSET Irps /\ pool \in SUBSET Reports
        /\ sent \in SUBSET Reports /\ bugcheck \in BOOLEAN
    BY ZenonT(40) DEF Init
  <2> QED BY <2>1, <2>2, <2>3, <2>4 DEF TypeOK
<1>2. ParkedRequestsAreLinked
  BY DEF Init, ParkedRequestsAreLinked
<1>3. ReportInOnePlace
  BY DEF Init, ReportInOnePlace
<1>5. SentInv
  BY DEF Init, SentInv
<1>4. LinkingInv
  <2>1. Linking = {}
    BY DEF Init, Linking
  <2>2. Cardinality(Linking) = 0 /\ Cardinality(Threads) \in Nat
    BY <2>1, FS_EmptySet, FS_CardinalityType, IrpQueueAssumption
  <2> QED BY <2>2, IrpQueueAssumption DEF Init, LinkingInv
<1> QED BY <1>1, <1>2, <1>3, <1>4, <1>5 DEF IInv

\* Every step keeps the types.  Only IrpQueueRemove needs more than TypeOK:
\* the count stays a natural number because it is the length of the queue.
LEMMA TypeStep == IInv /\ Next => TypeOK'
<1> SUFFICES ASSUME IInv, Next PROVE TypeOK'
  OBVIOUS
<1> USE DEF IInv, TypeOK, IrpStates, Completed, client_vars, thread_vars
<1>1. ASSUME NEW i \in Irps, InsertIrpIoctl(i) PROVE TypeOK'
  BY SMTT(40), <1>1 DEF InsertIrpIoctl
<1>2. ASSUME NEW i \in Irps, IrpQueueQueryPendingReports(i) PROVE TypeOK'
  <2> USE <1>2 DEF IrpQueueQueryPendingReports,
                   IrpQueueIsThereDeferredReport, IrpQueueRemoveDeferredReport
  <2>1. CASE ~IrpQueueIsThereDeferredReport
    BY <2>1
  <2>2. CASE IrpQueueIsThereDeferredReport /\ deferred # <<>>
    <3>1. Head(deferred) \in Reports /\ Tail(deferred) \in Seq(Reports)
      BY <2>2, TailProperties
    <3>2. CASE ValidateIrpOutputBuffer(i, Head(deferred))
      <4>1. delivered' \in Seq(Reports) /\ deferred' \in Seq(Reports)
        <5>1. delivered' = Append(delivered, Head(deferred))
          BY <2>2, <3>2 DEF CompleteWithReport
        <5>2. deferred' = Tail(deferred)
          BY <2>2, <3>2
        <5> QED BY <3>1, <5>1, <5>2, AppendProperties
      <4>2. deferred_count' \in Nat
        BY <2>2, <3>2
      <4>3. irp' \in [Irps -> IrpStates]
        BY <2>2, <3>1, <3>2 DEF CompleteWithReport
      <4>4. system_buffer' \in [Irps -> Reports \cup {NoReport}]
        BY SMTT(40), <2>2, <3>1, <3>2 DEF CompleteWithReport
      <4> QED BY SMTT(40), <2>2, <3>2, <4>1, <4>2, <4>3, <4>4
    <3>3. CASE ~ValidateIrpOutputBuffer(i, Head(deferred))
      BY ZenonT(40), <2>2, <3>1, <3>3
    <3> QED BY <3>2, <3>3
  <2>3. CASE IrpQueueIsThereDeferredReport /\ deferred = <<>>
    BY ZenonT(40), <2>3
  <2> QED BY <2>1, <2>2, <2>3
<1>3. ASSUME NEW i \in Irps, IrpQueueInsert(i) PROVE TypeOK'
  <2>1. CASE i \in cancel
    BY <1>3, <2>1 DEF IrpQueueInsert, CompleteWithError
  <2>2. CASE i \notin cancel
    <3>1. queue' \in Seq(Irps)
      <4>1. queue' = Append(queue, i)
        BY <1>3, <2>2 DEF IrpQueueInsert
      <4>2. queue \in Seq(Irps)
        OBVIOUS
      <4> QED BY ONLY <1>3, <4>1, <4>2, AppendProperties
    <3>2. queue_count' \in Nat /\ irp' \in [Irps -> IrpStates]
      BY SMTT(40), <1>3, <2>2 DEF IrpQueueInsert
    <3> QED BY <1>3, <2>2, <3>1, <3>2 DEF IrpQueueInsert
  <2> QED BY <2>1, <2>2
<1>4. ASSUME NEW i \in Irps, IrpQueueCompleteCancelledIrp(i) PROVE TypeOK'
  BY <1>4, RemoveProperties
  DEF IrpQueueCompleteCancelledIrp, CompleteWithError
<1>5. ASSUME NEW i \in Irps, PickUp(i) PROVE TypeOK'
  BY <1>5 DEF PickUp
<1>6. ASSUME NEW t \in Threads, NEW r \in Reports, IrpQueueCompleteIrp(t, r)
      PROVE TypeOK'
  <2>1. CASE queue_count = 0
    BY SMTT(40), <1>6, <2>1 DEF IrpQueueCompleteIrp
  <2>2. CASE queue_count > 0
    <3>1. queue # <<>> /\ Head(queue) \in Irps
      BY <2>2, TailProperties DEF ParkedRequestsAreLinked
    <3>2. queue' \in Seq(Irps) /\ queue_count' \in Nat
      BY <1>6, <2>2, <3>1, RemoveProperties DEF IrpQueueCompleteIrp
    <3>3. CASE ValidateIrpOutputBuffer(Head(queue), r)
      <4>1. delivered' \in Seq(Reports)
        <5>1. delivered' = Append(delivered, r)
          BY SMTT(40), <1>6, <2>2, <3>3 DEF IrpQueueCompleteIrp, CompleteWithReport
        <5> QED BY <5>1, AppendProperties
      <4>2. irp' \in [Irps -> IrpStates]
        BY SMTT(40), <1>6, <2>2, <3>1, <3>3 DEF IrpQueueCompleteIrp, CompleteWithReport
      <4>3. system_buffer' \in [Irps -> Reports \cup {NoReport}]
        BY SMTT(40), <1>6, <2>2, <3>1, <3>3 DEF IrpQueueCompleteIrp, CompleteWithReport
      <4> QED BY SMTT(40), <1>6, <2>2, <3>2, <4>1, <4>2, <4>3 DEF IrpQueueCompleteIrp
    <3>4. CASE ~ValidateIrpOutputBuffer(Head(queue), r)
      BY ZenonT(40), <1>6, <2>2, <3>1, <3>2, <3>4 DEF IrpQueueCompleteIrp, CompleteWithError
    <3> QED BY <3>3, <3>4
  <2> QED BY <2>1, <2>2
<1>7. ASSUME NEW t \in Threads, IrpQueueDeferReport(t) PROVE TypeOK'
  BY SMTT(40), <1>7 DEF IrpQueueDeferReport, Return
<1>8. ASSUME NEW t \in Threads, LinkDeferredReport(t) PROVE TypeOK'
  <2>1. buffer[t] \in Reports
    BY <1>8, IrpQueueAssumption DEF LinkDeferredReport, ReportInOnePlace
  <2> QED BY <1>8, <2>1 DEF LinkDeferredReport, Return
<1> QED BY <1>1, <1>2, <1>3, <1>4, <1>5, <1>6, <1>7, <1>8
        DEF Next, IrpStep, ThreadStep

\* Every step keeps the queue and the requests' states in agreement.
LEMMA ParkedStep == IInv /\ Next => ParkedRequestsAreLinked'
<1> SUFFICES ASSUME IInv, Next PROVE ParkedRequestsAreLinked'
  OBVIOUS
<1> USE DEF IInv, TypeOK, IrpStates, Completed, client_vars, thread_vars
<1>1. ASSUME NEW i \in Irps, InsertIrpIoctl(i)
      PROVE ParkedRequestsAreLinked'
  BY <1>1 DEF InsertIrpIoctl, ParkedRequestsAreLinked
<1>2. ASSUME NEW i \in Irps, IrpQueueQueryPendingReports(i)
      PROVE ParkedRequestsAreLinked'
  <2>1. /\ queue' = queue /\ queue_count' = queue_count
        /\ \A j \in Irps : irp'[j] = "parked" <=> irp[j] = "parked"
    BY <1>2 DEF IrpQueueQueryPendingReports, CompleteWithReport
  <2> QED BY <2>1 DEF ParkedRequestsAreLinked
<1>3. ASSUME NEW i \in Irps, IrpQueueInsert(i)
      PROVE ParkedRequestsAreLinked'
  <2>1. CASE i \in cancel
    BY SMTT(40), <1>3, <2>1
    DEF IrpQueueInsert, CompleteWithError, ParkedRequestsAreLinked
  <2>2. CASE i \notin cancel
    <3>1. /\ queue' = Append(queue, i) /\ queue_count' = queue_count + 1
          /\ irp' = [irp EXCEPT ![i] = "parked"] /\ irp[i] = "insert"
      BY <1>3, <2>2 DEF IrpQueueInsert
    <3>2. /\ Len(queue') = Len(queue) + 1
          /\ \A j \in 1..Len(queue) : queue'[j] = queue[j]
          /\ queue'[Len(queue) + 1] = i
      BY <3>1, AppendProperties
    <3>3. queue_count' = Len(queue')
      BY <3>1, <3>2 DEF ParkedRequestsAreLinked
    <3>4. ASSUME NEW j \in Irps
          PROVE  irp'[j] = "parked" <=> \E k \in 1..Len(queue') : queue'[k] = j
      <4>1. CASE j = i
        BY <3>1, <3>2, <4>1
      <4>2. CASE j # i
        <5>1. irp'[j] = irp[j]
          BY <3>1, <4>2
        <5>2. (\E k \in 1..Len(queue') : queue'[k] = j)
                <=> \E k \in 1..Len(queue) : queue[k] = j
          BY <3>2, <4>2
        <5> QED BY <5>1, <5>2 DEF ParkedRequestsAreLinked
      <4> QED BY ZenonT(40), <4>1, <4>2
    <3>5. \A k \in 1..Len(queue) : queue[k] # i
      BY <3>1 DEF ParkedRequestsAreLinked
    <3>6. \A j, k \in 1..Len(queue') : queue'[j] = queue'[k] => j = k
      BY <3>2, <3>5 DEF ParkedRequestsAreLinked
    <3> QED BY SMTT(40), <3>3, <3>4, <3>6 DEF ParkedRequestsAreLinked
  <2> QED BY <2>1, <2>2
<1>4. ASSUME NEW i \in Irps, IrpQueueCompleteCancelledIrp(i)
      PROVE ParkedRequestsAreLinked'
  <2>1. CASE irp[i] = "parked"
    <3>1. IrpQueueRemove(i) /\ irp' = [irp EXCEPT ![i] = "cancelled"]
      BY <1>4, <2>1 DEF IrpQueueCompleteCancelledIrp, CompleteWithError
    <3> QED BY <3>1, RemoveProperties DEF ParkedRequestsAreLinked
  <2>2. CASE irp[i] # "parked"
    BY <1>4, <2>2 DEF IrpQueueCompleteCancelledIrp, ParkedRequestsAreLinked
  <2> QED BY SMTT(40), <2>1, <2>2
<1>5. ASSUME NEW i \in Irps, PickUp(i) PROVE ParkedRequestsAreLinked'
  BY <1>5 DEF PickUp, ParkedRequestsAreLinked
<1>6. ASSUME NEW t \in Threads, NEW r \in Reports, IrpQueueCompleteIrp(t, r)
      PROVE ParkedRequestsAreLinked'
  <2>1. CASE queue_count = 0
    <3>1. queue' = queue /\ queue_count' = queue_count /\ irp' = irp
      BY SMTT(40), <1>6, <2>1 DEF IrpQueueCompleteIrp
    <3> QED BY <3>1 DEF ParkedRequestsAreLinked
  <2>2. CASE queue_count > 0
    <3>1. queue # <<>> /\ Head(queue) \in Irps
      BY <2>2, TailProperties DEF ParkedRequestsAreLinked
    <3>2. \E s \in Completed : irp' = [irp EXCEPT ![Head(queue)] = s]
      <4>1. CASE ValidateIrpOutputBuffer(Head(queue), r)
        <5>1. irp' = [irp EXCEPT ![Head(queue)] = "success"]
          BY <1>6, <2>2, <4>1 DEF IrpQueueCompleteIrp, CompleteWithReport
        <5> QED BY <5>1
      <4>2. CASE ~ValidateIrpOutputBuffer(Head(queue), r)
        BY <1>6, <2>2, <4>2 DEF IrpQueueCompleteIrp, CompleteWithError
      <4> QED BY <4>1, <4>2
    <3>3. IrpQueueRemove(Head(queue))
      BY <1>6, <2>2 DEF IrpQueueCompleteIrp
    <3> QED BY SMTT(40), <3>1, <3>2, <3>3, RemoveProperties DEF ParkedRequestsAreLinked
  <2> QED BY <2>1, <2>2
<1>7. ASSUME NEW t \in Threads, IrpQueueDeferReport(t)
      PROVE ParkedRequestsAreLinked'
  BY <1>7 DEF IrpQueueDeferReport, ParkedRequestsAreLinked
<1>8. ASSUME NEW t \in Threads, LinkDeferredReport(t)
      PROVE ParkedRequestsAreLinked'
  BY <1>8 DEF LinkDeferredReport, ParkedRequestsAreLinked
<1> QED BY <1>1, <1>2, <1>3, <1>4, <1>5, <1>6, <1>7, <1>8
        DEF Next, IrpStep, ThreadStep

\* Every step keeps each report buffer in one place.
LEMMA PlaceStep == IInv /\ Next => ReportInOnePlace'
<1> SUFFICES ASSUME IInv, Next PROVE ReportInOnePlace'
  OBVIOUS
<1> USE DEF IInv, TypeOK, client_vars, thread_vars
<1>1. ASSUME UNCHANGED <<pc, buffer, pool, deferred, delivered, sent>>
      PROVE  ReportInOnePlace'
  BY <1>1 DEF ReportInOnePlace
<1>2. ASSUME NEW i \in Irps, IrpQueueQueryPendingReports(i)
      PROVE  ReportInOnePlace'
  <2>1. CASE ~IrpQueueIsThereDeferredReport \/ deferred = <<>>
    BY SMTT(40), <1>1, <1>2, <2>1 DEF IrpQueueQueryPendingReports
  <2>2. CASE IrpQueueIsThereDeferredReport /\ deferred # <<>>
    <3> DEFINE r == Head(deferred)
    <3>1. /\ deferred' = Tail(deferred) /\ pool' = pool \ {r}
          /\ pc' = pc /\ buffer' = buffer /\ sent' = sent
          /\ delivered' = delivered \/ delivered' = Append(delivered, r)
      BY <1>2, <2>2 DEF IrpQueueQueryPendingReports, CompleteWithReport,
                        IrpQueueRemoveDeferredReport
    <3>2. /\ r \in Reports /\ r = deferred[1] /\ Len(deferred) >= 1
          /\ Len(deferred') = Len(deferred) - 1
          /\ \A j \in 1..(Len(deferred) - 1) : deferred'[j] = deferred[j + 1]
      BY SMTT(40), <2>2, <3>1, TailProperties
    <3> HIDE DEF r
    <3>3. r \in pool /\ r \in sent
      BY SMTT(40), <3>2 DEF ReportInOnePlace, SentInv
    <3>4. /\ \A t \in Threads : pc[t] # "idle" => buffer[t] # r
          /\ \A k \in 1..Len(deferred') :
                deferred'[k] \in pool' /\ deferred'[k] # r
      BY SMTT(40), <3>1, <3>2 DEF ReportInOnePlace
    <3>5. \A t \in Threads : pc'[t] # "idle" => buffer'[t] \in pool'
      BY <3>1, <3>4 DEF ReportInOnePlace
    <3>6. \A t, u \in Threads :
            pc'[t] # "idle" /\ pc'[u] # "idle" /\ buffer'[t] = buffer'[u] => t = u
      BY SMTT(40), <3>1 DEF ReportInOnePlace
    <3>7. \A k \in 1..Len(deferred'), t \in Threads :
            pc'[t] # "idle" => deferred'[k] # buffer'[t]
      BY SMTT(40), <3>1, <3>2 DEF ReportInOnePlace
    <3>8. \A j, k \in 1..Len(deferred') : deferred'[j] = deferred'[k] => j = k
      BY <3>1, <3>2 DEF ReportInOnePlace
    <3>9. /\ \A k \in 1..Len(delivered') : delivered'[k] \in sent' \ pool'
          /\ \A j, k \in 1..Len(delivered') : delivered'[j] = delivered'[k] => j = k
      <4>1. CASE delivered' = delivered
        BY <3>1, <4>1 DEF ReportInOnePlace
      <4>2. CASE delivered' = Append(delivered, r)
        <5>1. /\ Len(delivered') = Len(delivered) + 1
              /\ \A j \in 1..Len(delivered) : delivered'[j] = delivered[j]
              /\ delivered'[Len(delivered) + 1] = r
          BY SMTT(40), <3>2, <4>2, AppendProperties
        <5>2. \A k \in 1..Len(delivered) : delivered[k] \in sent \ pool
          BY DEF ReportInOnePlace
        <5>3. \A k \in 1..Len(delivered) : delivered[k] # r
          BY SMTT(40), <3>3, <5>2
        <5>4. \A j, k \in 1..Len(delivered') : delivered'[j] = delivered'[k] => j = k
          BY <3>2, <4>2, <5>3, AppendFresh DEF ReportInOnePlace
        <5>5. ASSUME NEW k \in 1..Len(delivered')
              PROVE  delivered'[k] \in sent' \ pool'
          <6>1. k \in 1..Len(delivered) \/ k = Len(delivered) + 1
            BY <5>1
          <6> QED BY SMTT(40), <3>1, <3>3, <5>1, <5>2, <6>1
        <5> QED BY SMTT(40), <5>4, <5>5
      <4> QED BY SMTT(40), <3>1, <4>1, <4>2
    <3> QED BY SMTT(40), <3>4, <3>5, <3>6, <3>7, <3>8, <3>9 DEF ReportInOnePlace
  <2> QED BY <2>1, <2>2
<1>3. ASSUME NEW t \in Threads, NEW r \in Reports, IrpQueueCompleteIrp(t, r)
      PROVE  ReportInOnePlace'
  <2>1. /\ pc[t] = "idle" /\ r \notin sent /\ sent' = sent \cup {r}
        /\ deferred' = deferred /\ r \notin pool
    BY SMTT(40), <1>3 DEF IrpQueueCompleteIrp, SentInv
  <2>2. CASE queue_count = 0
    <3>1. /\ pc' = [pc EXCEPT ![t] = "defer"] /\ buffer' = [buffer EXCEPT ![t] = r]
          /\ pool' = pool \cup {r} /\ delivered' = delivered
      BY SMTT(40), <1>3, <2>2 DEF IrpQueueCompleteIrp
    <3> QED BY <2>1, <3>1 DEF ReportInOnePlace
  <2>3. CASE queue_count > 0
    <3>1. /\ pc' = pc /\ buffer' = buffer /\ pool' = pool
          /\ delivered' = delivered \/ delivered' = Append(delivered, r)
      BY <1>3, <2>3
      DEF IrpQueueCompleteIrp, CompleteWithReport, CompleteWithError
    <3>2. /\ \A k \in 1..Len(delivered') : delivered'[k] \in sent' \ pool'
          /\ \A j, k \in 1..Len(delivered') : delivered'[j] = delivered'[k] => j = k
      <4>1. CASE delivered' = delivered
        BY <2>1, <3>1, <4>1 DEF ReportInOnePlace
      <4>2. CASE delivered' = Append(delivered, r)
        <5>1. /\ Len(delivered') = Len(delivered) + 1
              /\ \A j \in 1..Len(delivered) : delivered'[j] = delivered[j]
              /\ delivered'[Len(delivered) + 1] = r
          BY SMTT(40), <4>2, AppendProperties
        <5>2. \A k \in 1..Len(delivered) : delivered[k] \in sent \ pool
          BY DEF ReportInOnePlace
        <5>3. \A k \in 1..Len(delivered) : delivered[k] # r
          BY SMTT(40), <2>1, <5>2
        <5>4. \A j, k \in 1..Len(delivered') : delivered'[j] = delivered'[k] => j = k
          <6>1. \A j, k \in 1..Len(delivered) : delivered[j] = delivered[k] => j = k
            BY DEF ReportInOnePlace
          <6>2. Len(delivered) \in Nat
            BY DEF TypeOK
          <6> QED
            BY ONLY <5>1, <5>3, <6>1, <6>2, SMTT(30)
        <5>5. ASSUME NEW k \in 1..Len(delivered')
              PROVE  delivered'[k] \in sent' \ pool'
          <6>1. k \in 1..Len(delivered) \/ k = Len(delivered) + 1
            BY SMTT(40), <5>1
          <6> QED BY SMTT(40), <2>1, <3>1, <5>1, <5>2, <6>1
        <5> QED BY <5>4, <5>5
      <4> QED BY SMTT(40), <3>1, <4>1, <4>2
    <3> QED BY <2>1, <3>1, <3>2 DEF ReportInOnePlace
  <2> QED BY SMTT(40), <2>2, <2>3
<1>4. ASSUME NEW t \in Threads, IrpQueueDeferReport(t)
      PROVE  ReportInOnePlace'
  <2>1. /\ pc[t] = "defer"
        /\ deferred' = deferred /\ delivered' = delivered /\ sent' = sent
        /\ \/ pc' = [pc EXCEPT ![t] = "link"] /\ buffer' = buffer /\ pool' = pool
           \/ /\ pc' = [pc EXCEPT ![t] = "idle"]
              /\ buffer' = [buffer EXCEPT ![t] = NoReport]
              /\ pool' = pool \/ pool' = pool \ {buffer[t]}
    BY <1>4 DEF IrpQueueDeferReport, Return
  <2>2. CASE pc' = [pc EXCEPT ![t] = "link"] /\ buffer' = buffer /\ pool' = pool
    BY SMTT(40), <2>1, <2>2 DEF ReportInOnePlace
  <2>3. CASE /\ pc' = [pc EXCEPT ![t] = "idle"]
             /\ buffer' = [buffer EXCEPT ![t] = NoReport]
             /\ pool' = pool \/ pool' = pool \ {buffer[t]}
    <3>1. \A u \in Threads : pc'[u] # "idle" =>
              u # t /\ pc[u] # "idle" /\ buffer'[u] = buffer[u]
      BY SMTT(40), <2>3
    <3>2. \A u \in Threads : pc'[u] # "idle" => buffer'[u] \in pool'
      BY SMTT(40), <2>1, <2>3, <3>1 DEF ReportInOnePlace
    <3>3. \A k \in 1..Len(deferred') : deferred'[k] \in pool'
      BY SMTT(40), <2>1, <2>3 DEF ReportInOnePlace
    <3>4. \A k \in 1..Len(delivered') : delivered'[k] \in sent' \ pool'
      BY SMTT(40), <2>1, <2>3 DEF ReportInOnePlace
    <3> QED BY SMTT(40), <2>1, <3>1, <3>2, <3>3, <3>4 DEF ReportInOnePlace
  <2> QED BY <2>1, <2>2, <2>3
<1>5. ASSUME NEW t \in Threads, LinkDeferredReport(t)
      PROVE  ReportInOnePlace'
  <2>1. /\ pc[t] = "link" /\ pc' = [pc EXCEPT ![t] = "idle"]
        /\ buffer' = [buffer EXCEPT ![t] = NoReport] /\ pool' = pool
        /\ delivered' = delivered /\ sent' = sent
        /\ deferred' = Append(deferred, buffer[t])
    BY SMTT(40), <1>5 DEF LinkDeferredReport, Return
  <2>2. buffer[t] \in Reports
    BY SMTT(40), <2>1 DEF ReportInOnePlace
  <2>3. /\ Len(deferred') = Len(deferred) + 1
        /\ \A j \in 1..Len(deferred) : deferred'[j] = deferred[j]
        /\ deferred'[Len(deferred) + 1] = buffer[t]
    BY SMTT(40), <2>1, <2>2, AppendProperties
  <2>4. \A u \in Threads : pc'[u] # "idle" => u # t /\ pc[u] # "idle" /\ buffer'[u] = buffer[u]
    BY SMTT(40), <2>1
  <2>5. /\ \A k \in 1..Len(deferred') : deferred'[k] \in pool'
        /\ \A j, k \in 1..Len(deferred') : deferred'[j] = deferred'[k] => j = k
    BY SMTT(40), <2>1, <2>3 DEF ReportInOnePlace
  <2>6. \A k \in 1..Len(deferred'), u \in Threads :
          pc'[u] # "idle" => deferred'[k] # buffer'[u]
    BY SMTT(40), <2>1, <2>3, <2>4 DEF ReportInOnePlace
  <2> QED BY SMTT(40), <2>1, <2>4, <2>5, <2>6 DEF ReportInOnePlace
<1>6. ASSUME NEW i \in Irps,
             \/ InsertIrpIoctl(i) \/ IrpQueueInsert(i)
             \/ IrpQueueCompleteCancelledIrp(i) \/ PickUp(i)
      PROVE  UNCHANGED <<pc, buffer, pool, deferred, delivered, sent>>
  BY <1>6 DEF InsertIrpIoctl, IrpQueueInsert, IrpQueueCompleteCancelledIrp,
              PickUp, CompleteWithError
<1> QED BY SMTT(40), <1>1, <1>2, <1>3, <1>4, <1>5, <1>6 DEF Next, IrpStep, ThreadStep

\* Allocated buffers were handed over, and the count covers the list.
LEMMA SentStep == IInv /\ Next => SentInv'
<1> SUFFICES ASSUME IInv, Next PROVE SentInv'
  OBVIOUS
<1> USE DEF IInv, TypeOK, client_vars, thread_vars, SentInv
<1>1. ASSUME NEW i \in Irps, IrpQueueQueryPendingReports(i) PROVE SentInv'
  <2>1. CASE ~IrpQueueIsThereDeferredReport \/ deferred = <<>>
    BY <1>1, <2>1 DEF IrpQueueQueryPendingReports
  <2>2. CASE IrpQueueIsThereDeferredReport /\ deferred # <<>>
    <3>1. /\ deferred' = Tail(deferred) /\ pool' \subseteq pool /\ sent' = sent
          /\ deferred_count' = deferred_count \/ deferred_count' = deferred_count - 1
      BY SMTT(40), <1>1, <2>2
      DEF IrpQueueQueryPendingReports, IrpQueueRemoveDeferredReport
    <3> QED BY SMTT(40), <2>2, <3>1, TailProperties
  <2> QED BY SMTT(40), <2>1, <2>2
<1>2. ASSUME NEW t \in Threads, NEW r \in Reports, IrpQueueCompleteIrp(t, r)
      PROVE  SentInv'
  BY <1>2 DEF IrpQueueCompleteIrp
<1>3. ASSUME NEW t \in Threads, IrpQueueDeferReport(t) PROVE SentInv'
  BY SMTT(40), <1>3 DEF IrpQueueDeferReport
<1>4. ASSUME NEW t \in Threads, LinkDeferredReport(t) PROVE SentInv'
  <2>1. /\ deferred' = Append(deferred, buffer[t]) /\ buffer[t] \in Reports
        /\ deferred_count' = deferred_count + 1 /\ pool' = pool /\ sent' = sent
    BY SMTT(40), <1>4 DEF LinkDeferredReport, ReportInOnePlace
  <2> QED BY SMTT(40), <2>1, AppendProperties
<1>5. ASSUME NEW i \in Irps,
             \/ InsertIrpIoctl(i) \/ IrpQueueInsert(i)
             \/ IrpQueueCompleteCancelledIrp(i) \/ PickUp(i)
      PROVE  SentInv'
  BY <1>5 DEF InsertIrpIoctl, IrpQueueInsert, IrpQueueCompleteCancelledIrp, PickUp
<1> QED BY <1>1, <1>2, <1>3, <1>4, <1>5 DEF Next, IrpStep, ThreadStep

\* A thread enters Linking only while the list is within the limit, and links
\* one report as it leaves.
LEMMA LinkingStep == IInv /\ Next => LinkingInv'
<1> SUFFICES ASSUME IInv, Next PROVE LinkingInv'
  OBVIOUS
<1> USE DEF IInv, TypeOK, client_vars, thread_vars
<1>0. /\ IsFiniteSet(Linking) /\ Cardinality(Linking) \in Nat
      /\ Cardinality(Threads) \in Nat /\ MAX_DEFERRED_REPORTS_COUNT \in Nat
  <2>1. Linking \subseteq Threads
    BY DEF Linking
  <2> QED BY SMTT(40), <2>1, FS_Subset, FS_CardinalityType, IrpQueueAssumption
<1>1. ASSUME NEW i \in Irps, IrpQueueQueryPendingReports(i) PROVE LinkingInv'
  <2>1. Len(deferred') <= Len(deferred) /\ Len(deferred') \in Nat
    BY SMTT(40), <1>1, TailProperties
    DEF IrpQueueQueryPendingReports, IrpQueueRemoveDeferredReport
  <2>2. Linking' = Linking
    BY <1>1 DEF IrpQueueQueryPendingReports, Linking
  <2> QED BY SMTT(40), <1>0, <2>1, <2>2 DEF LinkingInv
<1>2. ASSUME NEW t \in Threads, NEW r \in Reports, IrpQueueCompleteIrp(t, r)
      PROVE  LinkingInv'
  <2>1. deferred' = deferred
    BY SMTT(40), <1>2 DEF IrpQueueCompleteIrp
  <2>2. Linking' = Linking
    BY <1>2 DEF IrpQueueCompleteIrp, Linking
  <2> QED BY SMTT(40), <2>1, <2>2 DEF LinkingInv
<1>3. ASSUME NEW t \in Threads, IrpQueueDeferReport(t) PROVE LinkingInv'
  <2>1. CASE pc'[t] = "link"
    <3>1. deferred_count <= MAX_DEFERRED_REPORTS_COUNT /\ deferred' = deferred
      BY SMTT(40), <1>0, <1>3, <2>1 DEF IrpQueueDeferReport, Return, DeferredListFull
    <3>2. Linking' \subseteq Threads
      BY SMTT(40) DEF Linking
    <3>3. Cardinality(Linking') <= Cardinality(Threads) /\ Cardinality(Linking') \in Nat
      BY SMTT(40), <3>2, FS_Subset, FS_CardinalityType, IrpQueueAssumption
    <3> QED BY SMTT(40), <1>0, <3>1, <3>3 DEF LinkingInv, SentInv
  <2>2. CASE pc'[t] # "link"
    <3>1. Linking' = Linking /\ deferred' = deferred
      BY <1>3, <2>2 DEF IrpQueueDeferReport, Return, Linking
    <3> QED BY SMTT(40), <3>1 DEF LinkingInv
  <2> QED BY SMTT(40), <2>1, <2>2
<1>4. ASSUME NEW t \in Threads, LinkDeferredReport(t) PROVE LinkingInv'
  <2>1. t \in Linking /\ Linking' = Linking \ {t}
    BY <1>4 DEF LinkDeferredReport, Return, Linking
  <2>2. Cardinality(Linking') = Cardinality(Linking) - 1
    BY ZenonT(40), <1>0, <2>1, FS_RemoveElement
  <2>3. Len(deferred') = Len(deferred) + 1
    BY <1>4, AppendProperties DEF LinkDeferredReport, ReportInOnePlace
  <2> QED BY SMTT(40), <1>0, <2>2, <2>3 DEF LinkingInv
<1>5. ASSUME NEW i \in Irps,
             \/ InsertIrpIoctl(i) \/ IrpQueueInsert(i)
             \/ IrpQueueCompleteCancelledIrp(i) \/ PickUp(i)
      PROVE  LinkingInv'
  <2>1. deferred' = deferred /\ pc' = pc
    BY <1>5 DEF InsertIrpIoctl, IrpQueueInsert, IrpQueueCompleteCancelledIrp, PickUp
  <2> QED BY <2>1 DEF LinkingInv, Linking
<1> QED BY SMTT(40), <1>1, <1>2, <1>3, <1>4, <1>5 DEF Next, IrpStep, ThreadStep

\* The invariant is inductive.
LEMMA StepInv == IInv /\ [Next]_vars => IInv'
<1> SUFFICES ASSUME IInv, [Next]_vars PROVE IInv'
  OBVIOUS
<1>1. CASE Next
  BY SMTT(40), <1>1, TypeStep, ParkedStep, PlaceStep, SentStep, LinkingStep DEF IInv
<1>2. CASE UNCHANGED vars
  BY <1>2 DEF vars, IInv, TypeOK, ParkedRequestsAreLinked, ReportInOnePlace,
              SentInv, LinkingInv, Linking
<1> QED BY <1>1, <1>2

-----------------------------------------------------------------------------
(* The theorems.                                                           *)

\* The inductive invariant holds always.
LEMMA Invariance == Spec => []IInv
BY InitInv, StepInv, PTL DEF Spec

\* The types hold, and so does the agreement of queue and requests, for any
\* number of requests, threads and reports: a parked request is linked once
\* and the count IrpQueuePeekNextEntry trusts is the length of the queue.
THEOREM ParkedRequestsTheorem == Spec => [](TypeOK /\ ParkedRequestsAreLinked)
<1>1. IInv => TypeOK /\ ParkedRequestsAreLinked
  BY DEF IInv
<1> QED BY <1>1, Invariance, PTL

\* No report buffer is used after it was freed, and no report is delivered
\* twice, whatever the buffer sizes.
THEOREM ReportInOnePlaceTheorem == Spec => []ReportInOnePlace
<1>1. IInv => ReportInOnePlace
  BY SMTT(40) DEF IInv
<1> QED BY <1>1, Invariance, PTL

\* The race on the unlocked limit test in IrpQueueDeferReport costs at most
\* one report per thread beyond the limit.
THEOREM DeferredBoundTheorem == Spec => []DeferredReportsBounded
<1>1. IInv => DeferredReportsBounded
  <2>1. Linking \subseteq Threads
    BY DEF Linking
  <2>2. Cardinality(Linking) \in Nat /\ Cardinality(Threads) \in Nat
    BY SMTT(40), <2>1, FS_Subset, FS_CardinalityType, IrpQueueAssumption
  <2> QED BY <2>2, IrpQueueAssumption
          DEF IInv, TypeOK, LinkingInv, DeferredReportsBounded
<1> QED BY <1>1, Invariance, PTL

-----------------------------------------------------------------------------
(* With requests that can hold every report, as the user-mode module issues *)
(* them, the count is exact and nothing is removed from an empty list.      *)

EveryReportFits ==
    \A i \in Irps, r \in Reports : ValidateIrpOutputBuffer(i, r)

CountIsExact == deferred_count = Len(deferred) /\ ~bugcheck

\* When every report fits, every step keeps the count exact.
LEMMA CountStep ==
    ASSUME EveryReportFits
    PROVE  IInv /\ CountIsExact /\ [Next]_vars => CountIsExact'
<1> SUFFICES ASSUME IInv, CountIsExact, [Next]_vars PROVE CountIsExact'
  OBVIOUS
<1> USE DEF IInv, TypeOK, client_vars, thread_vars, CountIsExact
<1>1. ASSUME NEW i \in Irps, IrpQueueQueryPendingReports(i) PROVE CountIsExact'
  <2>1. CASE ~IrpQueueIsThereDeferredReport
    BY SMTT(40), <1>1, <2>1 DEF IrpQueueQueryPendingReports
  <2>2. CASE IrpQueueIsThereDeferredReport
    <3>1. deferred # <<>> /\ ValidateIrpOutputBuffer(i, Head(deferred))
      BY SMTT(40), <2>2, TailProperties DEF IrpQueueIsThereDeferredReport, EveryReportFits
    <3>2. /\ deferred' = Tail(deferred) /\ deferred_count' = deferred_count - 1
          /\ bugcheck' = bugcheck
      BY SMTT(40), <1>1, <2>2, <3>1
      DEF IrpQueueQueryPendingReports, IrpQueueRemoveDeferredReport
    <3> QED BY SMTT(40), <3>1, <3>2, TailProperties
  <2> QED BY SMTT(40), <2>1, <2>2
<1>2. ASSUME NEW t \in Threads, NEW r \in Reports, IrpQueueCompleteIrp(t, r)
      PROVE  CountIsExact'
  BY SMTT(40), <1>2 DEF IrpQueueCompleteIrp
<1>3. ASSUME NEW t \in Threads, IrpQueueDeferReport(t) PROVE CountIsExact'
  BY SMTT(40), <1>3 DEF IrpQueueDeferReport
<1>4. ASSUME NEW t \in Threads, LinkDeferredReport(t) PROVE CountIsExact'
  <2>1. /\ deferred' = Append(deferred, buffer[t]) /\ buffer[t] \in Reports
        /\ deferred_count' = deferred_count + 1 /\ bugcheck' = bugcheck
    BY SMTT(40), <1>4 DEF LinkDeferredReport, ReportInOnePlace
  <2> QED BY ZenonT(40), <2>1, AppendProperties
<1>5. ASSUME NEW i \in Irps,
             \/ InsertIrpIoctl(i) \/ IrpQueueInsert(i)
             \/ IrpQueueCompleteCancelledIrp(i) \/ PickUp(i)
      PROVE  CountIsExact'
  BY SMTT(40), <1>5 DEF InsertIrpIoctl, IrpQueueInsert, IrpQueueCompleteCancelledIrp, PickUp
<1>6. CASE UNCHANGED vars
  BY <1>6 DEF vars
<1> QED BY <1>1, <1>2, <1>3, <1>4, <1>5, <1>6 DEF Next, IrpStep, ThreadStep

\* What the comment at io.c:163-170 wants: with requests as large as every
\* report, IrpQueueQueryPendingReports never removes from an empty list.
THEOREM NoBugcheckTheorem ==
    ASSUME EveryReportFits PROVE Spec => []NoBugcheck
<1>1. Init => CountIsExact
  BY DEF Init, CountIsExact
<1>2. CountIsExact => NoBugcheck
  BY SMTT(40) DEF CountIsExact, NoBugcheck
<1> QED BY <1>1, <1>2, CountStep, Invariance, PTL DEF Spec

-----------------------------------------------------------------------------
(* Refinement of ReportChannel.                                            *)

Delivered(r) == \E k \in 1..Len(delivered) : delivered[k] = r

Kept(r) ==
    \/ \E t \in Threads : pc[t] # "idle" /\ buffer[t] = r
    \/ \E k \in 1..Len(deferred) : deferred[k] = r

\* ReportStatus in terms of the two predicates.
LEMMA StatusValue ==
    \A r \in Reports :
        ReportStatus[r] = IF r \notin sent THEN "new"
                          ELSE IF Delivered(r) THEN "delivered"
                          ELSE IF Kept(r) THEN "kept" ELSE "dropped"
BY SMTT(40) DEF ReportStatus, Delivered, Kept

\* The status of each report after a step.
LEMMA StatusValueNext ==
    \A r \in Reports :
        ReportStatus'[r] = IF r \notin sent' THEN "new"
                           ELSE IF Delivered(r)' THEN "delivered"
                           ELSE IF Kept(r)' THEN "kept" ELSE "dropped"
BY ZenonT(40) DEF ReportStatus, Delivered, Kept

\* Reports whose places do not change keep their status.
LEMMA SameStatus ==
    ASSUME NEW x \in Reports, x \in sent <=> x \in sent',
           Delivered(x) <=> Delivered(x)', Kept(x) <=> Kept(x)'
    PROVE  ReportStatus'[x] = ReportStatus[x]
BY StatusValue, StatusValueNext

\* A step that moves one report along the channel is a step of the channel.
LEMMA OneMove ==
    ASSUME NEW r \in Reports,
           \A x \in Reports \ {r} : ReportStatus'[x] = ReportStatus[x],
           \/ ReportStatus'[r] = ReportStatus[r]
           \/ <<ReportStatus[r], ReportStatus'[r]>> \in Channel!Moves
    PROVE  [Channel!Next]_ReportStatus
<1>1. /\ ReportStatus = [x \in Reports |-> ReportStatus[x]]
      /\ ReportStatus' = [x \in Reports |-> ReportStatus'[x]]
  BY ZenonT(40) DEF ReportStatus
<1>2. CASE ReportStatus'[r] = ReportStatus[r]
  <2>1. \A x \in Reports : ReportStatus'[x] = ReportStatus[x]
    BY <1>2
  <2>2. ReportStatus' = ReportStatus
    BY SMTT(40), <1>1, <2>1
  <2> QED BY <2>2
<1>3. CASE <<ReportStatus[r], ReportStatus'[r]>> \in Channel!Moves
  <2>1. ReportStatus' = [ReportStatus EXCEPT ![r] = ReportStatus'[r]]
    BY SMTT(40), <1>1
  <2>2. ReportStatus'[r] \in {"kept", "delivered", "dropped"}
    BY SMTT(40), <1>3 DEF Channel!Moves
  <2>3. Channel!Move(r)
    BY SMTT(40), <1>3, <2>1, <2>2 DEF Channel!Move
  <2> QED BY SMTT(40), <2>3 DEF Channel!Next
<1> QED BY SMTT(40), <1>2, <1>3

\* Every step of the driver moves at most one report along the channel.
LEMMA ChannelStep == IInv /\ [Next]_vars => [Channel!Next]_ReportStatus
<1> SUFFICES ASSUME IInv, [Next]_vars PROVE [Channel!Next]_ReportStatus
  BY SMTT(40)
<1> USE DEF IInv, TypeOK, client_vars, thread_vars
<1>1. ASSUME UNCHANGED <<pc, buffer, deferred, delivered, sent>>
      PROVE  [Channel!Next]_ReportStatus
  BY ZenonT(40), <1>1 DEF ReportStatus
<1>2. ASSUME NEW i \in Irps, IrpQueueQueryPendingReports(i)
      PROVE  [Channel!Next]_ReportStatus
  <2>1. CASE ~IrpQueueIsThereDeferredReport \/ deferred = <<>>
    BY SMTT(40), <1>1, <1>2, <2>1 DEF IrpQueueQueryPendingReports
  <2>2. CASE IrpQueueIsThereDeferredReport /\ deferred # <<>>
    <3>0. PICK r \in Reports : r = Head(deferred)
      BY SMTT(40), <2>2, TailProperties
    <3>1. /\ deferred' = Tail(deferred)
          /\ pc' = pc /\ buffer' = buffer /\ sent' = sent
          /\ delivered' = delivered \/ delivered' = Append(delivered, r)
      BY SMTT(40), <1>2, <2>2, <3>0 DEF IrpQueueQueryPendingReports, CompleteWithReport,
                              IrpQueueRemoveDeferredReport
    <3>2. /\ r \in Reports /\ r = deferred[1] /\ Len(deferred) >= 1
          /\ Len(deferred') = Len(deferred) - 1
          /\ \A j \in 1..(Len(deferred) - 1) : deferred'[j] = deferred[j + 1]
      BY SMTT(40), <2>2, <3>0, <3>1, TailProperties
    <3>3. Kept(r) /\ ~Delivered(r) /\ r \in sent
      <4>1. r \in pool /\ r \in sent
        BY SMTT(40), <3>2 DEF ReportInOnePlace, SentInv
      <4>2. ~Delivered(r)
        BY SMTT(40), <4>1 DEF Delivered, ReportInOnePlace
      <4>3. Kept(r)
        BY SMTT(40), <3>2 DEF Kept
      <4> QED BY SMTT(40), <4>1, <4>2, <4>3
    <3>4. ~Kept(r)'
      <4>1. \A t \in Threads : pc[t] # "idle" => buffer[t] # r
        BY SMTT(40), <3>2 DEF ReportInOnePlace
      <4>2. \A k \in 1..Len(deferred') : deferred'[k] # r
        BY <3>2 DEF ReportInOnePlace
      <4> QED BY SMTT(40), <3>1, <4>1, <4>2 DEF Kept
    <3>5. ASSUME NEW x \in Reports \ {r} PROVE ReportStatus'[x] = ReportStatus[x]
      <4>1. (\E k \in 1..Len(deferred') : deferred'[k] = x)
              <=> \E k \in 1..Len(deferred) : deferred[k] = x
        <5>1. ASSUME NEW k \in 1..Len(deferred), deferred[k] = x
              PROVE  \E m \in 1..Len(deferred') : deferred'[m] = x
          <6>1. k - 1 \in 1..Len(deferred') /\ deferred'[k - 1] = x
            BY <3>2, <5>1
          <6> QED BY <6>1
        <5>2. ASSUME NEW k \in 1..Len(deferred'), deferred'[k] = x
              PROVE  \E m \in 1..Len(deferred) : deferred[m] = x
          <6>1. k + 1 \in 1..Len(deferred) /\ deferred[k + 1] = x
            BY SMTT(40), <3>2, <5>2
          <6> QED BY <6>1
        <5> QED BY ZenonT(40), <5>1, <5>2
      <4>2. Kept(x) <=> Kept(x)'
        BY SMTT(40), <3>1, <4>1 DEF Kept
      <4>3. Delivered(x) <=> Delivered(x)'
        <5>1. CASE delivered' = delivered
          BY SMTT(40), <5>1 DEF Delivered
        <5>2. CASE delivered' = Append(delivered, r)
          <6>1. (\E k \in 1..Len(Append(delivered, r)) : Append(delivered, r)[k] = x)
                  <=> x = r \/ \E k \in 1..Len(delivered) : delivered[k] = x
            BY SMTT(40), <3>2, AppendMembers
          <6> QED BY SMTT(40), <5>2, <6>1 DEF Delivered
        <5> QED BY SMTT(40), <3>1, <5>1, <5>2
      <4> QED BY <3>1, <4>2, <4>3, SameStatus
    <3>6. ReportStatus[r] = "kept" /\ ReportStatus'[r] \in {"delivered", "dropped"}
      <4>1. ReportStatus[r] = "kept"
        BY SMTT(40), <3>2, <3>3, StatusValue
      <4>2. r \in sent'
        BY SMTT(40), <3>1, <3>3
      <4> QED BY SMTT(40), <3>2, <3>4, <4>1, <4>2, StatusValueNext
    <3> QED BY SMTT(40), <3>2, <3>5, <3>6, OneMove DEF Channel!Moves
  <2> QED BY SMTT(40), <2>1, <2>2
<1>3. ASSUME NEW t \in Threads, NEW r \in Reports, IrpQueueCompleteIrp(t, r)
      PROVE  [Channel!Next]_ReportStatus
  <2>1. /\ pc[t] = "idle" /\ r \notin sent /\ sent' = sent \cup {r}
        /\ deferred' = deferred
        /\ \/ pc' = pc /\ buffer' = buffer
           \/ /\ pc' = [pc EXCEPT ![t] = "defer"]
              /\ buffer' = [buffer EXCEPT ![t] = r]
        /\ delivered' = delivered \/ delivered' = Append(delivered, r)
    BY SMTT(40), <1>3 DEF IrpQueueCompleteIrp, CompleteWithReport, CompleteWithError
  <2>2. ASSUME NEW x \in Reports \ {r} PROVE ReportStatus'[x] = ReportStatus[x]
    <3>1. Kept(x) <=> Kept(x)'
      BY SMTT(40), <2>1 DEF Kept
    <3>2. Delivered(x) <=> Delivered(x)'
      <4>1. CASE delivered' = delivered
        BY SMTT(40), <4>1 DEF Delivered
      <4>2. CASE delivered' = Append(delivered, r)
        <5>0. delivered \in Seq(Reports) /\ r \in Reports
          BY DEF TypeOK
        <5>1. (\E k \in 1..Len(Append(delivered, r)) : Append(delivered, r)[k] = x)
                <=> x = r \/ \E k \in 1..Len(delivered) : delivered[k] = x
          BY ONLY <5>0, AppendMembers
        <5> QED BY ZenonT(40), <4>2, <5>1 DEF Delivered
      <4> QED BY SMTT(40), <2>1, <4>1, <4>2
    <3> QED BY ZenonT(40), <2>1, <3>1, <3>2, SameStatus
  <2>3. /\ ReportStatus[r] = "new"
        /\ ReportStatus'[r] \in {"kept", "delivered", "dropped"}
    BY ZenonT(40), <2>1, StatusValue, StatusValueNext
  <2> QED BY SMTT(40), <2>2, <2>3, OneMove DEF Channel!Moves
<1>4. ASSUME NEW t \in Threads, IrpQueueDeferReport(t)
      PROVE  [Channel!Next]_ReportStatus
  <2>1. /\ pc[t] = "defer"
        /\ deferred' = deferred /\ delivered' = delivered /\ sent' = sent
        /\ \/ pc' = [pc EXCEPT ![t] = "link"] /\ buffer' = buffer
           \/ /\ pc' = [pc EXCEPT ![t] = "idle"]
              /\ buffer' = [buffer EXCEPT ![t] = NoReport]
    BY SMTT(40), <1>4 DEF IrpQueueDeferReport, Return
  <2>0. PICK r \in Reports : r = buffer[t]
    BY SMTT(40), <2>1 DEF ReportInOnePlace
  <2>2. r \in sent /\ Kept(r) /\ ~Delivered(r)
    BY SMTT(40), <2>0, <2>1 DEF ReportInOnePlace, SentInv, Kept, Delivered
  <2>3. ASSUME NEW x \in Reports \ {r} PROVE ReportStatus'[x] = ReportStatus[x]
    <3>1. Kept(x) <=> Kept(x)'
      BY ZenonT(40), <2>0, <2>1, IrpQueueAssumption DEF Kept
    <3>2. Delivered(x) <=> Delivered(x)'
      BY <2>1 DEF Delivered
    <3> QED BY ZenonT(40), <2>1, <3>1, <3>2, SameStatus
  <2>4. ReportStatus[r] = "kept" /\ ReportStatus'[r] \in {"kept", "dropped"}
    <3>1. Delivered(r)' <=> Delivered(r)
      BY ZenonT(40), <2>1 DEF Delivered
    <3>2. ReportStatus[r] = "kept"
      BY SMTT(40), <2>2, StatusValue
    <3>3. r \in sent' /\ ~Delivered(r)'
      BY SMTT(40), <2>1, <2>2, <3>1
    <3> QED BY ZenonT(40), <2>2, <3>2, <3>3, StatusValueNext
  <2> QED BY SMTT(40), <2>2, <2>3, <2>4, OneMove DEF Channel!Moves
<1>5. ASSUME NEW t \in Threads, LinkDeferredReport(t)
      PROVE  [Channel!Next]_ReportStatus
  <2>1. /\ pc[t] = "link" /\ pc' = [pc EXCEPT ![t] = "idle"]
        /\ buffer' = [buffer EXCEPT ![t] = NoReport]
        /\ delivered' = delivered /\ sent' = sent
        /\ deferred' = Append(deferred, buffer[t])
    BY <1>5 DEF LinkDeferredReport, Return
  <2>2. buffer[t] \in Reports
    BY ZenonT(40), <2>1 DEF ReportInOnePlace
  <2>3. /\ Len(deferred') = Len(deferred) + 1
        /\ \A j \in 1..Len(deferred) : deferred'[j] = deferred[j]
        /\ deferred'[Len(deferred) + 1] = buffer[t]
    BY SMTT(40), <2>1, <2>2, AppendProperties
  <2>4. ASSUME NEW x \in Reports PROVE ReportStatus'[x] = ReportStatus[x]
    <3>1. Kept(x) => Kept(x)'
      BY SMTT(40), <2>1, <2>3 DEF Kept
    <3>2. Kept(x)' => Kept(x)
      BY SMTT(40), <2>1, <2>3, IrpQueueAssumption DEF Kept
    <3>3. Delivered(x) <=> Delivered(x)'
      BY <2>1 DEF Delivered
    <3> QED BY SMTT(40), <2>1, <3>1, <3>2, <3>3, SameStatus
  <2> QED BY ZenonT(40), <2>2, <2>4, OneMove
<1>6. ASSUME NEW i \in Irps,
             \/ InsertIrpIoctl(i) \/ IrpQueueInsert(i)
             \/ IrpQueueCompleteCancelledIrp(i) \/ PickUp(i)
      PROVE  UNCHANGED <<pc, buffer, deferred, delivered, sent>>
  BY SMTT(40), <1>6 DEF InsertIrpIoctl, IrpQueueInsert, IrpQueueCompleteCancelledIrp,
              PickUp, CompleteWithError
<1>7. CASE UNCHANGED vars
  BY <1>1, <1>7 DEF vars
<1> QED BY SMTT(40), <1>1, <1>2, <1>3, <1>4, <1>5, <1>6, <1>7 DEF Next, IrpStep, ThreadStep

\* The queue and the deferred list implement the report channel: each report
\* handed to IrpQueueCompleteIrp is kept, then delivered once or dropped.
THEOREM ReportChannelTheorem == Spec => ImplementsReportChannel
<1>1. Init => Channel!Init
  BY DEF Init, ReportStatus, Channel!Init
<1> QED BY <1>1, ChannelStep, Invariance, PTL
        DEF Spec, ImplementsReportChannel, Channel!Spec
=============================================================================
