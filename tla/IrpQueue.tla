------------------------------ MODULE IrpQueue ------------------------------
(***************************************************************************)
(* The driver's channel to user mode (driver/io.c, lines 74-337 and the    *)
(* IOCTL_INSERT_IRP_INTO_QUEUE case of DeviceControl).                     *)
(*                                                                         *)
(* User mode parks IRPs in a cancel-safe queue.  A detection routine hands *)
(* its report buffer to IrpQueueCompleteIrp, which completes the oldest    *)
(* parked IRP with it; with no IRP parked the report goes to the deferred  *)
(* list, which the next inserted IRP looks at before it is parked.  The    *)
(* IRP queue and the deferred list have a lock each, so the two look-ups   *)
(* are not atomic with respect to each other.                              *)
(***************************************************************************)
EXTENDS Integers, Sequences, FiniteSets

CONSTANTS
    Irps,               \* the requests user mode issues (a request is reused)
    Reports,            \* the reports detection routines produce, once each
    Threads,            \* threads that run detection routines
    OutputBufferLength, \* output buffer length of each request
    BufferSize,         \* size of each report
    MAX_DEFERRED_REPORTS_COUNT,
    NoReport            \* content of a buffer no report was copied to

ASSUME IrpQueueAssumption ==
    /\ OutputBufferLength \in [Irps -> Nat]
    /\ BufferSize \in [Reports -> Nat \ {0}]
    /\ MAX_DEFERRED_REPORTS_COUNT \in Nat
    /\ NoReport \notin Reports
    /\ IsFiniteSet(Threads)

VARIABLES
    queue,          \* IRP_QUEUE_HEAD.queue: the parked requests, oldest first
    queue_count,    \* IRP_QUEUE_HEAD.count
    deferred,       \* deferred_reports.head: the deferred reports, oldest first
    deferred_count, \* deferred_reports.count
    irp,            \* where each request is
    cancel,         \* requests cancelled while the driver is inserting them
    system_buffer,  \* what the driver copied to each request's buffer
    pc,             \* where each thread is in IrpQueueCompleteIrp
    buffer,         \* the report each thread passed to IrpQueueCompleteIrp
    pool,           \* report buffers that are allocated
    sent,           \* history: reports handed to IrpQueueCompleteIrp
    delivered,      \* history: reports copied to a request, in that order
    bugcheck        \* the machine has crashed

client_vars == <<irp, cancel, system_buffer>>
thread_vars == <<pc, buffer>>
vars == <<queue, queue_count, deferred, deferred_count, irp, cancel,
          system_buffer, pc, buffer, pool, sent, delivered, bugcheck>>

\* "user": with user mode; "ioctl" and "insert": in the IOCTL handler, before
\* and after the deferred list was looked at; "parked": in the queue;
\* the rest are completed requests user mode has not picked up yet.
Completed == {"success", "insufficient_resources", "cancelled"}
IrpStates == {"user", "ioctl", "insert", "parked"} \cup Completed

\* IrpQueueInitialise.
Init ==
    /\ queue = <<>> /\ queue_count = 0
    /\ deferred = <<>> /\ deferred_count = 0
    /\ irp = [i \in Irps |-> "user"]
    /\ cancel = {}
    /\ system_buffer = [i \in Irps |-> NoReport]
    /\ pc = [t \in Threads |-> "idle"]
    /\ buffer = [t \in Threads |-> NoReport]
    /\ pool = {}
    /\ sent = {}
    /\ delivered = <<>>
    /\ bugcheck = FALSE

-----------------------------------------------------------------------------
(* Completion of a request.                                                *)

\* ValidateIrpOutputBuffer: the request's buffer can hold the report.
ValidateIrpOutputBuffer(i, r) == BufferSize[r] <= OutputBufferLength[i]

\* Copy the report, free its buffer and complete the request with success.
CompleteWithReport(i, r) ==
    /\ system_buffer' = [system_buffer EXCEPT ![i] = r]
    /\ delivered' = Append(delivered, r)
    /\ irp' = [irp EXCEPT ![i] = "success"]

CompleteWithError(i, status) ==
    /\ irp' = [irp EXCEPT ![i] = status]
    /\ UNCHANGED <<system_buffer, delivered>>

-----------------------------------------------------------------------------
(* IOCTL_INSERT_IRP_INTO_QUEUE.                                            *)

\* User mode issues the request.
InsertIrpIoctl(i) ==
    /\ irp[i] = "user"
    /\ irp' = [irp EXCEPT ![i] = "ioctl"]
    /\ UNCHANGED <<queue, queue_count, deferred, deferred_count, cancel,
                   system_buffer, thread_vars, pool, sent, delivered, bugcheck>>

\* Mutant: the test of the count is off by one.
IsThereDeferredReportOffByOne == deferred_count >= 0

IrpQueueIsThereDeferredReport == deferred_count > 0

\* Mutant: the oldest report is looked at, not unlinked.
PeekDeferredReport == UNCHANGED deferred

\* Mutant: the list is reset instead of its head unlinked.
ResetDeferredReports == deferred' = <<>>

\* RemoveHeadList on the deferred list.
IrpQueueRemoveDeferredReport == deferred' = Tail(deferred)

\* IrpQueueQueryPendingReports, under deferred_reports.lock.  The oldest
\* report is unlinked whatever happens next; the count only goes down when
\* the request could take the report.  Unlinking from an empty list yields
\* the list head itself, whose "buffer" is the count read as an address.
IrpQueueQueryPendingReports(i) ==
    /\ irp[i] = "ioctl"
    /\ \/ /\ ~IrpQueueIsThereDeferredReport
          /\ irp' = [irp EXCEPT ![i] = "insert"]
          /\ UNCHANGED <<deferred, deferred_count, system_buffer, pool,
                         delivered, bugcheck>>
       \/ /\ IrpQueueIsThereDeferredReport /\ deferred # <<>>
          /\ ValidateIrpOutputBuffer(i, Head(deferred))
          /\ CompleteWithReport(i, Head(deferred))
          /\ IrpQueueRemoveDeferredReport
          /\ deferred_count' = deferred_count - 1
          /\ pool' = pool \ {Head(deferred)}
          /\ UNCHANGED bugcheck
       \/ /\ IrpQueueIsThereDeferredReport /\ deferred # <<>>
          /\ ~ValidateIrpOutputBuffer(i, Head(deferred))
          /\ irp' = [irp EXCEPT ![i] = "insert"]
          /\ IrpQueueRemoveDeferredReport
          /\ pool' = pool \ {Head(deferred)}
          /\ UNCHANGED <<deferred_count, system_buffer, delivered, bugcheck>>
       \/ /\ IrpQueueIsThereDeferredReport /\ deferred = <<>>
          /\ bugcheck' = TRUE
          /\ UNCHANGED <<irp, deferred, deferred_count, system_buffer, pool,
                         delivered>>
    /\ UNCHANGED <<queue, queue_count, cancel, thread_vars, sent>>

\* IoCsqInsertIrp with IrpQueueInsert: park the request, unless it was
\* cancelled on the way here.
IrpQueueInsert(i) ==
    /\ irp[i] = "insert"
    /\ \/ /\ i \notin cancel
          /\ queue' = Append(queue, i)
          /\ queue_count' = queue_count + 1
          /\ irp' = [irp EXCEPT ![i] = "parked"]
          /\ UNCHANGED <<system_buffer, delivered>>
       \/ /\ i \in cancel
          /\ CompleteWithError(i, "cancelled")
          /\ UNCHANGED <<queue, queue_count>>
    /\ UNCHANGED <<deferred, deferred_count, cancel, thread_vars, pool, sent,
                   bugcheck>>

\* The sequence without its k-th element (RemoveEntryList).
Unlink(s, k) == [j \in 1..(Len(s) - 1) |-> IF j < k THEN s[j] ELSE s[j + 1]]

\* Mutant: the oldest request is unlinked, whichever was asked for.
RemoveOldestIrp(i) ==
    /\ queue' = Tail(queue)
    /\ queue_count' = queue_count - 1

\* IrpQueueRemove: unlink a request, wherever it is in the queue.
IrpQueueRemove(i) ==
    /\ \E k \in 1..Len(queue) : queue[k] = i /\ queue' = Unlink(queue, k)
    /\ queue_count' = queue_count - 1

\* The I/O manager cancels a request: a parked one is unlinked and completed
\* (IrpQueueCompleteCancelledIrp), one being inserted is only marked.
IrpQueueCompleteCancelledIrp(i) ==
    /\ \/ /\ irp[i] = "parked"
          /\ IrpQueueRemove(i)
          /\ CompleteWithError(i, "cancelled")
          /\ UNCHANGED cancel
       \/ /\ irp[i] \in {"ioctl", "insert"}
          /\ i \notin cancel
          /\ cancel' = cancel \cup {i}
          /\ UNCHANGED <<queue, queue_count, irp, system_buffer, delivered>>
    /\ UNCHANGED <<deferred, deferred_count, thread_vars, pool, sent, bugcheck>>

\* User mode takes a completed request back.
PickUp(i) ==
    /\ irp[i] \in Completed
    /\ irp' = [irp EXCEPT ![i] = "user"]
    /\ system_buffer' = [system_buffer EXCEPT ![i] = NoReport]
    /\ cancel' = cancel \ {i}
    /\ UNCHANGED <<queue, queue_count, deferred, deferred_count, thread_vars,
                   pool, sent, delivered, bugcheck>>

-----------------------------------------------------------------------------
(* IrpQueueCompleteIrp, run by a detection routine.                        *)

\* IoCsqRemoveNextIrp (IrpQueuePeekNextEntry, IrpQueueRemove) and, when it
\* finds a request, everything up to its completion: the request belongs to
\* the thread by then.
IrpQueueCompleteIrp(t, r) ==
    /\ pc[t] = "idle" /\ r \notin sent
    /\ sent' = sent \cup {r}
    /\ \/ /\ queue_count = 0
          /\ pc' = [pc EXCEPT ![t] = "defer"]
          /\ buffer' = [buffer EXCEPT ![t] = r]
          /\ pool' = pool \cup {r}
          /\ UNCHANGED <<queue, queue_count, irp, system_buffer, delivered>>
       \/ /\ queue_count > 0
          /\ IrpQueueRemove(Head(queue))
          /\ IF ValidateIrpOutputBuffer(Head(queue), r)
             THEN CompleteWithReport(Head(queue), r)
             ELSE CompleteWithError(Head(queue), "insufficient_resources")
          /\ UNCHANGED <<thread_vars, pool>>
    /\ UNCHANGED <<deferred, deferred_count, cancel, bugcheck>>

\* The report's thread returns from IrpQueueCompleteIrp.
Return(t) ==
    /\ pc' = [pc EXCEPT ![t] = "idle"]
    /\ buffer' = [buffer EXCEPT ![t] = NoReport]

\* Mutant: the limit is off by one.
DeferredListFullLate == deferred_count > MAX_DEFERRED_REPORTS_COUNT + 1

\* The limit IrpQueueDeferReport tests, without the lock.
DeferredListFull == deferred_count > MAX_DEFERRED_REPORTS_COUNT

\* IrpQueueDeferReport up to the allocation of the list node.  The count is
\* read without the lock.  A failed allocation returns without the buffer
\* being freed.
IrpQueueDeferReport(t) ==
    /\ pc[t] = "defer"
    /\ \/ /\ DeferredListFull
          /\ pool' = pool \ {buffer[t]}
          /\ Return(t)
       \/ /\ ~DeferredListFull
          /\ pc' = [pc EXCEPT ![t] = "link"]
          /\ UNCHANGED <<buffer, pool>>
       \/ /\ ~DeferredListFull
          /\ Return(t)
          /\ UNCHANGED pool
    /\ UNCHANGED <<queue, queue_count, deferred, deferred_count, client_vars,
                   sent, delivered, bugcheck>>

\* The end of IrpQueueDeferReport, under deferred_reports.lock.
LinkDeferredReport(t) ==
    /\ pc[t] = "link"
    /\ deferred' = Append(deferred, buffer[t])
    /\ deferred_count' = deferred_count + 1
    /\ Return(t)
    /\ UNCHANGED <<queue, queue_count, client_vars, pool, sent, delivered,
                   bugcheck>>

-----------------------------------------------------------------------------
IrpStep(i) ==
    \/ InsertIrpIoctl(i)
    \/ IrpQueueQueryPendingReports(i)
    \/ IrpQueueInsert(i)
    \/ IrpQueueCompleteCancelledIrp(i)
    \/ PickUp(i)

ThreadStep(t) ==
    \/ \E r \in Reports : IrpQueueCompleteIrp(t, r)
    \/ IrpQueueDeferReport(t)
    \/ LinkDeferredReport(t)

\* Nothing runs after a crash.
Next ==
    /\ ~bugcheck
    /\ \/ \E i \in Irps : IrpStep(i)
       \/ \E t \in Threads : ThreadStep(t)

Spec == Init /\ [][Next]_vars

-----------------------------------------------------------------------------
(* Properties.                                                             *)

\* The shape of the driver's queue state and of its callers.
TypeOK ==
    /\ queue \in Seq(Irps) /\ queue_count \in Nat
    /\ deferred \in Seq(Reports) /\ deferred_count \in Nat
    /\ irp \in [Irps -> IrpStates]
    /\ cancel \in SUBSET Irps
    /\ system_buffer \in [Irps -> Reports \cup {NoReport}]
    /\ pc \in [Threads -> {"idle", "defer", "link"}]
    /\ buffer \in [Threads -> Reports \cup {NoReport}]
    /\ pool \in SUBSET Reports /\ sent \in SUBSET Reports
    /\ delivered \in Seq(Reports)
    /\ bugcheck \in BOOLEAN

\* A request is in the queue exactly while it is parked, and once: no
\* interleaving of insertion, completion and cancellation completes a
\* request that is still linked, loses one, or links it twice
\* (IrpQueueInsert, IrpQueueRemove, IrpQueueCompleteCancelledIrp), and the
\* count IrpQueuePeekNextEntry trusts is the length of the list.
ParkedRequestsAreLinked ==
    /\ queue_count = Len(queue)
    /\ \A i \in Irps : irp[i] = "parked" <=> \E k \in 1..Len(queue) : queue[k] = i
    /\ \A j, k \in 1..Len(queue) : queue[j] = queue[k] => j = k

\* Report buffers are never used after they are freed and never reach user
\* mode twice: a buffer a thread or the deferred list refers to is allocated
\* and referred to from one place only, and a report that was copied to a
\* request is gone from both (IrpQueueCompleteIrp, IrpQueueDeferReport,
\* IrpQueueCompleteDeferredReport).
ReportInOnePlace ==
    /\ \A t \in Threads : pc[t] # "idle" => buffer[t] \in pool
    /\ \A t, u \in Threads :
          pc[t] # "idle" /\ pc[u] # "idle" /\ buffer[t] = buffer[u] => t = u
    /\ \A k \in 1..Len(deferred) : deferred[k] \in pool
    /\ \A k \in 1..Len(deferred), t \in Threads :
          pc[t] # "idle" => deferred[k] # buffer[t]
    /\ \A j, k \in 1..Len(deferred) : deferred[j] = deferred[k] => j = k
    /\ \A k \in 1..Len(delivered) : delivered[k] \in sent \ pool
    /\ \A j, k \in 1..Len(delivered) : delivered[j] = delivered[k] => j = k

\* The unlocked test of the count in IrpQueueDeferReport lets every thread
\* overshoot the limit by one report, and by no more: the deferred list
\* never exceeds the limit by more than the number of reporting threads.
DeferredReportsBounded ==
    Len(deferred) <= MAX_DEFERRED_REPORTS_COUNT + Cardinality(Threads)

\* Where each report is, as a user of the report path sees it.
ReportStatus ==
    [r \in Reports |->
        IF r \notin sent THEN "new"
        ELSE IF \E k \in 1..Len(delivered) : delivered[k] = r THEN "delivered"
        ELSE IF \/ \E t \in Threads : pc[t] # "idle" /\ buffer[t] = r
                \/ \E k \in 1..Len(deferred) : deferred[k] = r
             THEN "kept" ELSE "dropped"]

Channel == INSTANCE ReportChannel WITH status <- ReportStatus

\* The queue and the deferred list together implement the report channel: a
\* report is kept, delivered once or dropped for good, whatever thread,
\* request and cancellation come in between.
ImplementsReportChannel == Channel!Spec

\* What the comment in IrpQueueQueryPendingReports (io.c:163-170) promises:
\* holding the lock over the test and the removal means that a report is
\* never removed from an empty list, so the driver does not crash there.
NoBugcheck == ~bugcheck
=============================================================================
