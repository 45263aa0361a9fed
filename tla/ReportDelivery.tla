--------------------------- MODULE ReportDelivery ---------------------------
(***************************************************************************)
(* The report path end to end: the driver's IRP queue composed with the    *)
(* user-mode side that feeds it (module/kernel_interface).  A fixed set of *)
(* event objects, one request each, is issued by the constructor; threads  *)
(* at the completion port print each completed request's report, release   *)
(* its event object and issue another request.                             *)
(*                                                                         *)
(* The client never cancels a request, so the cancellation actions of      *)
(* IrpQueue are not taken here.  Completion packets carry no order: the    *)
(* two port threads may pick them up in any.                               *)
(***************************************************************************)
EXTENDS IrpQueue

CONSTANTS
    Workers,    \* the thread-pool threads that run run_completion_port
    Main,       \* the thread that runs the constructor
    ReportId    \* the identifier at the start of each report

ReportIds == {"nmi_callback_failure", "module_validation_failure",
              "illegal_handle_operation", "invalid_process_allocation",
              "hidden_system_thread", "illegal_attach_process", "apc_stackwalk",
              "dpc_stackwalk", "data_table_routine", "invalid_process_module"}

ASSUME ReportDeliveryAssumption ==
    Main \notin Workers /\ ReportId \in [Reports -> ReportIds]

VARIABLES
    in_use,     \* event_dispatcher.in_use of each event object
    at,         \* where each user-mode thread is
    event,      \* the event object each user-mode thread works on
    to_send,    \* requests the constructor has still to issue
    printed,    \* history: reports print_kernel_report was given
    exhausted,  \* "All event objects in use." was logged
    session     \* the driver's session is active (DeviceControl's gate)

Senders == Workers \cup {Main}
user_vars == <<in_use, at, event, to_send, printed, exhausted, session>>
driver_vars == vars
delivery_vars == <<vars, user_vars>>

DeliveryInit ==
    /\ Init
    /\ in_use = [e \in Irps |-> FALSE]
    /\ at = [w \in Senders |-> IF w = Main THEN "send" ELSE "wait"]
    /\ event \in [Senders -> Irps]
    /\ \A v, w \in Senders : event[v] = event[w]
    /\ to_send = Cardinality(Irps)
    /\ printed = <<>>
    /\ exhausted = FALSE
    /\ session = TRUE

-----------------------------------------------------------------------------
(* send_pending_irp.                                                       *)

\* Where a thread goes when send_pending_irp returns: the constructor's loop
\* sends EVENT_COUNT requests, a port thread goes back to the port.
SendReturns(w) ==
    IF w = Main
    THEN /\ to_send' = to_send - 1
         /\ at' = [at EXCEPT ![w] = IF to_send = 1 THEN "done" ELSE "send"]
    ELSE /\ at' = [at EXCEPT ![w] = "wait"]
         /\ UNCHANGED to_send

\* get_free_event_entry and, with an event object, the start of the IOCTL:
\* without a session DeviceControl refuses it and the event stays in use.
SendPendingIrp(w) ==
    /\ at[w] = "send"
    /\ IF \A e \in Irps : in_use[e]
       THEN /\ exhausted' = TRUE
            /\ SendReturns(w)
            /\ UNCHANGED <<in_use, event, irp>>
       ELSE \E e \in Irps :
            /\ ~in_use[e]
            /\ in_use' = [in_use EXCEPT ![e] = TRUE]
            /\ event' = [event EXCEPT ![w] = e]
            /\ IF session
               THEN /\ at' = [at EXCEPT ![w] = "query"]
                    /\ irp' = [irp EXCEPT ![e] = "ioctl"]
                    /\ UNCHANGED to_send
               ELSE SendReturns(w) /\ UNCHANGED irp
            /\ UNCHANGED exhausted
    /\ UNCHANGED <<printed, session, queue, queue_count, deferred,
                   deferred_count, cancel, system_buffer, thread_vars, pool,
                   sent, delivered, bugcheck>>

\* The IOCTL handler looks for a deferred report, on the sender's thread.
QueryOnSend(w) ==
    /\ at[w] = "query"
    /\ IrpQueueQueryPendingReports(event[w])
    /\ IF irp'[event[w]] = "insert"
       THEN at' = [at EXCEPT ![w] = "insert"] /\ UNCHANGED to_send
       ELSE SendReturns(w)
    /\ UNCHANGED <<in_use, event, printed, exhausted, session>>

\* The IOCTL handler parks the request.
InsertOnSend(w) ==
    /\ at[w] = "insert"
    /\ IrpQueueInsert(event[w])
    /\ SendReturns(w)
    /\ UNCHANGED <<in_use, event, printed, exhausted, session>>

-----------------------------------------------------------------------------
(* run_completion_port; the threads start once the constructor is done.    *)

\* GetQueuedCompletionStatus returns a completed request.
GetQueuedCompletionStatus(w) ==
    /\ w \in Workers /\ at[w] = "wait" /\ at[Main] = "done"
    /\ \E e \in Irps :
          /\ irp[e] \in Completed
          /\ irp' = [irp EXCEPT ![e] = "user"]
          /\ event' = [event EXCEPT ![w] = e]
    /\ at' = [at EXCEPT ![w] = "print"]
    /\ UNCHANGED <<in_use, to_send, printed, exhausted, session, queue,
                   queue_count, deferred, deferred_count, cancel,
                   system_buffer, thread_vars, pool, sent, delivered, bugcheck>>

\* The identifiers get_kernel_report_type has a case for; for any other it runs
\* off its end without a value.
HasCase(report) ==
    report # NoReport /\ ReportId[report] # "invalid_process_module"

Garbled == "garbled"

\* What is printed for a buffer: its report, or with an undefined type also the
\* fields of another one, or that the type is invalid.
print_kernel_report(report) == IF HasCase(report) THEN {report} ELSE {report, Garbled}

\* Mutant: the event object is released before its report is printed.
PrintAfterRelease(w) ==
    /\ at[w] = "print"
    /\ at' = [at EXCEPT ![w] = "release"]
    /\ in_use' = [in_use EXCEPT ![event[w]] = FALSE]
    /\ system_buffer' = [system_buffer EXCEPT ![event[w]] = NoReport]
    /\ printed' = Append(printed, system_buffer'[event[w]])
    /\ UNCHANGED <<event, to_send, exhausted, session, queue, queue_count,
                   deferred, deferred_count, irp, cancel, thread_vars, pool,
                   sent, delivered, bugcheck>>

\* get_buffer_from_event_object and print_kernel_report.
PrintKernelReport(w) ==
    /\ at[w] = "print"
    /\ at' = [at EXCEPT ![w] = "release"]
    /\ \E shown \in print_kernel_report(system_buffer[event[w]]) :
           printed' = Append(printed, shown)
    /\ UNCHANGED <<in_use, event, to_send, exhausted, session, driver_vars>>

\* Mutant: the event object is not given back.
ForgetEventObject(w) ==
    /\ at[w] = "release"
    /\ at' = [at EXCEPT ![w] = "send"]
    /\ UNCHANGED <<in_use, event, to_send, printed, exhausted, session,
                   driver_vars>>

\* release_event_object: zero the buffer and give the event object back.
ReleaseEventObject(w) ==
    /\ at[w] = "release"
    /\ at' = [at EXCEPT ![w] = "send"]
    /\ in_use' = [in_use EXCEPT ![event[w]] = FALSE]
    /\ system_buffer' = [system_buffer EXCEPT ![event[w]] = NoReport]
    /\ UNCHANGED <<event, to_send, printed, exhausted, session, queue,
                   queue_count, deferred, deferred_count, irp, cancel,
                   thread_vars, pool, sent, delivered, bugcheck>>

\* The session ends (SessionTerminate, from whichever handle is closed).
SessionTerminate ==
    /\ session
    /\ session' = FALSE
    /\ UNCHANGED <<in_use, at, event, to_send, printed, exhausted, driver_vars>>

-----------------------------------------------------------------------------
UserStep(w) ==
    \/ SendPendingIrp(w)
    \/ QueryOnSend(w)
    \/ InsertOnSend(w)
    \/ GetQueuedCompletionStatus(w)
    \/ PrintKernelReport(w)
    \/ ReleaseEventObject(w)

ReportStep == \E t \in Threads : ThreadStep(t) /\ UNCHANGED user_vars

DeliveryNext ==
    /\ ~bugcheck
    /\ (\E w \in Senders : UserStep(w)) \/ ReportStep \/ SessionTerminate

\* A user-mode thread is never stopped for good, and a driver thread that
\* started to hand over a report goes on; reports themselves need not come.
DeliverySpec ==
    /\ DeliveryInit /\ [][DeliveryNext]_delivery_vars
    /\ \A w \in Senders : WF_delivery_vars(~bugcheck /\ UserStep(w))
    /\ \A t \in Threads :
          WF_delivery_vars((IrpQueueDeferReport(t) \/ LinkDeferredReport(t))
                           /\ UNCHANGED user_vars)

-----------------------------------------------------------------------------
(* Properties.                                                             *)

\* The shape of the user-mode side's state, on top of the driver's.
DeliveryTypeOK ==
    /\ TypeOK
    /\ in_use \in [Irps -> BOOLEAN]
    /\ at \in [Senders -> {"send", "query", "insert", "wait", "print",
                           "release", "done"}]
    /\ event \in [Senders -> Irps]
    /\ to_send \in 0..Cardinality(Irps)
    /\ printed \in Seq(Reports \cup {NoReport, Garbled})
    /\ exhausted \in BOOLEAN /\ session \in BOOLEAN

Times(r, reports) == Cardinality({k \in 1..Len(reports) : reports[k] = r})

\* User mode prints what the driver delivered: in the end every report copied to
\* a request has been printed once, none more often or from a buffer that another
\* thread had already zeroed or sent again, and this also when the session is
\* over by then (run_completion_port, kernel_interface.cpp:38-51).  Of a report
\* whose type user mode cannot tell nothing more is printed than was delivered.
DeliveredIsPrintedOnce ==
    \A r \in Reports \cup {NoReport} :
        <>[](IF r = NoReport \/ HasCase(r)
             THEN Times(r, printed) = Times(r, delivered)
             ELSE Times(r, printed) <= Times(r, delivered))

\* "user mode program will automatically queue another irp when an irp
\* completes" (io.c:79): while the session lasts, deferred reports are
\* drained, unless every request is already parked behind them.
DeferredReportsDrain ==
    []session => []<>(deferred = <<>> \/ \A e \in Irps : irp[e] = "parked")
=============================================================================
