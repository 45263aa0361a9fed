---------------------------- MODULE IntegrityTimer ----------------------------
(***************************************************************************)
(* The driver's periodic integrity check (driver/callbacks.c, lines        *)
(* 915-1011): a kernel timer whose DPC queues a work item, and the routine *)
(* that stops the timer.  TIMER_OBJECT.state says that the work item was   *)
(* queued and has not finished.  The actions leave the rest of the driver  *)
(* to the module that extends this one.                                    *)
(***************************************************************************)
EXTENDS Naturals

VARIABLES
    timer,          \* is the kernel timer set?
    dpc,            \* "idle", "pending" (expired, not run), "queue" (past the tests)
    state,          \* TIMER_OBJECT.state
    work_item,      \* TIMER_OBJECT.work_item
    timer_fault     \* freed memory was used, or a queued work item freed

timer_vars == <<timer, dpc, state, work_item, timer_fault>>

TimerTypeOK ==
    /\ timer \in BOOLEAN
    /\ dpc \in {"idle", "pending", "queue"}
    /\ state \in BOOLEAN
    /\ work_item \in {"none", "idle", "queued", "running", "freed"}
    /\ timer_fault \in BOOLEAN

TimerInit ==
    /\ timer = FALSE
    /\ dpc = "idle"
    /\ state = FALSE
    /\ work_item = "none"
    /\ timer_fault = FALSE

\* InitialiseTimerObject, once the work item could be allocated.
InitialiseTimerObject ==
    /\ timer' = TRUE
    /\ work_item' = "idle"
    /\ UNCHANGED <<dpc, state, timer_fault>>

\* The timer expires and its DPC is put into a processor's queue.
TimerExpires ==
    /\ timer /\ dpc = "idle"
    /\ dpc' = "pending"
    /\ UNCHANGED <<timer, state, work_item, timer_fault>>

\* The tests of TimerObjectCallbackRoutine.  The flag that HasDriverLoaded
\* reads and the timer object are in the device extension.
TimerObjectCallbackRoutine(HasDriverLoaded, extension_freed) ==
    /\ dpc = "pending"
    /\ dpc' = IF HasDriverLoaded /\ ~state THEN "queue" ELSE "idle"
    /\ timer_fault' = extension_freed
    /\ UNCHANGED <<timer, state, work_item>>

\* Mutant: the work item is queued and the state is not set.
QueueWithoutState ==
    /\ dpc = "queue"
    /\ dpc' = "idle"
    /\ work_item' = "queued"
    /\ UNCHANGED <<timer, state, timer_fault>>

\* The rest of TimerObjectCallbackRoutine: set the state, queue the work item.
QueueTimerWorkItem ==
    /\ dpc = "queue"
    /\ dpc' = "idle"
    /\ state' = TRUE
    /\ work_item' = IF work_item = "idle" THEN "queued" ELSE work_item
    /\ timer_fault' = (work_item # "idle")
    /\ UNCHANGED timer

\* A system worker thread takes the work item from its queue.
StartTimerWorkItem ==
    /\ work_item = "queued"
    /\ work_item' = "running"
    /\ UNCHANGED <<timer, dpc, state, timer_fault>>

\* Mutant: the routine returns early and leaves the state set.
ReturnWithStateSet ==
    /\ work_item = "running"
    /\ work_item' = "idle"
    /\ UNCHANGED <<timer, dpc, state, timer_fault>>

\* TimerObjectWorkItemRoutine: the checks are made, or skipped when the driver
\* list is not active; either way the state is reset last.
TimerObjectWorkItemRoutine ==
    /\ work_item = "running"
    /\ work_item' = "idle"
    /\ state' = FALSE
    /\ UNCHANGED <<timer, dpc, timer_fault>>

-----------------------------------------------------------------------------
(* CleanupDriverTimerObjects.                                              *)

\* KeFlushQueuedDpcs returns when the DPCs queued so far have run.
KeFlushQueuedDpcs ==
    /\ dpc = "idle"
    /\ UNCHANGED timer_vars

\* The loop that waits for the work item sees the state reset.
SpinOnTimerState ==
    /\ ~state
    /\ UNCHANGED timer_vars

KeCancelTimer ==
    /\ timer' = FALSE
    /\ UNCHANGED <<dpc, state, work_item, timer_fault>>

IoFreeTimerWorkItem ==
    /\ work_item' = "freed"
    /\ timer_fault' = (work_item = "queued")
    /\ UNCHANGED <<timer, dpc, state>>
=============================================================================
