---------------------------- MODULE SharedMapping ----------------------------
(***************************************************************************)
(* The page shared with user mode (driver/io.c, lines 339-611).  A timer's *)
(* DPC queues a work item whose routine runs the operation user mode wrote *)
(* to the page; work_item_status counts the routines that run.  Closing    *)
(* the device stops the timer and frees the page.                          *)
(***************************************************************************)
EXTENDS DeviceThreads

VARIABLES
    map_active,     \* SHARED_MAPPING.active
    work_item_status,
    map_timer,      \* is the kernel timer set?
    map_dpc,        \* "idle", "pending" (queued by the kernel), "tested"
    map_item,       \* the work item: "none", "idle", "queued" or "freed"
    map_worker,     \* where each run of SharedMappingWorkRoutine is
    map_buffers,    \* pages allocated and not freed
    map_close,      \* where each SharedMappingTerminate is
    map_fault       \* freed memory was used, or an object in use freed

map_vars == <<map_active, work_item_status, map_timer, map_dpc, map_item,
              map_worker, map_buffers, map_close, map_fault>>

MapTypeOK ==
    /\ map_active \in BOOLEAN
    /\ work_item_status \in Int
    /\ map_timer \in BOOLEAN
    /\ map_dpc \in {"idle", "pending", "tested"}
    /\ map_item \in {"none", "idle", "queued", "freed"}
    /\ map_worker \in [Workers -> {"idle", "start", "nmi", "run", "end"}]
    /\ map_buffers \in Nat
    /\ map_close \in [Clients -> {"none", "spin", "clear", "cancel", "free"}]
    /\ map_fault \in BOOLEAN

MapInit ==
    /\ map_active = FALSE
    /\ work_item_status = 0
    /\ map_timer = FALSE
    /\ map_dpc = "idle"
    /\ map_item = "none"
    /\ map_worker = [w \in Workers |-> "idle"]
    /\ map_buffers = 0
    /\ map_close = [c \in Clients |-> "none"]
    /\ map_fault = FALSE

\* Routines that have counted themselves in and not yet out.
Inside == {w \in Workers : map_worker[w] \in {"nmi", "run", "end"}}

\* A run of the routine is on its way: the DPC is queued or past its tests, the
\* work item is queued, or a worker has it and has not counted itself in.
InFlight ==
    \/ map_dpc # "idle"
    \/ map_item = "queued"
    \/ \E w \in Workers : map_worker[w] = "start"

\* What the code has no defence against: a timer period that ends before a
\* worker took the work item, two SharedMappingTerminates at once, a run on its
\* way when the loop on work_item_status is over, a mapping that replaced
\* another, and one whose work item could not be allocated.
Exposed ==
    \/ map_dpc = "tested" /\ map_item = "queued"
    \/ Cardinality({c \in Clients : map_close[c] # "none"}) > 1
    \/ InFlight /\ \E c \in Clients : map_close[c] \in {"clear", "cancel", "free"}
    \/ map_buffers > 1
    \/ map_active /\ map_item = "none"

\* SharedMappingInitialise: the page or its mapping cannot be had, or the
\* fields are set whatever they held.  A work item that cannot be allocated goes
\* unnoticed, the timer is then not set; one that is set must not be initialised.
SharedMappingInitialise ==
    \/ UNCHANGED map_vars
    \/ /\ map_active' = TRUE
       /\ work_item_status' = 0
       /\ map_buffers' = map_buffers + 1
       /\ \/ /\ map_item' = "idle" /\ map_timer' = TRUE
             /\ map_fault' = (map_fault \/ map_timer \/ map_dpc = "pending")
          \/ /\ map_item' = "none"
             /\ UNCHANGED <<map_timer, map_fault>>
       /\ UNCHANGED <<map_dpc, map_worker, map_close>>

\* The timer expires and the kernel queues its DPC.
MapTimerExpires ==
    /\ map_timer /\ map_dpc = "idle"
    /\ map_dpc' = "pending"
    /\ UNCHANGED <<map_active, work_item_status, map_timer, map_item,
                   map_worker, map_buffers, map_close, map_fault>>

\* The tests of SharedMappingDpcRoutine,
SharedMappingDpcRoutine ==
    /\ map_dpc = "pending"
    /\ map_dpc' = IF map_active /\ work_item_status = 0 THEN "tested" ELSE "idle"
    /\ UNCHANGED <<map_active, work_item_status, map_timer, map_item,
                   map_worker, map_buffers, map_close, map_fault>>

\* and its IoQueueWorkItem, of a work item that must exist and not be queued.
QueueMapWorkItem ==
    /\ map_dpc = "tested"
    /\ map_dpc' = "idle"
    /\ map_item' = IF map_item = "idle" THEN "queued" ELSE map_item
    /\ map_fault' = (map_fault \/ map_item # "idle")
    /\ UNCHANGED <<map_active, work_item_status, map_timer, map_worker,
                   map_buffers, map_close>>

\* A system worker thread takes the work item; it may be queued again.
StartMapWorkItem(w) ==
    /\ map_item = "queued" /\ map_worker[w] = "idle"
    /\ map_item' = "idle"
    /\ map_worker' = [map_worker EXCEPT ![w] = "start"]
    /\ UNCHANGED <<map_active, work_item_status, map_timer, map_dpc,
                   map_buffers, map_close, map_fault>>

\* The routine reads operation_id from the page.
ReadOperation(w) ==
    /\ map_worker[w] = "start"
    /\ \E op \in {"nmi", "run"} : map_worker' = [map_worker EXCEPT ![w] = op]
    /\ map_fault' = (map_fault \/ map_buffers = 0)
    /\ UNCHANGED <<map_active, map_timer, map_dpc, map_item, map_buffers,
                   map_close>>

\* SharedMappingWorkRoutine counts itself in and reads the operation, which is
\* HandleNmiIOCTL or one that changes nothing modelled here.
SharedMappingWorkRoutine(w) ==
    ReadOperation(w) /\ work_item_status' = work_item_status + 1

\* The operation is over,
MapOperationEnds(w) ==
    /\ map_worker[w] = "run"
    /\ map_worker' = [map_worker EXCEPT ![w] = "end"]
    /\ UNCHANGED <<map_active, work_item_status, map_timer, map_dpc, map_item,
                   map_buffers, map_close, map_fault>>

\* and the routine counts itself out.
EndMapWorkRoutine(w) ==
    /\ map_worker[w] = "end"
    /\ map_worker' = [map_worker EXCEPT ![w] = "idle"]
    /\ work_item_status' = work_item_status - 1
    /\ UNCHANGED <<map_active, map_timer, map_dpc, map_item, map_buffers,
                   map_close, map_fault>>

-----------------------------------------------------------------------------
(* SharedMappingTerminate, by the thread that closes handle c.             *)

MapClose(c, stage) == map_close' = [map_close EXCEPT ![c] = stage]

\* Nothing is done for a mapping that is not active.
SharedMappingTerminate(c) ==
    /\ map_active
    /\ MapClose(c, "spin")
    /\ UNCHANGED <<map_active, work_item_status, map_timer, map_dpc, map_item,
                   map_worker, map_buffers, map_fault>>

\* Mutant: the loop is left at once.
TerminateWithoutSpin(c) ==
    /\ map_close[c] = "spin"
    /\ MapClose(c, "clear")
    /\ UNCHANGED <<map_active, work_item_status, map_timer, map_dpc, map_item,
                   map_worker, map_buffers, map_fault>>

\* Mutant: the loop also waits for a flag that is only reset behind it.
SpinOnActive(c) ==
    /\ map_close[c] = "spin" /\ work_item_status = 0 /\ ~map_active
    /\ MapClose(c, "clear")
    /\ UNCHANGED <<map_active, work_item_status, map_timer, map_dpc, map_item,
                   map_worker, map_buffers, map_fault>>

\* The loop on work_item_status.
SpinOnWorkItemStatus(c) ==
    /\ map_close[c] = "spin" /\ work_item_status = 0
    /\ MapClose(c, "clear")
    /\ UNCHANGED <<map_active, work_item_status, map_timer, map_dpc, map_item,
                   map_worker, map_buffers, map_fault>>

ClearActive(c) ==
    /\ map_close[c] = "clear"
    /\ MapClose(c, "cancel")
    /\ map_active' = FALSE
    /\ UNCHANGED <<work_item_status, map_timer, map_dpc, map_item, map_worker,
                   map_buffers, map_fault>>

CancelMapTimer(c) ==
    /\ map_close[c] = "cancel"
    /\ MapClose(c, "free")
    /\ map_timer' = FALSE
    /\ UNCHANGED <<map_active, work_item_status, map_dpc, map_item, map_worker,
                   map_buffers, map_fault>>

\* The work item, the MDL and the page are freed and the structure, timer and
\* DPC included, is zeroed.  IoFreeWorkItem is given whatever work_item holds.
FreeMapping(c) ==
    /\ map_close[c] = "free"
    /\ MapClose(c, "none")
    /\ map_fault' = \/ map_fault \/ map_timer \/ map_dpc = "pending"
                    \/ map_item # "idle" \/ map_buffers = 0
    /\ map_buffers' = IF map_buffers = 0 THEN 0 ELSE map_buffers - 1
    /\ map_item' = "freed"
    /\ map_active' = FALSE /\ work_item_status' = 0 /\ map_timer' = FALSE
    /\ UNCHANGED <<map_dpc, map_worker>>

TerminateStep(c) ==
    \/ SpinOnWorkItemStatus(c)
    \/ ClearActive(c)
    \/ CancelMapTimer(c)
    \/ FreeMapping(c)
=============================================================================
