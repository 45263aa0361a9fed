------------------------------ MODULE ApcContext ------------------------------
(***************************************************************************)
(* The life of an APC stackwalk context (driver/apc.c and the stackwalk in *)
(* driver/modules.c).                                                      *)
(*                                                                         *)
(* An initiation allocates a context, puts it into the driver's array and  *)
(* queues an APC to every listed thread while it holds the thread list's   *)
(* lock.  The context counts the APCs that are queued; APCs count down as  *)
(* they run or are run down.  A query frees contexts with no APC left, and *)
(* the unload routine waits for them.  Each acquisition of the driver      *)
(* configuration lock is one step.  I/O control requests hold the device   *)
(* open, so the driver is unloaded only when none is in progress.          *)
(***************************************************************************)
EXTENDS Integers, FiniteSets

CONSTANTS
    Ops,                    \* initiations, each with the context it allocates
    Threads,                \* system threads
    Queriers,               \* IOCTL_QUERY_FOR_APC_COMPLETION requests
    MAXIMUM_APC_CONTEXTS,
    SerialInitiation,       \* is one initiation at a time in progress?
    NULL

Slots == 1..MAXIMUM_APC_CONTEXTS

ASSUME ApcContextAssumption ==
    /\ MAXIMUM_APC_CONTEXTS \in Nat \ {0}
    /\ SerialInitiation \in BOOLEAN
    /\ NULL \notin Ops \cup Threads
    /\ IsFiniteSet(Threads)

VARIABLES
    contexts,       \* g_DriverConfig->apc_contexts
    allocated,      \* contexts that are allocated
    count,          \* APC_CONTEXT_HEADER.count
    allocation_in_progress,
    op_pc,          \* where each initiation is
    op_todo,        \* threads each initiation has still to visit
    header,         \* what IncrementApcCount found
    lock,           \* holder of the thread list's lock
    apc,            \* the APC of each initiation and thread
    apc_header,     \* what FreeApcAndDecrementApcCount found
    thread_list,    \* threads in the thread list
    query,          \* the slot each query is at (0: not running) and its entry
    unload,         \* "no", "waiting" or "done"
    raced,          \* history: a context was freed before its flag was set
    bugcheck

op_vars == <<op_pc, op_todo, header>>
apc_vars == <<apc, apc_header>>
stackwalk_vars == <<contexts, allocated, count, allocation_in_progress, op_vars,
                    lock, apc_vars, thread_list, query, unload, raced, bugcheck>>

Outstanding(o) == {t \in Threads : apc[o][t] \in {"queued", "running", "decrement", "lost"}}

StackwalkInit ==
    /\ contexts = [s \in Slots |-> NULL]
    /\ allocated = {}
    /\ count = [o \in Ops |-> 0]
    /\ allocation_in_progress = [o \in Ops |-> FALSE]
    /\ op_pc = [o \in Ops |-> "idle"]
    /\ op_todo = [o \in Ops |-> {}]
    /\ header = [o \in Ops |-> NULL]
    /\ lock = NULL
    /\ apc = [o \in Ops |-> [t \in Threads |-> "none"]]
    /\ apc_header = [o \in Ops |-> [t \in Threads |-> NULL]]
    /\ thread_list = Threads
    /\ query = [q \in Queriers |-> [slot |-> 0, entry |-> NULL, read |-> FALSE]]
    /\ unload = "no"
    /\ raced = FALSE
    /\ bugcheck = "no"

\* GetApcContext: every context has the same identifier, the first one wins.
GetApcContext ==
    LET used == {s \in Slots : contexts[s] # NULL}
    IN  IF used = {} THEN NULL
        ELSE contexts[CHOOSE s \in used : \A r \in used : s <= r]

UseAfterFree ==
    /\ bugcheck' = "use_after_free"
    /\ UNCHANGED <<contexts, allocated, count, allocation_in_progress, op_vars,
                   lock, apc_vars, thread_list, query, unload, raced>>

-----------------------------------------------------------------------------
(* ValidateThreadsViaKernelApc.                                            *)

\* Look for an operation in progress; allocate a context if there is none.  A
\* failure to allocate it or to list the modules frees it and ends the request.
Initiate(o) ==
    /\ op_pc[o] = "idle" /\ unload = "no"
    /\ SerialInitiation => \A p \in Ops : op_pc[p] \in {"idle", "done"}
    /\ IF GetApcContext # NULL
       THEN op_pc' = [op_pc EXCEPT ![o] = "done"] /\ UNCHANGED allocated
       ELSE \/ /\ op_pc' = [op_pc EXCEPT ![o] = "insert"]
               /\ allocated' = allocated \cup {o}
            \/ /\ op_pc' = [op_pc EXCEPT ![o] = "done"]
               /\ UNCHANGED allocated
    /\ UNCHANGED <<contexts, count, allocation_in_progress, op_todo, header, lock,
                   apc_vars, thread_list, query, unload, raced, bugcheck>>

\* With a full array the context is used all the same.
InsertApcContext(o) ==
    /\ op_pc[o] = "insert"
    /\ op_pc' = [op_pc EXCEPT ![o] = "flag"]
    /\ LET free == {s \in Slots : contexts[s] = NULL}
       IN  contexts' = IF free = {} THEN contexts
                       ELSE [contexts EXCEPT ![CHOOSE s \in free :
                                \A r \in free : s <= r] = o]
    /\ UNCHANGED <<allocated, count, allocation_in_progress, op_todo, header, lock,
                   apc_vars, thread_list, query, unload, raced, bugcheck>>

\* allocation_in_progress = TRUE, without a lock.
SetAllocationInProgress(o) ==
    /\ op_pc[o] = "flag"
    /\ IF o \in allocated
       THEN /\ allocation_in_progress' = [allocation_in_progress EXCEPT ![o] = TRUE]
            /\ op_pc' = [op_pc EXCEPT ![o] = "lock"]
            /\ UNCHANGED <<contexts, allocated, count, op_todo, header, lock,
                           apc_vars, thread_list, query, unload, raced, bugcheck>>
       ELSE UseAfterFree

\* EnumerateThreadListWithCallbackRoutine takes the thread list's lock.
EnumerateThreadList(o) ==
    /\ op_pc[o] = "lock" /\ lock = NULL
    /\ lock' = o
    /\ op_todo' = [op_todo EXCEPT ![o] = thread_list]
    /\ op_pc' = [op_pc EXCEPT ![o] = "enumerate"]
    /\ UNCHANGED <<contexts, allocated, count, allocation_in_progress, header,
                   apc_vars, thread_list, query, unload, raced, bugcheck>>

\* ValidateThreadViaKernelApcCallback passes over a thread: the calling one,
\* or one the APC could not be allocated for or queued to.
SkipThread(o) ==
    /\ op_pc[o] = "enumerate"
    /\ \E t \in op_todo[o] : op_todo' = [op_todo EXCEPT ![o] = @ \ {t}]
    /\ UNCHANGED <<contexts, allocated, count, allocation_in_progress, op_pc,
                   header, lock, apc_vars, thread_list, query, unload, raced, bugcheck>>

\* KeInsertQueueApc succeeds.
QueueApc(o) ==
    /\ op_pc[o] = "enumerate"
    /\ \E t \in op_todo[o] :
          /\ op_todo' = [op_todo EXCEPT ![o] = @ \ {t}]
          /\ apc' = [apc EXCEPT ![o][t] = "queued"]
    /\ op_pc' = [op_pc EXCEPT ![o] = "find"]
    /\ UNCHANGED <<contexts, allocated, count, allocation_in_progress, header,
                   lock, apc_header, thread_list, query, unload, raced, bugcheck>>

\* IncrementApcCount looks the context up ...
FindForIncrement(o) ==
    /\ op_pc[o] = "find"
    /\ header' = [header EXCEPT ![o] = GetApcContext]
    /\ op_pc' = [op_pc EXCEPT ![o] = IF GetApcContext = NULL THEN "enumerate"
                                     ELSE "increment"]
    /\ UNCHANGED <<contexts, allocated, count, allocation_in_progress, op_todo,
                   lock, apc_vars, thread_list, query, unload, raced, bugcheck>>

\* ... and takes the lock again to count.
IncrementApcCount(o) ==
    /\ op_pc[o] = "increment"
    /\ IF header[o] \in allocated
       THEN /\ count' = [count EXCEPT ![header[o]] = @ + 1]
            /\ op_pc' = [op_pc EXCEPT ![o] = "enumerate"]
            /\ UNCHANGED <<contexts, allocated, allocation_in_progress, op_todo,
                           header, lock, apc_vars, thread_list, query, unload, raced,
                           bugcheck>>
       ELSE UseAfterFree

EnumerationDone(o) ==
    /\ op_pc[o] = "enumerate" /\ op_todo[o] = {}
    /\ lock' = NULL
    /\ op_pc' = [op_pc EXCEPT ![o] = "clear"]
    /\ UNCHANGED <<contexts, allocated, count, allocation_in_progress, op_todo,
                   header, apc_vars, thread_list, query, unload, raced, bugcheck>>

\* Mutant: the flag stays set.
LeaveAllocationInProgress(o) ==
    /\ op_pc[o] = "clear"
    /\ op_pc' = [op_pc EXCEPT ![o] = "done"]
    /\ UNCHANGED <<contexts, allocated, count, allocation_in_progress, op_todo,
                   header, lock, apc_vars, thread_list, query, unload, raced, bugcheck>>

\* allocation_in_progress = FALSE.
ClearAllocationInProgress(o) ==
    /\ op_pc[o] = "clear"
    /\ IF o \in allocated
       THEN /\ allocation_in_progress' = [allocation_in_progress EXCEPT ![o] = FALSE]
            /\ op_pc' = [op_pc EXCEPT ![o] = "done"]
            /\ UNCHANGED <<contexts, allocated, count, op_todo, header, lock,
                           apc_vars, thread_list, query, unload, raced, bugcheck>>
       ELSE UseAfterFree

-----------------------------------------------------------------------------
(* The APCs.                                                               *)

\* ApcKernelRoutine: find the thread's entry, under the list's lock.  Without
\* an entry the routine returns: the APC is neither freed nor counted down.
ApcKernelRoutine(o, t) ==
    /\ apc[o][t] = "queued" /\ lock = NULL
    /\ apc' = [apc EXCEPT ![o][t] = IF t \in thread_list THEN "running" ELSE "lost"]
    /\ UNCHANGED <<contexts, allocated, count, allocation_in_progress, op_vars,
                   lock, apc_header, thread_list, query, unload, raced, bugcheck>>

\* The stackwalk uses the context's module list; then the APC is freed and
\* the context looked up.
FreeApc(o, t) ==
    /\ apc[o][t] = "running"
    /\ IF o \in allocated
       THEN /\ apc_header' = [apc_header EXCEPT ![o][t] = GetApcContext]
            /\ apc' = [apc EXCEPT ![o][t] = "decrement"]
            /\ UNCHANGED <<contexts, allocated, count, allocation_in_progress,
                           op_vars, lock, thread_list, query, unload, raced, bugcheck>>
       ELSE UseAfterFree

\* The thread ends before the APC was delivered.
ApcRundownRoutine(o, t) ==
    /\ apc[o][t] = "queued" /\ t \notin thread_list
    /\ apc_header' = [apc_header EXCEPT ![o][t] = GetApcContext]
    /\ apc' = [apc EXCEPT ![o][t] = "decrement"]
    /\ UNCHANGED <<contexts, allocated, count, allocation_in_progress, op_vars,
                   lock, thread_list, query, unload, raced, bugcheck>>

\* The end of FreeApcAndDecrementApcCount.
DecrementApcCount(o, t) ==
    /\ apc[o][t] = "decrement"
    /\ IF apc_header[o][t] \in allocated \cup {NULL}
       THEN /\ apc' = [apc EXCEPT ![o][t] = "freed"]
            /\ apc_header' = [apc_header EXCEPT ![o][t] = NULL]
            /\ count' = IF apc_header[o][t] = NULL THEN count
                        ELSE [count EXCEPT ![apc_header[o][t]] = @ - 1]
            /\ UNCHANGED <<contexts, allocated, allocation_in_progress, op_vars,
                           lock, thread_list, query, unload, raced, bugcheck>>
       ELSE UseAfterFree

\* A thread ends and its entry leaves the thread list.
ThreadExit(t) ==
    /\ t \in thread_list /\ lock = NULL
    /\ \A o \in Ops : apc[o][t] \notin {"running", "decrement"}
    /\ thread_list' = thread_list \ {t}
    /\ UNCHANGED <<contexts, allocated, count, allocation_in_progress, op_vars,
                   lock, apc_vars, query, unload, raced, bugcheck>>

-----------------------------------------------------------------------------
(* QueryActiveApcContextsForCompletion and the unload routine.             *)

QueryBegin(q) ==
    /\ query[q].slot = 0 /\ unload = "no"
    /\ query' = [query EXCEPT ![q] = [slot |-> 1, entry |-> NULL, read |-> FALSE]]
    /\ UNCHANGED <<contexts, allocated, count, allocation_in_progress, op_vars,
                   lock, apc_vars, thread_list, unload, raced, bugcheck>>

\* GetApcContextByIndex, which releases the lock again.
QueryRead(q) ==
    /\ query[q].slot # 0 /\ ~query[q].read
    /\ query' = [query EXCEPT ![q] = [slot |-> query[q].slot,
                                      entry |-> contexts[query[q].slot], read |-> TRUE]]
    /\ UNCHANGED <<contexts, allocated, count, allocation_in_progress, op_vars,
                   lock, apc_vars, thread_list, unload, raced, bugcheck>>

NextIndex(q) ==
    query' = [query EXCEPT ![q] = [slot |-> (query[q].slot + 1) % (MAXIMUM_APC_CONTEXTS + 1),
                                   entry |-> NULL, read |-> FALSE]]

\* Mutant: the flag is not looked at.
IsCompleteIgnoringFlag(o) == count[o] <= 0

IsComplete(o) == count[o] <= 0 /\ ~allocation_in_progress[o]

\* FreeApcStackwalkApcContextInformation and FreeApcContextStructure.
FreeApcContext(o) ==
    /\ allocated' = allocated \ {o}
    /\ contexts' = [s \in Slots |-> IF contexts[s] = o THEN NULL ELSE contexts[s]]

\* The entry is tested, and freed with its slot when it is complete.
QueryTest(q) ==
    LET o == query[q].entry
    IN  /\ query[q].read
        /\ IF o = NULL \/ (o \in allocated /\ ~IsComplete(o))
           THEN /\ NextIndex(q)
                /\ UNCHANGED <<contexts, allocated, count, allocation_in_progress,
                               op_vars, lock, apc_vars, thread_list, unload, raced,
                               bugcheck>>
           ELSE IF o \in allocated
           THEN /\ NextIndex(q)
                /\ FreeApcContext(o)
                /\ raced' = (raced \/ op_pc[o] = "flag")
                /\ UNCHANGED <<count, allocation_in_progress, op_vars, lock,
                               apc_vars, thread_list, unload, bugcheck>>
           ELSE UseAfterFree

Idle == /\ \A o \in Ops : op_pc[o] \in {"idle", "done"}
        /\ \A q \in Queriers : query[q].slot = 0

\* DriverUnload sets unload_in_progress.
BeginUnload ==
    /\ unload = "no" /\ Idle
    /\ unload' = "waiting"
    /\ UNCHANGED <<contexts, allocated, count, allocation_in_progress, op_vars,
                   lock, apc_vars, thread_list, query, raced, bugcheck>>

\* DrvUnloadFreeAllApcContextStructures, until it returns TRUE.  For a context
\* with no APC left it frees the address of the array, which is no allocation.
DrvUnloadFreeAllApcContextStructures ==
    /\ unload = "waiting"
    /\ \/ /\ GetApcContext = NULL
          /\ unload' = "done"
          /\ UNCHANGED bugcheck
       \/ /\ GetApcContext # NULL /\ count[GetApcContext] <= 0
          /\ bugcheck' = "bad_free"
          /\ UNCHANGED unload
    /\ UNCHANGED <<contexts, allocated, count, allocation_in_progress, op_vars,
                   lock, apc_vars, thread_list, query, raced>>

-----------------------------------------------------------------------------
OpStep(o) ==
    \/ Initiate(o)
    \/ InsertApcContext(o)
    \/ SetAllocationInProgress(o)
    \/ EnumerateThreadList(o)
    \/ SkipThread(o)
    \/ QueueApc(o)
    \/ FindForIncrement(o)
    \/ IncrementApcCount(o)
    \/ EnumerationDone(o)
    \/ ClearAllocationInProgress(o)

ApcStep(o, t) ==
    \/ ApcKernelRoutine(o, t)
    \/ FreeApc(o, t)
    \/ ApcRundownRoutine(o, t)
    \/ DecrementApcCount(o, t)

QueryStep(q) == QueryBegin(q) \/ QueryRead(q) \/ QueryTest(q)

StackwalkNext ==
    /\ bugcheck = "no"
    /\ \/ \E o \in Ops : OpStep(o)
       \/ \E o \in Ops, t \in Threads : ApcStep(o, t)
       \/ \E t \in Threads : ThreadExit(t)
       \/ \E q \in Queriers : QueryStep(q)
       \/ BeginUnload
       \/ DrvUnloadFreeAllApcContextStructures

StackwalkSpec == StackwalkInit /\ [][StackwalkNext]_stackwalk_vars

\* An initiation or a query that has begun runs to its end, and APCs are
\* delivered or run down.  Nobody has to make a query.
StackwalkFairSpec ==
    /\ StackwalkSpec
    /\ \A o \in Ops : WF_stackwalk_vars(bugcheck = "no" /\ OpStep(o) /\ ~Initiate(o))
    /\ \A o \in Ops, t \in Threads : WF_stackwalk_vars(bugcheck = "no" /\ ApcStep(o, t))
    /\ \A q \in Queriers : WF_stackwalk_vars(bugcheck = "no" /\ (QueryRead(q) \/ QueryTest(q)))

-----------------------------------------------------------------------------
(* Properties.                                                             *)

\* The shape of the contexts, the initiations and the APCs.
StackwalkTypeOK ==
    /\ contexts \in [Slots -> Ops \cup {NULL}]
    /\ allocated \subseteq Ops
    /\ count \in [Ops -> Int]
    /\ allocation_in_progress \in [Ops -> BOOLEAN]
    /\ op_pc \in [Ops -> {"idle", "insert", "flag", "lock", "enumerate", "find",
                       "increment", "clear", "done"}]
    /\ op_todo \in [Ops -> SUBSET Threads]
    /\ header \in [Ops -> Ops \cup {NULL}]
    /\ lock \in Ops \cup {NULL}
    /\ apc \in [Ops -> [Threads -> {"none", "queued", "running", "decrement",
                                    "freed", "lost"}]]
    /\ apc_header \in [Ops -> [Threads -> Ops \cup {NULL}]]
    /\ thread_list \subseteq Threads
    /\ query \in [Queriers -> [slot : 0..MAXIMUM_APC_CONTEXTS,
                               entry : Ops \cup {NULL}, read : BOOLEAN]]
    /\ unload \in {"no", "waiting", "done"}
    /\ raced \in BOOLEAN
    /\ bugcheck \in {"no", "use_after_free", "bad_free"}

\* A context is not freed while one of its APCs has still to run, and its count
\* is the number of APCs still to be counted down, but for one that is queued
\* and not counted yet: APCs that run or are run down while others are being
\* queued do not upset it (IncrementApcCount, FreeApcAndDecrementApcCount).
\* Unless a query came between InsertApcContext and the assignment of
\* allocation_in_progress (modules.c 1307-1309).
ContextOutlivesApcs ==
    ~raced =>
        /\ bugcheck # "use_after_free"
        /\ \A o \in Ops : Outstanding(o) # {} => o \in allocated
        /\ \A o \in allocated : op_pc[o] # "idle" =>
               count[o] + (IF op_pc[o] \in {"find", "increment"} THEN 1 ELSE 0)
                   = Cardinality(Outstanding(o))

\* If queries keep coming ("to constantly monitor the status of open APC
\* contexts", apc.c:118-119), the context of an initiation that is over is freed,
\* unless an APC's kernel routine did not find its thread or the driver is
\* unloading (QueryActiveApcContextsForCompletion, apc.c:122).
ContextIsFreed ==
    []<>(\E q \in Queriers : query[q].slot = 1) =>
        \A o \in Ops :
            (op_pc[o] = "done" /\ o \in allocated)
                ~> \/ o \notin allocated
                   \/ \E t \in Threads : apc[o][t] = "lost"
                   \/ unload # "no" \/ bugcheck # "no"
=============================================================================
