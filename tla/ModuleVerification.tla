------------------------- MODULE ModuleVerification -------------------------
(***************************************************************************)
(* The multithreaded verification of system modules (driver/integrity.c,   *)
(* SystemModuleVerificationDispatcher and what it calls).                  *)
(*                                                                         *)
(* The dispatcher is called again and again.  A call starts a sweep, adds  *)
(* VERIFICATION_THREAD_COUNT work items to the one in progress, or frees a *)
(* sweep that is complete.  Each work item takes the next block of modules *)
(* and claims every module in it by compare-and-exchange.                  *)
(*                                                                         *)
(* One caller at a time runs the dispatcher, as when only the shared       *)
(* mapping's work routine calls it.  The stores that set up a new context  *)
(* are one step.                                                           *)
(***************************************************************************)
EXTENDS Integers, FiniteSets

CONSTANTS
    WorkItems,                  \* PIO_WORKITEMs the system can allocate
    VERIFICATION_THREAD_COUNT,  \* work items queued by a call
    VALIDATION_BLOCK_SIZE,      \* modules a work item takes
    total_count,                \* system modules
    NULL

\* The first two modules, hal.dll and ntoskrnl.exe, are skipped.
FIRST == 2
Modules == FIRST..(total_count - 1)
Slots == 1..VERIFICATION_THREAD_COUNT

ASSUME ModuleVerificationAssumption ==
    /\ VERIFICATION_THREAD_COUNT \in Nat \ {0}
    /\ VALIDATION_BLOCK_SIZE \in Nat \ {0}
    /\ total_count \in Nat /\ total_count >= FIRST
    /\ IsFiniteSet(WorkItems) /\ NULL \notin WorkItems

VARIABLES
    active, complete, current_count, active_thread_count,
    dispatcher_info,    \* "null" or "allocated" (module_info goes with it)
    validated,          \* modules claimed in dispatcher_info
    work_items,         \* the work item of each slot
    finished,           \* history: modules validated in this sweep
    state,              \* where each work item is
    count, max,         \* locals of each work item's routine
    pc,                 \* where the caller of the dispatcher is
    index,              \* its loop variable
    early_free,         \* history: something a work item still needs was freed
    bugcheck            \* why the machine crashed, if it did

context_vars == <<active, complete, current_count, active_thread_count,
                  dispatcher_info, validated>>
caller_vars == <<work_items, pc, index, early_free>>
worker_vars == <<count, max>>
vars == <<context_vars, caller_vars, worker_vars, finished, state, bugcheck>>

\* A routine is running between "entered" and "leaving".
Running == {"entered", "read", "loop", "validate", "store", "leaving"}

Init ==
    /\ active = FALSE /\ complete = FALSE
    /\ current_count = 0 /\ active_thread_count = 0
    /\ dispatcher_info = "null" /\ validated = {}
    /\ work_items = [s \in Slots |-> NULL]
    /\ finished = {}
    /\ state = [w \in WorkItems |-> "none"]
    /\ count = [w \in WorkItems |-> 0] /\ max = [w \in WorkItems |-> 0]
    /\ pc = "idle" /\ index = 1
    /\ early_free = FALSE /\ bugcheck = "no"

-----------------------------------------------------------------------------
(* SystemModuleVerificationDispatchFunction, run by work item w.           *)

\* InterlockedIncrement(&active_thread_count).
Enter(w) ==
    /\ state[w] = "queued"
    /\ state' = [state EXCEPT ![w] = "entered"]
    /\ active_thread_count' = active_thread_count + 1
    /\ UNCHANGED <<active, complete, current_count, dispatcher_info, validated,
                   caller_vars, worker_vars, finished, bugcheck>>

\* InterlockedExchange(&current_count, current_count): the second operand is
\* read first, and then written back by the exchange.
ReadCurrentCount(w) ==
    /\ state[w] = "entered"
    /\ state' = [state EXCEPT ![w] = "read"]
    /\ count' = [count EXCEPT ![w] = current_count]
    /\ UNCHANGED <<context_vars, caller_vars, max, finished, bugcheck>>

ExchangeCurrentCount(w) ==
    /\ state[w] = "read"
    /\ state' = [state EXCEPT ![w] = "loop"]
    /\ count' = [count EXCEPT ![w] = current_count]
    /\ max' = [max EXCEPT ![w] = current_count + VALIDATION_BLOCK_SIZE]
    /\ current_count' = count[w]
    /\ UNCHANGED <<active, complete, active_thread_count, dispatcher_info,
                   validated, caller_vars, finished, bugcheck>>

InBlock(w) == count[w] < max[w] /\ count[w] < total_count

\* Mutant: the module is validated whoever claimed it.
ClaimWithoutExchange(w) ==
    /\ state[w] = "loop" /\ InBlock(w) /\ dispatcher_info = "allocated"
    /\ validated' = validated \cup {count[w]}
    /\ state' = [state EXCEPT ![w] = "validate"]
    /\ UNCHANGED <<active, complete, current_count, active_thread_count,
                   dispatcher_info, caller_vars, worker_vars, finished, bugcheck>>

\* Claim the module or pass on to the next one.
Claim(w) ==
    /\ state[w] = "loop" /\ InBlock(w) /\ dispatcher_info = "allocated"
    /\ \/ /\ count[w] \notin validated
          /\ validated' = validated \cup {count[w]}
          /\ state' = [state EXCEPT ![w] = "validate"]
          /\ UNCHANGED count
       \/ /\ count[w] \in validated
          /\ count' = [count EXCEPT ![w] = count[w] + 1]
          /\ UNCHANGED <<validated, state>>
    /\ UNCHANGED <<active, complete, current_count, active_thread_count,
                   dispatcher_info, caller_vars, max, finished, bugcheck>>

\* ValidateSystemModule, whatever its outcome.
ValidateSystemModule(w) ==
    /\ state[w] = "validate" /\ dispatcher_info = "allocated"
    /\ finished' = finished \cup {count[w]}
    /\ count' = [count EXCEPT ![w] = count[w] + 1]
    /\ state' = [state EXCEPT ![w] = "loop"]
    /\ UNCHANGED <<context_vars, caller_vars, max, bugcheck>>

\* The context's arrays are gone when the routine looks at them.
AccessFreedItems(w) ==
    /\ \/ state[w] = "loop" /\ InBlock(w)
       \/ state[w] = "validate"
    /\ dispatcher_info = "null"
    /\ bugcheck' = "dispatcher_info"
    /\ UNCHANGED <<context_vars, caller_vars, worker_vars, finished, state>>

\* The block is done: InterlockedExchange(&complete, TRUE) after the last.
SetComplete(w) ==
    /\ state[w] = "loop" /\ ~InBlock(w)
    /\ state' = [state EXCEPT ![w] = "store"]
    /\ complete' = IF count[w] = total_count THEN TRUE ELSE complete
    /\ UNCHANGED <<active, current_count, active_thread_count, dispatcher_info,
                   validated, caller_vars, worker_vars, finished, bugcheck>>

\* Mutant: the counter is not moved on.
DropCurrentCount(w) ==
    /\ state[w] = "store"
    /\ state' = [state EXCEPT ![w] = "leaving"]
    /\ UNCHANGED <<context_vars, caller_vars, worker_vars, finished, bugcheck>>

\* InterlockedExchange(&current_count, count).
StoreCurrentCount(w) ==
    /\ state[w] = "store"
    /\ state' = [state EXCEPT ![w] = "leaving"]
    /\ current_count' = count[w]
    /\ UNCHANGED <<active, complete, active_thread_count, dispatcher_info,
                   validated, caller_vars, worker_vars, finished, bugcheck>>

\* InterlockedDecrement(&active_thread_count).  The work item stays allocated
\* for as long as a slot refers to it.
Leave(w) ==
    /\ state[w] = "leaving"
    /\ state' = [state EXCEPT ![w] =
                    IF \E s \in Slots : work_items[s] = w THEN "done" ELSE "none"]
    /\ active_thread_count' = active_thread_count - 1
    /\ count' = [count EXCEPT ![w] = 0] /\ max' = [max EXCEPT ![w] = 0]
    /\ UNCHANGED <<active, complete, current_count, dispatcher_info, validated,
                   caller_vars, finished, bugcheck>>

WorkerStep(w) ==
    \/ Enter(w)
    \/ ReadCurrentCount(w)
    \/ ExchangeCurrentCount(w)
    \/ Claim(w)
    \/ ValidateSystemModule(w)
    \/ AccessFreedItems(w)
    \/ SetComplete(w)
    \/ StoreCurrentCount(w)
    \/ Leave(w)

-----------------------------------------------------------------------------
(* SystemModuleVerificationDispatcher and CleanupValidationContextOnUnload. *)

RunningItems == {w \in WorkItems : state[w] \in Running}

\* FreeWorkItems.  To free an item the system has still queued is undefined:
\* the machine crashes, or the item is run all the same.  The routines in
\* running lose the context's arrays by the same step.
FreeWorkItems(running) ==
    LET freed  == {work_items[s] : s \in Slots} \ {NULL}
        queued == {w \in freed : state[w] = "queued"}
    IN  /\ work_items' = [s \in Slots |-> NULL]
        /\ state' = [w \in WorkItems |->
                        IF w \in freed /\ state[w] = "done" THEN "none" ELSE state[w]]
        /\ early_free' = (early_free \/ running # {} \/ queued # {})
        /\ bugcheck' \in IF queued = {} THEN {"no"} ELSE {"no", "work_item"}

\* InitialiseSystemModuleVerificationContext, when its allocations succeed
\* (when they fail the call returns and nothing has changed).
InitialiseContext ==
    /\ pc = "idle" /\ ~complete /\ ~active
    /\ active_thread_count' = 0
    /\ active' = TRUE /\ complete' = FALSE
    /\ dispatcher_info' = "allocated" /\ validated' = {}
    /\ current_count' = FIRST
    /\ finished' = {}
    /\ pc' = "queue" /\ index' = 1
    /\ UNCHANGED <<work_items, early_free, worker_vars, state, bugcheck>>

\* A sweep is in progress: the previous call's work items are freed and new
\* ones are queued.
ContinueSweep ==
    /\ pc = "idle" /\ ~complete /\ active
    /\ FreeWorkItems({})
    /\ pc' = "queue" /\ index' = 1
    /\ UNCHANGED <<context_vars, worker_vars, finished>>

NextSlot ==
    /\ index' = IF index = VERIFICATION_THREAD_COUNT THEN 1 ELSE index + 1
    /\ pc' = IF index = VERIFICATION_THREAD_COUNT THEN "idle" ELSE "queue"

QueueWorkItem ==
    /\ pc = "queue"
    /\ \E w \in WorkItems :
          /\ state[w] = "none"
          /\ state' = [state EXCEPT ![w] = "queued"]
          /\ work_items' = [work_items EXCEPT ![index] = w]
    /\ NextSlot
    /\ UNCHANGED <<context_vars, worker_vars, finished, early_free, bugcheck>>

\* IoAllocateWorkItem failed.
SkipWorkItem ==
    /\ pc = "queue"
    /\ NextSlot
    /\ UNCHANGED <<context_vars, worker_vars, finished, state, work_items,
                   early_free, bugcheck>>

\* The sweep is complete: the context is closed, then its items are freed.
CompleteSweep ==
    /\ pc = "idle" /\ complete
    /\ active' = FALSE /\ complete' = FALSE
    /\ pc' = "spin"
    /\ UNCHANGED <<current_count, active_thread_count, dispatcher_info,
                   validated, work_items, index, early_free, worker_vars,
                   finished, state, bugcheck>>

\* CleanupValidationContextOnUnload.
CleanupOnUnload ==
    /\ pc = "idle"
    /\ active' = FALSE /\ complete' = TRUE
    /\ FreeWorkItems({})
    /\ pc' = "unload_spin"
    /\ UNCHANGED <<current_count, active_thread_count, dispatcher_info,
                   validated, index, worker_vars, finished>>

\* Mutant: the items are freed without waiting for the running routines.
FreeWithoutSpin ==
    /\ pc \in {"spin", "unload_spin"}
    /\ pc' = IF pc = "spin" THEN "free" ELSE "unload_free"
    /\ UNCHANGED <<context_vars, work_items, index, early_free, worker_vars,
                   finished, state, bugcheck>>

\* FreeModuleVerificationItems waits until it sees no active thread...
SpinOnThreadCount ==
    /\ pc \in {"spin", "unload_spin"} /\ active_thread_count = 0
    /\ pc' = IF pc = "spin" THEN "free" ELSE "unload_free"
    /\ UNCHANGED <<context_vars, work_items, index, early_free, worker_vars,
                   finished, state, bugcheck>>

\* ... and frees the arrays; a completed sweep frees its work items as well.
FreeModuleVerificationItems ==
    /\ pc = "free"
    /\ dispatcher_info' = "null" /\ validated' = {}
    /\ FreeWorkItems(RunningItems)
    /\ pc' = "idle"
    /\ UNCHANGED <<active, complete, current_count, active_thread_count, index,
                   worker_vars, finished>>

FreeItemsOnUnload ==
    /\ pc = "unload_free"
    /\ dispatcher_info' = "null" /\ validated' = {}
    /\ pc' = "unloaded"
    /\ early_free' = (early_free \/ RunningItems # {})
    /\ UNCHANGED <<active, complete, current_count, active_thread_count,
                   work_items, index, worker_vars, finished, state, bugcheck>>

CallerStep ==
    \/ InitialiseContext
    \/ ContinueSweep
    \/ QueueWorkItem
    \/ SkipWorkItem
    \/ CompleteSweep
    \/ CleanupOnUnload
    \/ SpinOnThreadCount
    \/ FreeModuleVerificationItems
    \/ FreeItemsOnUnload

-----------------------------------------------------------------------------
Next ==
    /\ bugcheck = "no"
    /\ CallerStep \/ \E w \in WorkItems : WorkerStep(w)

Spec == Init /\ [][Next]_vars

\* The system runs queued work items, a call of the dispatcher goes on to its
\* end, and if calls keep coming a work item can be allocated now and then.
FairSpec ==
    /\ Spec
    /\ \A w \in WorkItems : WF_vars(bugcheck = "no" /\ WorkerStep(w))
    /\ WF_vars(bugcheck = "no" /\ pc # "idle" /\ CallerStep)
    /\ SF_vars(bugcheck = "no" /\ QueueWorkItem)

-----------------------------------------------------------------------------
(* Properties.                                                             *)

\* The shape of the context and of the work items.
TypeOK ==
    /\ active \in BOOLEAN /\ complete \in BOOLEAN
    /\ current_count \in 0..total_count
    /\ active_thread_count \in Int
    /\ dispatcher_info \in {"null", "allocated"}
    /\ validated \subseteq Modules /\ finished \subseteq Modules
    /\ work_items \in [Slots -> WorkItems \cup {NULL}]
    /\ state \in [WorkItems -> {"none", "queued", "done"} \cup Running]
    /\ count \in [WorkItems -> 0..total_count]
    /\ max \in [WorkItems -> Nat]
    /\ pc \in {"idle", "queue", "spin", "free", "unload_spin", "unload_free",
               "unloaded"}
    /\ index \in Slots
    /\ early_free \in BOOLEAN
    /\ bugcheck \in {"no", "work_item", "dispatcher_info"}

\* What SweepInOrder says of the work items: blocks overlap, because work items
\* read current_count before others have moved it on; still no module is
\* validated by two of them, or again after it was validated in the same sweep
\* (the compare-and-exchange at integrity.c:1658), until something was freed too
\* early.
ValidatedOnce ==
    ~early_free => \A w \in WorkItems : state[w] = "validate" =>
        /\ count[w] \notin finished
        /\ \A v \in WorkItems \ {w} : state[v] = "validate" => count[v] # count[w]

\* And of the counter, the "current count of validated modules" (integrity.h:32): it
\* may be set back by a slower work item, but never points beyond a module that
\* nobody has claimed, until something was freed too early.
NothingSkipped ==
    active /\ ~early_free => \A m \in Modules : m < current_count => m \in validated

\* No module is validated twice in a sweep and none is passed over, however the
\* work items overtake each other (SystemModuleVerificationDispatchFunction,
\* integrity.c:1658).
SweepInOrder == ValidatedOnce /\ NothingSkipped

\* When a completed sweep is freed, every module was validated: the flag
\* complete, set by whichever work item reaches the end first, together with
\* the wait on active_thread_count.
SweepCoversEveryModule ==
    [][dispatcher_info = "allocated" /\ dispatcher_info' = "null"
          /\ pc = "free" /\ ~early_free => finished = Modules]_vars

\* If the dispatcher is called again and again, as the shared mapping's timer
\* does, a sweep in progress is completed in the end, although work items set
\* current_count back: no interleaving starves it for ever
\* (SystemModuleVerificationDispatcher, integrity.c:1766).
SweepCompletes ==
    []<>(pc = "queue") => (active ~> (complete \/ pc = "unloaded" \/ early_free))

\* "if a thread hasnt completed by this point, something catastrophic has
\* gone wrong" (integrity.c:1740): once no thread is active the arrays can be
\* freed, so no work item looks at them afterwards.
NoUseOfFreedItems == bugcheck # "dispatcher_info"
=============================================================================
