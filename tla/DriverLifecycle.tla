--------------------------- MODULE DriverLifecycle ---------------------------
(***************************************************************************)
(* DriverEntry and DriverUnload (driver/driver.c) together with what runs  *)
(* beside them: the integrity timer, the notify routines of the thread,    *)
(* process and driver lists, and the deferred hashing of 32-bit modules.   *)
(* A failed step of DriverEntry and DriverUnload both run a fixed sequence *)
(* of clean-up steps; cleanup holds the steps still to be done.            *)
(***************************************************************************)
EXTENDS IntegrityTimer, DriverList, Sequences

VARIABLES
    pc,                 \* where DriverEntry is, then "loaded", "cleanup", "gone"
    cleanup,            \* clean-up steps still to be done
    device,             \* "none", "created" or "deleted"
    symbolic_link,
    strings,            \* the configuration strings that are allocated
    has_driver_loaded

entry_vars == <<pc, cleanup, device, symbolic_link, strings, has_driver_loaded>>
vars == <<timer_vars, list_vars, driver_vars, entry_vars>>

EntryStages == {"entry", "registry", "ansi_name", "gather", "timer", "link",
                "register_image", "register_thread", "register_process",
                "driver_activate", "driver_head", "driver_modules", "driver_insert", "thread_activate",
                "thread_init", "process_activate", "process_init"}

Crashed == timer_fault \/ list_fault \/ deferred_fault

Init ==
    /\ TimerInit /\ ListInit0 /\ DriverListInit0
    /\ pc = "entry" /\ cleanup = <<>>
    /\ device = "none"
    /\ symbolic_link = FALSE
    /\ strings = {}
    /\ has_driver_loaded = FALSE

-----------------------------------------------------------------------------
(* The clean-up sequences.                                                 *)

TimerCleanup == << <<"flush">>, <<"spin">>, <<"cancel">>, <<"free_item">> >>

UnregisterRoutine(l) == << <<"deactivate", l>>, <<"unregister", l>> >>

\* What the failure branches of DriverEntry run.
FreeStrings == << <<"free_strings">> >>
DeviceCleanup == << <<"delete_device">> >>
ConfigCleanup == FreeStrings \o DeviceCleanup
EntryCleanup == FreeStrings \o TimerCleanup \o << <<"delete_link">> >> \o DeviceCleanup

\* What the failure branches of DrvLoadSetupDriverLists run first.
UnregisterAll == UnregisterRoutine("process") \o UnregisterRoutine("thread")
                 \o UnregisterRoutine("image")

\* Mutant: the lists are freed before the notify routines are removed.
UnloadFreeListsFirst ==
    TimerCleanup
    \o << <<"free_list", "thread">>, <<"free_list", "process">>, <<"free_drivers">> >>
    \o UnregisterRoutine("thread") \o UnregisterRoutine("process")
    \o UnregisterRoutine("image")
    \o FreeStrings \o << <<"delete_link">> >> \o DeviceCleanup

\* DriverUnload, after the APC contexts are freed.
UnloadSequence ==
    TimerCleanup
    \o UnregisterRoutine("thread") \o UnregisterRoutine("process")
    \o UnregisterRoutine("image")
    \o << <<"free_list", "thread">>, <<"free_list", "process">>, <<"free_drivers">> >>
    \o FreeStrings \o << <<"delete_link">> >> \o DeviceCleanup

-----------------------------------------------------------------------------
(* DriverEntry.                                                            *)

Goto(stage) ==
    /\ pc' = stage
    /\ UNCHANGED <<cleanup, device, symbolic_link, strings, has_driver_loaded>>

Fail(steps) ==
    /\ pc' = "cleanup"
    /\ cleanup' = steps
    /\ UNCHANGED <<device, symbolic_link, strings, has_driver_loaded>>

\* ImpResolveDynamicImports and IoCreateDevice.
CreateDevice ==
    /\ pc = "entry"
    /\ \/ Goto("gone")
       \/ /\ pc' = "registry" /\ device' = "created"
          /\ UNCHANGED <<cleanup, symbolic_link, strings, has_driver_loaded>>
    /\ UNCHANGED <<timer_vars, list_vars, driver_vars>>

\* RegistryPathQueryCallbackRoutine is called for one value after the other; the
\* query ends when there is no memory for a copy.  The driver's service has both
\* values.
RegistryPathQueryCallbackRoutine ==
    {{}, {"driver_path"}, {"driver_path", "unicode_driver_name"}}

\* DrvLoadRetrieveDriverNameFromRegistry keeps what was allocated when it fails.
DrvLoadRetrieveDriverNameFromRegistry ==
    /\ \/ /\ pc = "registry"
          /\ strings' \in RegistryPathQueryCallbackRoutine
          /\ IF "unicode_driver_name" \in strings'
             THEN pc' = "ansi_name" /\ UNCHANGED cleanup
             ELSE pc' = "cleanup" /\ cleanup' = ConfigCleanup
          /\ UNCHANGED <<device, symbolic_link, has_driver_loaded>>
       \/ /\ pc = "ansi_name"
          /\ \/ /\ pc' = "gather" /\ strings' = strings \cup {"ansi_driver_name"}
                /\ UNCHANGED <<cleanup, device, symbolic_link, has_driver_loaded>>
             \/ Fail(ConfigCleanup)
    /\ UNCHANGED timer_vars

\* DrvLoadInitialiseDriverConfig: the names, the machine (SystemInformation) and
\* the timer; nothing after the timer's set-up fails.
DrvLoadInitialiseDriverConfig ==
    /\ \/ DrvLoadRetrieveDriverNameFromRegistry
       \/ /\ pc = "gather"
          /\ Goto("timer") \/ Fail(ConfigCleanup)
          /\ UNCHANGED timer_vars
       \/ /\ pc = "timer"
          /\ \/ Fail(ConfigCleanup) /\ UNCHANGED timer_vars
             \/ Goto("link") /\ InitialiseTimerObject
    /\ UNCHANGED <<list_vars, driver_vars>>

CreateSymbolicLink ==
    /\ pc = "link"
    /\ \/ Fail(FreeStrings \o TimerCleanup \o DeviceCleanup)
       \/ /\ pc' = "register_image" /\ symbolic_link' = TRUE
          /\ UNCHANGED <<cleanup, device, strings, has_driver_loaded>>
    /\ UNCHANGED <<timer_vars, list_vars, driver_vars>>

\* DrvLoadEnableNotifyRoutines; a failure removes the routines set before.
EnableNotifyRoutine(stage, l, next, undo) ==
    /\ pc = stage
    /\ \/ Register(l) /\ Goto(next)
       \/ Fail(undo \o EntryCleanup) /\ UNCHANGED list_vars
    /\ UNCHANGED <<timer_vars, driver_vars>>

DrvLoadEnableNotifyRoutines ==
    \/ EnableNotifyRoutine("register_image", "image", "register_thread", <<>>)
    \/ EnableNotifyRoutine("register_thread", "thread", "register_process",
                           << <<"unregister", "image">> >>)
    \/ EnableNotifyRoutine("register_process", "process", "driver_activate",
                           << <<"unregister", "thread">>, <<"unregister", "image">> >>)

\* InitialiseDriverList, as DrvLoadSetupDriverLists calls it.
SetupDriverList ==
    /\ \/ pc = "driver_activate" /\ ActivateDriverList /\ Goto("driver_head")
       \/ /\ pc = "driver_head" /\ InitialiseDriverListHead
          /\ IF deferred_work_item' = "idle" THEN Goto("driver_modules")
             ELSE Fail(UnregisterAll \o EntryCleanup)
       \/ /\ pc = "driver_modules"
          /\ \/ SnapshotModules /\ Goto("driver_insert")
             \/ /\ Fail(UnregisterAll \o EntryCleanup)
                /\ UNCHANGED <<list_vars, driver_vars>>
       \/ /\ pc = "driver_insert"
          /\ \E i \in todo : InsertLoadedModule(i) \/ SkipLoadedModule(i)
          /\ UNCHANGED entry_vars
       \/ /\ pc = "driver_insert" /\ todo = {}
          /\ Goto("thread_activate")
          /\ UNCHANGED <<list_vars, driver_vars>>
    /\ UNCHANGED timer_vars

\* InitialiseThreadList and InitialiseProcessList, and the flag that ends
\* DriverEntry.  A failure frees the lists that were set up before.
SetupObjectList(stage, l, init, undo) ==
    /\ pc = stage
    /\ \/ InitialiseLookaside(l) /\ Goto(init)
       \/ Fail(UnregisterAll \o undo \o EntryCleanup) /\ UNCHANGED list_vars
    /\ UNCHANGED <<timer_vars, driver_vars>>

SetupObjectLists ==
    \/ SetupObjectList("thread_activate", "thread", "thread_init",
                       << <<"free_drivers">> >>)
    \/ /\ pc = "thread_init" /\ ListInit("thread") /\ Goto("process_activate")
       /\ UNCHANGED <<timer_vars, driver_vars>>
    \/ SetupObjectList("process_activate", "process", "process_init",
                       << <<"free_drivers">>, <<"free_list", "thread">> >>)
    \/ /\ pc = "process_init" /\ ListInit("process")
       /\ pc' = "loaded" /\ has_driver_loaded' = TRUE
       /\ UNCHANGED <<timer_vars, driver_vars, cleanup, device, symbolic_link,
                      strings>>

DriverEntry ==
    \/ CreateDevice \/ DrvLoadInitialiseDriverConfig \/ CreateSymbolicLink
    \/ DrvLoadEnableNotifyRoutines \/ SetupDriverList \/ SetupObjectLists

-----------------------------------------------------------------------------
(* DriverUnload and the clean-up steps.                                    *)

DriverUnload ==
    /\ pc = "loaded"
    /\ Fail(UnloadSequence)
    /\ UNCHANGED <<timer_vars, list_vars, driver_vars>>

TimerCleanupStep(s) ==
    /\ \/ s = <<"flush">> /\ KeFlushQueuedDpcs
       \/ s = <<"spin">> /\ SpinOnTimerState
       \/ s = <<"cancel">> /\ KeCancelTimer
       \/ s = <<"free_item">> /\ IoFreeTimerWorkItem
    /\ UNCHANGED <<list_vars, driver_vars, device, symbolic_link, strings>>

ListCleanupStep(s) ==
    /\ \/ /\ \E l \in Lists : \/ s = <<"deactivate", l>> /\ Deactivate(l)
                              \/ s = <<"unregister", l>> /\ Unregister(l)
                                 /\ (l = "image" => image_call = {})
          /\ UNCHANGED driver_vars
       \/ /\ \E l \in ObjectLists : s = <<"free_list", l>> /\ CleanupListOnDriverUnload(l)
          /\ UNCHANGED driver_vars
       \/ s = <<"free_drivers">> /\ CleanupDriverListOnDriverUnload
    /\ UNCHANGED <<timer_vars, device, symbolic_link, strings>>

DeviceCleanupStep(s) ==
    /\ \/ /\ s = <<"free_strings">> /\ strings' = {}
          /\ UNCHANGED <<device, symbolic_link>>
       \/ /\ s = <<"delete_link">> /\ symbolic_link' = FALSE
          /\ UNCHANGED <<device, strings>>
       \/ /\ s = <<"delete_device">> /\ device' = "deleted"
          /\ UNCHANGED <<symbolic_link, strings>>
    /\ UNCHANGED <<timer_vars, list_vars, driver_vars>>

CleanupStep ==
    /\ cleanup # <<>>
    /\ LET s == Head(cleanup) IN
       TimerCleanupStep(s) \/ ListCleanupStep(s) \/ DeviceCleanupStep(s)
    /\ cleanup' = Tail(cleanup)
    /\ pc' = IF Tail(cleanup) = <<>> THEN "gone" ELSE "cleanup"
    /\ UNCHANGED has_driver_loaded

-----------------------------------------------------------------------------
(* What runs beside them.                                                  *)

TimerDpc ==
    /\ \/ TimerObjectCallbackRoutine(has_driver_loaded, device = "deleted")
       \/ QueueTimerWorkItem
    /\ UNCHANGED <<list_vars, driver_vars, entry_vars>>

TimerWorker ==
    /\ StartTimerWorkItem \/ TimerObjectWorkItemRoutine
    /\ UNCHANGED <<list_vars, driver_vars, entry_vars>>

Expiry ==
    /\ TimerExpires
    /\ UNCHANGED <<list_vars, driver_vars, entry_vars>>

\* A thread or process is created or ends, and the kernel calls the routines.
ObjectEvent(o) ==
    /\ \/ (CreateNotifyRoutine(o) \/ ExitNotifyRoutine(o)) /\ UNCHANGED driver_vars
       \/ LookasideListRemoveEntry(o) /\ UNCHANGED driver_vars
       \/ ListInsert(o) /\ NotifyWinlogon(o)
    /\ UNCHANGED <<timer_vars, entry_vars>>

\* A call that is in progress goes on.
FinishCall(o) == call[o] # "none" /\ ObjectEvent(o)

ImageEvent(i) ==
    /\ ImageLoadNotifyRoutineCallback(i) \/ InsertNewModule(i)
    /\ UNCHANGED <<timer_vars, entry_vars>>

DeferredHashing ==
    /\ \/ StartDeferredHashing
       \/ \E e \in deferred_list : HashDeferredModule(e)
       \/ FreeDeferredWorkItem
    /\ UNCHANGED <<timer_vars, entry_vars>>

\* Nothing runs after a crash.
Next ==
    /\ ~Crashed
    /\ \/ DriverEntry \/ DriverUnload \/ CleanupStep
       \/ TimerDpc \/ TimerWorker \/ Expiry
       \/ \E o \in Objects : ObjectEvent(o)
       \/ \E i \in Images : ImageEvent(i)
       \/ DeferredHashing

Spec == Init /\ [][Next]_vars

\* Started routines, DPCs and work items go on.  DriverUnload polls the DPC
\* queue and the timer's state all the time, and the timer leaves them alone
\* for ten seconds at a stretch: strong fairness.
Fairness ==
    /\ WF_vars(~Crashed /\ DriverEntry)
    /\ SF_vars(~Crashed /\ CleanupStep)
    /\ WF_vars(~Crashed /\ TimerDpc)
    /\ WF_vars(~Crashed /\ TimerWorker)
    /\ \A o \in Objects : WF_vars(~Crashed /\ FinishCall(o))
    /\ \A i \in Images : WF_vars(~Crashed /\ i \in image_call /\ ImageEvent(i))
    /\ WF_vars(~Crashed /\ DeferredHashing)

FairSpec == Spec /\ Fairness

-----------------------------------------------------------------------------
(* Properties.                                                             *)

\* The shape of the driver's state.
TypeOK ==
    /\ TimerTypeOK /\ ListTypeOK /\ DriverListTypeOK
    /\ pc \in EntryStages \cup {"loaded", "cleanup", "gone"}
    /\ device \in {"none", "created", "deleted"}
    /\ symbolic_link \in BOOLEAN
    /\ strings \subseteq {"driver_path", "unicode_driver_name", "ansi_driver_name"}
    /\ has_driver_loaded \in BOOLEAN

\* What TIMER_OBJECT.state means to CleanupDriverTimerObjects: while the work
\* item is queued or runs, the state is set, whatever the DPC, the worker and
\* the unload routine do, up to the crash a late DPC causes.
StateCoversWorkItem ==
    ~Crashed => (work_item \in {"queued", "running"} => state)

\* The lists are only freed when no notify routine can touch them: with its
\* lookaside list gone a list is empty, no call for it is in progress and none
\* can start (DriverUnload, the failure branches of DrvLoadSetupDriverLists).
FreedListIsQuiet ==
    \A l \in ObjectLists : lookaside[l] = "deleted" =>
        /\ l \notin registered
        /\ Entries(l) = {}
        /\ \A o \in Objects : ListOf[o] = l => call[o] = "none"

\* Whether DriverEntry failed or DriverUnload ran, the driver leaves no notify
\* routine, no armed timer, no usable work item, no list entry, no lookaside
\* list, no configuration string and no device name behind.
GoneIsClean ==
    pc = "gone" =>
        /\ registered = {} /\ active = {}
        /\ ~timer /\ work_item \in {"none", "freed"}
        /\ listed = {}
        /\ \A l \in ObjectLists : lookaside[l] # "live"
        /\ strings = {}
        /\ ~symbolic_link /\ device # "created"
        /\ has_driver_loaded => drivers = {}

\* Once winlogon.exe runs, DeferredModuleHashingCallback gets to every waiting
\* module.
DeferredModulesAreHashed == can_hash_x86 ~> (deferred_list = {} \/ Crashed)

\* Neither a failed DriverEntry nor DriverUnload waits for ever for the timer's
\* work item, its DPC or a notify routine.
CleanupCompletes == (pc = "cleanup") ~> (pc = "gone" \/ Crashed)

\* CleanupDriverTimerObjects, callbacks.c:1006: once the DPCs are flushed and
\* the state is reset, "now its safe to free and cancel our timers, pools etc."
TimerFreedSafely == ~timer_fault
=============================================================================
