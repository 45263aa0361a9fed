------------------------------ MODULE DriverList ------------------------------
(***************************************************************************)
(* The driver's list of system modules and the hashing of their code        *)
(* (driver/callbacks.c, lines 186-359; driver/integrity.c, lines 1353-1532).*)
(* An entry comes from the enumeration of the loaded modules or from the    *)
(* image load notify routine.  A 32-bit module cannot be read before        *)
(* winlogon.exe runs: its entry is marked, and a work item that the start   *)
(* of winlogon.exe queues hashes the entries on the deferred list.          *)
(***************************************************************************)
EXTENDS NotifyLists

CONSTANTS
    Images,     \* system modules other than hal.dll and ntoskrnl.exe
    X86,        \* the 32-bit ones
    Winlogon    \* processes that run winlogon.exe

ASSUME DriverListAssumption ==
    /\ X86 \subseteq Images
    /\ Winlogon \subseteq {o \in Objects : ListOf[o] = "process"}

\* An entry is made by InitialiseDriverList or by ImageLoadNotifyRoutineCallback.
DriverEntries == {"init", "load"} \X Images

VARIABLES
    loaded,             \* images that are loaded
    todo,               \* modules InitialiseDriverList has still to insert
    drivers,            \* entries of the driver list
    hashed,             \* entries whose hash is there
    deferred_list,      \* entries waiting for winlogon.exe
    image_call,         \* images whose notify routine is past the look-up
    can_hash_x86,
    deferred_work_item, \* "none", "idle", "queued" or "freed"
    hashing,            \* is DeferredModuleHashingCallback running?
    deferred_fault      \* a freed or queued work item, or a freed entry, was used

driver_vars == <<loaded, todo, drivers, hashed, deferred_list, image_call,
                 can_hash_x86, deferred_work_item, hashing, deferred_fault>>

DriverListTypeOK ==
    /\ loaded \in SUBSET Images
    /\ todo \in SUBSET Images
    /\ drivers \in SUBSET DriverEntries
    /\ hashed \in SUBSET DriverEntries
    /\ deferred_list \in SUBSET DriverEntries
    /\ image_call \in SUBSET Images
    /\ can_hash_x86 \in BOOLEAN
    /\ deferred_work_item \in {"none", "idle", "queued", "freed"}
    /\ hashing \in BOOLEAN
    /\ deferred_fault \in BOOLEAN

DriverListInit0 ==
    /\ loaded \in SUBSET Images
    /\ todo = {} /\ drivers = {} /\ hashed = {} /\ deferred_list = {}
    /\ image_call = {}
    /\ can_hash_x86 = FALSE
    /\ deferred_work_item = "none" /\ hashing = FALSE
    /\ deferred_fault = FALSE

\* HashModule on a 32-bit module before winlogon.exe: STATUS_INVALID_IMAGE_WIN_32.
MustDefer(i) == i \in X86 /\ ~can_hash_x86

\* HashModule succeeds, or fails for another reason; a 32-bit module is read
\* in the address space of a winlogon.exe in the process list.
HashModule(e) ==
    \/ /\ e[2] \in X86 => can_hash_x86 /\ Winlogon \cap listed # {}
       /\ hashed' = hashed \cup {e}
    \/ hashed' = hashed \ {e}

-----------------------------------------------------------------------------
(* InitialiseDriverList.                                                   *)

ActivateDriverList ==
    /\ active' = active \cup {"image"}
    /\ UNCHANGED <<registered, ready, lookaside, listed, refs, stranded, life,
                   call, list_fault>>
    /\ UNCHANGED driver_vars

\* ListInit, the deferred list and the work item.
InitialiseDriverListHead ==
    /\ ListInit("image")
    /\ drivers' = {} /\ deferred_list' = {}
    /\ can_hash_x86' = FALSE
    /\ deferred_work_item' \in {"none", "idle"}
    /\ UNCHANGED <<loaded, todo, hashed, image_call, hashing, deferred_fault>>

\* GetSystemModuleInformation lists the modules that are loaded.
SnapshotModules ==
    /\ todo' = loaded
    /\ UNCHANGED <<loaded, drivers, hashed, deferred_list, image_call,
                   can_hash_x86, deferred_work_item, hashing, deferred_fault>>
    /\ UNCHANGED list_vars

\* One module of InitialiseDriverList's loop.
InsertLoadedModule(i) ==
    /\ todo' = todo \ {i}
    /\ drivers' = drivers \cup {<<"init", i>>}
    /\ IF MustDefer(i)
       THEN /\ deferred_list' = deferred_list \cup {<<"init", i>>}
            /\ UNCHANGED hashed
       ELSE HashModule(<<"init", i>>) /\ UNCHANGED deferred_list
    /\ UNCHANGED <<loaded, image_call, can_hash_x86, deferred_work_item,
                   hashing, deferred_fault>>
    /\ UNCHANGED list_vars

\* No memory for the entry: the module is left out.
SkipLoadedModule(i) ==
    /\ todo' = todo \ {i}
    /\ UNCHANGED <<loaded, drivers, hashed, deferred_list, image_call,
                   can_hash_x86, deferred_work_item, hashing, deferred_fault>>
    /\ UNCHANGED list_vars

-----------------------------------------------------------------------------
(* ImageLoadNotifyRoutineCallback.                                         *)

\* An image is loaded; the routine looks for its base address under the lock.
ImageLoadNotifyRoutineCallback(i) ==
    /\ i \notin loaded
    /\ loaded' = loaded \cup {i}
    /\ LET called == "image" \in registered \cap active IN
       /\ list_fault' = (called /\ "image" \notin ready)
       /\ IF called /\ ~\E e \in drivers : e[2] = i
          THEN image_call' \in {image_call, image_call \cup {i}}
          ELSE UNCHANGED image_call
    /\ UNCHANGED <<registered, active, ready, lookaside, listed, refs, stranded,
                   life, call, todo, drivers, hashed, deferred_list,
                   can_hash_x86, deferred_work_item, hashing, deferred_fault>>

\* Hash the module and insert the entry; it never goes to the deferred list.
InsertNewModule(i) ==
    /\ i \in image_call
    /\ image_call' = image_call \ {i}
    /\ drivers' = drivers \cup {<<"load", i>>}
    /\ IF MustDefer(i) THEN UNCHANGED hashed ELSE HashModule(<<"load", i>>)
    /\ UNCHANGED list_vars
    /\ UNCHANGED <<loaded, todo, deferred_list, can_hash_x86,
                   deferred_work_item, hashing, deferred_fault>>

-----------------------------------------------------------------------------
(* Deferred hashing.                                                       *)

\* The end of ProcessCreateNotifyRoutine: winlogon.exe allows 32-bit modules to
\* be hashed and queues the work item.
NotifyWinlogon(o) ==
    /\ IF o \in Winlogon /\ ListOf[o] \in ready
       THEN /\ can_hash_x86' = TRUE
            /\ deferred_work_item' = IF deferred_work_item = "idle"
                                     THEN "queued" ELSE deferred_work_item
            /\ deferred_fault' = (deferred_work_item # "idle")
       ELSE UNCHANGED <<can_hash_x86, deferred_work_item, deferred_fault>>
    /\ UNCHANGED <<loaded, todo, drivers, hashed, deferred_list, image_call,
                   hashing>>

\* A system worker thread starts DeferredModuleHashingCallback.
StartDeferredHashing ==
    /\ deferred_work_item = "queued"
    /\ deferred_work_item' = "idle"
    /\ hashing' = TRUE
    /\ deferred_fault' = hashing
    /\ UNCHANGED <<loaded, todo, drivers, hashed, deferred_list, image_call,
                   can_hash_x86>>
    /\ UNCHANGED list_vars

\* Mutant: the entry is hashed and stays on the deferred list.
HashWithoutRemoval(e) ==
    /\ hashing /\ e \in deferred_list
    /\ IF e \in drivers
       THEN HashModule(e) /\ UNCHANGED deferred_fault
       ELSE deferred_fault' = TRUE /\ UNCHANGED hashed
    /\ UNCHANGED <<loaded, todo, drivers, deferred_list, image_call,
                   can_hash_x86, deferred_work_item, hashing>>
    /\ UNCHANGED list_vars

\* RemoveHeadList and HashModule, for one entry; the list's lock is not held.
HashDeferredModule(e) ==
    /\ hashing /\ e \in deferred_list
    /\ deferred_list' = deferred_list \ {e}
    /\ IF e \in drivers
       THEN HashModule(e) /\ UNCHANGED deferred_fault
       ELSE deferred_fault' = TRUE /\ UNCHANGED hashed
    /\ UNCHANGED <<loaded, todo, drivers, image_call, can_hash_x86,
                   deferred_work_item, hashing>>
    /\ UNCHANGED list_vars

\* The deferred list is empty: the routine frees its own work item.
FreeDeferredWorkItem ==
    /\ hashing /\ deferred_list = {}
    /\ hashing' = FALSE
    /\ deferred_work_item' = "freed"
    /\ deferred_fault' = (deferred_work_item = "queued")
    /\ UNCHANGED <<loaded, todo, drivers, hashed, deferred_list, image_call,
                   can_hash_x86>>
    /\ UNCHANGED list_vars

\* CleanupDriverListOnDriverUnload: ListFreeFirstEntry until the list is empty.
CleanupDriverListOnDriverUnload ==
    /\ drivers' = {} /\ hashed' = {}
    /\ UNCHANGED <<loaded, todo, deferred_list, image_call, can_hash_x86,
                   deferred_work_item, hashing, deferred_fault>>
    /\ UNCHANGED list_vars
=============================================================================
