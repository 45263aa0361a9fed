------------------------------- MODULE Session -------------------------------
(***************************************************************************)
(* The protected process and the object callbacks that guard it            *)
(* (driver/session.c; driver/callbacks.c, lines 568-706 and 1013-1070).    *)
(* The session's fields are read and written under its lock, in one step   *)
(* here; an object callback reads the process id and the process under two *)
(* holds of it.  Processes are told apart by their image names.            *)
(***************************************************************************)
EXTENDS DeviceThreads

CONSTANTS
    Processes,      \* processes that may be protected
    ImageName       \* PsGetProcessImageFileName, for each of them

ASSUME SessionAssumption == NULL \notin Processes

VARIABLES
    process,            \* ACTIVE_SESSION.process; km_handle goes with it
    is_session_active,
    registration_handle,    \* is it set?
    ob_registered,      \* does the kernel call ObPreOpCallbackRoutine?
    driver_lock,        \* holder of the driver configuration lock
    preop,              \* where the callback of each opener is, what it read
    preop_lock,         \* holder of OB_CALLBACKS_CONFIG.lock
    guarded             \* history: callbacks whose target has been the
                        \* protected process ever since they began

session_vars == <<process, is_session_active, registration_handle,
                  ob_registered, driver_lock, preop, preop_lock, guarded>>

PreOpStages == {"none", "enter", "id", "strip", "grant"}

SessionTypeOK ==
    /\ process \in Processes \cup {NULL}
    /\ is_session_active \in BOOLEAN
    /\ registration_handle \in BOOLEAN /\ ob_registered \in BOOLEAN
    /\ driver_lock \in Clients \cup {NULL}
    /\ preop \in [Openers -> [at : PreOpStages, target : Processes \cup {NULL},
                              id : Processes \cup {NULL}]]
    /\ preop_lock \in Openers \cup {NULL}
    /\ guarded \in SUBSET Openers

NoCall == [at |-> "none", target |-> NULL, id |-> NULL]

SessionInit ==
    /\ process = NULL /\ is_session_active = FALSE
    /\ registration_handle = FALSE /\ ob_registered = FALSE
    /\ driver_lock = NULL
    /\ preop = [o \in Openers |-> NoCall]
    /\ preop_lock = NULL
    /\ guarded = {}

ob_vars == <<registration_handle, ob_registered, driver_lock, preop, preop_lock>>

\* The fields are set in one hold of the session lock.
SetSession(p, active) ==
    /\ process' = p
    /\ is_session_active' = active
    /\ guarded' = {o \in guarded : p = process}
    /\ UNCHANGED ob_vars

SessionInitialise(p) == SetSession(p, TRUE)

\* Mutant: the session stays active.
TerminateStaysActive == SetSession(NULL, is_session_active)

SessionTerminate == SetSession(NULL, FALSE)

\* RegisterProcessObCallbacks, under the driver configuration lock.  The kernel
\* refuses a second registration at the same altitude, or has no memory.
RegisterProcessObCallbacks ==
    /\ driver_lock = NULL
    /\ \/ UNCHANGED <<registration_handle, ob_registered>>
       \/ /\ ~ob_registered
          /\ registration_handle' = TRUE /\ ob_registered' = TRUE
    /\ UNCHANGED <<process, is_session_active, driver_lock, preop, preop_lock,
                   guarded>>

\* UnregisterProcessObCallbacks takes that lock; the kernel makes no new calls,
BeginUnregister(r) ==
    /\ driver_lock = NULL
    /\ driver_lock' = r
    /\ ob_registered' = (ob_registered /\ ~registration_handle)
    /\ UNCHANGED <<process, is_session_active, registration_handle, preop,
                   preop_lock, guarded>>

\* Mutant: the lock is kept when there was nothing to unregister.
UnregisterKeepsLock(r) ==
    /\ driver_lock = r
    /\ \A o \in Openers : preop[o].at = "none"
    /\ registration_handle' = FALSE
    /\ driver_lock' = IF registration_handle THEN NULL ELSE r
    /\ UNCHANGED <<process, is_session_active, ob_registered, preop, preop_lock,
                   guarded>>

\* waits for the callbacks that run, and the handle is reset.
UnregisterProcessObCallbacks(r) ==
    /\ driver_lock = r
    /\ \A o \in Openers : preop[o].at = "none"
    /\ registration_handle' = FALSE
    /\ driver_lock' = NULL
    /\ UNCHANGED <<process, is_session_active, ob_registered, preop, preop_lock,
                   guarded>>

-----------------------------------------------------------------------------
(* ObPreOpCallbackRoutine, for an opener that is not on its list of names. *)

\* A thread opens a handle to process p while the callbacks are registered.
OpenHandle(o, p) ==
    /\ ob_registered /\ preop[o].at = "none"
    /\ preop' = [preop EXCEPT ![o] = [at |-> "enter", target |-> p, id |-> NULL]]
    /\ guarded' = IF process = p THEN guarded \cup {o} ELSE guarded
    /\ UNCHANGED <<process, is_session_active, registration_handle,
                   ob_registered, driver_lock, preop_lock>>

\* The callback takes its lock and reads the process id,
PreOpReadId(o) ==
    /\ preop[o].at = "enter" /\ preop_lock = NULL
    /\ preop_lock' = o
    /\ preop' = [preop EXCEPT ![o] = [at |-> "id", target |-> preop[o].target,
                                      id |-> process]]
    /\ UNCHANGED <<process, is_session_active, registration_handle,
                   ob_registered, driver_lock, guarded>>

\* then the process; it denies the access when the target's image is protected.
Denies(o) ==
    /\ preop[o].id # NULL /\ process # NULL
    /\ ImageName[process] = ImageName[preop[o].target]

\* Mutant: the result of strcmp is taken for the opposite.
DecideInverted(o) ==
    /\ preop[o].at = "id"
    /\ preop' = [preop EXCEPT ![o].at =
                    IF preop[o].id # NULL /\ process # NULL /\ ~Denies(o)
                    THEN "strip" ELSE "grant"]
    /\ UNCHANGED <<process, is_session_active, registration_handle,
                   ob_registered, driver_lock, preop_lock, guarded>>

PreOpDecide(o) ==
    /\ preop[o].at = "id"
    /\ preop' = [preop EXCEPT ![o] =
                    [at |-> IF Denies(o) THEN "strip" ELSE "grant",
                     target |-> preop[o].target, id |-> preop[o].id]]
    /\ UNCHANGED <<process, is_session_active, registration_handle,
                   ob_registered, driver_lock, preop_lock, guarded>>

\* It releases the lock and returns.
PreOpReturn(o) ==
    /\ preop[o].at \in {"strip", "grant"}
    /\ preop' = [preop EXCEPT ![o] = NoCall]
    /\ preop_lock' = NULL
    /\ guarded' = guarded \ {o}
    /\ UNCHANGED <<process, is_session_active, registration_handle,
                   ob_registered, driver_lock>>

ObPreOpCallbackRoutine(o) == PreOpReadId(o) \/ PreOpDecide(o) \/ PreOpReturn(o)
=============================================================================
