----------------------------- MODULE NotifyLists -----------------------------
(***************************************************************************)
(* The driver's thread and process lists (driver/callbacks.c and list.c)   *)
(* and the notify routines that keep them.  The kernel calls the routines  *)
(* from the thread that creates or ends the object; a list's lock is taken *)
(* once to look for an entry and again to insert or remove it.  Removing a *)
(* notify routine waits for the calls of it that are in progress.          *)
(***************************************************************************)
EXTENDS Naturals, FiniteSets

CONSTANTS
    Objects,    \* threads and processes, each created and ended once
    ListOf      \* the list each object belongs to

ObjectLists == {"thread", "process"}
Lists == ObjectLists \cup {"image"}

ASSUME NotifyListsAssumption == ListOf \in [Objects -> ObjectLists]

VARIABLES
    registered,     \* lists whose notify routine the kernel calls
    active,         \* lists whose head says active
    ready,          \* lists whose lock and head are initialised
    lookaside,      \* "none", "live" or "deleted", for each object list
    listed,         \* objects with an entry
    refs,           \* references to each object that the driver holds
    stranded,       \* entries freed to a lookaside list that was deleted
    life,           \* "new", "live" or "dead"
    call,           \* where the notify routine called for each object is
    list_fault      \* an uninitialised lock was taken

list_vars == <<registered, active, ready, lookaside, listed, refs, stranded, life,
               call, list_fault>>

ListTypeOK ==
    /\ registered \in SUBSET Lists
    /\ active \in SUBSET Lists
    /\ ready \in SUBSET Lists
    /\ lookaside \in [ObjectLists -> {"none", "live", "deleted"}]
    /\ listed \in SUBSET Objects
    /\ refs \in [Objects -> Nat]
    /\ stranded \in SUBSET Objects
    /\ life \in [Objects -> {"new", "live", "dead"}]
    /\ call \in [Objects -> {"none", "insert", "remove"}]
    /\ list_fault \in BOOLEAN

ListInit0 ==
    /\ registered = {} /\ active = {} /\ ready = {}
    /\ lookaside = [l \in ObjectLists |-> "none"]
    /\ listed = {} /\ stranded = {}
    /\ refs = [o \in Objects |-> 0]
    /\ life \in [Objects -> {"new", "live"}]
    /\ call = [o \in Objects |-> "none"]
    /\ list_fault = FALSE

Called(o) == ListOf[o] \in registered \cap active
Entries(l) == {o \in listed : ListOf[o] = l}

-----------------------------------------------------------------------------
(* ThreadCreateNotifyRoutine and ProcessCreateNotifyRoutine.  A look-up    *)
(* references the object and nothing takes that reference back; the entry  *)
(* holds another one.  (The same goes for the process a thread belongs to  *)
(* and for a process's parent, which are not modelled.)                    *)

\* The look-up may fail, and so may the allocation of the entry.
CreateNotifyRoutine(o) ==
    /\ life[o] = "new"
    /\ life' = [life EXCEPT ![o] = "live"]
    /\ IF Called(o)
       THEN \/ UNCHANGED <<refs, call>>
            \/ /\ refs' = [refs EXCEPT ![o] = @ + 1]
               /\ UNCHANGED call
            \/ /\ refs' = [refs EXCEPT ![o] = @ + 2]
               /\ call' = [call EXCEPT ![o] = "insert"]
       ELSE UNCHANGED <<refs, call>>
    /\ UNCHANGED <<registered, active, ready, lookaside, listed, stranded,
                   list_fault>>

\* ListInsert, under the list's lock.
ListInsert(o) ==
    /\ call[o] = "insert"
    /\ call' = [call EXCEPT ![o] = "none"]
    /\ IF ListOf[o] \in ready
       THEN listed' = listed \cup {o} /\ UNCHANGED list_fault
       ELSE list_fault' = TRUE /\ UNCHANGED listed
    /\ UNCHANGED <<registered, active, ready, lookaside, refs, stranded, life>>

\* FindThreadListEntryByThreadAddress and FindProcessListEntryByProcess.
FindListEntry(o) == o \in listed

\* The end of an object, up to the release of its entry's reference; the
\* entry is looked up under the lock.
ExitNotifyRoutine(o) ==
    /\ life[o] = "live" /\ call[o] = "none"
    /\ life' = [life EXCEPT ![o] = "dead"]
    /\ IF Called(o)
       THEN IF FindListEntry(o)
            THEN /\ call' = [call EXCEPT ![o] = "remove"]
                 /\ UNCHANGED refs
            ELSE /\ refs' = [refs EXCEPT ![o] = @ + 1]
                 /\ UNCHANGED call
       ELSE UNCHANGED <<refs, call>>
    /\ list_fault' = (Called(o) /\ ListOf[o] \notin ready)
    /\ UNCHANGED <<registered, active, ready, lookaside, listed, stranded>>

\* LookasideListRemoveEntry: whatever the list, the entry goes to the thread
\* list's lookaside list.
LookasideListRemoveEntry(o) ==
    /\ call[o] = "remove"
    /\ call' = [call EXCEPT ![o] = "none"]
    /\ listed' = listed \ {o}
    /\ stranded' = IF lookaside["thread"] = "live" THEN stranded
                   ELSE stranded \cup {o}
    /\ UNCHANGED <<registered, active, ready, lookaside, refs, life, list_fault>>

-----------------------------------------------------------------------------
(* Set-up and clean-up of a list.                                          *)

Register(l) ==
    /\ registered' = registered \cup {l}
    /\ UNCHANGED <<active, ready, lookaside, listed, refs, stranded, life, call,
                   list_fault>>

\* InitialiseThreadList and InitialiseProcessList: the lookaside list and the
\* active flag, then (ListInit) the lock and the head.
InitialiseLookaside(l) ==
    /\ lookaside' = [lookaside EXCEPT ![l] = "live"]
    /\ active' = active \cup {l}
    /\ UNCHANGED <<registered, ready, listed, refs, stranded, life, call, list_fault>>

ListInit(l) ==
    /\ ready' = ready \cup {l}
    /\ listed' = listed \ Entries(l)
    /\ UNCHANGED <<registered, active, lookaside, refs, stranded, life, call,
                   list_fault>>

\* The Unregister...NotifyRoutine functions: first the flag,
Deactivate(l) ==
    /\ active' = active \ {l}
    /\ UNCHANGED <<registered, ready, lookaside, listed, refs, stranded, life, call,
                   list_fault>>

\* then the kernel removes the routine once no call of it is in progress.
Unregister(l) ==
    /\ \A o \in Objects : ListOf[o] = l => call[o] = "none"
    /\ registered' = registered \ {l}
    /\ UNCHANGED <<active, ready, lookaside, listed, refs, stranded, life, call,
                   list_fault>>

\* Mutant: the lookaside list is deleted with entries still in the list.
DeleteLookasideOnly(l) ==
    /\ lookaside' = [lookaside EXCEPT ![l] = "deleted"]
    /\ UNCHANGED <<registered, active, ready, listed, refs, stranded, life, call,
                   list_fault>>

\* CleanupThreadListOnDriverUnload and CleanupProcessListOnDriverUnload:
\* LookasideListFreeFirstEntry frees each entry to the thread list's lookaside
\* list, then the list's own lookaside list is deleted.
CleanupListOnDriverUnload(l) ==
    /\ listed' = listed \ Entries(l)
    /\ stranded' = IF lookaside["thread"] = "live" THEN stranded
                   ELSE stranded \cup Entries(l)
    /\ refs' = [o \in Objects |-> IF o \in Entries(l) THEN refs[o] - 1 ELSE refs[o]]
    /\ lookaside' = [lookaside EXCEPT ![l] = "deleted"]
    /\ UNCHANGED <<registered, active, ready, life, call, list_fault>>
=============================================================================
