----------------------------- MODULE ProcessAccess ----------------------------
(***************************************************************************)
(* Who has access to the protected process: the handles that every process *)
(* holds on it, from which access is taken away (driver/callbacks.c, lines *)
(* 708-915), and the threads of other processes that are attached to it    *)
(* (driver/thread.c).  The session may end while the lists are walked.     *)
(***************************************************************************)
EXTENDS Integers, Sequences, FiniteSets

CONSTANTS
    HandleTables,       \* process lists: sequences of [process, readable, table]
    AttachedThreads,    \* thread lists: sequences of [thread, owner, attached]
    ProtectedProcess,   \* the session's process
    SystemProcess,      \* PsInitialSystemProcess
    ImageName           \* image name of each process

Handles == [type : STRING, object : STRING, access : SUBSET STRING]
Rows == [process : STRING, readable : BOOLEAN, table : Seq(Handles)]

\* A handle table that is not readable has a pointer that is NULL or not valid.
ASSUME AccessAssumption ==
    /\ HandleTables \subseteq Seq(Rows)
    /\ AttachedThreads \subseteq Seq([thread : Nat, owner : STRING, attached : STRING])

\* Access that is taken away from every handle,
AlwaysStripped ==
    {"CREATE_PROCESS", "CREATE_THREAD", "DUP_HANDLE", "QUERY_INFORMATION",
     "QUERY_LIMITED_INFORMATION", "VM_READ"}
\* and from a handle on a process that is not critical.
StrippedUnlessCritical ==
    {"SET_INFORMATION", "SET_QUOTA", "SUSPEND_RESUME", "TERMINATE",
     "VM_OPERATION", "VM_WRITE"}
CriticalNames == {"csrss.exe", "lsass.exe"}

VARIABLES
    pa_pc,          \* "idle", "handles", "threads", "fault" or "done"
    pa_list,        \* the list that is walked, with the tables as they are now
    pa_at,          \* the process or thread the walk is at
    pa_entry,       \* and the entry of its handle table
    pa_session,     \* is the session on?
    pa_initial,     \* the list when the walk began
    pa_unlocked,    \* entries unlocked
    pa_seen,        \* threads looked at while the session was on
    pa_reports,     \* what was reported, and
    pa_dropped      \* what could not be

pa_vars == <<pa_pc, pa_list, pa_at, pa_entry, pa_session, pa_initial, pa_unlocked,
             pa_seen, pa_reports, pa_dropped>>

ProcessAccessTypeOK ==
    /\ pa_pc \in {"idle", "handles", "threads", "fault", "done"}
    /\ pa_at \in Nat /\ pa_entry \in Nat /\ pa_session \in BOOLEAN

ProcessAccessInit ==
    /\ pa_pc = "idle" /\ pa_list = <<>> /\ pa_initial = <<>> /\ pa_at = 1
    /\ pa_entry = 1 /\ pa_session = TRUE /\ pa_unlocked = {} /\ pa_seen = {}
    /\ pa_reports = {} /\ pa_dropped = {}

StartWalk(pc, list) ==
    /\ pa_pc = "idle"
    /\ pa_pc' = pc /\ pa_list' = list /\ pa_initial' = list
    /\ UNCHANGED <<pa_at, pa_entry, pa_session, pa_unlocked, pa_seen, pa_reports,
                   pa_dropped>>

\* EnumerateProcessListWithCallbackRoutine with EnumerateProcessHandles
EnumerateHandleTables(list) == StartWalk("handles", list)

\* EnumerateThreadListWithCallbackRoutine with its callback
DetectThreadsAttachedToProtectedProcess(list) == StartWalk("threads", list)

\* SessionTerminate by another thread of the client.
SessionEnds ==
    /\ pa_pc \in {"handles", "threads"} /\ pa_session
    /\ pa_session' = FALSE
    /\ UNCHANGED <<pa_pc, pa_list, pa_at, pa_entry, pa_initial, pa_unlocked, pa_seen,
                   pa_reports, pa_dropped>>

\* A report is queued, or there is no memory for it.
ReportOrDrop(report) ==
    \/ pa_reports' = pa_reports \cup {report} /\ UNCHANGED pa_dropped
    \/ pa_dropped' = pa_dropped \cup {report} /\ UNCHANGED pa_reports

\* EnumerateProcessHandles: the System process, and a process whose table cannot
\* be read, are passed over.
PassedOver(p) == p.process = SystemProcess \/ ~p.readable

\* Mutant: only the first group of rights is taken away.
StripFirstHalf(access, name) == access \ AlwaysStripped

Stripped(access, name) ==
    access \ (AlwaysStripped
              \cup IF name \in CriticalNames THEN {} ELSE StrippedUnlessCritical)

StripHandle(p, entry, name) ==
    [p EXCEPT !.table[entry].access = Stripped(@, name)]

\* EnumHandleCallback for this entry.  It reads the name of the session's
\* process without a test that there is one.
EnumHandleCallback(p, entry) ==
    LET unlock == pa_unlocked' = pa_unlocked \cup {<<pa_at, pa_entry>>}
                  /\ pa_entry' = pa_entry + 1 /\ UNCHANGED pa_pc
        ignore == unlock /\ UNCHANGED <<pa_list, pa_reports, pa_dropped>>
        name == ImageName[entry.object]
    IN IF entry.type # "Process" THEN ignore
       ELSE IF ~pa_session
       THEN pa_pc' = "fault" /\ UNCHANGED <<pa_list, pa_entry, pa_unlocked, pa_reports,
                                            pa_dropped>>
       ELSE IF name # ImageName[ProtectedProcess] THEN ignore
       ELSE /\ pa_list' = [pa_list EXCEPT ![pa_at] = StripHandle(p, pa_entry, name)]
            /\ IF name \in CriticalNames THEN UNCHANGED <<pa_reports, pa_dropped>>
               ELSE ReportOrDrop([process |-> entry.object, access |-> entry.access])
            /\ unlock

WalkHandleTables ==
    /\ pa_pc = "handles"
    /\ IF pa_at > Len(pa_list)
       THEN pa_pc' = "done" /\ UNCHANGED <<pa_list, pa_at, pa_entry, pa_unlocked,
                                           pa_reports, pa_dropped>>
       ELSE LET p == pa_list[pa_at]
            IN IF PassedOver(p) \/ pa_entry > Len(p.table)
               THEN /\ pa_at' = pa_at + 1 /\ pa_entry' = 1
                    /\ UNCHANGED <<pa_pc, pa_list, pa_unlocked, pa_reports, pa_dropped>>
               ELSE EnumHandleCallback(p, p.table[pa_entry]) /\ UNCHANGED pa_at
    /\ UNCHANGED <<pa_session, pa_initial, pa_seen>>

\* Mutant: a thread of any process attached to it counts.
AttachedAtAll(t) == t.attached = ProtectedProcess

AttachedToProtected(t) == t.attached = ProtectedProcess /\ t.owner # ProtectedProcess

\* DetectAttachedThreadsProcessCallback for the next thread.
WalkThreads ==
    /\ pa_pc = "threads"
    /\ IF pa_at > Len(pa_list)
       THEN pa_pc' = "done" /\ UNCHANGED <<pa_at, pa_seen, pa_reports, pa_dropped>>
       ELSE LET t == pa_list[pa_at]
            IN /\ IF pa_session /\ AttachedToProtected(t)
                  THEN ReportOrDrop([thread |-> t.thread])
                  ELSE UNCHANGED <<pa_reports, pa_dropped>>
               /\ pa_seen' = IF pa_session THEN pa_seen \cup {pa_at} ELSE pa_seen
               /\ pa_at' = pa_at + 1 /\ UNCHANGED pa_pc
    /\ UNCHANGED <<pa_list, pa_entry, pa_session, pa_initial, pa_unlocked>>

ProcessAccessReturn ==
    /\ pa_pc = "done"
    /\ pa_pc' = "idle" /\ pa_list' = <<>> /\ pa_initial' = <<>> /\ pa_at' = 1
    /\ pa_entry' = 1 /\ pa_session' = TRUE /\ pa_unlocked' = {} /\ pa_seen' = {}
    /\ pa_reports' = {} /\ pa_dropped' = {}

ProcessAccessStep ==
    WalkHandleTables \/ WalkThreads \/ SessionEnds \/ ProcessAccessReturn

-----------------------------------------------------------------------------
Known == pa_reports \cup pa_dropped

HandleSettled(i, j) ==
    LET old == pa_initial[i].table[j]
        new == pa_list[i].table[j]
    IN /\ <<i, j>> \in pa_unlocked
       /\ old.type = "Process" /\ old.object = ProtectedProcess =>
              /\ new.access \cap AlwaysStripped = {}
              /\ ImageName[ProtectedProcess] \notin CriticalNames =>
                     /\ new.access \cap StrippedUnlessCritical = {}
                     /\ [process |-> old.object, access |-> old.access] \in Known
       /\ \/ old.type # "Process"
          \/ ImageName[old.object] # ImageName[ProtectedProcess]
          => new = old

\* At the end of the walk every entry that could be read is unlocked, a handle on
\* the protected process has lost the rights that the driver takes away and was
\* reported with the rights it had, unless there was no memory, and a handle on
\* a process of another name is as before (EnumHandleCallback,
\* driver/callbacks.c:728).  Of the threads looked at during the session exactly
\* those of other processes that are attached are reported
\* (DetectAttachedThreadsProcessCallback, driver/thread.c:79).
ForeignAccessReported ==
    /\ pa_pc = "handles" /\ pa_at > Len(pa_list) =>
           \A i \in 1..Len(pa_list) :
               ~PassedOver(pa_list[i]) =>
                   \A j \in 1..Len(pa_list[i].table) : HandleSettled(i, j)
    /\ pa_pc = "threads" =>
           Known = {[thread |-> pa_list[i].thread] :
                        i \in {k \in pa_seen :
                                   /\ pa_list[k].attached = ProtectedProcess
                                   /\ pa_list[k].owner # ProtectedProcess}}
=============================================================================
