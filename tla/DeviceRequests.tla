---------------------------- MODULE DeviceRequests ----------------------------
(***************************************************************************)
(* The device's handlers (DeviceControl, DeviceClose and DeviceCreate,     *)
(* driver/io.c, lines 706-1110) over the session, the shared mapping and   *)
(* the NMI operation.  Each client is one handle with one thread; requests *)
(* of several clients run at the same time, beside the mapping's workers   *)
(* and the object callbacks.  A handle is closed when its requests are     *)
(* over, as the I/O manager sees to.                                       *)
(***************************************************************************)
EXTENDS NmiOperation, SharedMapping, Session

CONSTANTS
    Codes,          \* the I/O control codes clients send, of those below
    MaxBuffers      \* pages there is memory for

ASSUME CodesAssumption == Codes \subseteq {"launch", "terminate", "nmi", "mapping"}

VARIABLES
    pc,             \* where each client is
    closing,        \* clients whose handle is being closed
    exposed         \* history: the mapping was Exposed

io_vars == <<pc, closing>>
vars == <<io_vars, exposed, nmi_vars, map_vars, session_vars>>

OnlyNmi == UNCHANGED <<map_vars, session_vars>>
OnlyMapping == UNCHANGED <<nmi_vars, session_vars>>
OnlySession == UNCHANGED <<nmi_vars, map_vars>>
OnlyIo == UNCHANGED <<nmi_vars, map_vars, session_vars>>

Stages == {"closed", "open", "launch", "register", "terminate", "unregister",
           "unregistering", "nmi", "nmi_run", "mapping", "close_mapping",
           "map_run"}

TypeOK ==
    /\ pc \in [Clients -> Stages]
    /\ closing \in SUBSET Clients /\ exposed \in BOOLEAN
    /\ NmiTypeOK /\ MapTypeOK /\ SessionTypeOK

Init ==
    /\ pc = [c \in Clients |-> "closed"]
    /\ closing = {} /\ exposed = FALSE
    /\ NmiInit /\ MapInit /\ SessionInit

Goto(c, stage) == pc' = [pc EXCEPT ![c] = stage]

DeviceCreate(c) ==
    /\ pc[c] = "closed"
    /\ Goto(c, "open")
    /\ UNCHANGED closing /\ OnlyIo

\* DeviceControl asks for an active session, but for the launch of a process.
Admits(code) == is_session_active \/ code = "launch"

DeviceControl(c, code) ==
    /\ pc[c] = "open" /\ Admits(code)
    /\ Goto(c, code)
    /\ UNCHANGED closing /\ OnlyIo

\* IOCTL_NOTIFY_DRIVER_ON_PROCESS_LAUNCH: no such process, or a session and
\* then the callbacks.
NotifyProcessLaunch(c) ==
    /\ pc[c] = "launch"
    /\ \/ Goto(c, "open") /\ UNCHANGED session_vars
       \/ \E p \in Processes : SessionInitialise(p) /\ Goto(c, "register")
    /\ UNCHANGED closing /\ OnlySession

RegisterCallbacks(c) ==
    /\ pc[c] = "register"
    /\ RegisterProcessObCallbacks
    /\ Goto(c, "open")
    /\ UNCHANGED closing /\ OnlySession

\* IOCTL_NOTIFY_DRIVER_ON_PROCESS_TERMINATION, and the beginning of DeviceClose.
NotifyProcessTermination(c) ==
    /\ pc[c] = "terminate"
    /\ SessionTerminate
    /\ Goto(c, "unregister")
    /\ UNCHANGED closing /\ OnlySession

UnregisterBegins(c) ==
    /\ pc[c] = "unregister"
    /\ BeginUnregister(c)
    /\ Goto(c, "unregistering")
    /\ UNCHANGED closing /\ OnlySession

UnregisterCallbacks(c) ==
    /\ pc[c] = "unregistering"
    /\ UnregisterProcessObCallbacks(c)
    /\ Goto(c, IF c \in closing THEN "close_mapping" ELSE "open")
    /\ UNCHANGED closing /\ OnlySession

\* IOCTL_RUN_NMI_CALLBACKS.
RunNmiCallbacks(c) ==
    /\ pc[c] = "nmi"
    /\ HandleNmiIOCTL(c)
    /\ Goto(c, "nmi_run")
    /\ UNCHANGED closing /\ OnlyNmi

NmiRequestEnds(c) ==
    /\ pc[c] = "nmi_run" /\ nmi_pc[c] = "idle"
    /\ Goto(c, "open")
    /\ UNCHANGED closing /\ OnlyIo

\* IOCTL_INITIATE_SHARED_MAPPING.
InitiateSharedMapping(c) ==
    /\ pc[c] = "mapping"
    /\ IF map_buffers < MaxBuffers THEN SharedMappingInitialise
       ELSE UNCHANGED map_vars
    /\ Goto(c, "open")
    /\ UNCHANGED closing /\ OnlyMapping

\* DeviceClose: SessionTerminate, UnregisterProcessObCallbacks,
DeviceClose(c) ==
    /\ pc[c] = "open"
    /\ closing' = closing \cup {c}
    /\ Goto(c, "terminate")
    /\ OnlyIo

\* SharedMappingTerminate.
CloseMapping(c) ==
    /\ pc[c] = "close_mapping"
    /\ IF map_active
       THEN SharedMappingTerminate(c) /\ Goto(c, "map_run") /\ UNCHANGED closing
       ELSE /\ Goto(c, "closed") /\ closing' = closing \ {c}
            /\ UNCHANGED map_vars
    /\ OnlyMapping

CloseEnds(c) ==
    /\ pc[c] = "map_run" /\ map_close[c] = "none"
    /\ Goto(c, "closed")
    /\ closing' = closing \ {c}
    /\ OnlyIo

-----------------------------------------------------------------------------
(* What runs beside the requests.                                          *)

RunNmi(t) == NmiStep(t) /\ UNCHANGED io_vars /\ OnlyNmi

NmiTaken == \E k \in Cores, f \in Findings :
    NmiCallback(k, f) /\ UNCHANGED io_vars /\ OnlyNmi

WorkerNmi(w) ==
    /\ map_worker[w] = "nmi"
    /\ HandleNmiIOCTL(w)
    /\ map_worker' = [map_worker EXCEPT ![w] = "run"]
    /\ UNCHANGED <<map_active, work_item_status, map_timer, map_dpc, map_item,
                   map_buffers, map_close, map_fault>>
    /\ UNCHANGED <<io_vars, session_vars>>

WorkerStep(w) ==
    \/ WorkerNmi(w)
    \/ /\ \/ StartMapWorkItem(w)
          \/ SharedMappingWorkRoutine(w)
          \/ nmi_pc[w] = "idle" /\ MapOperationEnds(w)
          \/ EndMapWorkRoutine(w)
       /\ UNCHANGED io_vars /\ OnlyMapping

DpcStep ==
    /\ SharedMappingDpcRoutine \/ QueueMapWorkItem
    /\ UNCHANGED io_vars /\ OnlyMapping

TimerExpires == MapTimerExpires /\ UNCHANGED io_vars /\ OnlyMapping

EndMapping(c) == TerminateStep(c) /\ UNCHANGED io_vars /\ OnlyMapping

HandleOpened(o, p) == OpenHandle(o, p) /\ UNCHANGED io_vars /\ OnlySession

PreOpStep(o) == ObPreOpCallbackRoutine(o) /\ UNCHANGED io_vars /\ OnlySession

Crashed == nmi_fault \/ map_fault

\* The steps of a handler that has begun.
HandlerStep(c) ==
    \/ NotifyProcessLaunch(c) \/ RegisterCallbacks(c)
    \/ NotifyProcessTermination(c) \/ UnregisterBegins(c) \/ UnregisterCallbacks(c)
    \/ RunNmiCallbacks(c) \/ NmiRequestEnds(c)
    \/ InitiateSharedMapping(c)
    \/ CloseMapping(c) \/ EndMapping(c) \/ CloseEnds(c)

ClientStep(c) ==
    \/ DeviceCreate(c)
    \/ \E code \in Codes : DeviceControl(c, code)
    \/ DeviceClose(c)
    \/ HandlerStep(c)

\* Every step: a machine that crashed takes none.
Step(A) == ~Crashed /\ A /\ exposed' = (exposed \/ Exposed')

Next ==
    \/ \E c \in Clients : Step(ClientStep(c))
    \/ \E t \in Callers : Step(RunNmi(t))
    \/ Step(NmiTaken)
    \/ \E w \in Workers : Step(WorkerStep(w))
    \/ Step(DpcStep)
    \/ Step(TimerExpires)
    \/ \E o \in Openers, p \in Processes : Step(HandleOpened(o, p))
    \/ \E o \in Openers : Step(PreOpStep(o))

Spec == Init /\ [][Next]_vars

\* Threads run on.  Strong fairness where they wait for a mutex, whose waiters
\* are served in turn, or poll work_item_status, whose routine is 30 seconds
\* apart from its next run.  Nobody has to make a request, take an NMI or open
\* a handle.
FairSpec ==
    /\ Spec
    /\ \A c \in Clients : SF_vars(Step(HandlerStep(c)))
    /\ \A t \in Callers : WF_vars(Step(RunNmi(t)))
    /\ \A w \in Workers : WF_vars(Step(WorkerStep(w)))
    /\ WF_vars(Step(DpcStep))
    /\ \A o \in Openers : SF_vars(Step(PreOpStep(o)))

-----------------------------------------------------------------------------
(* Properties.                                                             *)

\* One NMI operation at a time, whoever asks for it: the threads past the test
\* of IsNmiInProgress are as many as nmi_status says, that is one or none, so
\* the contexts and the callback handle are never those of two operations.
NmiExclusive ==
    Cardinality({t \in Callers : nmi_pc[t] # "idle"}) = nmi_status

\* AnalyseNmiData passes over no processor: when it ends without any report,
\* NmiCallback ran on every one of them.  (Not that what it found last was
\* harmless: an NMI of this operation may come after the analysis, when one of
\* the operation before has filled the context.)
NmiVerdict ==
    \A t \in Callers : nmi_pc[t] = "free" /\ nmi_reported = {} =>
        \A k \in Cores : callback_count[k]

\* ObPreOpCallbackRoutine denies access to a process that is protected all the
\* while it runs, although it reads the id and the process in two calls and
\* sessions come and go beside it.
ProtectedWhileRead == \A o \in guarded : preop[o].at # "grant"

\* When the last handle is closed, DeviceClose has left no session and no
\* object callbacks behind, in whatever order the requests and the closing of
\* several handles ran.
ClosedIsQuiet ==
    (\A c \in Clients : pc[c] = "closed") =>
        /\ ~is_session_active /\ process = NULL
        /\ ~ob_registered /\ ~registration_handle

\* As long as the mapping was not Exposed, work_item_status is the number of
\* SharedMappingWorkRoutines that run, nothing they, the timer or the DPC use
\* is freed under them, and closing the last handle leaves no mapping behind.
MappingInOrder ==
    ~exposed =>
        /\ ~map_fault
        /\ work_item_status = Cardinality(Inside)
        /\ (\A c \in Clients : pc[c] = "closed") =>
               ~map_active /\ \A c \in Clients : map_close[c] = "none"

\* Every request that DeviceControl admits, and every DeviceClose, returns:
\* neither the driver lock, the callbacks that UnregisterProcessObCallbacks
\* waits for nor an NMI operation holds it up for ever.
HandlersReturn ==
    \A c \in Clients :
        pc[c] \notin {"open", "closed"} ~> pc[c] \in {"open", "closed"} \/ Crashed

\* DeviceClose returns even when SharedMappingTerminate has to wait for a
\* routine, which may be in the middle of an NMI operation.
CloseReturns ==
    \A c \in Clients : (c \in closing) ~> (c \notin closing \/ exposed \/ Crashed)
=============================================================================
