------------------------ MODULE DeviceRequestsProofs ------------------------
(***************************************************************************)
(* What the device's handlers keep, for any number of clients, workers,    *)
(* openers and processors: one NMI operation at a time that passes over no *)
(* processor, a protected process that stays so while a callback looks at  *)
(* it, a shared mapping whose routines are counted and whose page outlives *)
(* them, and nothing left behind once every handle is closed.              *)
(***************************************************************************)
EXTENDS DeviceRequests, FiniteSetTheorems, TLAPS

\* Zenon first: it needs far less time than the translation for SMT.
USE ZenonT(10), SMTT(30)

\* The variables the invariant is about.
proof_vars == <<pc, closing, nmi_status, nmi_pc, nmi_core, callback_count, nmi_reported,
                process, is_session_active, registration_handle, ob_registered,
                driver_lock, preop, guarded>>

Types ==
    /\ pc \in [Clients -> Stages]
    /\ closing \subseteq Clients
    /\ nmi_pc \in [Callers -> NmiStages]
    /\ nmi_core \in 0..CoreCount
    /\ callback_count \in [Cores -> BOOLEAN]
    /\ process \in Processes \cup {NULL}
    /\ is_session_active \in BOOLEAN
    /\ registration_handle \in BOOLEAN /\ ob_registered \in BOOLEAN
    /\ driver_lock \in Clients \cup {NULL}
    /\ preop \in [Openers -> [at : PreOpStages, target : Processes \cup {NULL},
                              id : Processes \cup {NULL}]]
    /\ guarded \subseteq Openers

\* nmi_status says whether some thread is in an operation, and there is one.
OneOperation ==
    /\ nmi_status \in {0, 1}
    /\ nmi_status = 0 => \A t \in Callers : nmi_pc[t] = "idle"
    /\ nmi_status = 1 => \E t \in Callers : nmi_pc[t] # "idle"
    /\ \A s, t \in Callers : nmi_pc[s] # "idle" /\ nmi_pc[t] # "idle" => s = t

\* An analysis without a report has found the callback on every processor so far.
Analysed ==
    \A t \in Callers :
        /\ nmi_pc[t] = "analyse" => nmi_core \in Cores
        /\ nmi_pc[t] = "analyse" /\ nmi_reported = {} =>
               \A k \in 0..(nmi_core - 1) : callback_count[k]
        /\ nmi_pc[t] = "free" /\ nmi_reported = {} => \A k \in Cores : callback_count[k]

\* What a callback has read of a process that is protected all the while.
Guarded ==
    \A o \in guarded :
        /\ process # NULL /\ preop[o].target = process
        /\ preop[o].at \in {"enter", "id", "strip"}
        /\ preop[o].at = "id" => preop[o].id # NULL

\* Clients that have still to end the session, and to remove the callbacks.
ToUnregister == {c \in Clients : pc[c] \notin {"closed", "close_mapping", "map_run"}}
ToTerminate == {c \in ToUnregister :
                   ~(c \in closing /\ pc[c] \in {"unregister", "unregistering"})}

\* A session and callbacks are somebody's, and the lock is held by the client
\* that removes the callbacks.
Owned ==
    /\ is_session_active \/ process # NULL => ToTerminate # {}
    /\ registration_handle => ToUnregister # {}
    /\ driver_lock = NULL => (registration_handle <=> ob_registered)
    /\ driver_lock # NULL => ~ob_registered
    /\ \A c \in Clients : pc[c] = "unregistering" <=> driver_lock = c

RequestInv == Types /\ OneOperation /\ Analysed /\ Guarded /\ Owned
-----------------------------------------------------------------------------
\* It holds at the start.
LEMMA RequestInit == Init => RequestInv
<1> SUFFICES ASSUME Init PROVE RequestInv
  OBVIOUS
<1> USE ThreadsAssumption, NmiAssumption DEF Init, NmiInit, MapInit, SessionInit
<1>1. Types
  <2>1. /\ pc \in [Clients -> Stages] /\ nmi_pc \in [Callers -> NmiStages]
        /\ nmi_core \in 0..CoreCount
    BY DEF Stages, NmiStages
  <2>2. callback_count \in [Cores -> BOOLEAN]
    OBVIOUS
  <2>3. preop \in [Openers -> [at : PreOpStages, target : Processes \cup {NULL},
                              id : Processes \cup {NULL}]]
    BY DEF NoCall, PreOpStages
  <2> QED BY <2>1, <2>2, <2>3 DEF Types
<1>2. OneOperation /\ Analysed /\ Guarded
  BY DEF OneOperation, Analysed, Guarded
<1>3. Owned
  BY DEF Owned
<1> QED BY <1>1, <1>2, <1>3 DEF RequestInv

\* The NMI operation's steps.
LEMMA NmiKeeps ==
    ASSUME RequestInv, NEW t \in Callers, NmiStep(t), UNCHANGED <<io_vars, session_vars>>
    PROVE  RequestInv'
<1> USE ThreadsAssumption, NmiAssumption
        DEF RequestInv, Types, io_vars, session_vars, At, NmiStages, Cores
<1>1. nmi_pc[t] # "idle" /\ nmi_status = 1 /\ \A s \in Callers \ {t} : nmi_pc[s] = "idle"
  <2>1. nmi_pc[t] # "idle"
    BY DEF NmiStep, RegisterNmiCallback, LaunchNonMaskableInterrupt, AnalyseNmiData,
           FreeNmiContext, DeregisterNmiCallback, UnsetNmiInProgressFlag
  <2> QED BY <2>1 DEF OneOperation
<1>2. Guarded' /\ Owned'
  BY DEF Guarded, Owned, ToTerminate, ToUnregister
<1>3. CASE RegisterNmiCallback(t)
  <2>1. Types'
    <3>1. callback_count' \in [Cores -> BOOLEAN]
      BY <1>3 DEF RegisterNmiCallback
    <3>2. nmi_pc' \in [Callers -> NmiStages] /\ nmi_core' \in 0..CoreCount
      BY SMTT(30), <1>3 DEF RegisterNmiCallback
    <3> QED BY <3>1, <3>2
  <2>2. OneOperation' /\ Analysed'
    BY SMTT(40), <1>1, <1>3 DEF RegisterNmiCallback, OneOperation, Analysed
  <2> QED BY <1>2, <2>1, <2>2
<1>4. CASE LaunchNonMaskableInterrupt(t)
  <2>1. Types'
    BY SMTT(30), <1>4 DEF LaunchNonMaskableInterrupt
  <2>2. OneOperation' /\ Analysed'
    BY SMTT(30), <1>1, <1>4 DEF LaunchNonMaskableInterrupt, OneOperation, Analysed
  <2> QED BY <1>2, <2>1, <2>2
<1>5. CASE AnalyseNmiData(t)
  <2>1. Types'
    BY SMTT(30), <1>5 DEF AnalyseNmiData, Analysed, EndsAnalysis
  <2>2. OneOperation'
    BY <1>1, <1>5 DEF AnalyseNmiData, OneOperation
  <2>3. nmi_reported' = {} => nmi_reported = {} /\ callback_count[nmi_core]
                              /\ nmi_found[nmi_core].where # "elsewhere"
    BY <1>5 DEF AnalyseNmiData, ReportsFor
  <2>4. Analysed'
    BY SMTT(30), <1>1, <1>5, <2>3 DEF AnalyseNmiData, Analysed, EndsAnalysis
  <2> QED BY <1>2, <2>1, <2>2, <2>4
<1>6. CASE FreeNmiContext(t)
  <2>1. Types'
    BY SMTT(30), <1>6 DEF FreeNmiContext
  <2>2. OneOperation' /\ Analysed'
    BY <1>1, <1>6 DEF FreeNmiContext, OneOperation, Analysed
  <2> QED BY <1>2, <2>1, <2>2
<1>7. CASE DeregisterNmiCallback(t)
  <2>1. Types' /\ OneOperation' /\ Analysed'
    BY <1>1, <1>7 DEF DeregisterNmiCallback, OneOperation, Analysed
  <2> QED BY <1>2, <2>1
<1>8. CASE UnsetNmiInProgressFlag(t)
  <2>1. Types' /\ OneOperation' /\ Analysed'
    BY SMTT(30), <1>1, <1>8 DEF UnsetNmiInProgressFlag, OneOperation, Analysed
  <2> QED BY <1>2, <2>1
<1> QED BY <1>3, <1>4, <1>5, <1>6, <1>7, <1>8 DEF NmiStep

\* The start of the operation: whoever sets the flag first has it.
LEMMA HandleNmiKeeps ==
    ASSUME Types, OneOperation, Analysed, NEW t \in Callers, HandleNmiIOCTL(t)
    PROVE  /\ nmi_pc' \in [Callers -> NmiStages]
           /\ UNCHANGED <<nmi_core, callback_count, nmi_reported>>
           /\ OneOperation' /\ Analysed'
<1> USE DEF HandleNmiIOCTL, At, Types, NmiStages
<1>1. OneOperation'
  BY DEF OneOperation
<1>2. Analysed'
  BY DEF Analysed
<1> QED BY <1>1, <1>2

\* A processor takes an NMI.
LEMMA NmiTakenKeeps ==
    ASSUME RequestInv, NEW k \in Cores, NEW f, NmiCallback(k, f),
           UNCHANGED <<io_vars, session_vars>>
    PROVE  RequestInv'
<1> USE DEF RequestInv, io_vars, session_vars
<1>1. /\ callback_count' \in [Cores -> BOOLEAN]
      /\ \A j \in Cores : callback_count[j] => callback_count'[j]
      /\ UNCHANGED <<nmi_status, nmi_pc, nmi_core, nmi_reported>>
  BY DEF NmiCallback, Types
<1>2. Types'
  BY <1>1 DEF Types
<1>3. OneOperation' /\ Guarded' /\ Owned'
  BY <1>1 DEF OneOperation, Guarded, Owned, ToTerminate, ToUnregister
<1>4. Analysed'
  BY SMTT(30), <1>1, NmiAssumption DEF Analysed, Types, Cores
<1> QED BY <1>2, <1>3, <1>4

\* A callback of an opener.
LEMMA PreOpKeeps ==
    ASSUME RequestInv, NEW o \in Openers,
           ObPreOpCallbackRoutine(o) \/ \E p \in Processes : OpenHandle(o, p),
           UNCHANGED <<io_vars, nmi_vars>>
    PROVE  RequestInv'
<1> USE SessionAssumption DEF RequestInv, io_vars, nmi_vars, PreOpStages
<1>1. UNCHANGED <<process, is_session_active, registration_handle, ob_registered, driver_lock>>
  BY DEF ObPreOpCallbackRoutine, PreOpReadId, PreOpDecide, PreOpReturn, OpenHandle
<1>2. OneOperation' /\ Analysed' /\ Owned'
  BY <1>1 DEF OneOperation, Analysed, Owned, ToTerminate, ToUnregister
<1>3. CASE \E p \in Processes : OpenHandle(o, p)
  <2>1. Types'
    BY SMTT(30), <1>1, <1>3 DEF Types, OpenHandle
  <2>2. Guarded'
    BY SMTT(30), <1>1, <1>3 DEF Types, OpenHandle, Guarded
  <2> QED BY <1>2, <2>1, <2>2
<1>4. CASE PreOpReadId(o)
  <2>1. Types'
    BY <1>1, <1>4 DEF Types, PreOpReadId
  <2>2. Guarded'
    BY <1>1, <1>4 DEF Types, PreOpReadId, Guarded
  <2> QED BY <1>2, <2>1, <2>2
<1>5. CASE PreOpDecide(o)
  <2>1. Types'
    BY <1>1, <1>5 DEF Types, PreOpDecide
  <2>2. Guarded'
    BY <1>1, <1>5 DEF Types, PreOpDecide, Denies, Guarded
  <2> QED BY <1>2, <2>1, <2>2
<1>6. CASE PreOpReturn(o)
  <2>1. Types'
    BY <1>1, <1>6 DEF Types, PreOpReturn, NoCall
  <2>2. Guarded'
    BY <1>1, <1>6 DEF Types, PreOpReturn, Guarded
  <2> QED BY <1>2, <2>1, <2>2
<1> QED BY <1>3, <1>4, <1>5, <1>6 DEF ObPreOpCallbackRoutine

\* A client goes on and leaves the session alone: it has still to end the
\* session, or had not before.
LEMMA MoveKeeps ==
    ASSUME RequestInv, NEW c \in Clients, NEW stage \in Stages, Goto(c, stage),
           nmi_pc' \in [Callers -> NmiStages], OneOperation', Analysed',
           UNCHANGED <<nmi_core, callback_count, nmi_reported, session_vars>>,
           closing' \subseteq Clients, \A d \in Clients \ {c} : d \in closing' <=> d \in closing,
           pc[c] # "unregistering", stage # "unregistering",
           \/ c \notin ToUnregister
           \/ c \in ToTerminate /\ stage \notin {"closed", "close_mapping", "map_run", "unregister"}
    PROVE  RequestInv'
<1> USE DEF RequestInv, session_vars, Goto
<1>1. Types'
  BY DEF Types
<1>2. Guarded'
  BY DEF Guarded
<1>3. ToTerminate # {} => ToTerminate' # {}
  BY DEF ToTerminate, ToUnregister, Types
<1>4. ToUnregister # {} => ToUnregister' # {}
  BY DEF ToTerminate, ToUnregister, Types
<1>5. Owned'
  BY <1>3, <1>4 DEF Owned, Types
<1> QED BY <1>1, <1>2, <1>5

\* Nothing that the invariant is about changes.
LEMMA OthersKeep ==
    ASSUME RequestInv, UNCHANGED proof_vars
    PROVE  RequestInv'
<1> USE DEF RequestInv, proof_vars
<1>1. Types' /\ OneOperation' /\ Analysed' /\ Guarded'
  BY DEF Types, OneOperation, Analysed, Guarded
<1>2. Owned'
  BY DEF Owned, ToTerminate, ToUnregister
<1> QED BY <1>1, <1>2

\* The requests that do not concern the session.
LEMMA RequestKeeps ==
    ASSUME RequestInv, NEW c \in Clients,
           \/ DeviceCreate(c) \/ DeviceClose(c) \/ \E code \in Codes : DeviceControl(c, code)
           \/ RunNmiCallbacks(c) \/ NmiRequestEnds(c) \/ InitiateSharedMapping(c)
           \/ CloseMapping(c) \/ CloseEnds(c)
    PROVE  RequestInv'
<1> USE CodesAssumption
    DEF OnlyNmi, OnlyMapping, OnlySession, OnlyIo, io_vars
<1>1. c \in Callers /\ Types /\ OneOperation /\ Analysed
  BY DEF RequestInv, Callers
<1>2. ASSUME NEW stage \in Stages, Goto(c, stage), UNCHANGED <<nmi_vars, session_vars>>,
             closing' \subseteq Clients,
             \A d \in Clients \ {c} : d \in closing' <=> d \in closing,
             pc[c] # "unregistering", stage # "unregistering",
             \/ c \notin ToUnregister
             \/ c \in ToTerminate /\ stage \notin {"closed", "close_mapping", "map_run", "unregister"}
      PROVE  RequestInv'
  <2>1. nmi_pc' \in [Callers -> NmiStages] /\ OneOperation' /\ Analysed'
    BY <1>1, <1>2 DEF nmi_vars, Types, OneOperation, Analysed
  <2>2. UNCHANGED <<nmi_core, callback_count, nmi_reported, session_vars>>
    BY <1>2 DEF nmi_vars
  <2> QED BY <1>2, <2>1, <2>2, MoveKeeps
<1>3. CASE DeviceCreate(c)
  BY <1>1, <1>2, <1>3 DEF DeviceCreate, Types, Stages, ToUnregister
<1>4. CASE DeviceClose(c)
  BY <1>1, <1>2, <1>4 DEF DeviceClose, Types, Stages, ToUnregister, ToTerminate
<1>5. CASE \E code \in Codes : DeviceControl(c, code)
  BY <1>1, <1>2, <1>5 DEF DeviceControl, Types, Stages, ToUnregister, ToTerminate
<1>6. CASE RunNmiCallbacks(c)
  <2>1. /\ nmi_pc' \in [Callers -> NmiStages] /\ OneOperation' /\ Analysed'
        /\ UNCHANGED <<nmi_core, callback_count, nmi_reported, session_vars, closing>>
    BY <1>1, <1>6, HandleNmiKeeps DEF RunNmiCallbacks
  <2>2. pc[c] = "nmi" /\ Goto(c, "nmi_run") /\ c \in ToTerminate
    BY <1>6 DEF RunNmiCallbacks, ToTerminate, ToUnregister
  <2> QED BY <1>1, <2>1, <2>2, MoveKeeps DEF Stages, Types
<1>7. CASE NmiRequestEnds(c)
  BY <1>1, <1>2, <1>7 DEF NmiRequestEnds, Types, Stages, ToUnregister, ToTerminate
<1>8. CASE InitiateSharedMapping(c)
  BY <1>1, <1>2, <1>8 DEF InitiateSharedMapping, Types, Stages, ToUnregister, ToTerminate
<1>9. CASE CloseMapping(c)
  BY <1>1, <1>2, <1>9 DEF CloseMapping, Types, Stages, ToUnregister
<1>10. CASE CloseEnds(c)
  BY <1>1, <1>2, <1>10 DEF CloseEnds, Types, Stages, ToUnregister
<1> QED BY <1>3, <1>4, <1>5, <1>6, <1>7, <1>8, <1>9, <1>10

\* The requests that begin and end the session and its callbacks.
LEMMA SessionKeeps ==
    ASSUME RequestInv, NEW c \in Clients,
           \/ NotifyProcessLaunch(c) \/ RegisterCallbacks(c) \/ NotifyProcessTermination(c)
           \/ UnregisterBegins(c) \/ UnregisterCallbacks(c)
    PROVE  RequestInv'
<1> USE ThreadsAssumption, SessionAssumption
    DEF RequestInv, OnlySession, nmi_vars, ob_vars, Goto
<1>1. OneOperation' /\ Analysed' /\ closing' = closing
  BY DEF NotifyProcessLaunch, RegisterCallbacks, NotifyProcessTermination,
         UnregisterBegins, UnregisterCallbacks, OneOperation, Analysed
<1>2. CASE NotifyProcessLaunch(c)
  <2>1. Types'
    BY ZenonT(60), <1>2 DEF NotifyProcessLaunch, SessionInitialise, SetSession, session_vars,
                          Types, Stages
  <2>2. Guarded'
    BY <1>2 DEF NotifyProcessLaunch, SessionInitialise, SetSession, session_vars, Guarded,
                Types
  <2>3. c \in ToTerminate' /\ c \in ToUnregister'
    BY <1>2 DEF NotifyProcessLaunch, ToTerminate, ToUnregister, Types
  <2>4. Owned'
    BY SMTT(30), <1>2, <2>3 DEF NotifyProcessLaunch, SessionInitialise, SetSession, session_vars,
                      Owned, Types
  <2> QED BY <1>1, <2>1, <2>2, <2>4
<1>3. CASE RegisterCallbacks(c)
  <2>1. Types'
    <3>1. registration_handle' \in BOOLEAN /\ ob_registered' \in BOOLEAN
      BY <1>3 DEF RegisterCallbacks, RegisterProcessObCallbacks, Types
    <3> QED BY <1>3, <3>1 DEF RegisterCallbacks, RegisterProcessObCallbacks, Types, Stages
  <2>2. Guarded'
    BY <1>3 DEF RegisterCallbacks, RegisterProcessObCallbacks, Guarded
  <2>3. c \in ToTerminate' /\ c \in ToUnregister'
    BY <1>3 DEF RegisterCallbacks, ToTerminate, ToUnregister, Types
  <2>4. Owned'
    BY SMTT(40), <1>3, <2>3 DEF RegisterCallbacks, RegisterProcessObCallbacks, Owned, Types
  <2> QED BY <1>1, <2>1, <2>2, <2>4
<1>4. CASE NotifyProcessTermination(c)
  <2>1. Types'
    BY <1>4 DEF NotifyProcessTermination, SessionTerminate, SetSession, Types, Stages
  <2>2. Guarded'
    BY <1>4 DEF NotifyProcessTermination, SessionTerminate, SetSession, Guarded
  <2>3. c \in ToUnregister'
    BY <1>4 DEF NotifyProcessTermination, ToUnregister, Types
  <2>4. Owned'
    BY <1>4, <2>3 DEF NotifyProcessTermination, SessionTerminate, SetSession, Owned, Types
  <2> QED BY <1>1, <2>1, <2>2, <2>4
<1>5. CASE UnregisterBegins(c)
  <2>1. Types'
    <3>1. ob_registered' \in BOOLEAN
      BY <1>5 DEF UnregisterBegins, BeginUnregister, Types
    <3> QED BY <1>5, <3>1 DEF UnregisterBegins, BeginUnregister, Types, Stages
  <2>2. Guarded'
    BY <1>5 DEF UnregisterBegins, BeginUnregister, Guarded
  <2>3. c \in ToUnregister' /\ (ToTerminate # {} => ToTerminate' # {})
    BY SMTT(30), <1>1, <1>5 DEF UnregisterBegins, ToTerminate, ToUnregister, Types
  <2>4. Owned'
    BY <1>5, <2>3 DEF UnregisterBegins, BeginUnregister, Owned, Types
  <2> QED BY <1>1, <2>1, <2>2, <2>4
<1>6. CASE UnregisterCallbacks(c)
  <2>1. Types'
    BY <1>6 DEF UnregisterCallbacks, UnregisterProcessObCallbacks, Types, Stages
  <2>2. Guarded'
    BY <1>6 DEF UnregisterCallbacks, UnregisterProcessObCallbacks, Guarded
  <2>3. ToTerminate # {} => ToTerminate' # {}
    BY SMTT(30), <1>1, <1>6 DEF UnregisterCallbacks, ToTerminate, ToUnregister, Types
  <2>4. Owned'
    BY <1>6, <2>3 DEF UnregisterCallbacks, UnregisterProcessObCallbacks, Owned, Types
  <2> QED BY <1>1, <2>1, <2>2, <2>4
<1> QED BY <1>2, <1>3, <1>4, <1>5, <1>6

\* The worker, which may start an NMI operation.
LEMMA WorkerKeeps ==
    ASSUME RequestInv, NEW w \in Workers, WorkerStep(w)
    PROVE  RequestInv'
<1>1. CASE WorkerNmi(w)
  <2>1. w \in Callers /\ Types /\ OneOperation /\ Analysed /\ UNCHANGED <<io_vars, session_vars>>
    BY <1>1 DEF RequestInv, Callers, WorkerNmi
  <2>2. /\ nmi_pc' \in [Callers -> NmiStages] /\ OneOperation' /\ Analysed'
        /\ UNCHANGED <<nmi_core, callback_count, nmi_reported>>
    BY <1>1, <2>1, HandleNmiKeeps DEF WorkerNmi
  <2>3. Types' /\ Guarded'
    BY <2>1, <2>2 DEF RequestInv, io_vars, session_vars, Types, Guarded
  <2>4. Owned'
    BY <2>1 DEF RequestInv, io_vars, session_vars, Owned, ToTerminate, ToUnregister
  <2> QED BY <2>2, <2>3, <2>4 DEF RequestInv
<1>2. CASE UNCHANGED io_vars /\ OnlyMapping
  BY <1>2, OthersKeep DEF OnlyMapping, io_vars, nmi_vars, session_vars, proof_vars
<1> QED BY <1>1, <1>2 DEF WorkerStep

\* Every step keeps the invariant.
LEMMA RequestNext == RequestInv /\ [Next]_vars => RequestInv'
<1> SUFFICES ASSUME RequestInv, [Next]_vars PROVE RequestInv'
  OBVIOUS
<1>1. ASSUME NEW c \in Clients, ClientStep(c) PROVE RequestInv'
  <2>1. CASE EndMapping(c)
    BY <2>1, OthersKeep
       DEF EndMapping, OnlyMapping, io_vars, nmi_vars, session_vars, proof_vars
  <2> QED BY <1>1, <2>1, RequestKeeps, SessionKeeps DEF ClientStep, HandlerStep
<1>2. ASSUME NEW t \in Callers, RunNmi(t) PROVE RequestInv'
  BY <1>2, NmiKeeps DEF RunNmi, OnlyNmi
<1>3. ASSUME NmiTaken PROVE RequestInv'
  BY <1>3, NmiTakenKeeps DEF NmiTaken, OnlyNmi
<1>4. ASSUME NEW w \in Workers, WorkerStep(w) PROVE RequestInv'
  BY <1>4, WorkerKeeps
<1>5. ASSUME DpcStep \/ TimerExpires PROVE RequestInv'
  BY <1>5, OthersKeep
     DEF DpcStep, TimerExpires, OnlyMapping, io_vars, nmi_vars, session_vars, proof_vars
<1>6. ASSUME NEW o \in Openers, PreOpStep(o) \/ \E p \in Processes : HandleOpened(o, p)
      PROVE  RequestInv'
  BY <1>6, PreOpKeeps DEF PreOpStep, HandleOpened, OnlySession
<1>7. CASE UNCHANGED vars
  BY <1>7, OthersKeep DEF vars, io_vars, nmi_vars, session_vars, proof_vars
<1> QED BY <1>1, <1>2, <1>3, <1>4, <1>5, <1>6, <1>7 DEF Next, Step
-----------------------------------------------------------------------------
\* However many clients and workers ask for it, one NMI operation runs at a time
\* (IsNmiInProgress, UnsetNmiInProgressFlag).
THEOREM NmiExclusiveTheorem == Spec => []NmiExclusive
<1>1. RequestInv => NmiExclusive
  <2> SUFFICES ASSUME RequestInv PROVE NmiExclusive
    OBVIOUS
  <2> DEFINE running == {t \in Callers : nmi_pc[t] # "idle"}
  <2>1. CASE nmi_status = 0
    <3>1. running = {}
      BY <2>1 DEF RequestInv, OneOperation
    <3> QED BY <2>1, <3>1, FS_EmptySet DEF NmiExclusive
  <2>2. CASE nmi_status = 1
    <3>1. PICK t \in Callers : running = {t}
      BY <2>2 DEF RequestInv, OneOperation
    <3> QED BY <2>2, <3>1, FS_Singleton DEF NmiExclusive
  <2> QED BY <2>1, <2>2 DEF RequestInv, OneOperation
<1> QED BY <1>1, RequestInit, RequestNext, PTL DEF Spec

\* With any number of processors the analysis passes over none (AnalyseNmiData).
THEOREM NmiVerdictTheorem == Spec => []NmiVerdict
<1>1. RequestInv => NmiVerdict
  BY DEF RequestInv, Analysed, NmiVerdict
<1> QED BY <1>1, RequestInit, RequestNext, PTL DEF Spec

\* A process that is protected while a callback looks at it is denied to the
\* opener (ObPreOpCallbackRoutine).
THEOREM ProtectedTheorem == Spec => []ProtectedWhileRead
<1>1. RequestInv => ProtectedWhileRead
  BY DEF RequestInv, Guarded, ProtectedWhileRead
<1> QED BY <1>1, RequestInit, RequestNext, PTL DEF Spec

\* However many handles there were, the last one to be closed leaves no session
\* and no callbacks (DeviceClose).
THEOREM ClosedIsQuietTheorem == Spec => []ClosedIsQuiet
<1>1. RequestInv => ClosedIsQuiet
  <2> SUFFICES ASSUME RequestInv, \A c \in Clients : pc[c] = "closed"
               PROVE  /\ ~is_session_active /\ process = NULL
                      /\ ~ob_registered /\ ~registration_handle
    BY DEF ClosedIsQuiet
  <2>1. ToTerminate = {} /\ ToUnregister = {}
    BY DEF ToTerminate, ToUnregister
  <2>2. driver_lock = NULL
    BY DEF RequestInv, Owned, Types
  <2> QED BY <2>1, <2>2 DEF RequestInv, Owned
<1> QED BY <1>1, RequestInit, RequestNext, PTL DEF Spec
-----------------------------------------------------------------------------
\* The shared mapping.

MapTypes ==
    /\ map_worker \in [Workers -> {"idle", "start", "nmi", "run", "end"}]
    /\ map_close \in [Clients -> {"none", "spin", "clear", "cancel", "free"}]
    /\ map_buffers \in Nat

Closers == {c \in Clients : map_close[c] # "none"}

\* A client closes the mapping at a time, in its DeviceClose, and past the loop
\* no routine runs.
Closing ==
    \A c \in Closers :
        /\ pc[c] = "map_run" /\ \A d \in Closers : d = c
        /\ map_close[c] # "spin" => Inside = {}
        /\ map_close[c] \in {"spin", "clear"} <=> map_active
        /\ map_close[c] = "free" => ~map_timer

\* A mapping that is active or being closed has its page and its work item; where
\* there is none, nothing is set, queued or running.
Mapped ==
    IF map_active \/ Closers # {}
    THEN map_buffers = 1 /\ map_item \in {"idle", "queued"}
    ELSE map_buffers = 0 /\ ~map_timer /\ ~InFlight /\ Inside = {}

\* An active mapping is left to a client that has still to close it.
Left == map_active => \E c \in Clients : pc[c] \notin {"closed", "map_run"} \/ c \in Closers

Counted == IsFiniteSet(Inside) /\ work_item_status = Cardinality(Inside)

InOrder == ~Exposed /\ ~map_fault /\ Counted /\ Closing /\ Mapped /\ Left

MappingInv == MapTypes /\ (~exposed => InOrder)

LEMMA MappingInit == Init => MappingInv
<1> SUFFICES ASSUME Init PROVE MappingInv
  OBVIOUS
<1> USE DEF Init, MapInit
<1>1. MapTypes
  BY DEF MapTypes
<1>2. Inside = {} /\ Closers = {} /\ ~InFlight
  BY DEF Inside, Closers, InFlight
<1>3. ~Exposed
  <2>1. {c \in Clients : map_close[c] # "none"} = {}
    OBVIOUS
  <2>2. Cardinality({}) = 0
    BY FS_EmptySet
  <2> QED
    BY <2>1, <2>2 DEF Exposed
<1>4. Counted
  BY <1>2, FS_EmptySet DEF Counted
<1>5. Closing /\ Mapped /\ Left
  BY <1>2 DEF Closing, Mapped, Left
<1> QED
  BY <1>1, <1>3, <1>4, <1>5 DEF MappingInv, InOrder

\* What follows from a mapping that is not exposed.
LEMMA NotExposedFacts ==
    ASSUME ~Exposed
    PROVE  /\ ~(map_dpc = "tested" /\ map_item = "queued")
           /\ \A c \in Clients : map_close[c] \in {"clear", "cancel", "free"} => ~InFlight
           /\ ~(map_buffers > 1)
           /\ map_active => map_item # "none"
BY DEF Exposed

\* A step of the timer, the DPC or a worker.
LEMMA RunKeeps ==
    ASSUME MapTypes, InOrder, ~Exposed', ~map_fault', Counted', map_active \/ Closers # {},
           UNCHANGED <<pc, map_active, map_timer, map_buffers, map_close>>,
           map_item' \in {"idle", "queued"},
           (\E c \in Closers : map_close[c] # "spin") => Inside' = {}
    PROVE  InOrder'
<1>1. Closers' = Closers
  BY DEF Closers
<1>2. Closing'
  BY <1>1 DEF InOrder, Closing
<1>3. Mapped'
  BY <1>1 DEF InOrder, Mapped
<1>4. Left'
  BY <1>1 DEF InOrder, Left
<1> QED
  BY <1>2, <1>3, <1>4 DEF InOrder

LEMMA DpcKeepsMapping ==
    ASSUME MapTypes, InOrder, ~Exposed',
           MapTimerExpires \/ SharedMappingDpcRoutine \/ QueueMapWorkItem, UNCHANGED io_vars
    PROVE  InOrder'
<1>1. UNCHANGED <<pc, map_active, work_item_status, map_timer, map_buffers, map_close, map_worker>>
  BY DEF MapTimerExpires, SharedMappingDpcRoutine, QueueMapWorkItem, io_vars
<1>2. Inside' = Inside
  BY <1>1 DEF Inside
<1>3. Counted'
  BY <1>1, <1>2 DEF InOrder, Counted
<1>4. map_timer \/ map_dpc # "idle"
  BY DEF MapTimerExpires, SharedMappingDpcRoutine, QueueMapWorkItem
<1>5. map_active \/ Closers # {}
  BY <1>4 DEF InOrder, Mapped, InFlight
<1>6. map_item \in {"idle", "queued"}
  BY <1>5 DEF InOrder, Mapped
<1>7. map_item' \in {"idle", "queued"} /\ ~map_fault'
  <2>1. CASE QueueMapWorkItem
    <3>1. map_item = "idle"
      BY <1>6, <2>1, NotExposedFacts DEF InOrder, QueueMapWorkItem
    <3> QED
      BY <2>1, <3>1 DEF QueueMapWorkItem, InOrder
  <2>2. CASE MapTimerExpires \/ SharedMappingDpcRoutine
    BY <1>6, <2>2 DEF MapTimerExpires, SharedMappingDpcRoutine, InOrder
  <2> QED
    BY <2>1, <2>2
<1>8. (\E c \in Closers : map_close[c] # "spin") => Inside' = {}
  BY <1>2 DEF InOrder, Closing
<1> QED
  BY <1>1, <1>3, <1>5, <1>7, <1>8, RunKeeps

\* A worker counts itself in and out, and is not on its way past the loop.
LEMMA WorkerKeepsMapping ==
    ASSUME MapTypes, InOrder, ~Exposed', NEW w \in Workers, WorkerStep(w)
    PROVE  InOrder'
<1> DEFINE inside == {"nmi", "run", "end"}
<1>1. UNCHANGED <<pc, map_active, map_timer, map_dpc, map_buffers, map_close>>
  BY DEF WorkerStep, WorkerNmi, StartMapWorkItem, SharedMappingWorkRoutine, ReadOperation,
         MapOperationEnds, EndMapWorkRoutine, io_vars
<1>2. map_item = "queued" \/ map_worker[w] = "start" \/ w \in Inside
  BY DEF WorkerStep, WorkerNmi, StartMapWorkItem, SharedMappingWorkRoutine, ReadOperation,
         MapOperationEnds, EndMapWorkRoutine, Inside
<1>3. map_active \/ Closers # {}
  BY <1>2 DEF InOrder, Mapped, InFlight
<1>4. map_buffers = 1 /\ map_item \in {"idle", "queued"}
  BY <1>3 DEF InOrder, Mapped
<1>5. PICK stage : map_worker' = [map_worker EXCEPT ![w] = stage]
  BY DEF WorkerStep, WorkerNmi, StartMapWorkItem, SharedMappingWorkRoutine, ReadOperation,
         MapOperationEnds, EndMapWorkRoutine
<1>6. map_item' \in {"idle", "queued"}
  BY <1>4 DEF WorkerStep, WorkerNmi, StartMapWorkItem, SharedMappingWorkRoutine, ReadOperation,
              MapOperationEnds, EndMapWorkRoutine
<1>7. ~map_fault'
  <2>1. ~map_fault /\ map_buffers # 0
    BY <1>4 DEF InOrder
  <2> QED
    BY <2>1 DEF WorkerStep, WorkerNmi, StartMapWorkItem, SharedMappingWorkRoutine, ReadOperation,
              MapOperationEnds, EndMapWorkRoutine
<1>8. IsFiniteSet(Inside) /\ work_item_status = Cardinality(Inside)
  BY DEF InOrder, Counted
<1>9. CASE SharedMappingWorkRoutine(w)
  <2>1. map_worker[w] = "start" /\ stage \in {"nmi", "run"} /\ work_item_status' = work_item_status + 1
    BY <1>5, <1>9 DEF SharedMappingWorkRoutine, ReadOperation, MapTypes
  <2>2. Inside' = Inside \cup {w} /\ w \notin Inside
    BY <1>5, <2>1 DEF Inside, MapTypes
  <2>3. Counted'
    BY <1>8, <2>1, <2>2, FS_AddElement DEF Counted
  <2>4. ~\E c \in Closers : map_close[c] # "spin"
    <3>1. InFlight
      BY <2>1 DEF InFlight
    <3> QED
      BY <3>1, NotExposedFacts DEF InOrder, Closers, MapTypes
  <2> QED
    BY <1>1, <1>3, <1>6, <1>7, <2>3, <2>4, RunKeeps
<1>10. CASE EndMapWorkRoutine(w)
  <2>1. map_worker[w] = "end" /\ stage = "idle" /\ work_item_status' = work_item_status - 1
    BY <1>5, <1>10 DEF EndMapWorkRoutine, MapTypes
  <2>2. Inside' = Inside \ {w} /\ w \in Inside
    BY <1>5, <2>1 DEF Inside, MapTypes
  <2>3. Counted'
    BY <1>8, <2>1, <2>2, FS_RemoveElement DEF Counted
  <2>4. (\E c \in Closers : map_close[c] # "spin") => Inside' = {}
    BY <2>2 DEF InOrder, Closing
  <2> QED
    BY <1>1, <1>3, <1>6, <1>7, <2>3, <2>4, RunKeeps
<1>11. CASE ~SharedMappingWorkRoutine(w) /\ ~EndMapWorkRoutine(w)
  <2>1. work_item_status' = work_item_status /\ (stage \in inside <=> map_worker[w] \in inside)
    BY <1>5, <1>11 DEF WorkerStep, WorkerNmi, StartMapWorkItem, MapOperationEnds, MapTypes
  <2>2. Inside' = Inside
    BY <1>5, <2>1 DEF Inside, MapTypes
  <2>3. Counted'
    BY <1>8, <2>1, <2>2 DEF Counted
  <2>4. (\E c \in Closers : map_close[c] # "spin") => Inside' = {}
    BY <2>2 DEF InOrder, Closing
  <2> QED
    BY <1>1, <1>3, <1>6, <1>7, <2>3, <2>4, RunKeeps
<1> QED
  BY <1>9, <1>10, <1>11

\* A client goes on and leaves the mapping alone.
LEMMA MoveKeepsMapping ==
    ASSUME Types, MapTypes, InOrder, ~Exposed', NEW c \in Clients, NEW stage,
           Goto(c, stage), UNCHANGED map_vars, stage # "map_run",
           pc[c] # "map_run" \/ map_close[c] = "none",
           stage = "closed" => ~map_active \/ pc[c] = "map_run"
    PROVE  InOrder'
<1> USE DEF map_vars
<1>1. Closers' = Closers /\ Inside' = Inside /\ (InFlight' <=> InFlight)
  BY DEF Closers, Inside, InFlight
<1>2. c \notin Closers
  BY DEF InOrder, Closing, Closers
<1>3. pc'[c] = stage /\ \A d \in Clients : d # c => pc'[d] = pc[d]
  BY DEF Types, Goto
<1>4. Closing'
  BY <1>1, <1>2, <1>3 DEF InOrder, Closing, Closers
<1>5. Mapped' /\ Counted'
  BY <1>1 DEF InOrder, Mapped, Counted
<1>6. Left'
  BY <1>1, <1>2, <1>3 DEF InOrder, Left
<1>7. ~map_fault'
  BY DEF InOrder
<1> QED
  BY <1>4, <1>5, <1>6, <1>7 DEF InOrder

LEMMA InitiateKeepsMapping ==
    ASSUME Types, MapTypes, InOrder, ~Exposed', NEW c \in Clients, InitiateSharedMapping(c)
    PROVE  InOrder'
<1>1. pc[c] = "mapping" /\ Goto(c, "open")
  BY DEF InitiateSharedMapping
<1>2. CASE UNCHANGED map_vars
  BY <1>1, <1>2, MoveKeepsMapping
<1>3. CASE ~UNCHANGED map_vars
  <2>1. /\ SharedMappingInitialise /\ map_active' /\ work_item_status' = 0
        /\ map_buffers' = map_buffers + 1 /\ UNCHANGED <<map_dpc, map_worker, map_close>>
    BY <1>3 DEF InitiateSharedMapping, SharedMappingInitialise
  <2>2. ~(map_buffers' > 1) /\ map_item' # "none"
    BY <2>1 DEF Exposed
  <2>3. map_buffers = 0 /\ map_buffers' = 1
    BY <2>1, <2>2 DEF MapTypes
  <2>4. ~map_active /\ Closers = {} /\ ~map_timer /\ ~InFlight /\ Inside = {}
    BY <2>3 DEF InOrder, Mapped
  <2>5. map_item' = "idle" /\ map_fault' = (map_fault \/ map_timer \/ map_dpc = "pending")
    BY <1>3, <2>2 DEF InitiateSharedMapping, SharedMappingInitialise
  <2>6. ~map_fault'
    BY <2>4, <2>5 DEF InOrder, InFlight
  <2>7. Closers' = {} /\ Inside' = {}
    BY <2>1, <2>4 DEF Closers, Inside
  <2>8. Counted'
    BY <2>1, <2>7, FS_EmptySet DEF Counted
  <2>9. Closing' /\ Mapped'
    BY <2>1, <2>3, <2>5, <2>7 DEF Closing, Mapped
  <2>10. Left'
    BY <1>1 DEF Left, Goto, Types
  <2> QED
    BY <2>6, <2>8, <2>9, <2>10 DEF InOrder
<1> QED
  BY <1>2, <1>3

\* The client that finds the mapping active closes it.
LEMMA CloseKeepsMapping ==
    ASSUME Types, MapTypes, InOrder, ~Exposed', NEW c \in Clients, CloseMapping(c)
    PROVE  InOrder'
<1>1. CASE ~map_active
  <2>1. pc[c] = "close_mapping" /\ Goto(c, "closed") /\ UNCHANGED map_vars
    BY <1>1 DEF CloseMapping
  <2> QED
    BY <1>1, <2>1, MoveKeepsMapping
<1>2. CASE map_active
  <2>1. /\ pc[c] = "close_mapping" /\ Goto(c, "map_run")
        /\ map_close' = [map_close EXCEPT ![c] = "spin"]
        /\ UNCHANGED <<map_active, work_item_status, map_timer, map_dpc, map_item,
                       map_worker, map_buffers, map_fault>>
    BY <1>2 DEF CloseMapping, SharedMappingTerminate, MapClose
  <2>2. Closers' = Closers \cup {c} /\ c \notin Closers
    <3>1. c \notin Closers
      BY <2>1 DEF InOrder, Closing
    <3> QED
      BY <2>1, <3>1 DEF Closers, MapTypes
  <2>3. Closers = {}
    <3> SUFFICES ASSUME NEW d \in Closers PROVE FALSE
      OBVIOUS
    <3>1. Closers = {d}
      BY DEF InOrder, Closing
    <3>2. IsFiniteSet({d}) /\ Cardinality({d}) = 1
      BY FS_Singleton
    <3>3. Cardinality({d} \cup {c}) = 2
      <4>1. c \notin {d}
        BY <2>2, <3>1
      <4>2. Cardinality({d} \cup {c}) = Cardinality({d}) + 1
        BY ONLY <3>2, <4>1, FS_AddElement
      <4> QED
        BY ONLY <3>2, <4>2
    <3>4. {x \in Clients : map_close'[x] # "none"} = {d} \cup {c}
      BY <2>2, <3>1 DEF Closers
    <3> QED
      BY <3>3, <3>4 DEF Exposed
  <2>4. Inside' = Inside
    BY <2>1 DEF Inside
  <2>5. Counted' /\ ~map_fault'
    BY <2>1, <2>4 DEF InOrder, Counted
  <2>6. Closing'
    BY <1>2, <2>1, <2>2, <2>3 DEF Closing, Goto, Types, MapTypes
  <2>7. Mapped'
    BY <1>2, <2>1 DEF InOrder, Mapped
  <2>8. Left'
    BY <2>2 DEF Left
  <2> QED
    BY <2>5, <2>6, <2>7, <2>8 DEF InOrder
<1> QED
  BY <1>1, <1>2

LEMMA TerminateKeepsMapping ==
    ASSUME Types, MapTypes, InOrder, ~Exposed', NEW c \in Clients, EndMapping(c)
    PROVE  InOrder'
<1>1. /\ pc' = pc /\ c \in Closers /\ Closers = {c}
      /\ UNCHANGED <<map_dpc, map_worker>>
  BY DEF EndMapping, TerminateStep, SpinOnWorkItemStatus, ClearActive, CancelMapTimer,
         FreeMapping, io_vars, InOrder, Closing, Closers
<1>2. Inside' = Inside
  BY <1>1 DEF Inside
<1>3. map_buffers = 1 /\ map_item \in {"idle", "queued"} /\ ~map_fault
  BY <1>1 DEF InOrder, Mapped
<1>4. CASE SpinOnWorkItemStatus(c)
  <2>1. /\ map_close[c] = "spin" /\ map_close' = [map_close EXCEPT ![c] = "clear"]
        /\ work_item_status = 0 /\ UNCHANGED <<map_active, work_item_status, map_timer, map_item,
                                               map_buffers, map_fault>>
    BY <1>4 DEF SpinOnWorkItemStatus, MapClose
  <2>2. Inside = {}
    BY <2>1, FS_EmptySet DEF InOrder, Counted
  <2>3. Closers' = {c} /\ map_close'[c] = "clear"
    BY <1>1, <2>1 DEF Closers, MapTypes
  <2>4. Counted'
    BY <1>2, <2>1 DEF InOrder, Counted
  <2>5. Closing'
    BY <1>1, <1>2, <2>1, <2>2, <2>3 DEF InOrder, Closing
  <2>6. Mapped' /\ Left' /\ ~map_fault'
    BY <1>3, <2>1, <2>3 DEF Mapped, Left
  <2> QED
    BY <2>4, <2>5, <2>6 DEF InOrder
<1>5. CASE ClearActive(c)
  <2>1. /\ map_close[c] = "clear" /\ map_close' = [map_close EXCEPT ![c] = "cancel"] /\ ~map_active'
        /\ UNCHANGED <<work_item_status, map_timer, map_item, map_buffers, map_fault>>
    BY <1>5 DEF ClearActive, MapClose
  <2>2. Closers' = {c} /\ map_close'[c] = "cancel"
    BY <1>1, <2>1 DEF Closers, MapTypes
  <2>3. Counted'
    BY <1>2, <2>1 DEF InOrder, Counted
  <2>4. Closing'
    BY <1>1, <1>2, <2>1, <2>2 DEF InOrder, Closing
  <2>5. Mapped' /\ Left' /\ ~map_fault'
    BY <1>3, <2>1, <2>2 DEF Mapped, Left
  <2> QED
    BY <2>3, <2>4, <2>5 DEF InOrder
<1>6. CASE CancelMapTimer(c)
  <2>1. /\ map_close[c] = "cancel" /\ map_close' = [map_close EXCEPT ![c] = "free"] /\ ~map_timer'
        /\ UNCHANGED <<map_active, work_item_status, map_item, map_buffers, map_fault>>
    BY <1>6 DEF CancelMapTimer, MapClose
  <2>2. Closers' = {c} /\ map_close'[c] = "free"
    BY <1>1, <2>1 DEF Closers, MapTypes
  <2>3. Counted'
    BY <1>2, <2>1 DEF InOrder, Counted
  <2>4. Closing'
    BY <1>1, <1>2, <2>1, <2>2 DEF InOrder, Closing
  <2>5. Mapped' /\ Left' /\ ~map_fault'
    BY <1>3, <2>1, <2>2 DEF Mapped, Left
  <2> QED
    BY <2>3, <2>4, <2>5 DEF InOrder
<1>7. CASE FreeMapping(c)
  <2>1. /\ map_close[c] = "free" /\ map_close' = [map_close EXCEPT ![c] = "none"]
        /\ map_buffers' = 0 /\ ~map_active' /\ work_item_status' = 0 /\ ~map_timer'
        /\ map_item' = "freed"
    BY <1>3, <1>7 DEF FreeMapping, MapClose
  <2>2. ~map_timer /\ ~InFlight /\ Inside = {}
    BY <1>1, <2>1, NotExposedFacts DEF InOrder, Closing
  <2>3. ~map_fault'
    BY <1>3, <1>7, <2>2 DEF FreeMapping, InFlight
  <2>4. Closers' = {} /\ ~InFlight'
    BY <1>1, <2>1, <2>2 DEF Closers, MapTypes, InFlight
  <2>5. Counted'
    BY <1>2, <2>1, <2>2, FS_EmptySet DEF Counted
  <2>6. Closing' /\ Mapped' /\ Left'
    BY <1>2, <2>1, <2>2, <2>4 DEF Closing, Mapped, Left
  <2> QED
    BY <2>3, <2>5, <2>6 DEF InOrder
<1> QED
  BY <1>4, <1>5, <1>6, <1>7 DEF EndMapping, TerminateStep

\* The requests that leave the mapping alone, and the stages they go on to.
LEMMA ClientsLeaveMapping ==
    ASSUME NEW c \in Clients, ClientStep(c), ~InitiateSharedMapping(c), ~CloseMapping(c),
           ~EndMapping(c)
    PROVE  /\ UNCHANGED map_vars
           /\ \E stage : /\ Goto(c, stage) /\ stage # "map_run"
                         /\ pc[c] # "map_run" \/ map_close[c] = "none"
                         /\ stage = "closed" => pc[c] = "map_run"
<1> USE CodesAssumption DEF OnlyNmi, OnlySession, OnlyIo
<1>1. CASE DeviceCreate(c) \/ DeviceClose(c) \/ \E code \in Codes : DeviceControl(c, code)
  BY <1>1 DEF DeviceCreate, DeviceClose, DeviceControl
<1>2. CASE \/ NotifyProcessLaunch(c) \/ RegisterCallbacks(c) \/ NotifyProcessTermination(c)
           \/ UnregisterBegins(c) \/ UnregisterCallbacks(c)
  BY <1>2 DEF NotifyProcessLaunch, RegisterCallbacks, NotifyProcessTermination,
              UnregisterBegins, UnregisterCallbacks
<1>3. CASE RunNmiCallbacks(c) \/ NmiRequestEnds(c) \/ CloseEnds(c)
  BY <1>3 DEF RunNmiCallbacks, NmiRequestEnds, CloseEnds
<1> QED
  BY <1>1, <1>2, <1>3 DEF ClientStep, HandlerStep

LEMMA OthersLeaveMapping ==
    ASSUME \/ \E t \in Callers : RunNmi(t)
           \/ NmiTaken
           \/ \E o \in Openers, p \in Processes : HandleOpened(o, p)
           \/ \E o \in Openers : PreOpStep(o)
    PROVE  UNCHANGED <<map_vars, io_vars>>
BY DEF RunNmi, NmiTaken, HandleOpened, PreOpStep, OnlyNmi, OnlySession

LEMMA MapTypesNext == MapTypes /\ [Next]_vars => MapTypes'
<1> SUFFICES ASSUME MapTypes, [Next]_vars PROVE MapTypes'
  OBVIOUS
<1>1. CASE UNCHANGED map_vars
  BY <1>1 DEF MapTypes, map_vars
<1>2. ASSUME NEW c \in Clients, InitiateSharedMapping(c) PROVE MapTypes'
  BY SMTT(30), <1>2 DEF InitiateSharedMapping, SharedMappingInitialise, MapTypes, map_vars
<1>3. ASSUME NEW c \in Clients, CloseMapping(c) \/ EndMapping(c) PROVE MapTypes'
  <2>1. PICK stage \in {"none", "spin", "clear", "cancel", "free"} :
            map_close' = [map_close EXCEPT ![c] = stage] \/ map_close' = map_close
    BY <1>3 DEF CloseMapping, SharedMappingTerminate, EndMapping, TerminateStep,
       SpinOnWorkItemStatus, ClearActive, CancelMapTimer, FreeMapping, MapClose, map_vars
  <2>2. map_worker' = map_worker
    BY <1>3 DEF CloseMapping, SharedMappingTerminate, EndMapping, TerminateStep,
       SpinOnWorkItemStatus, ClearActive, CancelMapTimer, FreeMapping, map_vars
  <2>3. map_buffers' = map_buffers \/ map_buffers' = IF map_buffers = 0 THEN 0 ELSE map_buffers - 1
    BY <1>3 DEF CloseMapping, SharedMappingTerminate, EndMapping, TerminateStep,
       SpinOnWorkItemStatus, ClearActive, CancelMapTimer, FreeMapping, map_vars
  <2>4. map_buffers' \in Nat
    BY SMTT(30), <2>3 DEF MapTypes
  <2> QED
    BY <2>1, <2>2, <2>4 DEF MapTypes
<1>4. ASSUME NEW w \in Workers, WorkerStep(w) PROVE MapTypes'
  <2>1. PICK stage \in {"idle", "start", "nmi", "run", "end"} :
            map_worker' = [map_worker EXCEPT ![w] = stage]
    BY <1>4 DEF WorkerStep, WorkerNmi, StartMapWorkItem, SharedMappingWorkRoutine,
                ReadOperation, MapOperationEnds, EndMapWorkRoutine
  <2>2. UNCHANGED <<map_close, map_buffers>>
    BY <1>4 DEF WorkerStep, WorkerNmi, StartMapWorkItem, SharedMappingWorkRoutine,
                ReadOperation, MapOperationEnds, EndMapWorkRoutine
  <2> QED
    BY <2>1, <2>2 DEF MapTypes
<1>5. ASSUME DpcStep \/ TimerExpires PROVE MapTypes'
  BY <1>5 DEF DpcStep, TimerExpires, MapTimerExpires, SharedMappingDpcRoutine,
              QueueMapWorkItem, MapTypes
<1>6. ASSUME NEW c \in Clients, ClientStep(c) PROVE MapTypes'
  <2>1. CASE InitiateSharedMapping(c) \/ CloseMapping(c) \/ EndMapping(c)
    BY <1>2, <1>3, <2>1
  <2>2. CASE ~(InitiateSharedMapping(c) \/ CloseMapping(c) \/ EndMapping(c))
    BY <1>1, <1>6, <2>2, ClientsLeaveMapping
  <2> QED
    BY <2>1, <2>2
<1>7. CASE UNCHANGED vars
  BY <1>1, <1>7 DEF vars
<1> QED
  BY <1>1, <1>4, <1>5, <1>6, <1>7, OthersLeaveMapping DEF Next, Step

LEMMA MappingNext == RequestInv /\ MappingInv /\ [Next]_vars => MappingInv'
<1> SUFFICES ASSUME RequestInv, MappingInv, [Next]_vars PROVE MappingInv'
  OBVIOUS
<1>1. MapTypes /\ MapTypes' /\ Types
  BY MapTypesNext DEF MappingInv, RequestInv
<1>2. SUFFICES ASSUME ~exposed' PROVE InOrder'
  BY <1>1 DEF MappingInv
<1>3. CASE UNCHANGED vars
  <2>1. InOrder
    BY <1>2, <1>3 DEF vars, MappingInv
  <2>2. UNCHANGED <<map_vars, pc>>
    BY <1>3 DEF vars, io_vars
  <2>3. Inside' = Inside /\ Closers' = Closers /\ (InFlight' <=> InFlight) /\ (Exposed' <=> Exposed)
    BY <2>2 DEF map_vars, Inside, Closers, InFlight, Exposed
  <2> QED
    BY <2>1, <2>2, <2>3 DEF InOrder, Counted, Closing, Mapped, Left, map_vars
<1>4. CASE Next
  <2>1. InOrder /\ ~Exposed'
    BY <1>2, <1>4 DEF Next, Step, MappingInv
  <2>2. ASSUME NEW c \in Clients, ClientStep(c) PROVE InOrder'
    <3>1. CASE InitiateSharedMapping(c) \/ CloseMapping(c) \/ EndMapping(c)
      BY <1>1, <2>1, <3>1, InitiateKeepsMapping, CloseKeepsMapping, TerminateKeepsMapping
    <3>2. CASE ~(InitiateSharedMapping(c) \/ CloseMapping(c) \/ EndMapping(c))
      BY <1>1, <2>1, <2>2, <3>2, ClientsLeaveMapping, MoveKeepsMapping
    <3> QED
      BY <3>1, <3>2
  <2>3. ASSUME UNCHANGED <<map_vars, io_vars>> PROVE InOrder'
    <3>1. Inside' = Inside /\ Closers' = Closers /\ (InFlight' <=> InFlight) /\ pc' = pc
      BY <2>3 DEF map_vars, io_vars, Inside, Closers, InFlight
    <3> QED
      BY <2>1, <2>3, <3>1 DEF InOrder, Counted, Closing, Mapped, Left, map_vars
  <2>4. ASSUME NEW w \in Workers, WorkerStep(w) PROVE InOrder'
    BY <1>1, <2>1, <2>4, WorkerKeepsMapping
  <2>5. ASSUME DpcStep \/ TimerExpires PROVE InOrder'
    BY <1>1, <2>1, <2>5, DpcKeepsMapping DEF DpcStep, TimerExpires
  <2> QED
    BY <1>4, <2>2, <2>3, <2>4, <2>5, OthersLeaveMapping DEF Next, Step
<1> QED
  BY <1>3, <1>4

\* With any number of clients and workers: as long as the mapping was never
\* exposed, work_item_status counts the routines that run, nothing in use is
\* freed, and the last handle closed leaves no mapping (SharedMappingTerminate).
THEOREM MappingTheorem == Spec => []MappingInOrder
<1>1. MappingInv => MappingInOrder
  <2> SUFFICES ASSUME MappingInv, ~exposed
               PROVE  /\ ~map_fault /\ work_item_status = Cardinality(Inside)
                      /\ (\A c \in Clients : pc[c] = "closed") =>
                             ~map_active /\ \A c \in Clients : map_close[c] = "none"
    BY DEF MappingInOrder
  <2>1. ~map_fault /\ work_item_status = Cardinality(Inside)
    BY DEF MappingInv, InOrder, Counted
  <2>2. ASSUME \A c \in Clients : pc[c] = "closed" PROVE Closers = {} /\ ~map_active
    <3>1. Closers = {}
      BY <2>2 DEF MappingInv, InOrder, Closing, Closers
    <3> QED
      BY <2>2, <3>1 DEF MappingInv, InOrder, Left
  <2> QED
    BY <2>1, <2>2 DEF Closers
<1> QED
  BY <1>1, RequestInit, RequestNext, MappingInit, MappingNext, PTL DEF Spec
=============================================================================
