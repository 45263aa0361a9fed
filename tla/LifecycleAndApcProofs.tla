------------------------ MODULE LifecycleAndApcProofs ------------------------
(***************************************************************************)
(* The life of the driver and of what it allocates.                        *)
(*                                                                         *)
(* A context of an APC stackwalk outlives its APCs, for any number of      *)
(* initiations and threads, when one query is made at a time and           *)
(* initiations come one after the other, as in the loop of the user-mode   *)
(* module.                                                                 *)
(*                                                                         *)
(* What DriverEntry, DriverUnload and the routines beside them keep, for   *)
(* any number of threads, processes and images: the work item's state, the *)
(* lists that are freed when nothing can touch them, and a driver that     *)
(* leaves nothing behind, at whatever step DriverEntry failed.             *)
(***************************************************************************)
EXTENDS ApcContext, DriverLifecycle, FiniteSetTheorems, SequenceTheorems, TLAPS

\* Zenon first: it needs far less time than the translation for SMT.
USE ZenonT(10), SMTT(30)

-----------------------------------------------------------------------------
(* Contexts of APC stackwalks.                                             *)

OneAtATime == SerialInitiation /\ \A q, r \in Queriers : q = r

\* Stages of an initiation before its first APC, and those with the flag set.
Early == {"idle", "insert", "flag", "lock"}
Flagged == {"lock", "enumerate", "find", "increment", "clear"}
InProgress == {"insert", "flag"} \cup Flagged

\* There is one context, and it is in the array in one slot once inserted.
OneContext ==
    /\ \A o, p \in allocated : o = p
    /\ \A o \in allocated : op_pc[o] # "idle"
    /\ \A s \in Slots : contexts[s] # NULL =>
           contexts[s] \in allocated /\ op_pc[contexts[s]] # "insert"
    /\ \A r, s \in Slots : contexts[r] # NULL /\ contexts[s] # NULL => r = s
    /\ \A o \in allocated : op_pc[o] # "insert" => \E s \in Slots : contexts[s] = o

\* One initiation is in progress, and it has a context.
Serial ==
    /\ \A o, p \in Ops : op_pc[o] \in InProgress /\ op_pc[p] \in InProgress => o = p
    /\ \A o \in Ops : op_pc[o] \in InProgress => o \in allocated
    /\ \A o \in Ops : op_pc[o] \in Flagged => allocation_in_progress[o]
    /\ \A o \in Ops : op_pc[o] = "increment" => header[o] = o

\* A query looks at a context that is still there.
Queried ==
    \A q \in Queriers : query[q].entry # NULL =>
        query[q].entry \in allocated /\ op_pc[query[q].entry] # "insert"

\* Which APCs there are, and whom they will count down.
Apcs ==
    /\ \A o \in Ops : op_pc[o] \in Early =>
           count[o] = 0 /\ \A t \in Threads : apc[o][t] = "none"
    /\ \A o \in Ops : \A t \in op_todo[o] : apc[o][t] = "none"
    /\ \A o \in Ops, t \in Threads : apc[o][t] = "decrement" => apc_header[o][t] = o

Uncounted(o) == IF op_pc[o] \in {"find", "increment"} THEN 1 ELSE 0

\* The count, and that a context outlives its APCs.
Counted ==
    /\ bugcheck # "use_after_free"
    /\ \A o \in Ops : Outstanding(o) # {} => o \in allocated
    /\ \A o \in allocated : count[o] + Uncounted(o) = Cardinality(Outstanding(o))

Sound == StackwalkTypeOK /\ OneContext /\ Serial /\ Queried /\ Apcs /\ Counted

ApcInv == ~raced => Sound
-----------------------------------------------------------------------------
\* The count stands while an initiation neither queues an APC nor counts one.
LEMMA CountStands ==
    ASSUME NEW o \in Ops, NEW stage, StackwalkTypeOK, Counted,
           op_pc' = [op_pc EXCEPT ![o] = stage],
           stage \in {"find", "increment"} <=> op_pc[o] \in {"find", "increment"},
           UNCHANGED <<allocated, count, apc, bugcheck>>
    PROVE  Counted'
<1>1. op_pc \in [Ops -> {op_pc[p] : p \in Ops}] /\ allocated \subseteq Ops
  BY DEF StackwalkTypeOK
<1>2. \A p \in Ops : op_pc'[p] = IF p = o THEN stage ELSE op_pc[p]
  BY <1>1
<1>3. \A p \in Ops : Uncounted(p)' = Uncounted(p)
  BY <1>2, Zenon DEF Uncounted
<1>4. \A p \in Ops : Outstanding(p)' = Outstanding(p)
  BY Zenon DEF Outstanding
<1> QED
  BY <1>1, <1>3, <1>4, Zenon DEF Counted

\* The outstanding APCs of a context are finitely many and counted one by one.
LEMMA OutstandingCount ==
    ASSUME NEW S, S \subseteq Threads, NEW t
    PROVE  /\ Cardinality(S) \in Nat
           /\ Cardinality(S) = 0 => S = {}
           /\ t \notin S => Cardinality(S \cup {t}) = Cardinality(S) + 1
           /\ t \in S => Cardinality(S \ {t}) = Cardinality(S) - 1
<1>1. IsFiniteSet(S)
  BY ApcContextAssumption, FS_Subset
<1> QED BY <1>1, FS_AddElement, FS_RemoveElement, FS_CardinalityType, FS_EmptySet

\* GetApcContext finds the one context there is.
LEMMA ContextFound ==
    ASSUME StackwalkTypeOK, OneContext
    PROVE  /\ GetApcContext = NULL <=> \A s \in Slots : contexts[s] = NULL
           /\ \A o \in allocated : op_pc[o] # "insert" => GetApcContext = o
<1> DEFINE used == {s \in Slots : contexts[s] # NULL}
<1>1. CASE used = {}
  BY <1>1 DEF GetApcContext, OneContext, StackwalkTypeOK
<1>2. CASE used # {}
  <2>1. PICK s \in Slots : used = {s} /\ contexts[s] # NULL
    BY <1>2 DEF OneContext
  <2>2. s <= s
    BY ApcContextAssumption DEF Slots
  <2>3. (CHOOSE x \in used : \A r \in used : x <= r) = s
    BY <2>1, <2>2
  <2>4. GetApcContext = contexts[s]
    BY <1>2, <2>3 DEF GetApcContext
  <2> QED BY <2>1, <2>4 DEF OneContext
<1> QED BY <1>1, <1>2

\* The invariant holds at the start.
LEMMA ApcInit == StackwalkInit => ApcInv
<1> SUFFICES ASSUME StackwalkInit PROVE ApcInv OBVIOUS
<1> USE ApcContextAssumption DEF StackwalkInit
<1>1. StackwalkTypeOK
  <2>1. 0 \in 0..MAXIMUM_APC_CONTEXTS /\ FALSE \in BOOLEAN
    OBVIOUS
  <2>2. /\ allocation_in_progress \in [Ops -> BOOLEAN] /\ raced \in BOOLEAN
        /\ query \in [Queriers -> [slot : 0..MAXIMUM_APC_CONTEXTS,
                                   entry : Ops \cup {NULL}, read : BOOLEAN]]
    BY <2>1, Zenon
  <2> QED BY SMTT(30), <2>2 DEF StackwalkTypeOK
<1>2. \A o \in Ops : Outstanding(o) = {}
  BY DEF Outstanding
<1>3. OneContext /\ Serial /\ Queried /\ Apcs
  BY DEF OneContext, Serial, Queried, Apcs, InProgress, Flagged
<1>4. Counted
  BY <1>2 DEF Counted
<1> QED BY <1>1, <1>3, <1>4 DEF ApcInv, Sound

\* The steps of an initiation, until a context is freed before its flag is set.
LEMMA OpSound ==
    ASSUME OneAtATime, Sound, bugcheck = "no", NEW o \in Ops, OpStep(o)
    PROVE  Sound'
<1> USE ApcContextAssumption DEF Sound, StackwalkTypeOK, op_vars, apc_vars
<1>0. /\ GetApcContext = NULL <=> \A s \in Slots : contexts[s] = NULL
      /\ \A p \in allocated : op_pc[p] # "insert" => GetApcContext = p
  BY ContextFound
<1>1. CASE Initiate(o)
  <2>1. /\ op_pc[o] = "idle" /\ \A p \in Ops : op_pc[p] \in {"idle", "done"}
        /\ UNCHANGED <<contexts, count, allocation_in_progress, op_todo, header, lock,
                       apc, apc_header, thread_list, query, unload, raced, bugcheck>>
    BY <1>1 DEF Initiate, OneAtATime
  <2>2. CASE op_pc' = [op_pc EXCEPT ![o] = "done"] /\ allocated' = allocated
    <3>1. OneContext' /\ Serial' /\ Queried'
      BY SMTT(30), <2>1, <2>2 DEF OneContext, Serial, Queried, InProgress, Flagged
    <3>2. Apcs'
      BY SMTT(30), <2>1, <2>2 DEF Apcs, Early
    <3>3. /\ \A p \in Ops : Outstanding(p)' = Outstanding(p)
          /\ \A p \in allocated : Uncounted(p)' = Uncounted(p)
      BY <2>1, <2>2 DEF Outstanding, Uncounted
    <3>4. Counted'
      BY <2>1, <2>2, <3>3 DEF Counted
    <3> QED BY <2>1, <2>2, <3>1, <3>2, <3>4
  <2>3. CASE /\ GetApcContext = NULL /\ op_pc' = [op_pc EXCEPT ![o] = "insert"]
             /\ allocated' = allocated \cup {o}
    <3>0. allocated = {}
      BY SMTT(40), <1>0, <2>1, <2>3 DEF OneContext
    <3>1. OneContext' /\ Serial' /\ Queried'
      BY SMTT(30), <1>0, <2>1, <2>3, <3>0 DEF OneContext, Serial, Queried, InProgress, Flagged
    <3>2. Apcs'
      BY SMTT(30), <2>1, <2>3 DEF Apcs, Early
    <3>3. Outstanding(o) = {} /\ count[o] = 0
      BY SMTT(30), <2>1 DEF Apcs, Early, Outstanding
    <3>4. /\ \A p \in Ops : Outstanding(p)' = Outstanding(p)
          /\ allocated' = {o} /\ Uncounted(o)' = 0 /\ count' = count
      BY <2>1, <2>3, <3>0 DEF Outstanding, Uncounted
    <3>5. Counted'
      <4>1. \A p \in Ops : Outstanding(p)' # {} => p \in allocated'
        BY <3>0, <3>4 DEF Counted
      <4>2. Cardinality(Outstanding(o)') = 0
        <5>1. Outstanding(o)' = {}
          BY <3>3, <3>4
        <5> QED BY <5>1, FS_EmptySet
      <4>3. count'[o] = 0 /\ Uncounted(o)' = 0
        BY <3>3, <3>4
      <4>4. count'[o] + Uncounted(o)' = Cardinality(Outstanding(o)')
        BY SMTT(30), <4>2, <4>3
      <4> QED BY <2>1, <3>4, <4>1, <4>4 DEF Counted
    <3> QED BY <2>1, <2>3, <3>1, <3>2, <3>5
  <2> QED BY <1>1, <2>2, <2>3 DEF Initiate
<1>2. CASE InsertApcContext(o)
  <2>1. /\ op_pc[o] = "insert" /\ op_pc' = [op_pc EXCEPT ![o] = "flag"] /\ o \in allocated
        /\ UNCHANGED <<allocated, count, allocation_in_progress, op_todo, header, lock,
                       apc, apc_header, thread_list, query, unload, raced, bugcheck>>
    BY <1>2 DEF InsertApcContext, Serial, InProgress
  <2>2. \A s \in Slots : contexts[s] = NULL
    BY <2>1 DEF OneContext
  <2>3. /\ {s \in Slots : contexts[s] = NULL} = Slots
        /\ 1 \in Slots /\ \A r \in Slots : 1 <= r
    BY SMTT(30), <2>2 DEF Slots
  <2>4. PICK s \in Slots : contexts' = [contexts EXCEPT ![s] = o]
    BY <1>2, <2>3 DEF InsertApcContext
  <2>5. OneContext'
    BY SMTT(30), <2>1, <2>2, <2>4 DEF OneContext
  <2>6. Serial' /\ Queried' /\ Apcs'
    BY SMTT(30), <2>1 DEF Serial, Queried, Apcs, InProgress, Flagged, Early
  <2>7. Counted'
    BY SMTT(30), <2>1 DEF Counted, Uncounted, Outstanding
  <2> QED BY <2>1, <2>4, <2>5, <2>6, <2>7
<1>3. CASE SetAllocationInProgress(o)
  <2>1. /\ op_pc[o] = "flag" /\ op_pc' = [op_pc EXCEPT ![o] = "lock"]
        /\ allocation_in_progress' = [allocation_in_progress EXCEPT ![o] = TRUE]
        /\ UNCHANGED <<contexts, allocated, count, op_todo, header, lock,
                       apc, apc_header, thread_list, query, unload, raced, bugcheck>>
    BY <1>3 DEF SetAllocationInProgress, Serial, InProgress
  <2>2. allocation_in_progress' \in [Ops -> BOOLEAN]
    BY <2>1, Zenon
  <2>3. OneContext' /\ Queried' /\ Apcs'
    BY SMTT(30), <2>1 DEF OneContext, Queried, Apcs, Early
  <2>4. Serial'
    BY SMTT(30), <2>1 DEF Serial, InProgress, Flagged
  <2>5. Counted'
    BY <2>1, CountStands
  <2> QED BY <2>1, <2>2, <2>3, <2>4, <2>5
<1>4. CASE EnumerateThreadList(o)
  <2>1. /\ op_pc[o] = "lock" /\ op_pc' = [op_pc EXCEPT ![o] = "enumerate"]
        /\ lock' = o /\ op_todo' = [op_todo EXCEPT ![o] = thread_list]
        /\ UNCHANGED <<contexts, allocated, count, allocation_in_progress, header,
                       apc, apc_header, thread_list, query, unload, raced, bugcheck>>
    BY <1>4 DEF EnumerateThreadList
  <2>2. OneContext' /\ Serial' /\ Queried'
    BY SMTT(30), <2>1 DEF OneContext, Serial, Queried, InProgress, Flagged
  <2>3. Apcs'
    BY SMTT(30), <2>1 DEF Apcs, Early
  <2>4. Counted'
    BY SMTT(30), <2>1 DEF Counted, Uncounted, Outstanding
  <2> QED BY <2>1, <2>2, <2>3, <2>4
<1>5. CASE SkipThread(o)
  <2>1. PICK t \in op_todo[o] : op_todo' = [op_todo EXCEPT ![o] = op_todo[o] \ {t}]
    BY <1>5 DEF SkipThread
  <2>2. UNCHANGED <<contexts, allocated, count, allocation_in_progress, op_pc, header,
                    lock, apc, apc_header, thread_list, query, unload, raced, bugcheck>>
    BY <1>5 DEF SkipThread
  <2>3. OneContext' /\ Serial' /\ Queried' /\ Apcs'
    BY SMTT(30), <2>1, <2>2 DEF OneContext, Serial, Queried, Apcs
  <2>4. Counted'
    BY SMTT(30), <2>2 DEF Counted, Uncounted, Outstanding
  <2> QED BY <2>1, <2>2, <2>3, <2>4
<1>6. CASE QueueApc(o)
  <2>1. PICK t \in op_todo[o] : /\ op_todo' = [op_todo EXCEPT ![o] = op_todo[o] \ {t}]
                             /\ apc' = [apc EXCEPT ![o] = [apc[o] EXCEPT ![t] = "queued"]]
    BY <1>6 DEF QueueApc
  <2>2. /\ op_pc[o] = "enumerate" /\ op_pc' = [op_pc EXCEPT ![o] = "find"] /\ o \in allocated
        /\ UNCHANGED <<contexts, allocated, count, allocation_in_progress, header,
                       lock, apc_header, thread_list, query, unload, raced, bugcheck>>
    BY <1>6 DEF QueueApc, Serial, InProgress, Flagged
  <2>3. OneContext' /\ Serial' /\ Queried'
    BY SMTT(30), <2>2 DEF OneContext, Serial, Queried, InProgress, Flagged
  <2>4. Apcs'
    BY SMTT(30), <2>1, <2>2 DEF Apcs, Early
  <2>5. /\ t \in Threads /\ t \notin Outstanding(o) /\ Outstanding(o) \subseteq Threads
        /\ Outstanding(o)' = Outstanding(o) \cup {t}
        /\ \A p \in Ops \ {o} : Outstanding(p)' = Outstanding(p)
    BY SMTT(30), <2>1 DEF Apcs, Outstanding
  <2>6. /\ Cardinality(Outstanding(o)) \in Nat
        /\ Cardinality(Outstanding(o)') = Cardinality(Outstanding(o)) + 1
    BY <2>5, OutstandingCount
  <2>7. Counted'
    <3>0. /\ Uncounted(o) = 0 /\ Uncounted(o)' = 1 /\ count' = count
          /\ \A p \in allocated : p = o
      BY <2>2 DEF Uncounted, OneContext
    <3>1. count[o] + Uncounted(o) = Cardinality(Outstanding(o)) /\ count[o] \in Int
      BY <2>2 DEF Counted
    <3>2. \A p \in allocated' : count'[p] + Uncounted(p)' = Cardinality(Outstanding(p)')
      BY SMTT(30), <2>2, <2>6, <3>0, <3>1
    <3>3. \A p \in Ops : Outstanding(p)' # {} => p \in allocated'
      BY <2>2, <2>5 DEF Counted
    <3> QED BY <2>2, <3>2, <3>3 DEF Counted
  <2>8. apc' \in [Ops -> [Threads -> {"none", "queued", "running", "decrement",
                                      "freed", "lost"}]]
    BY <2>1
  <2> QED BY <2>1, <2>2, <2>3, <2>4, <2>7, <2>8
<1>7. CASE FindForIncrement(o)
  <2>1. /\ op_pc[o] = "find" /\ o \in allocated /\ GetApcContext = o
    BY <1>0, <1>7 DEF FindForIncrement, Serial, InProgress, Flagged
  <2>2. /\ op_pc' = [op_pc EXCEPT ![o] = "increment"] /\ header' = [header EXCEPT ![o] = o]
        /\ UNCHANGED <<contexts, allocated, count, allocation_in_progress, op_todo,
                       lock, apc, apc_header, thread_list, query, unload, raced, bugcheck>>
    BY <1>7, <2>1 DEF FindForIncrement
  <2>3. OneContext' /\ Serial' /\ Queried' /\ Apcs'
    BY SMTT(30), <2>1, <2>2 DEF OneContext, Serial, Queried, Apcs, InProgress, Flagged, Early
  <2>4. Counted'
    BY <2>1, <2>2, CountStands
  <2> QED BY <2>2, <2>3, <2>4
<1>8. CASE IncrementApcCount(o)
  <2>1. /\ op_pc[o] = "increment" /\ header[o] = o /\ o \in allocated
    BY <1>8 DEF IncrementApcCount, Serial, InProgress, Flagged
  <2>2. /\ op_pc' = [op_pc EXCEPT ![o] = "enumerate"]
        /\ count' = [count EXCEPT ![o] = count[o] + 1]
        /\ UNCHANGED <<contexts, allocated, allocation_in_progress, op_todo, header,
                       lock, apc, apc_header, thread_list, query, unload, raced, bugcheck>>
    BY <1>8, <2>1 DEF IncrementApcCount
  <2>3. OneContext' /\ Serial' /\ Queried' /\ Apcs'
    BY SMTT(30), <2>1, <2>2 DEF OneContext, Serial, Queried, Apcs, InProgress, Flagged, Early
  <2>4. Cardinality(Outstanding(o)) \in Nat
    BY OutstandingCount DEF Outstanding
  <2>5. /\ Uncounted(o) = 1 /\ Uncounted(o)' = 0 /\ \A p \in allocated : p = o
        /\ \A p \in Ops : Outstanding(p)' = Outstanding(p)
    BY SMTT(30), <2>1, <2>2 DEF Uncounted, OneContext, Outstanding
  <2>6. Counted'
    BY SMTT(30), <2>1, <2>2, <2>4, <2>5 DEF Counted
  <2> QED BY SMTT(30), <2>2, <2>3, <2>6
<1>9. CASE EnumerationDone(o)
  <2>1. /\ op_pc[o] = "enumerate" /\ op_pc' = [op_pc EXCEPT ![o] = "clear"] /\ lock' = NULL
        /\ UNCHANGED <<contexts, allocated, count, allocation_in_progress, op_todo,
                       header, apc, apc_header, thread_list, query, unload, raced, bugcheck>>
    BY <1>9 DEF EnumerationDone
  <2>2. OneContext' /\ Serial' /\ Queried' /\ Apcs'
    BY SMTT(30), <2>1 DEF OneContext, Serial, Queried, Apcs, InProgress, Flagged, Early
  <2>3. Counted'
    BY <2>1, CountStands
  <2> QED BY <2>1, <2>2, <2>3
<1>10. CASE ClearAllocationInProgress(o)
  <2>1. /\ op_pc[o] = "clear" /\ op_pc' = [op_pc EXCEPT ![o] = "done"]
        /\ allocation_in_progress' = [allocation_in_progress EXCEPT ![o] = FALSE]
        /\ UNCHANGED <<contexts, allocated, count, op_todo, header, lock,
                       apc, apc_header, thread_list, query, unload, raced, bugcheck>>
    BY <1>10 DEF ClearAllocationInProgress, Serial, InProgress, Flagged
  <2>2. allocation_in_progress' \in [Ops -> BOOLEAN]
    BY <2>1, Zenon
  <2>3. OneContext' /\ Queried' /\ Apcs'
    BY SMTT(30), <2>1 DEF OneContext, Queried, Apcs, Early
  <2>4. Serial'
    BY SMTT(30), <2>1 DEF Serial, InProgress, Flagged
  <2>5. Counted'
    BY <2>1, CountStands
  <2> QED BY <2>1, <2>2, <2>3, <2>4, <2>5
<1> QED BY <1>1, <1>2, <1>3, <1>4, <1>5, <1>6, <1>7, <1>8, <1>9, <1>10 DEF OpStep

\* The steps of the APCs.
LEMMA ApcSound ==
    ASSUME Sound, bugcheck = "no", NEW o \in Ops, NEW t \in Threads, ApcStep(o, t)
    PROVE  Sound'
<1> USE ApcContextAssumption DEF Sound, StackwalkTypeOK, op_vars, apc_vars
<1>0. /\ Outstanding(o) \subseteq Threads /\ Cardinality(Outstanding(o)) \in Nat
      /\ apc[o][t] \in {"queued", "running", "decrement"}
      /\ t \in Outstanding(o) /\ o \in allocated /\ op_pc[o] \notin Early
  <2>1. Outstanding(o) \subseteq Threads
    BY DEF Outstanding
  <2>2. apc[o][t] \in {"queued", "running", "decrement"}
    BY DEF ApcStep, ApcKernelRoutine, FreeApc, ApcRundownRoutine, DecrementApcCount
  <2>3. t \in Outstanding(o) /\ op_pc[o] \notin Early
    BY <2>2 DEF Outstanding, Apcs
  <2> QED BY <2>1, <2>2, <2>3, OutstandingCount DEF Counted
<1>1. GetApcContext = o
  BY <1>0, ContextFound DEF Early
<1>2. ASSUME NEW new \in {"running", "decrement", "lost"},
             apc' = [apc EXCEPT ![o] = [apc[o] EXCEPT ![t] = new]],
             \/ new # "decrement" /\ apc_header' = apc_header
             \/ apc_header' = [apc_header EXCEPT ![o] = [apc_header[o] EXCEPT ![t] = o]],
             UNCHANGED <<contexts, allocated, count, allocation_in_progress, op_pc, op_todo,
                         header, lock, thread_list, query, unload, raced, bugcheck>>
      PROVE  Sound'
  <2>1. StackwalkTypeOK'
    <3>1. apc_header' \in [Ops -> [Threads -> Ops \cup {NULL}]]
      <4>1. CASE apc_header' = apc_header
        BY <4>1
      <4>2. CASE apc_header' = [apc_header EXCEPT ![o] = [apc_header[o] EXCEPT ![t] = o]]
        BY <4>2
      <4> QED BY <1>2, <4>1, <4>2
    <3>2. apc' \in [Ops -> [Threads -> {"none", "queued", "running", "decrement",
                                       "freed", "lost"}]]
      BY <1>2
    <3> QED BY <1>2, <3>1, <3>2
  <2>2. OneContext' /\ Serial' /\ Queried'
    BY <1>2 DEF OneContext, Serial, Queried
  <2>3. Apcs'
    BY SMTT(30), <1>0, <1>2 DEF Apcs
  <2>4. \A p \in Ops : Outstanding(p)' = Outstanding(p) /\ Uncounted(p)' = Uncounted(p)
    BY SMTT(30), <1>0, <1>2 DEF Outstanding, Uncounted
  <2>5. Counted'
    BY <1>2, <2>4 DEF Counted
  <2> QED BY <2>1, <2>2, <2>3, <2>5
<1>3. CASE ApcKernelRoutine(o, t)
  BY <1>2, <1>3 DEF ApcKernelRoutine
<1>4. CASE FreeApc(o, t)
  BY <1>0, <1>1, <1>2, <1>4 DEF FreeApc
<1>5. CASE ApcRundownRoutine(o, t)
  BY <1>1, <1>2, <1>5 DEF ApcRundownRoutine
<1>6. CASE DecrementApcCount(o, t)
  <2>1. apc[o][t] = "decrement" /\ apc_header[o][t] = o /\ o # NULL
    BY <1>6 DEF DecrementApcCount, Apcs
  <2>2. /\ apc' = [apc EXCEPT ![o] = [apc[o] EXCEPT ![t] = "freed"]]
        /\ apc_header' = [apc_header EXCEPT ![o] = [apc_header[o] EXCEPT ![t] = NULL]]
        /\ count' = [count EXCEPT ![o] = count[o] - 1]
        /\ UNCHANGED <<contexts, allocated, allocation_in_progress, op_pc, op_todo, header,
                       lock, thread_list, query, unload, raced, bugcheck>>
    BY <1>0, <1>6, <2>1 DEF DecrementApcCount
  <2>3. StackwalkTypeOK'
    BY SMTT(30), <2>2
  <2>4. OneContext' /\ Serial' /\ Queried'
    BY <2>2 DEF OneContext, Serial, Queried
  <2>5. Apcs'
    BY SMTT(30), <1>0, <2>1, <2>2 DEF Apcs
  <2>6. /\ Outstanding(o)' = Outstanding(o) \ {t}
        /\ \A p \in Ops \ {o} : Outstanding(p)' = Outstanding(p)
        /\ \A p \in Ops : Uncounted(p)' = Uncounted(p)
        /\ \A p \in allocated : p = o
    BY SMTT(30), <1>0, <2>2 DEF Outstanding, Uncounted, OneContext
  <2>7. Cardinality(Outstanding(o)') = Cardinality(Outstanding(o)) - 1
    BY <1>0, <2>6, OutstandingCount
  <2>8. count'[o] + Uncounted(o)' = Cardinality(Outstanding(o)')
    <3>1. /\ count[o] + Uncounted(o) = Cardinality(Outstanding(o))
          /\ count[o] \in Int /\ Uncounted(o) \in Int
      BY SMTT(30), <1>0 DEF Counted, Uncounted
    <3> QED BY SMTT(30), <1>0, <2>2, <2>6, <2>7, <3>1
  <2>9. Counted'
    BY <1>0, <2>2, <2>6, <2>8 DEF Counted
  <2> QED BY <2>3, <2>4, <2>5, <2>9
<1> QED BY <1>3, <1>4, <1>5, <1>6 DEF ApcStep

\* The steps of the query.
LEMMA QuerySound ==
    ASSUME OneAtATime, Sound, bugcheck = "no", NEW q \in Queriers, QueryStep(q), ~raced'
    PROVE  Sound'
<1> USE ApcContextAssumption DEF Sound, StackwalkTypeOK, op_vars, apc_vars
<1>1. \A r \in Queriers : r = q
  BY DEF OneAtATime
<1>2. ASSUME NEW slot \in 0..MAXIMUM_APC_CONTEXTS, NEW entry \in Ops \cup {NULL},
             NEW read \in BOOLEAN,
             query' = [query EXCEPT ![q] = [slot |-> slot, entry |-> entry, read |-> read]],
             entry # NULL => entry \in allocated /\ op_pc[entry] # "insert",
             UNCHANGED <<contexts, allocated, count, allocation_in_progress, op_pc, op_todo,
                         header, lock, apc, apc_header, thread_list, unload, raced, bugcheck>>
      PROVE  Sound'
  <2>1. StackwalkTypeOK'
    BY <1>2
  <2>2. OneContext' /\ Serial' /\ Apcs'
    BY SMTT(30), <1>2 DEF OneContext, Serial, Apcs
  <2>3. Queried'
    BY <1>1, <1>2 DEF Queried
  <2>4. Counted'
    BY SMTT(30), <1>2 DEF Counted, Outstanding, Uncounted
  <2> QED BY <2>1, <2>2, <2>3, <2>4
<1>3. CASE QueryBegin(q)
  <2>1. 1 \in 0..MAXIMUM_APC_CONTEXTS /\ FALSE \in BOOLEAN /\ NULL \in Ops \cup {NULL}
    BY SMTT(30)
  <2>2. NULL # NULL => NULL \in allocated /\ op_pc[NULL] # "insert"
    OBVIOUS
  <2>3. UNCHANGED <<contexts, allocated, count, allocation_in_progress, op_pc, op_todo, header,
                    lock, apc, apc_header, thread_list, unload, raced, bugcheck>>
    BY <1>3 DEF QueryBegin
  <2>4. query' = [query EXCEPT ![q] = [slot |-> 1, entry |-> NULL, read |-> FALSE]]
    BY <1>3 DEF QueryBegin
  <2> QED BY <1>2, <2>1, <2>2, <2>3, <2>4
<1>4. CASE QueryRead(q)
  <2>1. query[q].slot \in Slots
    BY SMTT(30), <1>4 DEF QueryRead, Slots
  <2> QED BY <1>2, <1>4, <2>1 DEF QueryRead, OneContext
<1>5. CASE QueryTest(q)
  <2> DEFINE slot == (query[q].slot + 1) % (MAXIMUM_APC_CONTEXTS + 1)
             o == query[q].entry
  <2>1. slot \in 0..MAXIMUM_APC_CONTEXTS
    BY SMTT(30)
  <2>2. o # NULL => o \in allocated /\ op_pc[o] # "insert"
    BY DEF Queried
  <2>3. CASE o = NULL \/ ~IsComplete(o)
    BY <1>2, <1>5, <2>1, <2>2, <2>3 DEF QueryTest, NextIndex
  <2>4. CASE o # NULL /\ IsComplete(o)
    <3>1. /\ query' = [query EXCEPT ![q] = [slot |-> slot, entry |-> NULL, read |-> FALSE]]
          /\ FreeApcContext(o) /\ raced' = (raced \/ op_pc[o] = "flag")
          /\ UNCHANGED <<count, allocation_in_progress, op_pc, op_todo, header, lock, apc,
                         apc_header, thread_list, unload, bugcheck>>
      BY <1>5, <2>2, <2>4 DEF QueryTest, NextIndex
    <3>2. o \in Ops /\ op_pc[o] \notin InProgress /\ op_pc[o] # "idle"
      BY <2>2, <2>4, <3>1 DEF IsComplete, Serial, OneContext, InProgress, Flagged
    <3>3. allocated = {o} /\ allocated' = {} /\ \A s \in Slots : contexts'[s] = NULL
      BY SMTT(40), <2>2, <2>4, <3>1 DEF FreeApcContext, OneContext
    <3>4. Outstanding(o) = {}
      <4>1. count[o] <= 0 /\ Uncounted(o) = 0 /\ count[o] \in Int
        BY <2>4, <3>2 DEF IsComplete, Uncounted, InProgress, Flagged
      <4>2. count[o] + Uncounted(o) = Cardinality(Outstanding(o))
        BY <3>3 DEF Counted
      <4>3. Outstanding(o) \subseteq Threads
        BY DEF Outstanding
      <4>4. Cardinality(Outstanding(o)) \in Nat
        BY <4>3, OutstandingCount
      <4>5. Cardinality(Outstanding(o)) = 0
        BY SMTT(30), <4>1, <4>2, <4>4
      <4> QED BY <4>3, <4>5, OutstandingCount
    <3>5. StackwalkTypeOK'
      <4>1. contexts' \in [Slots -> Ops \cup {NULL}] /\ raced' \in BOOLEAN
        BY <3>1 DEF FreeApcContext
      <4> QED BY <2>1, <3>1, <3>3, <4>1
    <3>6. OneContext' /\ Queried'
      BY <1>1, <3>1, <3>3 DEF OneContext, Queried
    <3>7. Serial' /\ Apcs'
      BY SMTT(30), <3>1, <3>2, <3>3 DEF Serial, Apcs
    <3>8. Counted'
      BY <3>1, <3>3, <3>4 DEF Counted, Outstanding
    <3> QED BY <3>5, <3>6, <3>7, <3>8
  <2> QED BY <2>3, <2>4
<1> QED BY <1>3, <1>4, <1>5 DEF QueryStep

\* The end of a thread, and the unload.
LEMMA OtherSound ==
    ASSUME Sound, bugcheck = "no",
           \/ \E t \in Threads : ThreadExit(t)
           \/ BeginUnload
           \/ DrvUnloadFreeAllApcContextStructures
    PROVE  Sound'
<1> USE DEF Sound, StackwalkTypeOK, op_vars, apc_vars
<1>1. /\ UNCHANGED <<contexts, allocated, count, allocation_in_progress, op_pc, op_todo, header,
                     lock, apc, apc_header, query, raced>>
      /\ thread_list' \subseteq Threads /\ unload' \in {"no", "waiting", "done"}
      /\ bugcheck' \in {"no", "bad_free"}
  BY DEF ThreadExit, BeginUnload, DrvUnloadFreeAllApcContextStructures
<1>2. StackwalkTypeOK'
  BY <1>1
<1>3. OneContext' /\ Serial' /\ Queried' /\ Apcs'
  BY SMTT(30), <1>1 DEF OneContext, Serial, Queried, Apcs
<1>4. Counted'
  BY SMTT(30), <1>1 DEF Counted, Outstanding, Uncounted
<1> QED BY <1>2, <1>3, <1>4

\* Once a query has come too early it stays so.
LEMMA RacedStays == ASSUME StackwalkNext, raced PROVE raced'
<1>1. CASE \E o \in Ops : OpStep(o)
  BY <1>1 DEF OpStep, Initiate, InsertApcContext, SetAllocationInProgress,
              EnumerateThreadList, SkipThread, QueueApc, FindForIncrement,
              IncrementApcCount, EnumerationDone, ClearAllocationInProgress, UseAfterFree
<1>2. CASE \E o \in Ops, t \in Threads : ApcStep(o, t)
  BY <1>2 DEF ApcStep, ApcKernelRoutine, FreeApc, ApcRundownRoutine, DecrementApcCount,
              UseAfterFree
<1>3. CASE \E q \in Queriers : QueryStep(q)
  BY <1>3 DEF QueryStep, QueryBegin, QueryRead, QueryTest, UseAfterFree
<1>4. CASE (\E t \in Threads : ThreadExit(t)) \/ BeginUnload
               \/ DrvUnloadFreeAllApcContextStructures
  BY <1>4 DEF ThreadExit, BeginUnload, DrvUnloadFreeAllApcContextStructures
<1> QED BY <1>1, <1>2, <1>3, <1>4 DEF StackwalkNext

\* Every step keeps the invariant.
LEMMA ApcNext == ASSUME OneAtATime, ApcInv, [StackwalkNext]_stackwalk_vars PROVE ApcInv'
<1> SUFFICES ASSUME ~raced' PROVE Sound'
  BY DEF ApcInv
<1>1. CASE UNCHANGED stackwalk_vars
  <2>1. Sound
    BY <1>1 DEF ApcInv, stackwalk_vars
  <2>2. UNCHANGED <<contexts, allocated, count, allocation_in_progress, op_pc, op_todo, header,
                    lock, apc, apc_header, thread_list, query, unload, raced, bugcheck>>
    BY <1>1 DEF stackwalk_vars, op_vars, apc_vars
  <2>3. StackwalkTypeOK' /\ Counted'
    BY <2>1, <2>2 DEF Sound, StackwalkTypeOK, Counted, Outstanding, Uncounted
  <2>4. OneContext' /\ Serial' /\ Queried' /\ Apcs'
    BY <2>1, <2>2 DEF Sound, OneContext, Serial, Queried, Apcs
  <2> QED BY <2>3, <2>4 DEF Sound
<1>2. CASE StackwalkNext
  <2>1. Sound /\ bugcheck = "no"
    BY <1>2, RacedStays DEF ApcInv, StackwalkNext
  <2>2. ASSUME NEW o \in Ops, OpStep(o) PROVE Sound'
    BY <2>1, <2>2, OpSound
  <2>3. ASSUME NEW o \in Ops, NEW t \in Threads, ApcStep(o, t) PROVE Sound'
    BY <2>1, <2>3, ApcSound
  <2>4. ASSUME NEW q \in Queriers, QueryStep(q) PROVE Sound'
    BY <2>1, <2>4, QuerySound
  <2>5. CASE \/ \E t \in Threads : ThreadExit(t)
             \/ BeginUnload
             \/ DrvUnloadFreeAllApcContextStructures
    BY <2>1, <2>5, OtherSound
  <2> QED BY <1>2, <2>2, <2>3, <2>4, <2>5 DEF StackwalkNext
<1> QED BY <1>1, <1>2

\* For any number of threads, initiations and slots, a context is there as long
\* as an APC of it is outstanding and its count is right, provided initiations
\* do not overlap and one query is made at a time
\* (ValidateThreadsViaKernelApc, QueryActiveApcContextsForCompletion).
THEOREM ContextTheorem == ASSUME OneAtATime PROVE StackwalkSpec => []ContextOutlivesApcs
<1>1. ApcInv => ContextOutlivesApcs
  BY DEF ApcInv, Sound, Counted, Uncounted, ContextOutlivesApcs
<1>2. ApcInv /\ [StackwalkNext]_stackwalk_vars => ApcInv'
  BY ApcNext
<1> QED BY <1>1, <1>2, ApcInit, PTL DEF StackwalkSpec

-----------------------------------------------------------------------------
(* The driver.                                                             *)

\* The steps of a clean-up sequence, and that b comes only after a.
Steps(s) == {s[i] : i \in 1..Len(s)}
Ordered(s, a, b) == \A i \in 1..Len(s) : s[i] = b => \E j \in 1..(i - 1) : s[j] = a

Removal(l) == {<<"deactivate", l>>, <<"unregister", l>>}
TimerSteps == {<<"flush">>, <<"spin">>, <<"cancel">>, <<"free_item">>}
EntrySteps == {<<"free_strings">>} \cup TimerSteps \cup {<<"delete_link">>}
              \cup {<<"delete_device">>}
RemovalSteps == Removal("process") \cup Removal("thread") \cup Removal("image")
AllSteps == EntrySteps \cup RemovalSteps \cup {<<"free_drivers">>}
            \cup {<<"free_list", "thread">>, <<"free_list", "process">>}

Cleaning == pc \in {"cleanup", "gone"}

Types ==
    /\ pc \in EntryStages \cup {"loaded", "cleanup", "gone"}
    /\ cleanup \in Seq(AllSteps)
    /\ pc = "cleanup" <=> cleanup # <<>>
    /\ registered \subseteq Lists /\ active \subseteq Lists
    /\ lookaside \in [ObjectLists -> {"none", "live", "deleted"}]
    /\ listed \subseteq Objects
    /\ call \in [Objects -> {"none", "insert", "remove"}]
    /\ has_driver_loaded \in BOOLEAN

\* A sequence that removes every notify routine before it frees a list.
Proper(s) ==
    /\ \A l \in ObjectLists : /\ <<"unregister", l>> \in Steps(s)
                              /\ Ordered(s, <<"unregister", l>>, <<"free_list", l>>)
    /\ <<"unregister", "image">> \in Steps(s)
    /\ Ordered(s, <<"unregister", "image">>, <<"free_drivers">>)

\* How far DriverEntry has come.
ToConfigure == {"entry", "registry", "ansi_name", "gather", "timer"}
ToLink == ToConfigure \cup {"link"}
ToRegister == ToLink \cup {"register_image", "register_thread", "register_process"}
ToActivate == ToRegister \cup {"driver_activate"}
ToList == ToActivate \cup {"driver_head", "driver_modules", "driver_insert",
                           "thread_activate"}

SetUp ==
    /\ pc \in ToConfigure => ~timer /\ work_item = "none"
    /\ pc \in ToLink => ~symbolic_link
    /\ pc \in ToLink \cup {"register_image"} => registered = {}
    /\ pc = "register_thread" => registered \subseteq {"image"}
    /\ pc = "register_process" => registered \subseteq {"image", "thread"}
    /\ pc \in ToActivate => active = {}
    /\ pc \in ToList => lookaside["thread"] = "none"
    /\ pc \in ToList \cup {"thread_init", "process_activate"} =>
           lookaside["process"] = "none"
    /\ pc = "entry" => device = "none" /\ strings = {}
    /\ pc \in EntryStages => ~has_driver_loaded

\* A notify routine runs, and an entry exists, only for a list that can take it.
Calls ==
    /\ \A o \in Objects : call[o] # "none" =>
           ListOf[o] \in registered /\ lookaside[ListOf[o]] = "live"
    /\ \A o \in listed : lookaside[ListOf[o]] = "live"
    /\ \A l \in ObjectLists :
           /\ l \in active => lookaside[l] # "none"
           /\ lookaside[l] = "deleted" => Cleaning /\ l \notin registered
    /\ image_call # {} => "image" \in registered

\* The clean-up steps s undo everything there is, in an order that frees a list
\* only when its notify routine is gone.
Covers(s) ==
    /\ device = "created" => <<"delete_device">> \in Steps(s)
    /\ strings # {} => <<"free_strings">> \in Steps(s)
    /\ symbolic_link => <<"delete_link">> \in Steps(s)
    /\ timer => <<"cancel">> \in Steps(s)
    /\ work_item \notin {"none", "freed"} => <<"free_item">> \in Steps(s)
    /\ \A l \in registered : <<"unregister", l>> \in Steps(s)
    /\ \A l \in active : <<"deactivate", l>> \in Steps(s)
    /\ \A l \in ObjectLists :
           /\ lookaside[l] = "live" => <<"free_list", l>> \in Steps(s)
           /\ l \in registered => Ordered(s, <<"unregister", l>>, <<"free_list", l>>)
    /\ has_driver_loaded =>
           /\ drivers # {} \/ "image" \in registered => <<"free_drivers">> \in Steps(s)
           /\ "image" \in registered =>
                  Ordered(s, <<"unregister", "image">>, <<"free_drivers">>)

LifeInv == Types /\ SetUp /\ Calls /\ (Cleaning => Covers(cleanup))
-----------------------------------------------------------------------------
(* Clean-up sequences.                                                     *)

\* The steps of a concatenation, and the order in it.
LEMMA StepsOfConcat ==
    ASSUME NEW S, NEW s \in Seq(S), NEW t \in Seq(S)
    PROVE  s \o t \in Seq(S) /\ Steps(s \o t) = Steps(s) \cup Steps(t)
<1>1. /\ s \o t \in Seq(S) /\ Len(s \o t) = Len(s) + Len(t)
      /\ Len(s) \in Nat /\ Len(t) \in Nat
      /\ \A i \in 1..(Len(s) + Len(t)) :
             (s \o t)[i] = IF i <= Len(s) THEN s[i] ELSE t[i - Len(s)]
  BY ConcatProperties, LenProperties
<1>2. ASSUME NEW x \in Steps(s \o t) PROVE x \in Steps(s) \cup Steps(t)
  <2>1. PICK i \in 1..(Len(s) + Len(t)) : x = (s \o t)[i]
    BY <1>1 DEF Steps
  <2>2. CASE i <= Len(s)
    BY SMTT(30), <1>1, <2>1, <2>2 DEF Steps
  <2>3. CASE ~(i <= Len(s))
    <3>1. i - Len(s) \in 1..Len(t) /\ x = t[i - Len(s)]
      BY <1>1, <2>1, <2>3
    <3> QED BY <3>1 DEF Steps
  <2> QED BY <2>2, <2>3
<1>3. ASSUME NEW x \in Steps(s) PROVE x \in Steps(s \o t)
  <2>1. PICK i \in 1..Len(s) : x = s[i]
    BY DEF Steps
  <2>2. i \in 1..Len(s \o t) /\ x = (s \o t)[i]
    BY <1>1, <2>1
  <2> QED BY <2>2 DEF Steps
<1>4. ASSUME NEW x \in Steps(t) PROVE x \in Steps(s \o t)
  <2>1. PICK i \in 1..Len(t) : x = t[i]
    BY DEF Steps
  <2>2. i + Len(s) \in 1..Len(s \o t) /\ x = (s \o t)[i + Len(s)]
    BY <1>1, <2>1
  <2> QED BY <2>2 DEF Steps
<1> QED BY <1>1, <1>2, <1>3, <1>4

\* A step that is not there is in order.
LEMMA OrderedWithout ==
    ASSUME NEW s, NEW a, NEW b, b \notin Steps(s)
    PROVE  Ordered(s, a, b)
BY DEF Steps, Ordered

\* What comes first stays first.
LEMMA OrderedConcat ==
    ASSUME NEW S, NEW s \in Seq(S), NEW t \in Seq(S), NEW a, NEW b,
           Ordered(s, a, b), a \in Steps(s)
    PROVE  Ordered(s \o t, a, b)
<1>1. /\ Len(s \o t) = Len(s) + Len(t) /\ Len(s) \in Nat /\ Len(t) \in Nat
      /\ \A i \in 1..Len(s) : (s \o t)[i] = s[i]
  BY SMTT(30), ConcatProperties, LenProperties
<1>2. PICK k \in 1..Len(s) : s[k] = a
  BY DEF Steps
<1> SUFFICES ASSUME NEW i \in 1..Len(s \o t), (s \o t)[i] = b
             PROVE  \E j \in 1..(i - 1) : (s \o t)[j] = a
  BY DEF Ordered
<1>3. CASE i <= Len(s)
  <2>1. PICK j \in 1..(i - 1) : s[j] = a
    BY SMTT(30), <1>1, <1>3 DEF Ordered
  <2> QED BY <1>1, <1>3, <2>1
<1>4. CASE ~(i <= Len(s))
  BY <1>1, <1>2, <1>4
<1> QED BY <1>3, <1>4

\* The steps after the first.
LEMMA StepsOfTail ==
    ASSUME NEW S, NEW s \in Seq(S), s # <<>>
    PROVE  /\ Tail(s) \in Seq(S) /\ Steps(s) = {Head(s)} \cup Steps(Tail(s))
           /\ \A a, b : Ordered(s, a, b) => Head(s) # b
           /\ \A a, b : Ordered(s, a, b) /\ Head(s) # a => Ordered(Tail(s), a, b)
<1>1. /\ Tail(s) \in Seq(S) /\ Len(Tail(s)) = Len(s) - 1 /\ Len(s) \in Nat \ {0}
      /\ \A i \in 1..(Len(s) - 1) : Tail(s)[i] = s[i + 1]
      /\ Head(s) = s[1]
  BY SMTT(30), HeadTailProperties, LenProperties, EmptySeq
<1>2. Steps(Tail(s)) \subseteq Steps(s) /\ Head(s) \in Steps(s)
  BY SMTT(30), <1>1 DEF Steps
<1>3. ASSUME NEW x \in Steps(s), x # Head(s) PROVE x \in Steps(Tail(s))
  <2>1. PICK i \in 1..Len(s) : x = s[i]
    BY DEF Steps
  <2>2. i - 1 \in 1..Len(Tail(s)) /\ Tail(s)[i - 1] = x
    BY SMTT(30), <1>1, <1>3, <2>1
  <2> QED BY <2>2 DEF Steps
<1>4. ASSUME NEW a, NEW b, Ordered(s, a, b) PROVE Head(s) # b
  BY <1>1, <1>4 DEF Ordered
<1>5. ASSUME NEW a, NEW b, Ordered(s, a, b), Head(s) # a PROVE Ordered(Tail(s), a, b)
  <2> SUFFICES ASSUME NEW i \in 1..Len(Tail(s)), Tail(s)[i] = b
               PROVE  \E j \in 1..(i - 1) : Tail(s)[j] = a
    BY DEF Ordered
  <2>1. i + 1 \in 1..Len(s) /\ s[i + 1] = b
    BY <1>1
  <2>2. PICK j \in 1..((i + 1) - 1) : s[j] = a
    BY <1>5, <2>1 DEF Ordered
  <2>3. j # 1
    BY <1>1, <1>5, <2>2
  <2>4. j - 1 \in 1..(i - 1) /\ Tail(s)[j - 1] = a
    BY SMTT(30), <1>1, <2>2, <2>3
  <2> QED BY <2>4
<1> QED BY ZenonT(40), <1>1, <1>2, <1>3, <1>4, <1>5

\* The steps of short sequences.
LEMMA StepsOfTuple ==
    ASSUME NEW S, NEW a \in S, NEW b \in S
    PROVE  /\ <<a>> \in Seq(S) /\ Steps(<<a>>) = {a}
           /\ <<a, b>> \in Seq(S) /\ Steps(<<a, b>>) = {a, b}
<1>1. <<a>> \in Seq(S) /\ Steps(<<a>>) = {a}
  BY DEF Steps
<1>2. <<a, b>> \in Seq(S) /\ Steps(<<a, b>>) = {a, b}
  BY DEF Steps
<1> QED BY <1>1, <1>2

\* Concatenation, for sequences of clean-up steps.
LEMMA Concat ==
    ASSUME NEW s \in Seq(AllSteps), NEW t \in Seq(AllSteps)
    PROVE  s \o t \in Seq(AllSteps) /\ Steps(s \o t) = Steps(s) \cup Steps(t)
BY SMTT(30), StepsOfConcat

\* The steps of the sequences that the failure branches and DriverUnload run.
LEMMA PartsOfCleanup ==
    /\ TimerCleanup \in Seq(AllSteps) /\ Steps(TimerCleanup) = TimerSteps
    /\ FreeStrings \in Seq(AllSteps) /\ Steps(FreeStrings) = {<<"free_strings">>}
    /\ DeviceCleanup \in Seq(AllSteps) /\ Steps(DeviceCleanup) = {<<"delete_device">>}
    /\ << <<"delete_link">> >> \in Seq(AllSteps)
    /\ Steps(<< <<"delete_link">> >>) = {<<"delete_link">>}
    /\ \A l \in Lists : /\ UnregisterRoutine(l) \in Seq(AllSteps)
                        /\ Steps(UnregisterRoutine(l)) = Removal(l)
<1>1. /\ <<"flush">> \in AllSteps /\ <<"spin">> \in AllSteps
      /\ <<"cancel">> \in AllSteps /\ <<"free_item">> \in AllSteps
      /\ <<"free_strings">> \in AllSteps /\ <<"delete_device">> \in AllSteps
      /\ <<"delete_link">> \in AllSteps
  BY Zenon DEF AllSteps, EntrySteps, TimerSteps
<1>2. TimerCleanup \in Seq(AllSteps) /\ Steps(TimerCleanup) = TimerSteps
  <2> DEFINE a == <<"flush">>  b == <<"spin">>  c == <<"cancel">>  d == <<"free_item">>
  <2>1. TimerCleanup = <<a, b, c, d>> /\ TimerSteps = {a, b, c, d}
    BY Zenon DEF TimerCleanup, TimerSteps
  <2>2. a \in AllSteps /\ b \in AllSteps /\ c \in AllSteps /\ d \in AllSteps
    BY <1>1
  <2> HIDE DEF a, b, c, d
  <2>3. <<a, b, c, d>> \in Seq(AllSteps) /\ Steps(<<a, b, c, d>>) = {a, b, c, d}
    <3>1. <<a, b, c, d>> \in Seq(AllSteps)
      BY <2>2
    <3>2. Len(<<a, b, c, d>>) = 4 /\ 1..4 = {1, 2, 3, 4}
      OBVIOUS
    <3> QED BY SMTT(30), <3>1, <3>2 DEF Steps
  <2> QED BY <2>1, <2>3, Zenon
<1>3. /\ FreeStrings \in Seq(AllSteps) /\ Steps(FreeStrings) = {<<"free_strings">>}
      /\ DeviceCleanup \in Seq(AllSteps) /\ Steps(DeviceCleanup) = {<<"delete_device">>}
      /\ << <<"delete_link">> >> \in Seq(AllSteps)
      /\ Steps(<< <<"delete_link">> >>) = {<<"delete_link">>}
  BY <1>1, StepsOfTuple, Zenon DEF FreeStrings, DeviceCleanup
<1>4. ASSUME NEW l \in Lists
      PROVE  /\ UnregisterRoutine(l) \in Seq(AllSteps)
             /\ Steps(UnregisterRoutine(l)) = Removal(l)
  <2>1. <<"deactivate", l>> \in AllSteps /\ <<"unregister", l>> \in AllSteps
    BY Zenon DEF Lists, ObjectLists, AllSteps, RemovalSteps, Removal
  <2> DEFINE x == <<"deactivate", l>>  y == <<"unregister", l>>
  <2> HIDE DEF x, y
  <2>2. <<x, y>> \in Seq(AllSteps) /\ Steps(<<x, y>>) = {x, y}
    <3>1. x \in AllSteps /\ y \in AllSteps
      BY <2>1 DEF x, y
    <3> QED BY <3>1 DEF Steps
  <2> QED BY <2>2, Zenon DEF UnregisterRoutine, Removal, x, y
<1> QED BY <1>2, <1>3, <1>4

\* The sequences of the failure branches that need no others.
LEMMA EntrySequences ==
    /\ ConfigCleanup \in Seq(AllSteps)
    /\ Steps(ConfigCleanup) = {<<"free_strings">>} \cup {<<"delete_device">>}
    /\ (FreeStrings \o TimerCleanup) \o DeviceCleanup \in Seq(AllSteps)
    /\ Steps((FreeStrings \o TimerCleanup) \o DeviceCleanup)
           = ({<<"free_strings">>} \cup TimerSteps) \cup {<<"delete_device">>}
    /\ EntryCleanup \in Seq(AllSteps) /\ Steps(EntryCleanup) = EntrySteps
    /\ UnregisterAll \in Seq(AllSteps) /\ Steps(UnregisterAll) = RemovalSteps
<1>1. /\ ConfigCleanup \in Seq(AllSteps)
      /\ Steps(ConfigCleanup) = {<<"free_strings">>} \cup {<<"delete_device">>}
  <2>1. /\ ConfigCleanup \in Seq(AllSteps)
        /\ Steps(ConfigCleanup) = Steps(FreeStrings) \cup Steps(DeviceCleanup)
    BY PartsOfCleanup, Concat, Zenon DEF ConfigCleanup
  <2> QED BY <2>1, PartsOfCleanup, Zenon
<1>2. /\ FreeStrings \o TimerCleanup \in Seq(AllSteps)
      /\ Steps(FreeStrings \o TimerCleanup) = {<<"free_strings">>} \cup TimerSteps
  <2>1. /\ FreeStrings \o TimerCleanup \in Seq(AllSteps)
        /\ Steps(FreeStrings \o TimerCleanup) = Steps(FreeStrings) \cup Steps(TimerCleanup)
    BY PartsOfCleanup, Concat, Zenon
  <2> QED BY <2>1, PartsOfCleanup, Zenon
<1>3. /\ (FreeStrings \o TimerCleanup) \o DeviceCleanup \in Seq(AllSteps)
      /\ Steps((FreeStrings \o TimerCleanup) \o DeviceCleanup)
             = ({<<"free_strings">>} \cup TimerSteps) \cup {<<"delete_device">>}
  <2>1. /\ (FreeStrings \o TimerCleanup) \o DeviceCleanup \in Seq(AllSteps)
        /\ Steps((FreeStrings \o TimerCleanup) \o DeviceCleanup)
               = Steps(FreeStrings \o TimerCleanup) \cup Steps(DeviceCleanup)
    BY <1>2, PartsOfCleanup, Concat, Zenon
  <2> QED BY <1>2, <2>1, PartsOfCleanup, Zenon
<1>4. EntryCleanup \in Seq(AllSteps) /\ Steps(EntryCleanup) = EntrySteps
  <2> DEFINE first == (FreeStrings \o TimerCleanup) \o << <<"delete_link">> >>
  <2>1. /\ first \in Seq(AllSteps)
        /\ Steps(first) = Steps(FreeStrings \o TimerCleanup) \cup Steps(<< <<"delete_link">> >>)
    BY <1>2, PartsOfCleanup, Concat, Zenon
  <2>2. EntryCleanup = first \o DeviceCleanup
    BY Zenon DEF EntryCleanup
  <2> HIDE DEF first
  <2>3. /\ EntryCleanup \in Seq(AllSteps)
        /\ Steps(EntryCleanup) = Steps(first) \cup Steps(DeviceCleanup)
    BY <2>1, <2>2, PartsOfCleanup, Concat, Zenon
  <2> QED BY <1>2, <2>1, <2>3, PartsOfCleanup, Zenon DEF EntrySteps
<1>5. UnregisterAll \in Seq(AllSteps) /\ Steps(UnregisterAll) = RemovalSteps
  <2> DEFINE first == UnregisterRoutine("process") \o UnregisterRoutine("thread")
  <2>1. "process" \in Lists /\ "thread" \in Lists /\ "image" \in Lists
    BY DEF Lists, ObjectLists
  <2>2. /\ first \in Seq(AllSteps)
        /\ Steps(first) = Steps(UnregisterRoutine("process"))
                          \cup Steps(UnregisterRoutine("thread"))
    BY <2>1, PartsOfCleanup, Concat, Zenon
  <2>3. UnregisterAll = first \o UnregisterRoutine("image")
    BY Zenon DEF UnregisterAll
  <2> HIDE DEF first
  <2>4. /\ UnregisterAll \in Seq(AllSteps)
        /\ Steps(UnregisterAll) = Steps(first) \cup Steps(UnregisterRoutine("image"))
    BY <2>1, <2>2, <2>3, PartsOfCleanup, Concat, Zenon
  <2> QED BY <2>1, <2>2, <2>4, PartsOfCleanup, Zenon DEF RemovalSteps
<1> QED BY <1>1, <1>3, <1>4, <1>5

\* Steps can be told apart.
LEMMA StepsDiffer ==
    /\ \A l \in ObjectLists : /\ <<"free_list", l>> \notin EntrySteps
                              /\ <<"free_list", l>> \notin RemovalSteps
                              /\ <<"free_list", l>> # <<"free_drivers">>
    /\ <<"free_drivers">> \notin EntrySteps /\ <<"free_drivers">> \notin RemovalSteps
    /\ <<"free_list", "process">> # <<"free_list", "thread">>
    /\ RemovalSteps \cap EntrySteps = {}
<1>1. \A x, y : <<"free_list", x>> # <<y>>
  OBVIOUS
<1>2. \A x, y : <<"deactivate", x>> # <<y>> /\ <<"unregister", x>> # <<y>>
  OBVIOUS
<1>3. \A x, y : <<"free_list", x>> # <<"deactivate", y>> /\ <<"free_list", x>> # <<"unregister", y>>
  OBVIOUS
<1>4. /\ <<"free_drivers">> # <<"flush">> /\ <<"free_drivers">> # <<"spin">>
      /\ <<"free_drivers">> # <<"cancel">> /\ <<"free_drivers">> # <<"free_item">>
      /\ <<"free_drivers">> # <<"free_strings">> /\ <<"free_drivers">> # <<"delete_link">>
      /\ <<"free_drivers">> # <<"delete_device">>
  OBVIOUS
<1>5. <<"free_list", "process">> # <<"free_list", "thread">>
  OBVIOUS
<1>6. \A l \in ObjectLists : /\ <<"free_list", l>> \notin EntrySteps
                             /\ <<"free_list", l>> # <<"free_drivers">>
  BY <1>1, Zenon DEF EntrySteps, TimerSteps
<1>7. \A l \in ObjectLists : <<"free_list", l>> \notin RemovalSteps
  BY <1>3, Zenon DEF RemovalSteps, Removal
<1>8. <<"free_drivers">> \notin EntrySteps
  BY <1>4, Zenon DEF EntrySteps, TimerSteps
<1>9. <<"free_drivers">> \notin RemovalSteps
  BY <1>2, Zenon DEF RemovalSteps, Removal
<1>10. RemovalSteps \cap EntrySteps = {}
  BY <1>2, Zenon DEF RemovalSteps, Removal, EntrySteps, TimerSteps
<1> QED BY <1>5, <1>6, <1>7, <1>8, <1>9, <1>10

\* A sequence of removals is proper, whatever timer steps are among them.
LEMMA ProperFirst ==
    ASSUME NEW s \in Seq(AllSteps), RemovalSteps \subseteq Steps(s),
           Steps(s) \subseteq RemovalSteps \cup EntrySteps
    PROVE  Proper(s)
<1>1. /\ \A l \in ObjectLists : <<"free_list", l>> \notin Steps(s)
      /\ <<"free_drivers">> \notin Steps(s)
  BY StepsDiffer, Zenon
<1>2. /\ \A l \in ObjectLists : <<"unregister", l>> \in Steps(s)
      /\ <<"unregister", "image">> \in Steps(s)
  BY Zenon DEF ObjectLists, RemovalSteps, Removal
<1> QED BY <1>1, <1>2, OrderedWithout, Zenon DEF Proper

\* What begins with a proper sequence is proper.
LEMMA ProperConcat ==
    ASSUME NEW s \in Seq(AllSteps), NEW t \in Seq(AllSteps), Proper(s)
    PROVE  Proper(s \o t)
<1>1. Steps(s) \subseteq Steps(s \o t)
  BY Concat, Zenon
<1>2. \A a, b : Ordered(s, a, b) /\ a \in Steps(s) => Ordered(s \o t, a, b)
  BY OrderedConcat
<1> QED BY <1>1, <1>2, Zenon DEF Proper

\* What the failure branches of DrvLoadEnableNotifyRoutines run.
LEMMA EnableSequences ==
    ASSUME NEW undo \in Seq(AllSteps), Steps(undo) \subseteq RemovalSteps
    PROVE  /\ undo \o EntryCleanup \in Seq(AllSteps)
           /\ EntrySteps \subseteq Steps(undo \o EntryCleanup)
           /\ Steps(undo) \subseteq Steps(undo \o EntryCleanup)
           /\ \A l \in ObjectLists :
                  Ordered(undo \o EntryCleanup, <<"unregister", l>>, <<"free_list", l>>)
<1>1. /\ undo \o EntryCleanup \in Seq(AllSteps)
      /\ Steps(undo \o EntryCleanup) = Steps(undo) \cup EntrySteps
  <2>1. /\ undo \o EntryCleanup \in Seq(AllSteps)
        /\ Steps(undo \o EntryCleanup) = Steps(undo) \cup Steps(EntryCleanup)
    BY EntrySequences, Concat, Zenon
  <2> QED BY <2>1, EntrySequences, Zenon
<1>2. \A l \in ObjectLists : <<"free_list", l>> \notin Steps(undo \o EntryCleanup)
  BY <1>1, StepsDiffer, Zenon
<1> QED BY <1>1, <1>2, OrderedWithout, Zenon

\* What the failure branches of DrvLoadSetupDriverLists run.
LEMMA SetupSequences ==
    ASSUME NEW undo \in Seq(AllSteps)
    PROVE  /\ UnregisterAll \o undo \in Seq(AllSteps)
           /\ RemovalSteps \subseteq Steps(UnregisterAll \o undo)
           /\ Proper(UnregisterAll \o undo)
           /\ UnregisterAll \o undo \o EntryCleanup \in Seq(AllSteps)
           /\ EntrySteps \subseteq Steps(UnregisterAll \o undo \o EntryCleanup)
           /\ RemovalSteps \subseteq Steps(UnregisterAll \o undo \o EntryCleanup)
           /\ Steps(undo) \subseteq Steps(UnregisterAll \o undo \o EntryCleanup)
           /\ Proper(UnregisterAll \o undo \o EntryCleanup)
<1> DEFINE first == UnregisterAll \o undo
           all == first \o EntryCleanup
<1>1. Proper(UnregisterAll)
  BY EntrySequences, ProperFirst, Zenon
<1>2. first \in Seq(AllSteps) /\ Steps(first) = Steps(UnregisterAll) \cup Steps(undo)
  BY EntrySequences, Concat, Zenon
<1>3. Proper(first)
  BY <1>1, EntrySequences, ProperConcat, Zenon
<1> HIDE DEF first
<1>4. all \in Seq(AllSteps) /\ Steps(all) = Steps(first) \cup Steps(EntryCleanup)
  BY <1>2, EntrySequences, Concat, Zenon
<1>5. Proper(all)
  BY <1>2, <1>3, EntrySequences, ProperConcat, Zenon
<1> HIDE DEF all
<1>6. /\ RemovalSteps \subseteq Steps(first) /\ EntrySteps \subseteq Steps(all)
      /\ RemovalSteps \subseteq Steps(all) /\ Steps(undo) \subseteq Steps(all)
  BY <1>2, <1>4, EntrySequences, Zenon
<1> QED BY <1>2, <1>3, <1>4, <1>5, <1>6 DEF first, all

\* What DriverUnload runs.
LEMMA UnloadSequenceProper ==
    /\ UnloadSequence \in Seq(AllSteps)
    /\ Proper(UnloadSequence)
    /\ AllSteps \subseteq Steps(UnloadSequence)
<1> DEFINE lists == << <<"free_list", "thread">>, <<"free_list", "process">>,
                       <<"free_drivers">> >>
           a == TimerCleanup \o UnregisterRoutine("thread")
           b == a \o UnregisterRoutine("process")
           c == b \o UnregisterRoutine("image")
           d == c \o lists
           e == d \o FreeStrings
           f == e \o << <<"delete_link">> >>
<1>1. "process" \in Lists /\ "thread" \in Lists /\ "image" \in Lists
  BY DEF Lists, ObjectLists
<1>2. lists \in Seq(AllSteps) /\ Steps(lists) = {<<"free_list", "thread">>,
                                                <<"free_list", "process">>, <<"free_drivers">>}
  <2> DEFINE x == <<"free_list", "thread">>  y == <<"free_list", "process">>
             z == <<"free_drivers">>
  <2>1. x \in AllSteps /\ y \in AllSteps /\ z \in AllSteps
    BY Zenon DEF AllSteps
  <2> HIDE DEF x, y, z
  <2>2. <<x, y, z>> \in Seq(AllSteps) /\ Steps(<<x, y, z>>) = {x, y, z}
    BY <2>1 DEF Steps
  <2> QED BY <2>2 DEF x, y, z
<1>3. UnloadSequence = f \o DeviceCleanup
  BY Zenon DEF UnloadSequence
<1> HIDE DEF lists
<1>4. a \in Seq(AllSteps) /\ Steps(a) = Steps(TimerCleanup) \cup Steps(UnregisterRoutine("thread"))
  BY <1>1, PartsOfCleanup, Concat, Zenon
<1> HIDE DEF a
<1>5. b \in Seq(AllSteps) /\ Steps(b) = Steps(a) \cup Steps(UnregisterRoutine("process"))
  BY <1>1, <1>4, PartsOfCleanup, Concat, Zenon
<1> HIDE DEF b
<1>6. c \in Seq(AllSteps) /\ Steps(c) = Steps(b) \cup Steps(UnregisterRoutine("image"))
  BY <1>1, <1>5, PartsOfCleanup, Concat, Zenon
<1>7. Steps(c) = TimerSteps \cup RemovalSteps
  <2>1. /\ Steps(TimerCleanup) = TimerSteps
        /\ Steps(UnregisterRoutine("thread")) = Removal("thread")
        /\ Steps(UnregisterRoutine("process")) = Removal("process")
        /\ Steps(UnregisterRoutine("image")) = Removal("image")
    BY <1>1, PartsOfCleanup, Zenon
  <2>2. Steps(c) = TimerSteps \cup Removal("thread") \cup Removal("process")
                   \cup Removal("image")
    BY <1>4, <1>5, <1>6, <2>1, Zenon
  <2> QED BY <2>2, Zenon DEF RemovalSteps
<1>8. Proper(c)
  <2>1. RemovalSteps \subseteq Steps(c) /\ Steps(c) \subseteq RemovalSteps \cup EntrySteps
    BY <1>7, Zenon DEF EntrySteps
  <2> QED BY <1>6, <2>1, ProperFirst, Zenon
<1> HIDE DEF c
<1>9. d \in Seq(AllSteps) /\ Steps(d) = Steps(c) \cup Steps(lists) /\ Proper(d)
  BY <1>2, <1>6, <1>8, Concat, ProperConcat, Zenon
<1> HIDE DEF d
<1>10. e \in Seq(AllSteps) /\ Steps(e) = Steps(d) \cup Steps(FreeStrings) /\ Proper(e)
  BY <1>9, PartsOfCleanup, Concat, ProperConcat, Zenon
<1> HIDE DEF e
<1>11. /\ f \in Seq(AllSteps) /\ Steps(f) = Steps(e) \cup Steps(<< <<"delete_link">> >>)
       /\ Proper(f)
  BY <1>10, PartsOfCleanup, Concat, ProperConcat, Zenon
<1> HIDE DEF f
<1>12. /\ UnloadSequence \in Seq(AllSteps) /\ Proper(UnloadSequence)
       /\ Steps(UnloadSequence) = Steps(f) \cup Steps(DeviceCleanup)
  BY <1>3, <1>11, PartsOfCleanup, Concat, ProperConcat, Zenon
<1>13. Steps(UnloadSequence) = TimerSteps \cup RemovalSteps
           \cup {<<"free_list", "thread">>, <<"free_list", "process">>, <<"free_drivers">>}
           \cup {<<"free_strings">>} \cup {<<"delete_link">>} \cup {<<"delete_device">>}
  BY <1>2, <1>7, <1>9, <1>10, <1>11, <1>12, PartsOfCleanup, Zenon
<1>14. AllSteps \subseteq Steps(UnloadSequence)
  BY <1>13, Zenon DEF AllSteps, EntrySteps
<1> QED BY <1>12, <1>14
-----------------------------------------------------------------------------
(* The invariant holds at the start and every step keeps it.               *)

\* Nothing is set up at the start.
LEMMA LifeInit == Init => LifeInv
<1> SUFFICES ASSUME Init PROVE LifeInv
  OBVIOUS
<1> USE DEF Init, TimerInit, ListInit0, DriverListInit0
<1>1. Types
  <2>1. cleanup \in Seq(AllSteps)
    OBVIOUS
  <2>2. /\ lookaside \in [ObjectLists -> {"none", "live", "deleted"}]
        /\ call \in [Objects -> {"none", "insert", "remove"}]
    OBVIOUS
  <2>3. pc \in EntryStages /\ pc # "cleanup"
    BY DEF EntryStages
  <2> QED BY <2>1, <2>2, <2>3 DEF Types
<1>2. SetUp
  BY DEF SetUp, ObjectLists
<1>3. Calls
  BY NotifyListsAssumption DEF Calls, ObjectLists
<1>4. ~Cleaning
  BY DEF Cleaning
<1> QED BY <1>1, <1>2, <1>3, <1>4 DEF LifeInv

\* A failure whose clean-up steps undo what there is.
LEMMA FailKeeps ==
    ASSUME LifeInv, ~Cleaning, NEW s \in Seq(AllSteps), Covers(s),
           <<"delete_device">> \in Steps(s), <<"free_strings">> \in Steps(s),
           pc' = "cleanup", cleanup' = s,
           listed' \subseteq listed, has_driver_loaded => drivers' = drivers,
           UNCHANGED <<device, symbolic_link, has_driver_loaded, timer, work_item,
                       registered, active, lookaside, call, image_call>>
    PROVE  LifeInv'
<1> USE DEF LifeInv
<1>1. s # <<>>
  BY DEF Steps
<1>2. Types'
  BY <1>1 DEF Types
<1>3. SetUp'
  BY DEF SetUp, ToConfigure, ToLink, ToRegister, ToActivate, ToList, EntryStages
<1>4. Calls' /\ Cleaning'
  BY DEF Calls, Cleaning
<1>5. Covers(cleanup)'
  BY DEF Covers
<1> QED BY <1>2, <1>3, <1>4, <1>5

\* The timer, its DPC and its work item.
LEMMA TimerKeeps ==
    ASSUME LifeInv, TimerDpc \/ TimerWorker \/ Expiry
    PROVE  LifeInv'
<1> USE DEF LifeInv
<1>1. /\ timer' = timer
      /\ work_item = "none" => work_item' = "none"
      /\ work_item \in {"none", "freed"} => work_item' = work_item
      /\ UNCHANGED <<list_vars, driver_vars, entry_vars>>
  BY DEF TimerDpc, TimerWorker, Expiry, TimerObjectCallbackRoutine, QueueTimerWorkItem,
         StartTimerWorkItem, TimerObjectWorkItemRoutine, TimerExpires
<1> USE DEF list_vars, driver_vars, entry_vars
<1>2. Types' /\ Calls'
  BY <1>1 DEF Types, Calls, Cleaning
<1>3. SetUp'
  BY <1>1 DEF SetUp
<1>4. Cleaning' => Covers(cleanup)'
  BY <1>1 DEF Cleaning, Covers
<1> QED BY <1>2, <1>3, <1>4

\* The notify routines of the thread and process lists.
LEMMA ObjectKeeps ==
    ASSUME LifeInv, NEW o \in Objects, ObjectEvent(o)
    PROVE  LifeInv'
<1> USE NotifyListsAssumption DEF LifeInv
<1>1. UNCHANGED <<timer_vars, entry_vars, registered, active, lookaside, drivers, image_call>>
  BY DEF ObjectEvent, CreateNotifyRoutine, ExitNotifyRoutine, LookasideListRemoveEntry,
         ListInsert, NotifyWinlogon, driver_vars
<1> USE DEF timer_vars, entry_vars
<1>2. call' \in [Objects -> {"none", "insert", "remove"}] /\ listed' \subseteq Objects
  BY DEF ObjectEvent, CreateNotifyRoutine, ExitNotifyRoutine, LookasideListRemoveEntry,
         ListInsert, Types
<1>3. Types'
  BY <1>1, <1>2 DEF Types
<1>4. Called(o) => lookaside[ListOf[o]] = "live" /\ ListOf[o] \in registered
  BY DEF Called, Calls, Types
<1>5. ASSUME NEW p \in Objects, call'[p] # "none"
      PROVE  ListOf[p] \in registered /\ lookaside[ListOf[p]] = "live"
  BY <1>4, <1>5 DEF ObjectEvent, CreateNotifyRoutine, ExitNotifyRoutine,
                    LookasideListRemoveEntry, ListInsert, Types, Calls
<1>6. ASSUME NEW p \in listed' PROVE lookaside[ListOf[p]] = "live"
  BY SMTT(30), <1>6 DEF ObjectEvent, CreateNotifyRoutine, ExitNotifyRoutine,
              LookasideListRemoveEntry, ListInsert, Types, Calls
<1>7. Calls'
  BY <1>1, <1>5, <1>6 DEF Calls, Cleaning
<1>8. SetUp' /\ (Cleaning' => Covers(cleanup)')
  BY SMTT(30), <1>1 DEF SetUp, Cleaning, Covers
<1> QED BY <1>3, <1>7, <1>8

\* The image load notify routine and the deferred hashing.
LEMMA ImageKeeps ==
    ASSUME LifeInv, DeferredHashing \/ \E i \in Images : ImageEvent(i)
    PROVE  LifeInv'
<1> USE DEF LifeInv
<1>1. /\ UNCHANGED <<timer_vars, entry_vars, registered, active, lookaside, listed, call>>
      /\ image_call' # {} => "image" \in registered
      /\ drivers' # {} => drivers # {} \/ "image" \in registered
  BY DEF DeferredHashing, StartDeferredHashing, HashDeferredModule, FreeDeferredWorkItem,
         ImageEvent, ImageLoadNotifyRoutineCallback, InsertNewModule, list_vars, Calls
<1> USE DEF timer_vars, entry_vars
<1>2. Types' /\ SetUp'
  BY <1>1 DEF Types, SetUp
<1>3. Calls'
  BY <1>1 DEF Calls, Cleaning
<1>4. Cleaning' => Covers(cleanup)'
  BY <1>1 DEF Cleaning, Covers
<1> QED BY <1>2, <1>3, <1>4

\* One clean-up step: what it undoes is gone, the rest is still to be undone.
LEMMA CleanupKeeps ==
    ASSUME LifeInv, CleanupStep
    PROVE  LifeInv'
<1> DEFINE h == Head(cleanup)
<1>1. /\ cleanup \in Seq(AllSteps) /\ cleanup # <<>> /\ pc = "cleanup" /\ Covers(cleanup)
      /\ cleanup' = Tail(cleanup) /\ pc' = IF cleanup' = <<>> THEN "gone" ELSE "cleanup"
      /\ has_driver_loaded' = has_driver_loaded
  BY DEF CleanupStep, LifeInv, Types, Cleaning
<1>2. /\ cleanup' \in Seq(AllSteps)
      /\ \A x : x \in Steps(cleanup) /\ x # h => x \in Steps(cleanup')
      /\ \A a, b : Ordered(cleanup, a, b) => h # b
      /\ \A a, b : Ordered(cleanup, a, b) /\ h # a => Ordered(cleanup', a, b)
  BY <1>1, StepsOfTail
<1>3. TimerCleanupStep(h) \/ ListCleanupStep(h) \/ DeviceCleanupStep(h)
  BY DEF CleanupStep
<1>4. SetUp' /\ Cleaning'
  BY <1>1 DEF SetUp, Cleaning, ToConfigure, ToLink, ToRegister, ToActivate, ToList, EntryStages
<1>5. ASSUME Covers(cleanup)', Calls', registered' \subseteq Lists, active' \subseteq Lists,
             lookaside' \in [ObjectLists -> {"none", "live", "deleted"}],
             listed' \subseteq Objects,
             call' \in [Objects -> {"none", "insert", "remove"}]
      PROVE  LifeInv'
  <2>1. Types'
    BY <1>1, <1>2, <1>5 DEF Types, LifeInv
  <2> QED BY <1>4, <1>5, <2>1 DEF LifeInv
<1> HIDE DEF h
<1>6. CASE TimerCleanupStep(h)
  <2>1. /\ UNCHANGED <<list_vars, driver_vars, device, symbolic_link, strings>>
        /\ h \in {<<"flush">>, <<"spin">>, <<"cancel">>, <<"free_item">>}
        /\ timer' => timer /\ h # <<"cancel">>
        /\ work_item' \notin {"none", "freed"} =>
               work_item \notin {"none", "freed"} /\ h # <<"free_item">>
    BY <1>6 DEF TimerCleanupStep, KeFlushQueuedDpcs, SpinOnTimerState, KeCancelTimer,
                IoFreeTimerWorkItem, timer_vars
  <2>4. /\ h # <<"delete_device">> /\ h # <<"free_strings">> /\ h # <<"delete_link">>
        /\ h # <<"free_drivers">> /\ \A x, y : h # <<x, y>>
    BY <2>1
  <2>2. Covers(cleanup)'
    BY <1>1, <1>2, <2>1, <2>4 DEF Covers, list_vars, driver_vars
  <2>3. Calls'
    BY <1>4, <2>1 DEF LifeInv, Calls, list_vars, driver_vars
  <2> QED BY <1>5, <2>1, <2>2, <2>3 DEF LifeInv, Types, list_vars, driver_vars
<1>7. CASE DeviceCleanupStep(h)
  <2>1. /\ UNCHANGED <<timer_vars, list_vars, driver_vars>>
        /\ h \in {<<"free_strings">>, <<"delete_link">>, <<"delete_device">>}
        /\ strings' # {} => strings # {} /\ h # <<"free_strings">>
        /\ symbolic_link' => symbolic_link /\ h # <<"delete_link">>
        /\ device' = "created" => device = "created" /\ h # <<"delete_device">>
    BY <1>7 DEF DeviceCleanupStep
  <2>4. /\ h # <<"cancel">> /\ h # <<"free_item">> /\ h # <<"free_drivers">>
        /\ \A x, y : h # <<x, y>>
    BY <2>1
  <2>2. Covers(cleanup)'
    BY <1>1, <1>2, <2>1, <2>4 DEF Covers, timer_vars, list_vars, driver_vars
  <2>3. Calls'
    BY <1>4, <2>1 DEF LifeInv, Calls, list_vars, driver_vars
  <2> QED BY <1>5, <2>1, <2>2, <2>3 DEF LifeInv, Types, list_vars, driver_vars
<1>8. CASE ListCleanupStep(h)
  <2>1. UNCHANGED <<timer_vars, device, symbolic_link, strings>>
    BY <1>8 DEF ListCleanupStep
  <2>2. ASSUME NEW l \in Lists, h = <<"deactivate", l>>, Deactivate(l), UNCHANGED driver_vars
        PROVE  LifeInv'
    <3>1. Covers(cleanup)'
      BY <1>1, <1>2, <2>1, <2>2 DEF Covers, Deactivate, timer_vars, driver_vars
    <3>2. Calls'
      BY <1>4, <2>2 DEF LifeInv, Calls, Deactivate, driver_vars
    <3> QED BY <1>5, <2>2, <3>1, <3>2 DEF LifeInv, Types, Deactivate
  <2>3. ASSUME NEW l \in Lists, h = <<"unregister", l>>, Unregister(l),
               l = "image" => image_call = {}, UNCHANGED driver_vars
        PROVE  LifeInv'
    <3>1. Covers(cleanup)'
      BY <1>1, <1>2, <2>1, <2>3 DEF Covers, Unregister, timer_vars, driver_vars
    <3>2. Calls'
      BY <1>4, <2>3 DEF LifeInv, Calls, Unregister, driver_vars
    <3> QED BY <1>5, <2>3, <3>1, <3>2 DEF LifeInv, Types, Unregister
  <2>4. ASSUME NEW l \in ObjectLists, h = <<"free_list", l>>, CleanupListOnDriverUnload(l),
               UNCHANGED driver_vars
        PROVE  LifeInv'
    <3>1. l \notin registered
      BY <1>1, <1>2, <2>4 DEF Covers
    <3>2. Covers(cleanup)'
      BY <1>1, <1>2, <2>1, <2>4 DEF Covers, CleanupListOnDriverUnload, timer_vars, driver_vars,
                                    LifeInv, Types
    <3>3. Calls'
      BY <1>4, <2>4, <3>1, NotifyListsAssumption
         DEF LifeInv, Types, Calls, CleanupListOnDriverUnload, Entries, driver_vars
    <3> QED BY <1>5, <2>4, <3>2, <3>3 DEF LifeInv, Types, CleanupListOnDriverUnload
  <2>5. ASSUME h = <<"free_drivers">>, CleanupDriverListOnDriverUnload
        PROVE  LifeInv'
    <3>1. has_driver_loaded => "image" \notin registered
      BY <1>1, <1>2, <2>5 DEF Covers
    <3>2. Covers(cleanup)'
      BY <1>1, <1>2, <2>1, <2>5, <3>1
         DEF Covers, CleanupDriverListOnDriverUnload, timer_vars, list_vars
    <3>3. Calls'
      BY <1>4, <2>5 DEF LifeInv, Calls, CleanupDriverListOnDriverUnload, list_vars
    <3> QED BY <1>5, <2>5, <3>2, <3>3 DEF LifeInv, Types, CleanupDriverListOnDriverUnload,
                                          list_vars
  <2> QED BY <1>8, <2>2, <2>3, <2>4, <2>5 DEF ListCleanupStep
<1> QED BY <1>3, <1>6, <1>7, <1>8

\* The first part of DriverEntry, up to the device's name.
LEMMA ConfigKeeps ==
    ASSUME LifeInv, CreateDevice \/ DrvLoadInitialiseDriverConfig \/ CreateSymbolicLink
    PROVE  LifeInv'
<1> DEFINE s == (FreeStrings \o TimerCleanup) \o DeviceCleanup
<1>1. ~Cleaning /\ pc \in ToLink /\ UNCHANGED <<list_vars, driver_vars, has_driver_loaded>>
  BY DEF Cleaning, ToLink, ToConfigure, CreateDevice, DrvLoadInitialiseDriverConfig,
         DrvLoadRetrieveDriverNameFromRegistry, CreateSymbolicLink, Goto, Fail
<1>2. /\ registered = {} /\ active = {} /\ ~symbolic_link /\ ~has_driver_loaded
      /\ \A l \in ObjectLists : lookaside[l] = "none"
      /\ pc \in ToConfigure => ~timer /\ work_item = "none"
  BY <1>1 DEF LifeInv, SetUp, ToLink, ToConfigure, ToActivate, ToRegister, ToList, EntryStages,
              ObjectLists
<1>3. /\ ConfigCleanup \in Seq(AllSteps) /\ <<"delete_device">> \in Steps(ConfigCleanup)
      /\ <<"free_strings">> \in Steps(ConfigCleanup)
  BY EntrySequences, Zenon
<1>4. /\ s \in Seq(AllSteps) /\ <<"delete_device">> \in Steps(s) /\ <<"free_strings">> \in Steps(s)
      /\ <<"cancel">> \in Steps(s) /\ <<"free_item">> \in Steps(s)
  BY EntrySequences, Zenon DEF TimerSteps
<1>5. pc \in ToConfigure => Covers(ConfigCleanup)
  BY <1>2, <1>3 DEF Covers
<1>6. Covers(s)
  <2> HIDE DEF s
  <2> QED BY <1>2, <1>4 DEF Covers
<1>7. CASE pc' = "cleanup"
  <2>1. (cleanup' = ConfigCleanup /\ pc \in ToConfigure) \/ cleanup' = s
    BY <1>1, <1>7 DEF ToConfigure, CreateDevice, DrvLoadInitialiseDriverConfig,
       DrvLoadRetrieveDriverNameFromRegistry, CreateSymbolicLink, Goto, Fail
  <2>2. UNCHANGED <<device, symbolic_link, timer, work_item>>
    BY <1>7 DEF CreateDevice, DrvLoadInitialiseDriverConfig, timer_vars,
       DrvLoadRetrieveDriverNameFromRegistry, CreateSymbolicLink, Goto, Fail
  <2> HIDE DEF s
  <2> QED BY <1>1, <1>3, <1>4, <1>5, <1>6, <1>7, <2>1, <2>2, FailKeeps
          DEF list_vars, driver_vars
<1>8. CASE pc' # "cleanup"
  <2>1. cleanup' = cleanup /\ cleanup = <<>>
    BY <1>1, <1>8 DEF LifeInv, Types, Cleaning, CreateDevice, DrvLoadInitialiseDriverConfig,
       DrvLoadRetrieveDriverNameFromRegistry, CreateSymbolicLink, Goto, Fail
  <2>2. /\ pc' \in ToLink \cup {"register_image", "gone"}
        /\ pc' \in ToConfigure => timer' = timer /\ work_item' = work_item /\ pc \in ToConfigure
        /\ pc' \in ToLink => symbolic_link' = symbolic_link
        /\ pc' # "entry"
        /\ pc' = "gone" => pc = "entry" /\ UNCHANGED <<timer_vars, device, symbolic_link, strings>>
    BY <1>1, <1>8 DEF ToLink, ToConfigure, CreateDevice, DrvLoadInitialiseDriverConfig,
       DrvLoadRetrieveDriverNameFromRegistry, CreateSymbolicLink, Goto, Fail,
       InitialiseTimerObject, timer_vars
  <2>3. Types'
    BY <1>1, <1>8, <2>1, <2>2 DEF LifeInv, Types, ToLink, ToConfigure, EntryStages, list_vars
  <2>4. SetUp'
    BY SMTT(30), <1>1, <1>2, <2>2 DEF LifeInv, SetUp, ToLink, ToConfigure, ToRegister, ToActivate, ToList,
       EntryStages, list_vars, ObjectLists
  <2>5. Calls'
    BY <1>1, <1>2 DEF LifeInv, Calls, list_vars, driver_vars
  <2>6. Cleaning' => Covers(cleanup)'
    BY <1>1, <1>2, <2>2 DEF LifeInv, SetUp, Cleaning, Covers, ToLink, ToConfigure, list_vars,
       timer_vars
  <2> QED BY <2>3, <2>4, <2>5, <2>6 DEF LifeInv
<1> QED BY <1>7, <1>8

\* DrvLoadEnableNotifyRoutines: one routine is registered, or those before it go.
LEMMA EnableKeeps ==
    ASSUME LifeInv, DrvLoadEnableNotifyRoutines
    PROVE  LifeInv'
<1> DEFINE none == <<>>
           image == << <<"unregister", "image">> >>
           both == << <<"unregister", "thread">>, <<"unregister", "image">> >>
<1>1. /\ none \in Seq(AllSteps) /\ Steps(none) = {}
      /\ image \in Seq(AllSteps) /\ Steps(image) = {<<"unregister", "image">>}
      /\ both \in Seq(AllSteps)
      /\ Steps(both) = {<<"unregister", "thread">>, <<"unregister", "image">>}
  <2> DEFINE x == <<"unregister", "thread">>  y == <<"unregister", "image">>
  <2>1. x \in AllSteps /\ y \in AllSteps
    BY Zenon DEF AllSteps, RemovalSteps, Removal
  <2> HIDE DEF x, y
  <2>2. /\ <<x, y>> \in Seq(AllSteps) /\ Steps(<<x, y>>) = {x, y}
        /\ <<y>> \in Seq(AllSteps) /\ Steps(<<y>>) = {y}
    BY <2>1 DEF Steps
  <2>3. none \in Seq(AllSteps) /\ Steps(none) = {}
    BY DEF Steps
  <2> QED BY <2>2, <2>3 DEF x, y
<1>2. /\ Steps(none) \subseteq RemovalSteps /\ Steps(image) \subseteq RemovalSteps
      /\ Steps(both) \subseteq RemovalSteps
  <2> HIDE DEF none, image, both
  <2> QED BY <1>1, Zenon DEF RemovalSteps, Removal
<1> HIDE DEF none, image, both
<1>3. ASSUME NEW undo \in Seq(AllSteps), Steps(undo) \subseteq RemovalSteps,
             pc \in {"register_image", "register_thread", "register_process"},
             \A l \in registered : <<"unregister", l>> \in Steps(undo),
             Fail(undo \o EntryCleanup), UNCHANGED <<list_vars, timer_vars, driver_vars>>
      PROVE  LifeInv'
  <2> DEFINE s == undo \o EntryCleanup
  <2>1. /\ s \in Seq(AllSteps) /\ EntrySteps \subseteq Steps(s) /\ Steps(undo) \subseteq Steps(s)
        /\ \A l \in ObjectLists : Ordered(s, <<"unregister", l>>, <<"free_list", l>>)
    BY <1>3, EnableSequences, Zenon
  <2>2. Fail(s)
    BY <1>3
  <2> HIDE DEF s
  <2>3. /\ <<"delete_device">> \in Steps(s) /\ <<"free_strings">> \in Steps(s)
        /\ <<"delete_link">> \in Steps(s) /\ <<"cancel">> \in Steps(s)
        /\ <<"free_item">> \in Steps(s)
    BY <2>1, Zenon DEF EntrySteps, TimerSteps
  <2>4. /\ ~Cleaning /\ active = {} /\ ~has_driver_loaded
        /\ \A l \in ObjectLists : lookaside[l] = "none"
    BY <1>3 DEF LifeInv, SetUp, Cleaning, ToActivate, ToRegister, ToList, EntryStages,
                ObjectLists
  <2>5. Covers(s)
    BY <1>3, <2>1, <2>3, <2>4 DEF Covers
  <2> QED BY <1>3, <2>1, <2>2, <2>3, <2>4, <2>5, FailKeeps
          DEF Fail, list_vars, timer_vars, driver_vars
<1>4. ASSUME NEW l \in Lists, NEW next,
             \/ pc = "register_image" /\ l = "image" /\ next = "register_thread"
             \/ pc = "register_thread" /\ l = "thread" /\ next = "register_process"
             \/ pc = "register_process" /\ l = "process" /\ next = "driver_activate",
             Register(l), Goto(next), UNCHANGED <<timer_vars, driver_vars>>
      PROVE  LifeInv'
  <2> USE <1>4 DEF LifeInv, Register, Goto
  <2>1. Types'
    BY DEF Types, EntryStages
  <2>2. SetUp'
    BY DEF SetUp, ToLink, ToConfigure, ToRegister, ToActivate, ToList, EntryStages, timer_vars
  <2>3. Calls'
    BY DEF Calls, Cleaning, driver_vars
  <2>4. ~Cleaning'
    BY DEF Cleaning
  <2> QED BY <2>1, <2>2, <2>3, <2>4
<1>5. /\ pc = "register_image" => \A l \in registered : <<"unregister", l>> \in Steps(none)
      /\ pc = "register_thread" => \A l \in registered : <<"unregister", l>> \in Steps(image)
      /\ pc = "register_process" => \A l \in registered : <<"unregister", l>> \in Steps(both)
  BY <1>1, Zenon DEF LifeInv, SetUp
<1>6. "image" \in Lists /\ "thread" \in Lists /\ "process" \in Lists
  BY DEF Lists, ObjectLists
<1>7. CASE EnableNotifyRoutine("register_image", "image", "register_thread", none)
  BY <1>1, <1>2, <1>3, <1>4, <1>5, <1>6, <1>7 DEF EnableNotifyRoutine
<1>8. CASE EnableNotifyRoutine("register_thread", "thread", "register_process", image)
  BY <1>1, <1>2, <1>3, <1>4, <1>5, <1>6, <1>8 DEF EnableNotifyRoutine
<1>9. CASE EnableNotifyRoutine("register_process", "process", "driver_activate", both)
  BY <1>1, <1>2, <1>3, <1>4, <1>5, <1>6, <1>9 DEF EnableNotifyRoutine
<1> QED BY <1>7, <1>8, <1>9, Zenon DEF DrvLoadEnableNotifyRoutines, none, image, both

\* A failure of DrvLoadSetupDriverLists.
LEMMA SetupFails ==
    ASSUME LifeInv, NEW s \in Seq(AllSteps), EntrySteps \subseteq Steps(s),
           RemovalSteps \subseteq Steps(s), Proper(s), ~Cleaning, ~has_driver_loaded,
           \A l \in ObjectLists : lookaside[l] = "live" => <<"free_list", l>> \in Steps(s),
           Fail(s), listed' \subseteq listed,
           UNCHANGED <<timer, work_item, registered, active, lookaside, call, image_call>>
    PROVE  LifeInv'
<1>1. /\ <<"delete_device">> \in Steps(s) /\ <<"free_strings">> \in Steps(s)
      /\ <<"delete_link">> \in Steps(s) /\ <<"cancel">> \in Steps(s)
      /\ <<"free_item">> \in Steps(s)
  BY Zenon DEF EntrySteps, TimerSteps
<1>2. \A l \in Lists : <<"unregister", l>> \in Steps(s) /\ <<"deactivate", l>> \in Steps(s)
  BY Zenon DEF Lists, ObjectLists, RemovalSteps, Removal
<1>3. Covers(s)
  BY <1>1, <1>2 DEF Covers, Proper, LifeInv, Types
<1> QED BY <1>1, <1>3, FailKeeps DEF Fail

\* The driver list.
LEMMA DriverListKeeps ==
    ASSUME LifeInv, SetupDriverList
    PROVE  LifeInv'
<1> DEFINE s == UnregisterAll \o EntryCleanup
<1>1. /\ s \in Seq(AllSteps) /\ EntrySteps \subseteq Steps(s) /\ RemovalSteps \subseteq Steps(s)
      /\ Proper(s)
  <2>1. Steps(s) = Steps(UnregisterAll) \cup Steps(EntryCleanup)
    BY EntrySequences, Concat, Zenon
  <2> QED BY <2>1, EntrySequences, SetupSequences, Zenon
<1>2. /\ pc \in {"driver_activate", "driver_head", "driver_modules", "driver_insert"}
      /\ UNCHANGED timer_vars
  BY DEF SetupDriverList
<1>3. /\ ~Cleaning /\ ~has_driver_loaded
      /\ lookaside["thread"] = "none" /\ lookaside["process"] = "none"
      /\ \A l \in ObjectLists : lookaside[l] = "none"
  BY <1>2 DEF LifeInv, SetUp, Cleaning, ToList, ToActivate, EntryStages, ObjectLists
<1>4. /\ UNCHANGED <<registered, lookaside, call, image_call>> /\ listed' \subseteq listed
      /\ active' = active \/ (pc = "driver_activate" /\ active' = active \cup {"image"})
  BY DEF SetupDriverList, ActivateDriverList, InitialiseDriverListHead, ListInit, SnapshotModules,
         InsertLoadedModule, SkipLoadedModule, list_vars, driver_vars
<1>5. \/ Fail(s) /\ active' = active
      \/ UNCHANGED <<cleanup, device, symbolic_link, strings, has_driver_loaded>>
         /\ pc' \in {"driver_head", "driver_modules", "driver_insert", "thread_activate"}
  BY DEF SetupDriverList, ActivateDriverList, InitialiseDriverListHead, ListInit, SnapshotModules,
         InsertLoadedModule, SkipLoadedModule, Goto, entry_vars, list_vars, Fail
<1>6. CASE Fail(s) /\ active' = active
  <2> HIDE DEF s
  <2> QED BY <1>1, <1>2, <1>3, <1>4, <1>6, SetupFails DEF timer_vars
<1>7. CASE /\ UNCHANGED <<cleanup, device, symbolic_link, strings, has_driver_loaded>>
           /\ pc' \in {"driver_head", "driver_modules", "driver_insert", "thread_activate"}
  <2> USE DEF LifeInv
  <2>1. Types'
    BY <1>2, <1>3, <1>4, <1>7 DEF Types, EntryStages, Lists
  <2>2. SetUp'
    BY <1>2, <1>3, <1>4, <1>7 DEF SetUp, ToLink, ToConfigure, ToRegister, ToActivate, ToList,
       EntryStages
  <2>3. Calls' /\ ~Cleaning'
    BY <1>3, <1>4, <1>7 DEF Calls, Cleaning, ObjectLists
  <2> QED BY <2>1, <2>2, <2>3
<1> QED BY <1>5, <1>6, <1>7

\* The thread and process lists, and the end of DriverEntry.
LEMMA ObjectListsKeep ==
    ASSUME LifeInv, SetupObjectLists
    PROVE  LifeInv'
<1> DEFINE one == << <<"free_drivers">> >>
           two == << <<"free_drivers">>, <<"free_list", "thread">> >>
<1>1. /\ one \in Seq(AllSteps) /\ two \in Seq(AllSteps)
      /\ <<"free_list", "thread">> \in Steps(two)
  <2> DEFINE x == <<"free_drivers">>  y == <<"free_list", "thread">>
  <2>1. x \in AllSteps /\ y \in AllSteps
    BY Zenon DEF AllSteps
  <2> HIDE DEF x, y
  <2>2. /\ <<x>> \in Seq(AllSteps) /\ <<x, y>> \in Seq(AllSteps) /\ Steps(<<x, y>>) = {x, y}
    BY <2>1 DEF Steps
  <2> QED BY <2>2 DEF x, y
<1> HIDE DEF one, two
<1>2. /\ pc \in {"thread_activate", "thread_init", "process_activate", "process_init"}
      /\ UNCHANGED <<timer_vars, driver_vars>>
  BY DEF SetupObjectLists, SetupObjectList
<1>3. /\ ~Cleaning /\ ~has_driver_loaded
      /\ pc = "thread_activate" => \A l \in ObjectLists : lookaside[l] = "none"
      /\ pc \in {"thread_init", "process_activate"} => lookaside["process"] = "none"
  BY <1>2 DEF LifeInv, SetUp, Cleaning, ToList, ToActivate, EntryStages, ObjectLists
<1>4. ASSUME NEW undo \in Seq(AllSteps), Fail(UnregisterAll \o undo \o EntryCleanup),
             UNCHANGED list_vars,
             \A l \in ObjectLists : lookaside[l] = "live" => <<"free_list", l>> \in Steps(undo)
      PROVE  LifeInv'
  <2> DEFINE s == UnregisterAll \o undo \o EntryCleanup
  <2>1. /\ s \in Seq(AllSteps) /\ EntrySteps \subseteq Steps(s) /\ RemovalSteps \subseteq Steps(s)
        /\ Steps(undo) \subseteq Steps(s) /\ Proper(s)
    BY SetupSequences, Zenon
  <2>2. Fail(s)
    BY <1>4
  <2> HIDE DEF s
  <2> QED BY <1>2, <1>3, <1>4, <2>1, <2>2, SetupFails DEF timer_vars, driver_vars, list_vars
<1>5. ASSUME NEW l \in ObjectLists, NEW next, InitialiseLookaside(l), Goto(next),
             \/ pc = "thread_activate" /\ l = "thread" /\ next = "thread_init"
             \/ pc = "process_activate" /\ l = "process" /\ next = "process_init"
      PROVE  LifeInv'
  <2> USE <1>5 DEF LifeInv, InitialiseLookaside, Goto
  <2>1. Types'
    BY SMTT(30), <1>3 DEF Types, EntryStages, Lists, Cleaning
  <2>2. SetUp'
    BY <1>2, <1>3 DEF SetUp, ToLink, ToConfigure, ToRegister, ToActivate, ToList, EntryStages,
       timer_vars, Types, ObjectLists
  <2>3. Calls' /\ ~Cleaning'
    BY <1>2, <1>3, NotifyListsAssumption DEF Calls, Types, Cleaning, driver_vars
  <2> QED BY <2>1, <2>2, <2>3
<1>6. ASSUME NEW l \in ObjectLists, ListInit(l),
             UNCHANGED <<cleanup, device, symbolic_link, strings>>,
             \/ pc = "thread_init" /\ pc' = "process_activate"
                /\ has_driver_loaded' = has_driver_loaded
             \/ pc = "process_init" /\ pc' = "loaded" /\ has_driver_loaded' = TRUE
      PROVE  LifeInv'
  <2> USE <1>6 DEF LifeInv, ListInit
  <2>1. Types'
    BY <1>3 DEF Types, EntryStages, Cleaning
  <2>2. SetUp'
    BY SMTT(30), <1>2, <1>3 DEF SetUp, ToLink, ToConfigure, ToRegister, ToActivate, ToList, EntryStages,
       timer_vars
  <2>3. Calls' /\ ~Cleaning'
    BY <1>2, <1>3 DEF Calls, Cleaning, driver_vars
  <2> QED BY <2>1, <2>2, <2>3
<1>7. "thread" \in ObjectLists /\ "process" \in ObjectLists
  BY DEF ObjectLists
<1>8. CASE SetupObjectList("thread_activate", "thread", "thread_init", one)
  <2>1. pc = "thread_activate"
    BY <1>8 DEF SetupObjectList
  <2> QED BY <1>1, <1>3, <1>4, <1>5, <1>7, <1>8, <2>1 DEF SetupObjectList
<1>9. CASE SetupObjectList("process_activate", "process", "process_init", two)
  <2>1. /\ pc = "process_activate"
        /\ \A l \in ObjectLists : lookaside[l] = "live" => <<"free_list", l>> \in Steps(two)
    BY <1>1, <1>3, <1>9 DEF SetupObjectList, ObjectLists
  <2> QED BY <1>1, <1>4, <1>5, <1>7, <1>9, <2>1 DEF SetupObjectList
<1>10. CASE (pc = "thread_init" /\ ListInit("thread") /\ Goto("process_activate"))
            \/ (/\ pc = "process_init" /\ ListInit("process")
                /\ pc' = "loaded" /\ has_driver_loaded' = TRUE
                /\ UNCHANGED <<timer_vars, driver_vars, cleanup, device, symbolic_link,
                               strings>>)
  BY <1>6, <1>7, <1>10 DEF Goto
<1> QED BY <1>8, <1>9, <1>10, Zenon DEF SetupObjectLists, one, two

\* DriverUnload.
LEMMA UnloadKeeps ==
    ASSUME LifeInv, DriverUnload
    PROVE  LifeInv'
<1>1. /\ \A l \in Lists : /\ <<"unregister", l>> \in Steps(UnloadSequence)
                          /\ <<"deactivate", l>> \in Steps(UnloadSequence)
      /\ \A l \in ObjectLists : <<"free_list", l>> \in Steps(UnloadSequence)
      /\ <<"free_drivers">> \in Steps(UnloadSequence)
  BY UnloadSequenceProper, Zenon DEF Lists, ObjectLists, AllSteps, RemovalSteps, Removal
<1>2. /\ <<"delete_device">> \in Steps(UnloadSequence)
      /\ <<"free_strings">> \in Steps(UnloadSequence)
      /\ <<"delete_link">> \in Steps(UnloadSequence)
      /\ <<"cancel">> \in Steps(UnloadSequence) /\ <<"free_item">> \in Steps(UnloadSequence)
  BY UnloadSequenceProper, Zenon DEF AllSteps, EntrySteps, TimerSteps
<1>3. Covers(UnloadSequence)
  BY <1>1, <1>2, UnloadSequenceProper DEF Covers, Proper, LifeInv, Types
<1>4. ~Cleaning /\ Fail(UnloadSequence) /\ UNCHANGED <<timer_vars, list_vars, driver_vars>>
  BY DEF DriverUnload, Cleaning
<1> QED BY <1>2, <1>3, <1>4, UnloadSequenceProper, FailKeeps
        DEF Fail, timer_vars, list_vars, driver_vars

\* Every step keeps the invariant.
LEMMA LifeNext == LifeInv /\ [Next]_vars => LifeInv'
<1> SUFFICES ASSUME LifeInv, [Next]_vars PROVE LifeInv'
  OBVIOUS
<1>1. CASE UNCHANGED vars
  <2> USE <1>1 DEF LifeInv, vars, timer_vars, list_vars, driver_vars, entry_vars
  <2>1. Types' /\ SetUp'
    BY DEF Types, SetUp
  <2>2. Calls' /\ (Cleaning' => Covers(cleanup)')
    BY DEF Calls, Cleaning, Covers
  <2> QED BY <2>1, <2>2
<1>2. CASE DriverEntry
  BY <1>2, ConfigKeeps, EnableKeeps, DriverListKeeps, ObjectListsKeep DEF DriverEntry
<1> QED BY <1>1, <1>2, UnloadKeeps, CleanupKeeps, TimerKeeps, ObjectKeeps, ImageKeeps
        DEF Next

\* The state of the timer object: each step that queues the work item sets it,
\* and only the work item's routine resets it.
LEMMA StateNext == StateCoversWorkItem /\ [Next]_vars => StateCoversWorkItem'
<1> SUFFICES ASSUME StateCoversWorkItem, [Next]_vars,
                    ~Crashed', work_item' \in {"queued", "running"}
             PROVE  state'
  BY DEF StateCoversWorkItem
<1>1. CASE UNCHANGED vars
  BY <1>1 DEF StateCoversWorkItem, Crashed, vars, timer_vars, list_vars, driver_vars
<1>2. CASE Next /\ UNCHANGED timer_vars
  BY <1>2 DEF StateCoversWorkItem, Next, timer_vars
<1>3. CASE /\ ~Crashed
           /\ \/ InitialiseTimerObject \/ TimerExpires \/ QueueTimerWorkItem
              \/ StartTimerWorkItem \/ TimerObjectWorkItemRoutine
              \/ KeCancelTimer \/ IoFreeTimerWorkItem
              \/ TimerObjectCallbackRoutine(has_driver_loaded, device = "deleted")
  BY <1>3 DEF StateCoversWorkItem, InitialiseTimerObject, TimerExpires, QueueTimerWorkItem,
     StartTimerWorkItem, TimerObjectWorkItemRoutine, KeCancelTimer, IoFreeTimerWorkItem,
     TimerObjectCallbackRoutine
<1>4. ASSUME Next
      PROVE  \/ UNCHANGED timer_vars
             \/ InitialiseTimerObject \/ TimerExpires \/ QueueTimerWorkItem
             \/ StartTimerWorkItem \/ TimerObjectWorkItemRoutine
             \/ KeCancelTimer \/ IoFreeTimerWorkItem
             \/ TimerObjectCallbackRoutine(has_driver_loaded, device = "deleted")
  <2>1. CASE DriverEntry
    BY <2>1 DEF DriverEntry, CreateDevice, DrvLoadInitialiseDriverConfig,
       DrvLoadRetrieveDriverNameFromRegistry, CreateSymbolicLink, DrvLoadEnableNotifyRoutines,
       EnableNotifyRoutine, SetupDriverList, SetupObjectLists, SetupObjectList
  <2>2. CASE DriverUnload \/ CleanupStep
    BY <2>2 DEF DriverUnload, CleanupStep, TimerCleanupStep, ListCleanupStep,
       DeviceCleanupStep, KeFlushQueuedDpcs, SpinOnTimerState
  <2>3. CASE TimerDpc \/ TimerWorker \/ Expiry
    BY <2>3 DEF TimerDpc, TimerWorker, Expiry
  <2>4. CASE \/ \E o \in Objects : ObjectEvent(o)
             \/ (\E i \in Images : ImageEvent(i)) \/ DeferredHashing
    BY <2>4 DEF ObjectEvent, ImageEvent, DeferredHashing
  <2> QED BY <1>4, <2>1, <2>2, <2>3, <2>4 DEF Next
<1> QED BY <1>1, <1>2, <1>3, <1>4 DEF Next
-----------------------------------------------------------------------------
\* While the timer's work item is queued or runs, TIMER_OBJECT.state is set, up
\* to a crash (TimerObjectCallbackRoutine, TimerObjectWorkItemRoutine).
THEOREM StateTheorem == Spec => []StateCoversWorkItem
<1>1. Init => StateCoversWorkItem
  BY DEF Init, TimerInit, StateCoversWorkItem
<1> QED BY <1>1, StateNext, PTL DEF Spec

\* A list whose lookaside list is deleted has no entry, no notify routine and no
\* call in progress, for any number of threads and processes (DriverUnload, the
\* failure branches of DrvLoadSetupDriverLists).
THEOREM FreedListTheorem == Spec => []FreedListIsQuiet
<1>1. LifeInv => FreedListIsQuiet
  <2> SUFFICES ASSUME LifeInv, NEW l \in ObjectLists, lookaside[l] = "deleted"
               PROVE  /\ l \notin registered
                      /\ Entries(l) = {}
                      /\ \A o \in Objects : ListOf[o] = l => call[o] = "none"
    BY DEF FreedListIsQuiet
  <2> QED BY DEF LifeInv, Calls, Entries
<1> QED BY <1>1, LifeInit, LifeNext, PTL DEF Spec

\* Whichever step of DriverEntry failed, and whatever DriverUnload found, the
\* driver leaves nothing behind (DriverEntry, DriverUnload).
THEOREM GoneTheorem == Spec => []GoneIsClean
<1>1. LifeInv => GoneIsClean
  <2> SUFFICES ASSUME LifeInv, pc = "gone" PROVE GoneIsClean
    BY DEF GoneIsClean
  <2>1. Covers(cleanup) /\ cleanup = <<>>
    BY DEF LifeInv, Cleaning, Types
  <2>2. Steps(cleanup) = {}
    BY <2>1 DEF Steps
  <2>3. registered = {} /\ active = {} /\ \A l \in ObjectLists : lookaside[l] # "live"
    BY <2>1, <2>2 DEF Covers
  <2>4. listed = {}
    BY <2>3, NotifyListsAssumption DEF LifeInv, Types, Calls
  <2> QED BY <2>1, <2>2, <2>3, <2>4 DEF Covers, GoneIsClean
<1> QED BY <1>1, LifeInit, LifeNext, PTL DEF Spec

=============================================================================
