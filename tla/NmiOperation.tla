----------------------------- MODULE NmiOperation -----------------------------
(***************************************************************************)
(* Interrupting every processor with an NMI and looking at what it was     *)
(* doing (HandleNmiIOCTL and what it calls, driver/modules.c, lines        *)
(* 768-1060; driver/driver.c, lines 126-141).  An I/O control request and  *)
(* the shared mapping's worker may both ask for it.                        *)
(***************************************************************************)
EXTENDS DeviceThreads

CONSTANTS
    CoreCount,      \* number of active processors
    Findings        \* what NMIs find on them

\* An NMI finds a thread with its identifier, which the CID table has or has not
\* an entry for, and the processor in user mode, in a module, or anywhere else.
NmiFindings == [thread_id : Nat, in_table : BOOLEAN,
                where : {"user", "module", "elsewhere"}]

ASSUME NmiAssumption == CoreCount \in Nat \ {0} /\ Findings \subseteq NmiFindings

Cores == 0..(CoreCount - 1)

VARIABLES
    nmi_status,     \* DRIVER_CONFIG.nmi_status
    nmi_pc,         \* where each caller is
    nmi_core,       \* the processor the caller is at
    nmi_context,    \* is the array of contexts allocated?
    nmi_registered, \* is NmiCallback registered?
    nmi_pending,    \* processors an NMI was sent to that have not taken it
    callback_count, \* NMI_CONTEXT.callback_count, as "did it run"
    nmi_found,      \* the rest of NMI_CONTEXT
    nmi_reported,   \* reports made by the running operation
    nmi_fault       \* NmiCallback wrote to a freed context

nmi_vars == <<nmi_status, nmi_pc, nmi_core, nmi_context, nmi_registered,
              nmi_pending, callback_count, nmi_found, nmi_reported, nmi_fault>>

NmiStages == {"idle", "register", "launch", "analyse", "free",
              "deregister", "unset"}

NoFinding == [thread_id |-> 0, in_table |-> TRUE, where |-> "user"]

NmiTypeOK ==
    /\ nmi_status \in {0, 1}
    /\ nmi_pc \in [Callers -> NmiStages]
    /\ nmi_core \in 0..CoreCount
    /\ nmi_context \in BOOLEAN /\ nmi_registered \in BOOLEAN
    /\ nmi_pending \in SUBSET Cores
    /\ callback_count \in [Cores -> BOOLEAN]
    /\ nmi_found \in [Cores -> NmiFindings]
    /\ nmi_reported \in SUBSET ({"blocked", "hidden", "rip"} \X Cores)
    /\ nmi_fault \in BOOLEAN

NmiInit ==
    /\ nmi_status = 0
    /\ nmi_pc = [c \in Callers |-> "idle"]
    /\ nmi_core = 0
    /\ nmi_context = FALSE /\ nmi_registered = FALSE
    /\ nmi_pending = {}
    /\ callback_count = [k \in Cores |-> FALSE]
    /\ nmi_found = [k \in Cores |-> NoFinding]
    /\ nmi_reported = {}
    /\ nmi_fault = FALSE

At(c, stage) == nmi_pc' = [nmi_pc EXCEPT ![c] = stage]

\* Mutant: the flag is tested and set without the exchange telling who won.
TakeUnconditionally(c) ==
    /\ nmi_pc[c] = "idle"
    /\ nmi_status' = 1
    /\ At(c, "register")
    /\ UNCHANGED <<nmi_core, nmi_context, nmi_registered, nmi_pending,
                   callback_count, nmi_found, nmi_reported, nmi_fault>>

\* IsNmiInProgress: a compare-and-exchange; STATUS_ALREADY_COMMITTED when
\* another operation is in progress.
HandleNmiIOCTL(c) ==
    /\ nmi_pc[c] = "idle"
    /\ nmi_status' = 1
    /\ IF nmi_status = 0 THEN At(c, "register") ELSE UNCHANGED nmi_pc
    /\ UNCHANGED <<nmi_core, nmi_context, nmi_registered, nmi_pending,
                   callback_count, nmi_found, nmi_reported, nmi_fault>>

\* The contexts are allocated (zeroed) and the callback is registered.  Without
\* memory, callback or list of modules everything is undone at once.
RegisterNmiCallback(c) ==
    /\ nmi_pc[c] = "register"
    /\ \/ /\ At(c, "launch")
          /\ nmi_context' = TRUE /\ nmi_registered' = TRUE
          /\ nmi_core' = 0
          /\ callback_count' = [k \in Cores |-> FALSE]
          /\ nmi_found' = [k \in Cores |-> NoFinding]
          /\ nmi_reported' = {}
       \/ /\ At(c, "unset")
          /\ UNCHANGED <<nmi_context, nmi_registered, nmi_core, callback_count,
                         nmi_found, nmi_reported>>
    /\ UNCHANGED <<nmi_status, nmi_pending, nmi_fault>>

\* LaunchNonMaskableInterrupt: no memory for the affinity mask (the callback is
\* then removed before the contexts are freed), or an NMI to the next core.  The
\* delay that follows it ends whether the NMI was taken or not.
LaunchNonMaskableInterrupt(c) ==
    /\ nmi_pc[c] = "launch"
    /\ \/ /\ nmi_core < CoreCount
          /\ nmi_pending' = nmi_pending \cup {nmi_core}
          /\ nmi_core' = nmi_core + 1
          /\ UNCHANGED <<nmi_pc, nmi_context, nmi_registered>>
       \/ /\ nmi_core = CoreCount
          /\ nmi_core' = 0
          /\ At(c, "analyse")
          /\ UNCHANGED <<nmi_pending, nmi_context, nmi_registered>>
       \/ /\ nmi_core = 0
          /\ nmi_registered' = FALSE /\ nmi_context' = FALSE
          /\ At(c, "unset")
          /\ UNCHANGED <<nmi_core, nmi_pending>>
    /\ UNCHANGED <<nmi_status, callback_count, nmi_found, nmi_reported,
                   nmi_fault>>

\* A processor takes a pending NMI: NmiCallback, if it is registered.  Nothing
\* resets user_thread when an NMI of an earlier operation came first.
NmiCallback(k, finding) ==
    /\ k \in nmi_pending
    /\ nmi_pending' = nmi_pending \ {k}
    /\ IF nmi_registered /\ nmi_context
       THEN /\ callback_count' = [callback_count EXCEPT ![k] = TRUE]
            /\ nmi_found' = [nmi_found EXCEPT ![k] =
                   IF callback_count[k] /\ @.where = "user"
                   THEN [finding EXCEPT !.where = "user"] ELSE finding]
       ELSE UNCHANGED <<callback_count, nmi_found>>
    /\ nmi_fault' = (nmi_fault \/ (nmi_registered /\ ~nmi_context))
    /\ UNCHANGED <<nmi_status, nmi_pc, nmi_core, nmi_context, nmi_registered,
                   nmi_reported>>

\* The identifiers of the idle threads are the processors' numbers, and are not
\* looked up.
ValidateThreadsPspCidTableEntry(finding) ==
    finding.thread_id < CoreCount \/ finding.in_table

\* The reports one iteration of AnalyseNmiData makes, and whether it goes on:
\* a processor that took no NMI, and one outside of every module, end it.
ReportsFor(k) ==
    IF ~callback_count[k] THEN {<<"blocked", k>>}
    ELSE (IF ValidateThreadsPspCidTableEntry(nmi_found[k]) THEN {} ELSE {<<"hidden", k>>})
         \cup (IF nmi_found[k].where = "elsewhere" THEN {<<"rip", k>>} ELSE {})

\* Mutant: the loop stops one processor early.
LastCoreEarly(k) ==
    ~callback_count[k] \/ nmi_found[k].where = "elsewhere" \/ k >= CoreCount - 2

EndsAnalysis(k) ==
    ~callback_count[k] \/ nmi_found[k].where = "elsewhere" \/ k = CoreCount - 1

AnalyseNmiData(c) ==
    /\ nmi_pc[c] = "analyse"
    /\ nmi_reported' = nmi_reported \cup ReportsFor(nmi_core)
    /\ IF EndsAnalysis(nmi_core) THEN At(c, "free") /\ UNCHANGED nmi_core
       ELSE nmi_core' = nmi_core + 1 /\ UNCHANGED nmi_pc
    /\ UNCHANGED <<nmi_status, nmi_context, nmi_registered, nmi_pending,
                   callback_count, nmi_found, nmi_fault>>

\* The contexts are freed first,
FreeNmiContext(c) ==
    /\ nmi_pc[c] = "free"
    /\ nmi_context' = FALSE
    /\ callback_count' = [k \in Cores |-> FALSE]
    /\ nmi_found' = [k \in Cores |-> NoFinding]
    /\ nmi_core' = 0
    /\ At(c, "deregister")
    /\ UNCHANGED <<nmi_status, nmi_registered, nmi_pending, nmi_reported,
                   nmi_fault>>

\* then the callback is removed.
DeregisterNmiCallback(c) ==
    /\ nmi_pc[c] = "deregister"
    /\ nmi_registered' = FALSE
    /\ At(c, "unset")
    /\ UNCHANGED <<nmi_status, nmi_core, nmi_context, nmi_pending,
                   callback_count, nmi_found, nmi_reported, nmi_fault>>

UnsetNmiInProgressFlag(c) ==
    /\ nmi_pc[c] = "unset"
    /\ nmi_status' = nmi_status - 1
    /\ nmi_reported' = {}
    /\ At(c, "idle")
    /\ UNCHANGED <<nmi_core, nmi_context, nmi_registered, nmi_pending,
                   callback_count, nmi_found, nmi_fault>>

\* The steps of an operation that is past the test of the flag.
NmiStep(c) ==
    \/ RegisterNmiCallback(c)
    \/ LaunchNonMaskableInterrupt(c)
    \/ AnalyseNmiData(c)
    \/ FreeNmiContext(c)
    \/ DeregisterNmiCallback(c)
    \/ UnsetNmiInProgressFlag(c)
=============================================================================
