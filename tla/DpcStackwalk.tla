----------------------------- MODULE DpcStackwalk -----------------------------
(***************************************************************************)
(* Capturing the stack of every processor in a DPC and validating the      *)
(* return addresses on it (driver/modules.c, lines 1315-1474).  The        *)
(* routines run beside the thread that waits for them.                     *)
(***************************************************************************)
EXTENDS HalTables

CONSTANTS
    ProcessorCount,                 \* KeQueryActiveProcessorCount
    Stacks,                         \* return addresses a DPC may find below it
    DPC_STACKWALK_FRAMES_TO_SKIP,
    DPC_STACKWALK_STACKFRAME_COUNT

ASSUME DpcAssumption ==
    /\ ProcessorCount \in Nat \ {0}
    /\ DPC_STACKWALK_FRAMES_TO_SKIP \in Nat
    /\ DPC_STACKWALK_STACKFRAME_COUNT \in Nat
    /\ Stacks \subseteq Seq(Nat)

Processors == 0..(ProcessorCount - 1)

VARIABLES
    dpc_pc,         \* "idle", "modules", "call", "spin", "validate" or "free"
    dpc_modules,
    dpc_context,    \* is the array of contexts allocated?
    dpc_routine,    \* where the routine of each processor is
    dpc_frames,     \* DPC_CONTEXT.stack_frame and frames_captured
    dpc_executed,   \* DPC_CONTEXT.executed
    dpc_core,       \* the processor whose frames are validated, and
    dpc_frame,      \* the frame
    dpc_reports,    \* addresses reported
    dpc_dropped     \* addresses whose report could not be allocated

dpc_vars == <<dpc_pc, dpc_modules, dpc_context, dpc_routine, dpc_frames,
              dpc_executed, dpc_core, dpc_frame, dpc_reports, dpc_dropped>>

DpcTypeOK ==
    /\ dpc_pc \in {"idle", "modules", "call", "spin", "validate", "free"}
    /\ dpc_context \in BOOLEAN
    /\ dpc_routine \in [Processors -> {"none", "queued", "captured", "executed", "signalled"}]
    /\ dpc_executed \in [Processors -> BOOLEAN]
    /\ \A k \in Processors : Len(dpc_frames[k]) <= DPC_STACKWALK_STACKFRAME_COUNT
    /\ dpc_core \in 0..ProcessorCount /\ dpc_frame \in Nat

DpcInit ==
    /\ dpc_pc = "idle" /\ dpc_modules = <<>> /\ dpc_context = FALSE
    /\ dpc_routine = [k \in Processors |-> "none"]
    /\ dpc_frames = [k \in Processors |-> <<>>]
    /\ dpc_executed = [k \in Processors |-> FALSE]
    /\ dpc_core = 0 /\ dpc_frame = 1 /\ dpc_reports = {} /\ dpc_dropped = {}

\* The contexts, zeroed, or no memory for them and the handler returns.
DispatchStackwalkToEachCpuViaDpc(modules) ==
    /\ dpc_pc = "idle"
    /\ \/ UNCHANGED dpc_vars
       \/ /\ dpc_pc' = "modules" /\ dpc_modules' = modules
          /\ dpc_context' = TRUE
          /\ UNCHANGED <<dpc_routine, dpc_frames, dpc_executed, dpc_core,
                         dpc_frame, dpc_reports, dpc_dropped>>

\* GetSystemModuleInformation: the list of modules, or none and the end.
QueryModulesForDpc ==
    /\ dpc_pc = "modules"
    /\ dpc_pc' \in {"call", "free"}
    /\ UNCHANGED <<dpc_modules, dpc_context, dpc_routine, dpc_frames,
                   dpc_executed, dpc_core, dpc_frame, dpc_reports, dpc_dropped>>

\* The routine is queued on every processor.  The thread goes on: what it may
\* rely on is what it waits for itself.
KeGenericCallDpc ==
    /\ dpc_pc = "call"
    /\ dpc_routine' = [k \in Processors |-> "queued"]
    /\ dpc_pc' = "spin"
    /\ UNCHANGED <<dpc_modules, dpc_context, dpc_frames, dpc_executed, dpc_core,
                   dpc_frame, dpc_reports, dpc_dropped>>

\* RtlCaptureStackBackTrace
Captured(stack) ==
    SubSeq(stack, DPC_STACKWALK_FRAMES_TO_SKIP + 1,
           Min({Len(stack), DPC_STACKWALK_FRAMES_TO_SKIP
                            + DPC_STACKWALK_STACKFRAME_COUNT}))

\* DpcStackwalkCallbackRoutine: the frames are captured, `executed' is set and
\* the call is signalled.  What it logs after that is read from its context.
DpcStackwalkCallbackRoutine(k) ==
    /\ \/ /\ dpc_routine[k] = "queued"
          /\ \E stack \in Stacks :
                 dpc_frames' = [dpc_frames EXCEPT ![k] = Captured(stack)]
          /\ dpc_routine' = [dpc_routine EXCEPT ![k] = "captured"]
          /\ UNCHANGED dpc_executed
       \/ /\ dpc_routine[k] = "captured"
          /\ dpc_executed' = [dpc_executed EXCEPT ![k] = TRUE]
          /\ dpc_routine' = [dpc_routine EXCEPT ![k] = "executed"]
          /\ UNCHANGED dpc_frames
       \/ /\ dpc_routine[k] = "executed"
          /\ dpc_routine' = [dpc_routine EXCEPT ![k] = "signalled"]
          /\ UNCHANGED <<dpc_frames, dpc_executed>>
       \/ /\ dpc_routine[k] = "signalled"
          /\ dpc_routine' = [dpc_routine EXCEPT ![k] = "none"]
          /\ UNCHANGED <<dpc_frames, dpc_executed>>
    /\ UNCHANGED <<dpc_pc, dpc_modules, dpc_context, dpc_core, dpc_frame,
                   dpc_reports, dpc_dropped>>

\* Mutant: the loop stops one processor early.
CompletionOfAllButLast == \A k \in Processors \ {ProcessorCount - 1} : dpc_executed[k]

CheckForDpcCompletion == \A k \in Processors : dpc_executed[k]

WaitForDpcs ==
    /\ dpc_pc = "spin"
    /\ CheckForDpcCompletion
    /\ dpc_pc' = "validate"
    /\ UNCHANGED <<dpc_modules, dpc_context, dpc_routine, dpc_frames,
                   dpc_executed, dpc_core, dpc_frame, dpc_reports, dpc_dropped>>

\* ReportDpcStackwalkViolation
ReportDpcStackwalkViolation(rip) ==
    \/ dpc_reports' = dpc_reports \cup {rip} /\ UNCHANGED dpc_dropped
    \/ dpc_dropped' = dpc_dropped \cup {rip} /\ UNCHANGED dpc_reports

\* ValidateDpcStackFrame: the next frame of this processor, or the next one.
ValidateDpcCapturedStack ==
    /\ dpc_pc = "validate"
    /\ \/ /\ dpc_core = ProcessorCount
          /\ dpc_pc' = "free"
          /\ UNCHANGED <<dpc_core, dpc_frame, dpc_reports, dpc_dropped>>
       \/ /\ dpc_core < ProcessorCount
          /\ dpc_frame > Len(dpc_frames[dpc_core])
          /\ dpc_core' = dpc_core + 1 /\ dpc_frame' = 1
          /\ UNCHANGED <<dpc_pc, dpc_reports, dpc_dropped>>
       \/ /\ dpc_core < ProcessorCount
          /\ dpc_frame <= Len(dpc_frames[dpc_core])
          /\ LET rip == dpc_frames[dpc_core][dpc_frame]
             IN IF IsInstructionPointerInInvalidRegion(rip, dpc_modules)
                THEN UNCHANGED <<dpc_reports, dpc_dropped>>
                ELSE ReportDpcStackwalkViolation(rip)
          /\ dpc_frame' = dpc_frame + 1
          /\ UNCHANGED <<dpc_pc, dpc_core>>
    /\ UNCHANGED <<dpc_modules, dpc_context, dpc_routine, dpc_frames, dpc_executed>>

\* The modules and the contexts are freed.
FreeDpcContexts ==
    /\ dpc_pc = "free"
    /\ dpc_pc' = "idle" /\ dpc_modules' = <<>> /\ dpc_context' = FALSE
    /\ dpc_frames' = [k \in Processors |-> <<>>]
    /\ dpc_executed' = [k \in Processors |-> FALSE]
    /\ dpc_core' = 0 /\ dpc_frame' = 1 /\ dpc_reports' = {} /\ dpc_dropped' = {}
    /\ UNCHANGED dpc_routine

DpcWalkStep ==
    \/ QueryModulesForDpc
    \/ KeGenericCallDpc
    \/ \E k \in Processors : DpcStackwalkCallbackRoutine(k)
    \/ WaitForDpcs
    \/ ValidateDpcCapturedStack
    \/ FreeDpcContexts

-----------------------------------------------------------------------------
\* A routine is reported for HalDispatchTable exactly when the first is outside
\* every module, and for HalPrivateDispatchTable exactly when any is; the
\* routine reported is such a one (ValidateHalDispatchTables,
\* driver/modules.c:1758).  Of the addresses a DPC captured, exactly those
\* outside are reported or lost to a failed allocation, although the DPCs of
\* the other processors finish in any order
\* (ValidateDpcCapturedStack, driver/modules.c:1416).
OutsideCodeReported ==
    /\ hal_pc = "done" =>
           /\ \A report \in hal_reports : OutsideModules(report[2], hal_modules)
           /\ (\E report \in hal_reports : report[1] = "HalDispatch")
                  <=> OutsideModules(hal_table.dispatch[1], hal_modules)
           /\ (\E report \in hal_reports : report[1] = "HalPrivateDispatch")
                  <=> \E i \in 1..Len(hal_table.private) :
                          /\ hal_table.private[i] # 0
                          /\ OutsideModules(hal_table.private[i], hal_modules)
    /\ dpc_pc = "free" =>
           dpc_reports \cup dpc_dropped =
               {rip \in UNION {Range(dpc_frames[k]) : k \in Processors} :
                    OutsideModules(rip, dpc_modules)}

\* Frames are read only when every processor has captured its own, and no
\* routine that has yet to write into its context is left behind when the
\* contexts are freed (CheckForDpcCompletion, driver/modules.c:1362).
DpcFramesSettled ==
    /\ dpc_pc \in {"validate", "free"} =>
           \A k \in Processors : dpc_routine[k] \notin {"queued", "captured"}
    /\ \A k \in Processors :
           dpc_routine[k] \in {"queued", "captured"} => dpc_context
=============================================================================
