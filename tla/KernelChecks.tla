---------------------------- MODULE KernelChecks ------------------------------
(***************************************************************************)
(* The driver from the resolution of its imports and the look at the       *)
(* machine to the requests for the checks that keep no state from one      *)
(* request to the next, which user mode sends when its threads run.  A     *)
(* check is called by DeviceControl or, if it is one of the operations of  *)
(* the shared mapping, by its work item.  One request is handled at a      *)
(* time: the checks share no state.                                        *)
(***************************************************************************)
EXTENDS DpcStackwalk, ProcessScan, SystemInformation, ImageChecks, PciDevices,
        ProcessAccess, DriverImports, Dispatcher

CONSTANT ProcessLists   \* contents of the process list when a scan begins

ASSUME ProcessListsAssumption == \A processes \in ProcessLists : IsFiniteSet(processes)

vars == <<dv_vars, ps_vars, sm_vars, si_vars, hal_vars, ept_vars, dpc_vars, ic_vars,
          pci_vars, pa_vars, imports_vars, io_vars, user_vars>>

TypeOK ==
    /\ DriverValidationTypeOK
    /\ ProcessScanTypeOK
    /\ SmbiosTypeOK /\ SystemInformationTypeOK
    /\ HalTypeOK
    /\ DpcTypeOK
    /\ ImageChecksTypeOK
    /\ PciTypeOK
    /\ ProcessAccessTypeOK
    /\ ImportsTypeOK
    /\ IoTypeOK
    /\ DispatcherTypeOK

Init ==
    /\ DriverValidationInit
    /\ ProcessScanInit
    /\ SmbiosInit /\ SystemInformationInit
    /\ HalInit
    /\ DpcInit
    /\ ImageChecksInit
    /\ PciInit
    /\ ProcessAccessInit
    /\ ImportsInit
    /\ IoInit
    /\ DispatcherInit

\* No check is in progress.
Idle ==
    /\ dv_pc = "idle" /\ ps_pc = "idle" /\ sm_pc = "idle" /\ hal_pc = "idle"
    /\ ept_pc = "idle" /\ ic_pc = "idle" /\ pci_pc = "idle" /\ pa_pc = "idle"
    /\ dpc_pc = "idle" /\ \A k \in Processors : dpc_routine[k] = "none"

\* DeviceControl calls a handler, or the work item of the shared mapping does.
Called(code) == Idle /\ Dispatch(code)

\* The timer thread of user mode writes the operation.
CalledByWorkItem ==
    Idle /\ Started /\ Timer \in running /\ io_pc = "idle" /\ UNCHANGED io_vars

CalledEitherWay(code) == Called(code) \/ CalledByWorkItem

-----------------------------------------------------------------------------
(* Loading, and the requests themselves.                                   *)

Imports ==
    /\ ImportsStep
    /\ UNCHANGED <<dv_vars, ps_vars, sm_vars, si_vars, hal_vars, ept_vars, dpc_vars,
                   ic_vars, pci_vars, pa_vars, io_vars, user_vars>>

Load ==
    /\ imports_state = "ready"
    /\ SystemInformationStep
    /\ UNCHANGED <<dv_vars, ps_vars, hal_vars, ept_vars, dpc_vars, ic_vars, pci_vars,
                   pa_vars, imports_vars, io_vars, user_vars>>

\* The threads of user mode start.
UserMode ==
    /\ si_pc = "ready" /\ io_pc = "idle" /\ ~Started
    /\ DispatcherStep
    /\ UNCHANGED <<dv_vars, ps_vars, sm_vars, si_vars, hal_vars, ept_vars, dpc_vars,
                   ic_vars, pci_vars, pa_vars, imports_vars, io_vars>>

Requests ==
    /\ \/ /\ Idle /\ Started
          /\ \E code \in Codes, input, length \in BufferLengths, session \in BOOLEAN :
                 DeviceControl(code, input, length, session)
       \/ RequestHardwareInformation
       \/ SharedMappingInitialise
       \/ OtherCode
       \/ InsertIrpIntoQueue
       \/ PerformVirtualizationDetection
       \/ (Idle \/ io_code = "drivers") /\ IoCompleteRequest
       \/ Idle /\ RequestIsOver
    /\ UNCHANGED <<dv_vars, ps_vars, sm_vars, si_vars, hal_vars, ept_vars, dpc_vars,
                   ic_vars, pci_vars, pa_vars, imports_vars, user_vars>>

-----------------------------------------------------------------------------
(* The checks.                                                             *)

\* On a thread of its own, which nobody waits for.
Drivers ==
    /\ \/ /\ Called("drivers")
          /\ \E modules \in ModuleLists, directory \in Directories :
                 HandleValidateDriversIOCTL(modules, directory)
       \/ DriverValidationStep /\ UNCHANGED io_vars
    /\ UNCHANGED <<ps_vars, sm_vars, si_vars, hal_vars, ept_vars, dpc_vars, ic_vars,
                   pci_vars, pa_vars, imports_vars, user_vars>>

Processes ==
    /\ \/ /\ CalledEitherWay("unlinked")
          /\ \E memory \in Memories, processes \in ProcessLists :
                 FindUnlinkedProcesses(memory, processes)
       \/ ProcessScanStep /\ UNCHANGED io_vars
       \/ (\E a \in Addresses : ProcessListChanges(a)) /\ UNCHANGED io_vars
    /\ UNCHANGED <<dv_vars, sm_vars, si_vars, hal_vars, ept_vars, dpc_vars, ic_vars,
                   pci_vars, pa_vars, imports_vars, user_vars>>

\* HandleNmiIOCTL calls it before the NMIs, which DeviceRequests models.
Hal ==
    /\ \/ /\ Called("nmi")
          /\ \E modules \in ModuleLists, dispatch \in HalDispatchTables,
                private \in HalPrivateTables :
                 ValidateHalDispatchTables(modules, dispatch, private)
       \/ HalStep /\ UNCHANGED io_vars
    /\ UNCHANGED <<dv_vars, ps_vars, sm_vars, si_vars, ept_vars, dpc_vars, ic_vars,
                   pci_vars, pa_vars, imports_vars, user_vars>>

Ept ==
    /\ \/ /\ CalledEitherWay("ept")
          /\ \E control \in ControlTimes, protected \in ProtectedTimes :
                 DetectEptHooksInKeyFunctions(control, protected)
       \/ EptStep /\ UNCHANGED io_vars
    /\ UNCHANGED <<dv_vars, ps_vars, sm_vars, si_vars, hal_vars, dpc_vars, ic_vars,
                   pci_vars, pa_vars, imports_vars, user_vars>>

Dpcs ==
    /\ \/ /\ CalledEitherWay("dpc")
          /\ \E modules \in ModuleLists : DispatchStackwalkToEachCpuViaDpc(modules)
       \/ DpcWalkStep /\ UNCHANGED io_vars
    /\ UNCHANGED <<dv_vars, ps_vars, sm_vars, si_vars, hal_vars, ept_vars, ic_vars,
                   pci_vars, pa_vars, imports_vars, user_vars>>

\* The size and the sections of the driver's image, which go to the client; the
\* hashes of modules of the process, of the driver and of other drivers.  The
\* thread that retrieves the sections goes on if nobody can wait for it.
ImageHashes ==
    /\ \/ \E image \in Images : Called("image_size") /\ GetDriverImageSize(image)
       \/ \E image \in Images :
              Idle /\ WaitForThread /\ RetrieveInMemoryModuleExecutableSections(image)
       \/ \E image, file \in Images :
              Called("loaded_module") /\ ValidateProcessLoadedModule(image, file)
       \/ \E image, loaded \in Images :
              CalledEitherWay("integrity") /\ ValidateOurDriverImage(image, loaded)
       \/ \E image, loaded \in Images :
              CalledByWorkItem /\ ValidateSystemModule(image, loaded)
       \/ ImageCheckStep
    /\ UNCHANGED <<dv_vars, ps_vars, sm_vars, si_vars, hal_vars, ept_vars, dpc_vars,
                   pci_vars, pa_vars, imports_vars, user_vars>>

\* DeviceCreate looks at the devices too.
Pci ==
    /\ \/ \E list \in PciDeviceLists : CalledEitherWay("pci") /\ ValidatePciDevices(list)
       \/ PciStep /\ UNCHANGED io_vars
    /\ UNCHANGED <<dv_vars, ps_vars, sm_vars, si_vars, hal_vars, ept_vars, dpc_vars,
                   ic_vars, pa_vars, imports_vars, user_vars>>

Access ==
    /\ \/ \E list \in HandleTables :
              CalledEitherWay("handle_tables") /\ EnumerateHandleTables(list)
       \/ \E list \in AttachedThreads :
              CalledEitherWay("attached") /\ DetectThreadsAttachedToProtectedProcess(list)
       \/ ProcessAccessStep /\ UNCHANGED io_vars
    /\ UNCHANGED <<dv_vars, ps_vars, sm_vars, si_vars, hal_vars, ept_vars, dpc_vars,
                   ic_vars, pci_vars, imports_vars, user_vars>>

Next ==
    \/ Imports \/ Load \/ UserMode \/ Requests
    \/ Drivers \/ Processes \/ Hal \/ Ept \/ Dpcs \/ ImageHashes \/ Pci \/ Access

Spec == Init /\ [][Next]_vars

-----------------------------------------------------------------------------
\* Despite failed reads and rounding, a function that takes more than ten times
\* the exact average of the control functions that could be read is flagged,
\* and one that takes no longer than that average is not
\* (DetectEptHooksInKeyFunctions, driver/integrity.c:1284).  A hypervisor is
\* detected exactly when the counter did not advance, as long as it does not
\* advance by 2^32 (APERFMsrTimingCheck, driver/hv.c:26).
TimingVerdicts ==
    LET sum == SumOf(ept_times.control)
        reads == ReadsOf(ept_times.control)
        advanced == hv_reads[2] - hv_reads[1]
    IN /\ ept_pc = "done" /\ reads > 0 =>
              \A i \in 1..Len(ept_times.protected) :
                  LET time == ept_times.protected[i] * reads
                  IN /\ time > EPT_EXECUTION_TIME_MULTIPLIER * sum => i \in ept_flagged
                     /\ i \in ept_flagged => time > sum
       /\ io_code = "virtualization" /\ io_information > 0 /\ advanced < HalfWord =>
              (hv_detected <=> advanced = 0)
=============================================================================
