\* One request at a time for each of the checks.
SPECIFICATION Spec
CONSTANTS
    ModuleLists <- MCModuleLists
    Directories <- MCDirectories
    WHITELISTED_MODULES = {"ntoskrnl", "wdf"}
    MODULE_VALIDATION_FAILURE_MAX_REPORT_COUNT = 2
    Memories <- MCMemories
    PhysicalRanges <- MCPhysicalRanges
    ProcessLists <- MCProcessLists
    NoProcess = NoProcess
    Machines <- MCMachines
    VmwareVendor <- MCVmwareVendor
    VirtualBoxVendor <- MCVirtualBoxVendor
    VENDOR_STRING_MAX_LENGTH = 4
    MOTHERBOARD_SERIAL_CODE_LENGTH = 3
    DEVICE_DRIVE_0_SERIAL_CODE_LENGTH = 3
    HalDispatchTables <- MCHalDispatchTables
    HalPrivateTables <- MCHalPrivateTables
    ControlTimes <- MCControlTimes
    ProtectedTimes <- MCProtectedTimes
    NT_IMPORT_COUNT = 79
    IMPORTS_LENGTH = 80
    ProcessorCount = 2
    Stacks <- MCStacks
    DPC_STACKWALK_FRAMES_TO_SKIP = 1
    DPC_STACKWALK_STACKFRAME_COUNT = 2
    BufferLengths = {0, 1, 2, 3}
    ReportSizes = {1, 2}
    HalfWord = 4
    Counters = {0, 3, 5}
    Cycles = {0, 1, 2, 4}
    Images <- MCImages
    PciObjects <- MCPciObjects
    PciDeviceLists <- MCPciDeviceLists
    FLAGGED_DEVICE_IDS = {7}
    HandleTables <- MCHandleTables
    AttachedThreads <- MCAttachedThreads
    ProtectedProcess = "game"
    SystemProcess = "system"
    ImageName <- MCImageName
    DISPATCHER_THREAD_COUNT = 4
    Timer = "timer"
    Ports = {"port_1", "port_2"}
INVARIANTS
    NoWakeupLost WrappersReachTheirRoutine
    InvalidDriversAccountedFor 
    SmbiosStringExact LoadedMeansIdentified
     DpcFramesSettled TimingVerdicts
    RequestAnswered ImageChecksRelease PciReferencesReturned
    
\* A driver whose imports cannot be resolved does not load.
CHECK_DEADLOCK FALSE
