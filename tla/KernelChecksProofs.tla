-------------------------- MODULE KernelChecksProofs --------------------------
(***************************************************************************)
(* Theorems about the driver's checks, for every content of the memory,    *)
(* the tables and the lists they look at, and every number of processors,  *)
(* imports and threads.                                                    *)
(***************************************************************************)
EXTENDS KernelChecks, AddressChecksProofs, RequestChecksProofs, ParsedMemoryProofs,
        FiniteSetTheorems

\* Zenon first: it needs far less time than the translation for SMT.
USE ZenonT(10), SMTT(30)

-----------------------------------------------------------------------------
(* A step of the driver is a step of a component or leaves its state alone. *)

LEMMA ImportsSteps == [Next]_vars => [ImportsStep]_imports_vars
BY ZenonT(60) DEF Next, vars, Imports, Load, UserMode, Requests, Drivers, Processes, Hal,
       Ept, Dpcs, ImageHashes, Pci, Access

LEMMA DispatcherSteps == [Next]_vars => [DispatcherStep]_user_vars
BY ZenonT(60) DEF Next, vars, Imports, Load, UserMode, Requests, Drivers, Processes, Hal,
       Ept, Dpcs, ImageHashes, Pci, Access

LEMMA PciSteps == [Next]_vars => [PciNext]_pci_vars
BY ZenonT(60) DEF Next, vars, Imports, Load, UserMode, Requests, Drivers, Processes, Hal,
       Ept, Dpcs, ImageHashes, Pci, Access, PciNext

LEMMA ImageCheckSteps == [Next]_vars => [ImageCheckNext]_ic_vars
BY ZenonT(60) DEF Next, vars, Imports, Load, UserMode, Requests, Drivers, Processes, Hal,
       Ept, Dpcs, ImageHashes, Pci, Access, ImageCheckNext

LEMMA DpcSteps == [Next]_vars => [DpcNext]_dpc_vars
BY ZenonT(60) DEF Next, vars, Imports, Load, UserMode, Requests, Drivers, Processes, Hal,
       Ept, Dpcs, ImageHashes, Pci, Access, DpcNext

LEMMA HalSteps == [Next]_vars => [HalNext]_hal_vars
BY ZenonT(60) DEF Next, vars, Imports, Load, UserMode, Requests, Drivers, Processes, Hal,
       Ept, Dpcs, ImageHashes, Pci, Access, HalNext

LEMMA AccessSteps == [Next]_vars => [AccessNext]_pa_vars
BY ZenonT(60) DEF Next, vars, Imports, Load, UserMode, Requests, Drivers, Processes, Hal,
       Ept, Dpcs, ImageHashes, Pci, Access, AccessNext

LEMMA DvSteps == [Next]_vars => [DvNext]_dv_vars
BY ZenonT(60) DEF Next, vars, Imports, Load, UserMode, Requests, Drivers, Processes, Hal,
       Ept, Dpcs, ImageHashes, Pci, Access, DvNext

LEMMA PsSteps == [Next]_vars => [PsNext]_ps_vars
<1> SUFFICES ASSUME [Next]_vars PROVE [PsNext]_ps_vars
  OBVIOUS
<1>1. CASE Processes
  <2>1. \A processes \in ProcessLists : Cardinality(processes) \in Nat
    BY ProcessListsAssumption, FS_CardinalityType
  <2> QED
    BY <1>1, <2>1 DEF Processes, PsNext
<1>2. CASE ~Processes
  BY <1>2, ZenonT(60) DEF Next, vars, Imports, Load, UserMode, Requests, Drivers, Hal, Ept,
     Dpcs, ImageHashes, Pci, Access
<1> QED
  BY <1>1, <1>2

LEMMA LoadSteps ==
    [Next]_vars => SystemInformationStep \/ UNCHANGED <<sm_vars, si_vars>>
BY ZenonT(60) DEF Next, vars, Imports, Load, UserMode, Requests, Drivers, Processes, Hal,
       Ept, Dpcs, ImageHashes, Pci, Access

\* The request of one client is touched by the steps of DeviceControl and by the
\* check that answers it.
LEMMA IoSteps == [Next]_vars => [IoNext]_io_vars
<1> SUFFICES ASSUME [Next]_vars PROVE [IoNext]_io_vars
  OBVIOUS
<1>1. CASE Requests
  BY <1>1 DEF Requests, OtherCode, IoNext
<1>2. CASE ImageHashes
  <2>1. ASSUME ImageCheckStep
        PROVE  (ImageAnswered /\ ic_pc = "answer") \/ UNCHANGED io_vars
    BY <2>1 DEF ImageCheckStep, QueryModulesForImage, FindOurModule, FindHashedEntry,
       ConvertPath, StoreMemoryImage, StoreKernelImage, MapDiskImageIntoVirtualAddressSpace,
       StoreDiskImage, AnswerRequest, HashDiskSection, HashMemorySection, CompareHashes,
       Release, ImageCheckReturn, ImageAnswered
  <2> QED
    BY <1>2, <2>1 DEF ImageHashes, CalledEitherWay, Called, CalledByWorkItem, IoNext
<1>3. CASE ~Requests /\ ~ImageHashes
  BY <1>3 DEF Next, vars, Imports, Load, UserMode, Drivers, Processes, Hal, Ept, Dpcs,
     Pci, Access, CalledEitherWay, Called, CalledByWorkItem, IoNext
<1> QED
  BY <1>1, <1>2, <1>3

\* A request begins and ends when no check of an image is in progress, and a
\* check that answers begins with its request.
LEMMA CodeSteps ==
    ASSUME [Next]_vars
    PROVE  /\ io_code' # io_code => ic_pc = "idle" /\ UNCHANGED ic_vars
           /\ \/ ic_op' = ic_op \/ ic_op' \notin {"size", "regions"}
              \/ ic_op' = "size" /\ io_code = "image_size"
              \/ ic_op' = "regions" /\ io_code = "regions"
<1>1. CASE Requests
  <2>1. UNCHANGED ic_vars
    BY <1>1 DEF Requests
  <2>2. io_code' # io_code => Idle
    BY <1>1 DEF Requests, RequestHardwareInformation, SharedMappingInitialise, AnswerWith,
       OtherCode, Dispatch, InsertIrpIntoQueue, PerformVirtualizationDetection,
       IoCompleteRequest
  <2> QED
    BY <2>1, <2>2 DEF Idle, ic_vars
<1>2. CASE ImageHashes
  <2>1. ASSUME ImageCheckStep PROVE io_code' = io_code /\ ic_op' \in {ic_op, "none"}
    BY <2>1 DEF ImageCheckStep, QueryModulesForImage, FindOurModule, FindHashedEntry,
       ConvertPath, StoreMemoryImage, StoreKernelImage, MapDiskImageIntoVirtualAddressSpace,
       StoreDiskImage, AnswerRequest, HashDiskSection, HashMemorySection, CompareHashes,
       Release, ImageCheckReturn, OnlyProgress, io_vars
  <2>2. ASSUME NEW image \in Images, Called("image_size"), GetDriverImageSize(image)
        PROVE  io_code' = io_code /\ io_code = "image_size" /\ ic_op' = "size"
    BY <2>2 DEF Called, Dispatch, GetDriverImageSize, StartImageCheck
  <2>3. ASSUME NEW image \in Images, WaitForThread,
               RetrieveInMemoryModuleExecutableSections(image)
        PROVE  io_code' = io_code /\ io_code = "regions" /\ ic_op' = "regions"
    BY <2>3 DEF WaitForThread, RetrieveInMemoryModuleExecutableSections, StartImageCheck
  <2>4. ASSUME NEW image \in Images, NEW other \in Images, NEW code,
               CalledEitherWay(code),
               \/ ValidateProcessLoadedModule(image, other)
               \/ ValidateOurDriverImage(image, other)
               \/ ValidateSystemModule(image, other)
        PROVE  io_code' = io_code /\ ic_op' \notin {"size", "regions"}
    <3>1. io_code' = io_code
      BY <2>4 DEF CalledEitherWay, Called, CalledByWorkItem, Dispatch, io_vars
    <3> QED
      BY <2>4, <3>1 DEF ValidateProcessLoadedModule, ValidateOurDriverImage,
         ValidateSystemModule, StartImageCheck
  <2> QED
    BY <1>2, <2>1, <2>2, <2>3, <2>4 DEF ImageHashes, CalledEitherWay
<1>3. CASE ~Requests /\ ~ImageHashes
  <2>1. UNCHANGED ic_vars
    BY ZenonT(60), <1>3 DEF Next, vars, Imports, Load, UserMode, Drivers, Processes, Hal, Ept,
       Dpcs, Pci, Access
  <2>2. UNCHANGED io_vars \/ \E code : Called(code) \/ CalledEitherWay(code)
    BY ZenonT(60), <1>3 DEF Next, vars, Imports, Load, UserMode, Drivers, Processes, Hal, Ept,
       Dpcs, Pci, Access
  <2>3. io_code' = io_code
    BY <2>2 DEF CalledEitherWay, Called, CalledByWorkItem, Dispatch, io_vars
  <2> QED
    BY <2>1, <2>3 DEF ic_vars
<1> QED
  BY <1>1, <1>2, <1>3

LEMMA CodeOfCheckStep ==
    ASSUME CodeOfCheck, ImageCheckInv, [Next]_vars
    PROVE  CodeOfCheck'
<1>1. ic_pc = "idle" => ic_op = "none"
  BY DEF ImageCheckInv, ImageCheckAt
<1>2. CASE io_code' # io_code
  BY <1>1, <1>2, CodeSteps DEF ic_vars, CodeOfCheck
<1>3. CASE io_code' = io_code
  BY <1>3, CodeSteps DEF CodeOfCheck
<1> QED
  BY <1>2, <1>3

LEMMA EptSteps == [Next]_vars => [EptNext]_ept_vars
BY ZenonT(60) DEF Next, vars, Imports, Load, UserMode, Requests, Drivers, Processes, Hal,
       Ept, Dpcs, ImageHashes, Pci, Access, EptNext

LEMMA TimesAddUp == ASSUME NEW times \in Seq(Nat) PROVE ReadsAddUp(times)
<1>1. Len(times) \in Nat
  OBVIOUS
<1>2. Counts(Counted(times), times) /\ Counted(times) \in [Nat -> Nat]
  BY ReadsCounted, Zenon DEF Counts
<1>3. SumOf(times) \in Nat /\ Counted(times)[Len(times)] <= SumOf(times)
  BY <1>2, SumAtLeastCount, Zenon DEF SumOf
<1>4. ReadsOf(times) = Counted(times)[Len(times)]
  BY <1>1, Zenon DEF ReadsOf, Counted
<1> QED
  BY <1>1, <1>2, <1>3, <1>4, Zenon DEF ReadsAddUp

-----------------------------------------------------------------------------
(* The theorems.                                                           *)

\* Whatever the number of imports, and with every one found or not, a call
\* through the encrypted table reaches its routine
\* (ImpResolveDynamicImports, driver/imports.c:182, and
\* CryptDecryptImportsArrayEntry, driver/crypt.c:93).
THEOREM ImportCallsCorrect == Spec => []CallsReachTheirRoutine
<1>1. Init => ImportsInv
  BY ImportsInitInv DEF Init
<1>2. ImportsInv /\ [Next]_vars => ImportsInv'
  BY ImportsSteps, ImportsStepInv
<1>3. ImportsInv => CallsReachTheirRoutine
  BY DEF ImportsInv
<1> QED
  BY <1>1, <1>2, <1>3, PTL DEF Spec

\* In every behaviour of the dispatcher and its pool, whatever their sizes, no
\* wake-up is lost and every job that does not return gets a thread.
THEOREM WakeupTheorem == Spec => []NoWakeupLost
<1>1. Init => DispatcherInv
  BY DispatcherInitInv DEF Init
<1>2. DispatcherInv /\ [Next]_vars => DispatcherInv'
  BY DispatcherSteps, DispatcherNextInv
<1> QED
  BY <1>1, <1>2, InvImpliesProperty, PTL DEF Spec

\* Whatever devices there are and arrive, and whichever call fails, the
\* enumeration of the PCI devices (driver/hw.c:194) gives back what it took.
THEOREM PciReferencesTheorem == Spec => []PciReferencesReturned
<1>1. Init => PciInv
  BY PciStart DEF Init
<1>2. PciInv /\ [Next]_vars => PciInv'
  BY PciSteps, PciStepInv
<1> QED
  BY <1>1, <1>2, PciSafe, PTL DEF Spec

\* Whichever step fails, a check of an image releases what it took and gives a
\* verdict only if none failed (driver/integrity.c:887, 1441, 1574).
THEOREM ImageChecksTheorem == Spec => []ImageChecksRelease
<1>1. Init => ImageCheckInv
  BY ImageCheckStart DEF Init
<1>2. ImageCheckInv /\ [Next]_vars => ImageCheckInv'
  BY ImageCheckSteps, ImageCheckStepInv
<1> QED
  BY <1>1, <1>2, ImageCheckSafe, PTL DEF Spec

\* Whatever the client's buffers are and whichever check answers, a request's
\* answer stays within the bytes the driver may give back, and the request is
\* completed once or queued (driver/io.c:665).
THEOREM RequestAnsweredTheorem == Spec => []RequestAnswered
<1>1. Init => IoInv /\ ImageCheckInv
  BY IoStart, ImageCheckStart DEF Init
<1>2. PacketSizesAreNat
  BY PacketSizeIsNat DEF PacketSizesAreNat
<1>3. IoInv /\ ImageCheckInv /\ [Next]_vars => IoInv' /\ ImageCheckInv'
  BY <1>2, IoSteps, IoStepInv, ImageCheckSteps, ImageCheckStepInv
<1> QED
  BY <1>1, <1>3, IoSafe, PTL DEF Spec

\* However many processors there are and in whichever order their routines run,
\* frames are read when all are captured, and no routine writes into a context
\* that was freed (driver/modules.c:1362).
THEOREM DpcFramesTheorem == Spec => []DpcFramesSettled
<1>1. Init => DpcInv
  BY DpcStart DEF Init
<1>2. DpcInv /\ [Next]_vars => DpcInv'
  BY DpcSteps, DpcStepInv
<1> QED
  BY <1>1, <1>2, DpcSafe, PTL DEF Spec

\* However the tables, the module list and the stacks look, and in whatever
\* order the processors' routines run: a table is reported exactly when it has
\* a routine to be found, with such a routine, and of the captured frames
\* exactly those outside every module are reported or lost to a failed
\* allocation (driver/modules.c:1416, 1758).
THEOREM OutsideCodeTheorem == Spec => []OutsideCodeReported
<1>1. Init => HalInv /\ DpcInv /\ DpcReportInv
  BY HalStart, DpcStart, DpcReportStart DEF Init
<1>2. HalInv /\ [Next]_vars => HalInv'
  BY HalSteps, HalStepInv
<1>3. DpcInv /\ DpcReportInv /\ [Next]_vars => DpcInv' /\ DpcReportInv'
  BY DpcSteps, DpcStepInv, DpcReportStepInv
<1> QED
  BY <1>1, <1>2, <1>3, OutsideCodeSafe, PTL DEF Spec

\* Whatever modules and drivers there are, and whichever allocation fails: a
\* driver that is listed or reported is invalid for the reason given and is there
\* once, and unless the limit was passed, a bucket given up or memory short, every
\* invalid driver was reported or is left in the list when the handler returns
\* (driver/modules.c:461, 658).
THEOREM InvalidDriversTheorem == Spec => []InvalidDriversAccountedFor
<1>1. Init => DvInv
  BY DvStart DEF Init
<1>2. DvInv /\ [Next]_vars => DvInv'
  BY DvSteps, DvStepInv
<1> QED
  BY <1>1, <1>2, DvSafe, PTL DEF Spec

\* Whatever is in memory, and whatever processes start and end during the scan:
\* no listed process is reported, and unless the buffer filled up every process
\* that can be found and is not in the list is reported or lost to a failed
\* allocation (driver/pool.c:677).
THEOREM UnlinkedProcessesTheorem == Spec => []UnlinkedProcessesReported
<1>1. Init => PsInv
  BY PsStart DEF Init
<1>2. PsInv /\ [Next]_vars => PsInv'
  BY PsSteps, PsStepInv
<1> QED
  BY <1>1, <1>2, PsSafe, PTL DEF Spec

\* The search of the firmware and the load that asks for it need each other.
LEMMA LoadInv == Spec => [](SmInv /\ SiInv)
<1>1. Init => SmInv /\ SiInv
  BY SmStart, SiStart DEF Init
<1>2. SmInv /\ SiInv /\ [Next]_vars => SmInv' /\ SiInv'
  BY LoadSteps, SmSteps, SiSteps, SmUnchanged, SiUnchanged
<1> QED
  BY <1>1, <1>2, PTL DEF Spec

\* Whatever structures the firmware's table has, in whatever order and with
\* whatever strings: with one of the wanted type no read leaves the table, and
\* the result is a success exactly for a string that is not the last of the
\* first such structure and is shorter than the buffer, which then holds it
\* (driver/integrity.c:652).
THEOREM SmbiosStringTheorem == Spec => []SmbiosStringExact
  BY LoadInv, SmExact, PTL

\* Whatever the machine's firmware, processor and disk are: a driver that loaded
\* has the vendor and the serial number that the firmware gives for that
\* environment and the whole number of the disk, and does not run on VirtualBox
\* (driver/driver.c:649).
THEOREM IdentifiedTheorem == Spec => []LoadedMeansIdentified
  BY LoadInv, SiIdentified, PTL

\* However many handles there are and in whichever tables, and whether or not
\* the session ends in the middle of it: when the walk is over every entry it
\* could read is unlocked, handles on the protected process have lost their
\* rights and are reported with those they had; and exactly the attached
\* threads of other processes are reported (driver/callbacks.c:728,
\* driver/thread.c:79).
THEOREM ForeignAccessTheorem == Spec => []ForeignAccessReported
<1>1. Init => AccessInv
  BY AccessStart DEF Init
<1>2. AccessInv /\ [Next]_vars => AccessInv'
  BY AccessSteps, AccessStepInv
<1> QED
  BY <1>1, <1>2, AccessSafe, PTL DEF Spec

\* Whatever the times and the counter are: despite failed reads and rounding, a
\* function that takes ten times the average is flagged and one that takes no
\* longer than the average is not (driver/integrity.c:1284), and a hypervisor
\* is detected exactly when the counter stood still (driver/hv.c:26).
THEOREM TimingTheorem == Spec => []TimingVerdicts
<1> DEFINE I == EptInv /\ HvInv /\ CodeOfCheck /\ ImageCheckInv
<1>1. Init => I
  <2>1. Init => CodeOfCheck
    BY DEF Init, ImageChecksInit, CodeOfCheck
  <2> QED
    BY <2>1, EptStart, HvStart, ImageCheckStart DEF Init
<1>2. I /\ [Next]_vars => I'
  BY EptSteps, EptStepInv, IoSteps, HvStepInv, CodeOfCheckStep, ImageCheckSteps,
     ImageCheckStepInv
<1>3. I => TimingVerdicts
  <2>1. EptInv /\ ept_pc = "done" => ReadsAddUp(ept_times.control)
    BY TimesAddUp DEF EptInv
  <2> QED
    BY <2>1, EptSafe, HvSafe DEF TimingVerdicts
<1> QED
  BY <1>1, <1>2, <1>3, PTL DEF Spec
=============================================================================
