------------------------------- MODULE IoControl ------------------------------
(***************************************************************************)
(* DeviceControl, from the arrival of a request to its completion, with    *)
(* the buffer its handler may fill (driver/io.c, lines 645-1067) and the   *)
(* two handlers that only fill it: the hypervisor tests (driver/hv.c) and  *)
(* the hardware information.                                               *)
(***************************************************************************)
EXTENDS Integers, FiniteSets

CONSTANTS
    BufferLengths,      \* lengths of the client's input and output buffers
    ReportSizes,        \* sizes of deferred reports
    HalfWord,           \* 2^32
    Counters,           \* values of the APERF counter
    Cycles              \* and by how much it advances between two reads

ASSUME IoAssumption == BufferLengths \subseteq Nat /\ ReportSizes \subseteq Nat \ {0}
                       /\ HalfWord \in Nat \ {0} /\ Counters \subseteq Nat /\ Cycles \subseteq Nat

\* Sizes of the structures, in units that keep their order.
SizeOfULong == 1
SizeOfHypervisorReport == 1
SizeOfMappingInit == 2
SizeOfSystemInformation == 3
SizeOfProcessModuleInformation == 2

\* The codes of DeviceControl's switch that only call their handler.
ScanCodes == {"unlinked", "integrity", "attached", "loaded_module"}
SystemCodes == {"ept", "dpc", "elsewhere"}
LastCodes == {"pci", "invalid"}

\* The control codes by the part of the driver that handles them.  `elsewhere'
\* stands for the codes whose handlers the other specifications model, and
\* which leave this request alone; `invalid' for any other code.
Codes == {"drivers", "virtualization", "handle_tables", "regions", "image_size",
          "hardware", "nmi", "insert_irp", "mapping", "launch"}
         \cup ScanCodes \cup SystemCodes \cup LastCodes

\* The codes whose handlers look at a buffer; with the others the client passes
\* none (module/kernel_interface/kernel_interface.cpp).
BufferCodes == {"virtualization", "regions", "image_size", "loaded_module",
                "hardware", "insert_irp", "mapping"}

VARIABLES
    io_pc,          \* "idle", "dispatch", "handler" or "returned"
    io_code,        \* Parameters.DeviceIoControl.IoControlCode
    io_input,       \* Parameters.DeviceIoControl.InputBufferLength
    io_length,      \* Parameters.DeviceIoControl.OutputBufferLength
    io_written,     \* initialised bytes at the start of the system buffer
    io_information, \* Irp->IoStatus.Information
    io_completed,   \* times the request was completed
    io_parked,      \* is the request in the IRP queue?
    io_unwaited,    \* did the wait for the thread that uses the request fail?
    hv_reads,       \* the APERF counter before and after the CPUID
    hv_detected     \* HYPERVISOR_DETECTION_REPORT.aperf_msr_timing_check

io_vars == <<io_pc, io_code, io_input, io_length, io_written, io_information,
             io_completed, io_parked, io_unwaited, hv_reads, hv_detected>>
hv_vars == <<hv_reads, hv_detected>>

NoCode == "none"

IoTypeOK ==
    /\ io_pc \in {"idle", "dispatch", "handler", "returned"}
    /\ io_code \in Codes \cup {NoCode}
    /\ io_input \in Nat /\ io_length \in Nat /\ io_written \in Nat
    /\ io_information \in Nat /\ io_completed \in Nat
    /\ io_parked \in BOOLEAN /\ io_unwaited \in BOOLEAN
    /\ hv_reads \in Nat \X Nat /\ hv_detected \in BOOLEAN

IoInit ==
    /\ io_pc = "idle" /\ io_code = NoCode /\ io_input = 0 /\ io_length = 0
    /\ io_written = 0 /\ io_information = 0 /\ io_completed = 0
    /\ io_parked = FALSE /\ io_unwaited = FALSE /\ hv_reads = <<0, 0>> /\ hv_detected = FALSE

\* A request arrives.  The I/O manager fills the system buffer with the input;
\* what follows it is not initialised.  Without a session only the launch of
\* the protected process goes on, the rest is completed at once.
DeviceControl(code, input, length, session) ==
    /\ io_pc = "idle"
    /\ code \notin BufferCodes => input = 0 /\ length = 0
    /\ io_code' = code /\ io_input' = input /\ io_length' = length
    /\ io_written' = input /\ io_information' = 0
    /\ io_parked' = FALSE /\ io_unwaited' = FALSE
    /\ IF session \/ code = "launch"
       THEN io_pc' = "dispatch" /\ io_completed' = 0
       ELSE io_pc' = "returned" /\ io_completed' = 1
    /\ UNCHANGED hv_vars

\* The handler of this code is called.
Dispatch(code) ==
    /\ io_pc = "dispatch" /\ io_code = code
    /\ io_pc' = "handler"
    /\ UNCHANGED <<io_code, io_input, io_length, io_written, io_information,
                   io_completed, io_parked, io_unwaited, hv_vars>>

\* Mutant: the buffer is cleared but its length is not tested.
FitsAlways(size) == TRUE

Fits(size) == io_length >= size

\* The buffer is cleared to the size of the answer, which is what the client
\* gets back.  A buffer that is too small is left alone.
ValidateIrpOutputBuffer(size) ==
    IF Fits(size)
    THEN /\ io_written' = IF size > io_written THEN size ELSE io_written
         /\ io_information' = size
    ELSE UNCHANGED <<io_written, io_information>>

ValidateIrpInputBuffer(size) == io_input = size

\* A handler that may answer with `size' bytes and does nothing else that this
\* specification sees.
AnswerWith(code, size) ==
    /\ io_pc = "dispatch" /\ io_code = code
    /\ ValidateIrpOutputBuffer(size)
    /\ io_pc' = "handler"
    /\ UNCHANGED <<io_code, io_input, io_length, io_completed, io_parked,
                   io_unwaited, hv_vars>>

RequestHardwareInformation == AnswerWith("hardware", SizeOfSystemInformation)

SharedMappingInitialise == AnswerWith("mapping", SizeOfMappingInit)

\* Codes handled without touching this request's buffer, and the two that need a
\* thread when none can be created.
OtherCode ==
    \E code \in {"elsewhere", "launch", "invalid", "drivers", "regions"} :
        Dispatch(code)

\* A deferred report, if there is one that fits, is copied and the request completed by
\* IrpQueueQueryPendingReports; otherwise the request is queued.  Either way
\* DeviceControl returns without completing it.
InsertIrpIntoQueue ==
    /\ io_pc = "dispatch" /\ io_code = "insert_irp"
    /\ \/ /\ \E size \in ReportSizes : Fits(size) /\ ValidateIrpOutputBuffer(size)
          /\ io_completed' = 1
          /\ UNCHANGED io_parked
       \/ io_parked' = TRUE /\ UNCHANGED <<io_written, io_information, io_completed>>
    /\ io_pc' = "returned"
    /\ UNCHANGED <<io_code, io_input, io_length, io_unwaited, hv_vars>>

\* The APERF counter is read before and after a CPUID; each value is shifted
\* left by half a word, so only the low halves are compared.
APERFMsrTimingCheck(before, after) ==
    LET word == HalfWord * HalfWord
        low(value) == (value * HalfWord) % word
    IN (low(after) - low(before)) % word = 0

\* PerformVirtualizationDetection: with room for the report the tests run.
PerformVirtualizationDetection ==
    /\ io_pc = "dispatch" /\ io_code = "virtualization"
    /\ ValidateIrpOutputBuffer(SizeOfHypervisorReport)
    /\ \E before \in Counters, cycles \in Cycles :
           /\ hv_reads' = <<before, before + cycles>>
           /\ hv_detected' = (Fits(SizeOfHypervisorReport)
                              /\ APERFMsrTimingCheck(before, before + cycles))
    /\ io_pc' = "handler"
    /\ UNCHANGED <<io_code, io_input, io_length, io_completed, io_parked, io_unwaited>>

\* RetrieveInMemoryModuleExecutableSections runs on a thread of its own, which
\* is waited for only if a reference to it could be taken.
WaitForThread ==
    /\ io_pc = "dispatch" /\ io_code = "regions"
    /\ \/ io_pc' = "handler" /\ UNCHANGED <<io_completed, io_unwaited>>
       \/ io_pc' = "returned" /\ io_completed' = 1 /\ io_unwaited' = TRUE
    /\ UNCHANGED <<io_code, io_input, io_length, io_written, io_information,
                   io_parked, hv_vars>>

\* The end of DeviceControl: the handler has returned.
IoCompleteRequest ==
    /\ io_pc = "handler"
    /\ io_completed' = io_completed + 1
    /\ io_pc' = "returned"
    /\ UNCHANGED <<io_code, io_input, io_length, io_written, io_information,
                   io_parked, io_unwaited, hv_vars>>

\* The request is the client's again, or the queue's: IrpQueue follows it there.
RequestIsOver ==
    /\ io_pc = "returned"
    /\ io_pc' = "idle" /\ io_code' = NoCode /\ io_input' = 0 /\ io_length' = 0
    /\ io_written' = 0 /\ io_information' = 0 /\ io_completed' = 0
    /\ io_parked' = FALSE /\ io_unwaited' = FALSE
    /\ hv_reads' = <<0, 0>> /\ hv_detected' = FALSE

-----------------------------------------------------------------------------
\* The client gets back only bytes that its input or the handler put into the
\* buffer, none of them beyond its end, and a request is completed once or is in
\* the queue, whichever way its handler failed (ValidateIrpOutputBuffer,
\* driver/io.c:665).
RequestAnswered ==
    /\ io_information <= io_written
    /\ io_written <= io_input \/ io_written <= io_length
    /\ io_pc = "returned" => io_completed = IF io_parked THEN 0 ELSE 1
=============================================================================
