--------------------------- MODULE SystemInformation --------------------------
(***************************************************************************)
(* What the driver finds out about the machine while it loads              *)
(* (DrvLoadGatherSystemEnvironmentSettings, driver/driver.c, lines         *)
(* 527-699, and GetHardDiskDriveSerialNumber, driver/integrity.c, lines    *)
(* 1000-1107).  A driver that cannot find out does not load.               *)
(***************************************************************************)
EXTENDS Smbios, IoControl

CONSTANTS
    Machines,           \* [table, cpuid, drive]: firmware, vendor string, disk
    VmwareVendor,       \* "VMware, Inc"
    VirtualBoxVendor,   \* "innotek GmbH"
    VENDOR_STRING_MAX_LENGTH,
    MOTHERBOARD_SERIAL_CODE_LENGTH,
    DEVICE_DRIVE_0_SERIAL_CODE_LENGTH

ASSUME SystemInformationAssumption ==
    /\ \A machine \in Machines : IsFirmware(machine.table) /\ machine.drive \in Seq(Nat)
    /\ VENDOR_STRING_MAX_LENGTH \in Nat /\ MOTHERBOARD_SERIAL_CODE_LENGTH \in Nat
    /\ DEVICE_DRIVE_0_SERIAL_CODE_LENGTH \in Nat

\* What ParseSMBIOSTable is asked for: structure type, string and buffer size.
VendorRequest == [type |-> 0, index |-> 1, size |-> VENDOR_STRING_MAX_LENGTH]
NativeSerialRequest == [type |-> 2, index |-> 4, size |-> MOTHERBOARD_SERIAL_CODE_LENGTH]
VmwareSerialRequest == [type |-> 1, index |-> 3, size |-> MOTHERBOARD_SERIAL_CODE_LENGTH]

VARIABLES
    si_pc,          \* "aperf", "os", "processor", "vendor", "serial", "drive",
                    \* "loaded", "ready" or "failed"
    si_machine,
    si_info         \* DRIVER_CONFIG.system_information

si_vars == <<si_pc, si_machine, si_info>>

NoMachine == [table |-> <<>>, cpuid |-> "none", drive |-> <<>>]
EmptyInfo == [virtualised |-> FALSE, processor |-> "none", vendor |-> <<>>,
              environment |-> "none", serial |-> <<>>, drive |-> <<>>]

SystemInformationTypeOK ==
    /\ si_pc \in {"aperf", "os", "processor", "vendor", "serial", "drive",
                  "loaded", "ready", "failed"}
    /\ si_machine \in Machines \cup {NoMachine}
    /\ si_info.environment \in {"none", "NativeWindows", "Vmware", "VirtualBox"}
    /\ si_info.processor \in {"none", "GenuineIntel", "AuthenticAmd", "Unknown"}

SystemInformationInit ==
    /\ si_pc = "aperf" /\ si_machine = NoMachine /\ si_info = EmptyInfo

\* DrvLoadGatherSystemEnvironmentSettings begins, on some machine.
TestVirtualised ==
    /\ si_pc = "aperf"
    /\ \E before \in Counters, cycles \in Cycles :
           si_info' = [si_info EXCEPT !.virtualised =
                          APERFMsrTimingCheck(before, before + cycles)]
    /\ si_pc' = "os" /\ si_machine' \in Machines
    /\ UNCHANGED sm_vars

GetOsVersionInformation ==
    /\ si_pc = "os"
    /\ si_pc' \in {"processor", "failed"}
    /\ UNCHANGED <<si_machine, si_info, sm_vars>>

\* The two names are stored crosswise.
GetSystemProcessorType ==
    /\ si_pc = "processor"
    /\ LET type == CASE si_machine.cpuid = "AuthenticAMD" -> "GenuineIntel"
                     [] si_machine.cpuid = "GenuineIntel" -> "AuthenticAmd"
                     [] OTHER -> "Unknown"
       IN /\ si_info' = [si_info EXCEPT !.processor = type]
          /\ si_pc' = IF type = "Unknown" THEN "failed" ELSE "vendor"
    /\ UNCHANGED <<si_machine, sm_vars>>

\* strstr
StrStr(string, part) ==
    \E i \in 1..(Len(string) - Len(part) + 1) :
        SubSeq(string, i, i + Len(part) - 1) = part

EnvironmentOf(vendor) ==
    IF StrStr(vendor, VmwareVendor) THEN "Vmware"
    ELSE IF StrStr(vendor, VirtualBoxVendor) THEN "VirtualBox" ELSE "NativeWindows"

\* Mutant: every machine is asked for the native serial number.
AlwaysNative(environment) == NativeSerialRequest

SerialRequest(environment) ==
    IF environment = "Vmware" THEN VmwareSerialRequest ELSE NativeSerialRequest

\* ParseSmbiosForGivenSystemEnvironment: the firmware table is read for the
\* vendor, then for the serial number of that environment.  There may be no
\* table, or no memory for it.
AskFirmware ==
    \/ /\ \/ si_pc = "vendor" /\ ParseSMBIOSTable(si_machine.table, VendorRequest)
          \/ /\ si_pc = "serial"
             /\ ParseSMBIOSTable(si_machine.table, SerialRequest(si_info.environment))
       /\ UNCHANGED si_vars
    \/ /\ si_pc \in {"vendor", "serial"} /\ sm_pc = "idle"
       /\ si_pc' = "failed"
       /\ UNCHANGED <<si_machine, si_info, sm_vars>>

TakeVendor ==
    /\ si_pc = "vendor" /\ sm_pc = "done"
    /\ LET environment == EnvironmentOf(sm_buffer)
       IN IF sm_status # "success"
          THEN si_pc' = "failed" /\ UNCHANGED si_info
          ELSE /\ si_info' = [si_info EXCEPT !.vendor = sm_buffer,
                                             !.environment = environment]
               /\ si_pc' = IF environment = "VirtualBox" THEN "failed" ELSE "serial"
    /\ SmbiosReturn
    /\ UNCHANGED si_machine

TakeSerial ==
    /\ si_pc = "serial" /\ sm_pc = "done"
    /\ IF sm_status # "success"
       THEN si_pc' = "failed" /\ UNCHANGED si_info
       ELSE si_info' = [si_info EXCEPT !.serial = sm_buffer] /\ si_pc' = "drive"
    /\ SmbiosReturn
    /\ UNCHANGED si_machine

\* GetHardDiskDriveSerialNumber.  The disk may not answer; one without a serial
\* number leaves the field empty; one that does not fit with its terminator is
\* an error.
GetHardDiskDriveSerialNumber ==
    /\ si_pc = "drive"
    /\ \/ si_pc' = "failed" /\ UNCHANGED si_info
       \/ LET n == Min({Len(si_machine.drive), DEVICE_DRIVE_0_SERIAL_CODE_LENGTH})
          IN IF n + 1 > DEVICE_DRIVE_0_SERIAL_CODE_LENGTH
             THEN si_pc' = "failed" /\ UNCHANGED si_info
             ELSE /\ si_info' = [si_info EXCEPT !.drive = si_machine.drive]
                  /\ si_pc' = "loaded"
    /\ UNCHANGED <<si_machine, sm_vars>>

\* The walk and the search of the firmware table, up to their result.
SearchFirmware ==
    /\ si_pc \in {"vendor", "serial"}
    /\ NextStructure \/ GetStringAtIndexFromSMBIOSTable
    /\ UNCHANGED si_vars

\* The end of DriverEntry.  Nothing that follows depends on what was found, and
\* the specification forgets it.
DriverEntryReturns ==
    /\ si_pc = "loaded"
    /\ si_pc' = "ready" /\ si_info' = EmptyInfo
    /\ si_machine' = NoMachine
    /\ UNCHANGED sm_vars

SystemInformationStep ==
    \/ TestVirtualised \/ GetOsVersionInformation \/ GetSystemProcessorType
    \/ AskFirmware \/ SearchFirmware \/ TakeVendor \/ TakeSerial
    \/ GetHardDiskDriveSerialNumber \/ DriverEntryReturns

-----------------------------------------------------------------------------
\* A driver that loaded knows the machine: the vendor is the firmware's, the
\* serial number comes from the structure that holds it in that environment, and
\* the number of the disk is whole; a machine of VirtualBox is not loaded on
\* (DrvLoadGatherSystemEnvironmentSettings, driver/driver.c:649).
LoadedMeansIdentified ==
    si_pc = "loaded" =>
        LET table == si_machine.table
            vendor == StringsOf(table, VendorRequest.type)[VendorRequest.index]
            serial == IF StrStr(vendor, VmwareVendor) THEN VmwareSerialRequest
                      ELSE NativeSerialRequest
        IN /\ si_info.vendor = vendor
           /\ serial.index <= Len(StringsOf(table, serial.type))
           /\ si_info.serial = StringsOf(table, serial.type)[serial.index]
           /\ si_info.drive = si_machine.drive
           /\ StrStr(vendor, VirtualBoxVendor) => StrStr(vendor, VmwareVendor)
=============================================================================
