--------------------------- MODULE DriverValidation ---------------------------
(***************************************************************************)
(* Validating the driver objects of the system (HandleValidateDriversIOCTL *)
(* and what it calls, driver/modules.c, lines 191-717).  The drivers found *)
(* invalid are put on a list; then a report is made of each of the first   *)
(* MODULE_VALIDATION_FAILURE_MAX_REPORT_COUNT.                             *)
(***************************************************************************)
EXTENDS Integers, Sequences, FiniteSets, FiniteSetsExt

CONSTANTS
    Directories,    \* contents of \Driver: sequences of buckets of drivers
    ModuleLists,    \* the systems' modules
    WHITELISTED_MODULES,
    MODULE_VALIDATION_FAILURE_MAX_REPORT_COUNT

VARIABLES
    dv_pc,          \* "idle", "validate", "report" or "done"
    dv_modules,     \* SYSTEM_MODULES
    dv_directory,   \* the directory
    dv_bucket,      \* the bucket validated
    dv_entry,       \* and the driver in it
    dv_head,        \* INVALID_DRIVERS_HEAD: the list, first entry first
    dv_count,       \* INVALID_DRIVERS_HEAD.count
    dv_index,       \* the loop counter of the reports
    dv_reports,     \* entries reported
    dv_lost,        \* drivers no list entry could be allocated for
    dv_given_up,    \* buckets left after an error, or the whole directory
    dv_failures     \* reports that could not be made

dv_vars == <<dv_pc, dv_modules, dv_directory, dv_bucket, dv_entry, dv_head,
             dv_count, dv_index, dv_reports, dv_lost, dv_given_up, dv_failures>>

\* A driver object and a system module, as far as they are looked at; address 0
\* is NULL.
IsDriver(d) == d.start \in Nat /\ d.dispatch \in Nat /\ d.device \in BOOLEAN
IsModule(s) == s.base \in Nat /\ s.size \in Nat

ASSUME DriverValidationAssumption ==
    /\ MODULE_VALIDATION_FAILURE_MAX_REPORT_COUNT \in Nat
    /\ \A dir \in Directories : \A b \in 1..Len(dir) : \A i \in 1..Len(dir[b]) :
           IsDriver(dir[b][i])
    /\ \A list \in ModuleLists : \A i \in 1..Len(list) : IsModule(list[i])

Reasons == {"no_backing_module", "invalid_ioctl_dispatch"}

DriversOf(dir) == UNION {{dir[b][i] : i \in 1..Len(dir[b])} : b \in 1..Len(dir)}
AllDrivers == UNION {DriversOf(dir) : dir \in Directories}
AllModules == UNION {{list[i] : i \in 1..Len(list)} : list \in ModuleLists}
Entries == [driver : AllDrivers, reason : Reasons]

\* A directory holds a driver object once.  No two modules are loaded at the same
\* address, and a whitelisted one is loaded once.
ASSUME DirectoryAssumption ==
    /\ Directories \subseteq Seq(Seq(AllDrivers))
    /\ ModuleLists \subseteq Seq(AllModules)
    /\ \A dir \in Directories : \A b, c \in 1..Len(dir) :
           \A i \in 1..Len(dir[b]), j \in 1..Len(dir[c]) :
               dir[b][i] = dir[c][j] => b = c /\ i = j
    /\ \A list \in ModuleLists : \A i, j \in 1..Len(list) : i # j =>
           /\ list[i].base = list[j].base => list[i].base = 0
           /\ list[i].name = list[j].name => list[i].name \notin WHITELISTED_MODULES

DriverValidationTypeOK ==
    /\ dv_pc \in {"idle", "validate", "report", "done"}
    /\ dv_modules \in ModuleLists \cup {<<>>}
    /\ dv_directory \in Directories \cup {<<>>}
    /\ dv_bucket \in 1..(Len(dv_directory) + 1) /\ dv_entry \in Nat \ {0}
    /\ \A i \in 1..Len(dv_head) : dv_head[i] \in Entries
    /\ dv_count \in Nat /\ dv_index \in Nat /\ dv_failures \in Nat
    /\ dv_reports \in Seq(Entries)
    /\ dv_lost \subseteq AllDrivers
    /\ dv_given_up \in BOOLEAN

DriverValidationInit ==
    /\ dv_pc = "idle"
    /\ dv_modules = <<>> /\ dv_directory = <<>>
    /\ dv_bucket = 1 /\ dv_entry = 1
    /\ dv_head = <<>> /\ dv_count = 0 /\ dv_index = 0
    /\ dv_reports = <<>> /\ dv_lost = {}
    /\ dv_given_up = FALSE /\ dv_failures = 0

-----------------------------------------------------------------------------
\* The test of one driver.

FirstIndex(S) == IF S = {} THEN 0 ELSE Min(S)

\* An image's last address counts as one past its end.
InRegion(address, base, end) == address >= base /\ address <= end

\* The regions of the whitelisted modules that are loaded; the others stay 0..0.
PopulateWhitelistedModuleBuffer(modules) ==
    [name \in WHITELISTED_MODULES |->
        LET i == FirstIndex({j \in 1..Len(modules) : modules[j].name = name})
        IN IF i = 0 THEN [base |-> 0, end |-> 0]
           ELSE [base |-> modules[i].base, end |-> modules[i].base + modules[i].size]]

\* The first module that ends the loop: one without size or base is an error.
ValidateDriverObjectHasBackingModule(modules, d) ==
    LET i == FirstIndex({j \in 1..Len(modules) :
                 \/ modules[j].size = 0 \/ modules[j].base = 0
                 \/ modules[j].base = d.start})
    IN CASE i = 0 -> "no"
         [] i # 0 /\ (modules[i].size = 0 \/ modules[i].base = 0) -> "error"
         [] OTHER -> "yes"

ValidateDriverIOCTLDispatchRegion(modules, d) ==
    LET i == FirstIndex({j \in 1..Len(modules) : modules[j].base = d.start})
        white == PopulateWhitelistedModuleBuffer(modules)
    IN \/ d.dispatch = 0
       \/ i = 0
       \/ ~d.device
       \/ InRegion(d.dispatch, modules[i].base, modules[i].base + modules[i].size)
       \/ \E name \in WHITELISTED_MODULES :
              InRegion(d.dispatch, white[name].base, white[name].end)

\* What a driver is listed for.
Failures(modules, d) ==
    (IF ValidateDriverObjectHasBackingModule(modules, d) = "no"
     THEN <<"no_backing_module">> ELSE <<>>)
    \o (IF ValidateDriverIOCTLDispatchRegion(modules, d) THEN <<>>
        ELSE <<"invalid_ioctl_dispatch">>)

-----------------------------------------------------------------------------
\* The handler.

\* The modules are queried and the list head allocated; no memory ends it.
HandleValidateDriversIOCTL(modules, directory) ==
    /\ dv_pc = "idle"
    /\ dv_pc' = "validate"
    /\ dv_modules' = modules
    /\ \* InitDriverList
       /\ dv_head' = <<>> /\ dv_count' = 0
    /\ dv_directory' = directory /\ dv_entry' = 1
    /\ \/ dv_bucket' = 1 /\ dv_given_up' = FALSE
       \/ \* the directory cannot be opened, or no memory for the whitelist
          dv_bucket' = Len(directory) + 1 /\ dv_given_up' = TRUE
    /\ dv_index' = 0 /\ dv_reports' = <<>> /\ dv_lost' = {} /\ dv_failures' = 0

\* AddDriverToList without memory.
NoEntry(entries) ==
    /\ dv_head' = dv_head
    /\ dv_count' = dv_count

AddDriverToList(entries) ==
    /\ dv_head' = entries \o dv_head
    /\ dv_count' = dv_count + Len(entries)

\* ValidateDriverObjects: the next driver of the current bucket.  An error ends
\* the bucket.
ValidateDriverObjects ==
    /\ dv_pc = "validate"
    /\ dv_bucket <= Len(dv_directory)
    /\ dv_entry <= Len(dv_directory[dv_bucket])
    /\ LET d == dv_directory[dv_bucket][dv_entry]
           entries == [k \in 1..Len(Failures(dv_modules, d)) |->
                          [driver |-> d, reason |-> Failures(dv_modules, d)[k]]]
       IN IF ValidateDriverObjectHasBackingModule(dv_modules, d) = "error"
          THEN /\ dv_bucket' = dv_bucket + 1 /\ dv_entry' = 1
               /\ dv_given_up' = TRUE
               /\ UNCHANGED <<dv_head, dv_count, dv_lost>>
          ELSE /\ dv_entry' = dv_entry + 1
               /\ \/ AddDriverToList(entries) /\ UNCHANGED dv_lost
                  \/ /\ entries # <<>>
                     /\ NoEntry(entries)
                     /\ dv_lost' = dv_lost \cup {d}
               /\ UNCHANGED <<dv_bucket, dv_given_up>>
    /\ UNCHANGED <<dv_pc, dv_modules, dv_directory, dv_index, dv_reports,
                   dv_failures>>

\* ValidateDriverObjectsWrapper: the next bucket, or the end of the directory.
ValidateDriverObjectsWrapper ==
    /\ dv_pc = "validate"
    /\ \/ /\ dv_bucket <= Len(dv_directory)
          /\ dv_entry > Len(dv_directory[dv_bucket])
          /\ dv_bucket' = dv_bucket + 1 /\ dv_entry' = 1
          /\ UNCHANGED dv_pc
       \/ /\ dv_bucket > Len(dv_directory)
          /\ dv_pc' = IF dv_count = 0 THEN "done" ELSE "report"
          /\ UNCHANGED <<dv_bucket, dv_entry>>
    /\ UNCHANGED <<dv_modules, dv_directory, dv_head, dv_count, dv_index,
                   dv_reports, dv_lost, dv_given_up, dv_failures>>

\* Mutant: the entry of a failed report is removed too.
RemoveRegardless(index, reported) == dv_head' = Tail(dv_head)

\* RemoveInvalidDriverFromList, after a report was made and for the entries
\* beyond the limit.
RemoveInvalidDriverFromList(index, reported) ==
    IF reported \/ index >= MODULE_VALIDATION_FAILURE_MAX_REPORT_COUNT
    THEN dv_head' = Tail(dv_head) ELSE UNCHANGED dv_head

\* One iteration of the reporting loop: without memory, or when the report
\* cannot be queued, the entry stays first.
ReportInvalidDriver ==
    /\ dv_pc = "report"
    /\ dv_head # <<>>
    /\ \E reported \in BOOLEAN :
          /\ reported => dv_index < MODULE_VALIDATION_FAILURE_MAX_REPORT_COUNT
          /\ dv_reports' = IF reported THEN Append(dv_reports, dv_head[1])
                           ELSE dv_reports
          /\ dv_failures' = dv_failures +
                 (IF reported \/ dv_index >= MODULE_VALIDATION_FAILURE_MAX_REPORT_COUNT
                  THEN 0 ELSE 1)
          /\ RemoveInvalidDriverFromList(dv_index, reported)
    /\ dv_index' = dv_index + 1
    /\ dv_pc' = IF dv_index + 1 < dv_count THEN "report" ELSE "done"
    /\ UNCHANGED <<dv_modules, dv_directory, dv_bucket, dv_entry, dv_count, dv_lost,
                   dv_given_up>>

\* The head and the modules are freed; what is left on the list is not.
DriverValidationReturn ==
    /\ dv_pc = "done"
    /\ dv_pc' = "idle"
    /\ dv_modules' = <<>> /\ dv_directory' = <<>>
    /\ dv_bucket' = 1 /\ dv_entry' = 1
    /\ dv_head' = <<>> /\ dv_count' = 0 /\ dv_index' = 0
    /\ dv_reports' = <<>> /\ dv_lost' = {}
    /\ dv_given_up' = FALSE /\ dv_failures' = 0

DriverValidationStep ==
    \/ ValidateDriverObjects
    \/ ValidateDriverObjectsWrapper
    \/ ReportInvalidDriver
    \/ DriverValidationReturn

-----------------------------------------------------------------------------
\* The addresses of a module, its end included as in the code.
AddressesOf(s) == s.base..(s.base + s.size)

OutsideModules(rip, modules) ==
    \A i \in 1..Len(modules) : rip \notin AddressesOf(modules[i])

\* What makes a driver invalid, without the loops: no module starts where it
\* does, or it has a device and its dispatch routine is neither in its own
\* module nor in a whitelisted one.
NoModuleStartsAt(d) == \A i \in 1..Len(dv_modules) : dv_modules[i].base # d.start

DispatchesElsewhere(d) ==
    /\ d.dispatch # 0 /\ d.device /\ ~NoModuleStartsAt(d)
    /\ \A i \in 1..Len(dv_modules) :
           dv_modules[i].base = d.start \/ dv_modules[i].name \in WHITELISTED_MODULES
           => d.dispatch \notin AddressesOf(dv_modules[i])

InvalidFor(d, reason) ==
    IF reason = "no_backing_module" THEN NoModuleStartsAt(d)
    ELSE DispatchesElsewhere(d)

\* The list has an entry for every iteration of the reporting loop, which reads
\* head->first_entry without a test (driver/modules.c:686), also when list
\* entries could not be allocated and reports could not be made.  Every driver
\* on it, and every driver reported, is invalid for the reason given and is
\* listed or reported once, although the two tests of a driver share one flag
\* (ValidateDriverObjects, driver/modules.c:461).  When the handler returns, each
\* iteration within the limit has either made a report or left one entry behind,
\* and unless an error ended a bucket, memory ran out or the limit was passed,
\* every invalid driver is one of those (HandleValidateDriversIOCTL,
\* driver/modules.c:658-711).
InvalidDriversAccountedFor ==
    LET entries == dv_head \o dv_reports
        limit == MODULE_VALIDATION_FAILURE_MAX_REPORT_COUNT
    IN /\ dv_pc = "report" => dv_head # <<>>
       /\ \A i \in 1..Len(entries) : InvalidFor(entries[i].driver, entries[i].reason)
       /\ \A i, j \in 1..Len(entries) :
              i # j => entries[i].driver # entries[j].driver
       /\ dv_pc = "done" =>
              /\ Len(dv_head) = dv_failures
              /\ Len(entries) = Min({dv_count, limit})
              /\ ~dv_given_up /\ dv_count <= limit =>
                     \A d \in DriversOf(dv_directory) \ dv_lost :
                         (\E reason \in Reasons : InvalidFor(d, reason)) =>
                             \E i \in 1..Len(entries) : entries[i].driver = d
=============================================================================
