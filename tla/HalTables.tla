------------------------------- MODULE HalTables ------------------------------
(***************************************************************************)
(* Validating the HAL's dispatch tables (driver/modules.c, lines           *)
(* 1476-1802) and looking for EPT hooks by the time it takes to read a     *)
(* function (driver/integrity.c, lines 1142-1351).                         *)
(***************************************************************************)
EXTENDS DriverValidation

CONSTANTS
    HalDispatchTables,  \* contents of HalDispatchTable: sequences of addresses
    HalPrivateTables,   \* contents of HalPrivateDispatchTable
    ControlTimes,       \* average read times of the control functions; 0 fails
    ProtectedTimes      \* and of the protected ones

\* The kernel's exported HAL routines are set.
ASSUME HalAssumption ==
    /\ HalDispatchTables \subseteq Seq(Nat \ {0}) /\ HalPrivateTables \subseteq Seq(Nat)
    /\ \A table \in HalDispatchTables : Len(table) > 0
    /\ ControlTimes \subseteq Seq(Nat) /\ ProtectedTimes \subseteq Seq(Nat)

VARIABLES
    hal_pc,         \* "idle", "dispatch", "private" or "done"
    hal_modules,
    hal_table,      \* the two tables
    hal_index,      \* the routine the loop is at
    hal_routine,    \* *Routine: the invalid routine to be reported, or 0
    hal_status,     \* NTSTATUS of the last call, as success or not
    hal_reports,    \* table and routine of the reports, and if they were queued
    ept_pc,         \* "idle", "measure" or "done"
    ept_times,      \* control and protected read times
    ept_flagged     \* protected functions found hooked

hal_vars == <<hal_pc, hal_modules, hal_table, hal_index, hal_routine, hal_status,
              hal_reports>>
ept_vars == <<ept_pc, ept_times, ept_flagged>>

NoTables == [dispatch |-> <<>>, private |-> <<>>]
NoTimes == [control |-> <<>>, protected |-> <<>>]

HalTypeOK ==
    /\ hal_pc \in {"idle", "dispatch", "private", "done"}
    /\ hal_index \in Nat /\ hal_routine \in Nat
    /\ hal_status \in BOOLEAN
    /\ hal_reports \subseteq ({"HalDispatch", "HalPrivateDispatch"} \X Nat \X BOOLEAN)
    /\ ept_pc \in {"idle", "measure", "done"}
    /\ ept_flagged \subseteq 1..Len(ept_times.protected)

HalInit ==
    /\ hal_pc = "idle" /\ hal_modules = <<>> /\ hal_table = NoTables
    /\ hal_index = 1 /\ hal_routine = 0 /\ hal_status = FALSE /\ hal_reports = {}
    /\ ept_pc = "idle" /\ ept_times = NoTimes /\ ept_flagged = {}

\* TRUE, despite its name, for an address inside some module.
IsInstructionPointerInInvalidRegion(rip, modules) ==
    \E i \in 1..Len(modules) :
        InRegion(rip, modules[i].base, modules[i].base + modules[i].size)

\* The modules are queried; without them nothing is validated.
ValidateHalDispatchTables(modules, dispatch, private) ==
    /\ hal_pc = "idle"
    /\ hal_pc' = "dispatch"
    /\ hal_modules' = modules
    /\ hal_table' = [dispatch |-> dispatch, private |-> private]
    /\ hal_index' = 1 /\ hal_routine' = 0 /\ hal_status' = FALSE
    /\ hal_reports' = {}

\* ReportDataTableInvalidRoutine: the report is queued, or there is no memory.
ReportDataTableInvalidRoutine(table, routine) ==
    \E queued \in BOOLEAN :
        hal_reports' = hal_reports \cup {<<table, routine, queued>>}

\* The verdict on one table, and what is done with it.
FinishTable(table, next, routine, status) ==
    /\ IF status /\ routine # 0 THEN ReportDataTableInvalidRoutine(table, routine)
       ELSE UNCHANGED hal_reports
    /\ hal_pc' = IF status THEN next ELSE "done"
    /\ hal_index' = 1 /\ hal_routine' = 0 /\ hal_status' = FALSE

\* A routine inside a module ends the validation of HalDispatchTable: the tests
\* return unless `!flag'.
EndsHalDispatch(rip) ==
    rip = 0 \/ IsInstructionPointerInInvalidRegion(rip, hal_modules)

\* ValidateHalDispatchTable: the next exported routine.
ValidateHalDispatchTable ==
    /\ hal_pc = "dispatch"
    /\ LET n == Len(hal_table.dispatch)
           rip == hal_table.dispatch[hal_index]
       IN IF EndsHalDispatch(rip)
          THEN FinishTable("HalDispatch", "private", hal_routine, rip # 0)
          ELSE IF hal_index = n THEN FinishTable("HalDispatch", "private", rip, TRUE)
          ELSE /\ hal_routine' = rip /\ hal_status' = TRUE
               /\ hal_index' = hal_index + 1
               /\ UNCHANGED <<hal_pc, hal_reports>>
    /\ UNCHANGED <<hal_modules, hal_table>>

\* Mutant: a routine inside a module clears the one found before it.
KeepLatestVerdict(rip) ==
    IF IsInstructionPointerInInvalidRegion(rip, hal_modules) THEN 0 ELSE rip

KeepInvalidRoutine(rip) ==
    IF IsInstructionPointerInInvalidRegion(rip, hal_modules) THEN hal_routine ELSE rip

\* ValidateTableDispatchRoutines on HalPrivateDispatchTable: every entry that is
\* not NULL.
ValidateHalPrivateDispatchTable ==
    /\ hal_pc = "private"
    /\ IF hal_index > Len(hal_table.private)
       THEN FinishTable("HalPrivateDispatch", "done", hal_routine, hal_status)
       ELSE /\ hal_index' = hal_index + 1
            /\ IF hal_table.private[hal_index] = 0
               THEN UNCHANGED <<hal_routine, hal_status>>
               ELSE /\ hal_routine' = KeepInvalidRoutine(hal_table.private[hal_index])
                    /\ hal_status' = TRUE
            /\ UNCHANGED <<hal_pc, hal_reports>>
    /\ UNCHANGED <<hal_modules, hal_table>>

HalReturn ==
    /\ hal_pc = "done"
    /\ hal_pc' = "idle" /\ hal_modules' = <<>> /\ hal_table' = NoTables
    /\ hal_index' = 1 /\ hal_routine' = 0 /\ hal_status' = FALSE
    /\ hal_reports' = {}

HalStep ==
    ValidateHalDispatchTable \/ ValidateHalPrivateDispatchTable \/ HalReturn

-----------------------------------------------------------------------------
EPT_EXECUTION_TIME_MULTIPLIER == 10

SumOf(times) ==
    LET sum[i \in 0..Len(times)] == IF i = 0 THEN 0 ELSE sum[i - 1] + times[i]
    IN sum[Len(times)]
ReadsOf(times) == Cardinality({i \in 1..Len(times) : times[i] # 0})

\* Mutant: failed reads count as reads.
AverageOverAll(times) == SumOf(times) \div Len(times)

\* The average over the reads that did not fail; 0 when all did.
ControlAverage(times) ==
    IF SumOf(times) = 0 THEN 0 ELSE SumOf(times) \div ReadsOf(times)

\* The routine addresses are looked up, which may fail and ends it.
DetectEptHooksInKeyFunctions(control, protected) ==
    /\ ept_pc = "idle"
    /\ ept_pc' = "measure"
    /\ ept_times' = [control |-> control, protected |-> protected]
    /\ ept_flagged' = {}

\* The control functions are measured, then each protected function is compared
\* with their average.
CompareReadTimes ==
    /\ ept_pc = "measure"
    /\ LET average == ControlAverage(ept_times.control)
       IN ept_flagged' = IF average = 0 THEN {} ELSE
              {i \in 1..Len(ept_times.protected) :
                  average * EPT_EXECUTION_TIME_MULTIPLIER < ept_times.protected[i]}
    /\ ept_pc' = "done"
    /\ UNCHANGED ept_times

EptReturn ==
    /\ ept_pc = "done"
    /\ ept_pc' = "idle" /\ ept_times' = NoTimes /\ ept_flagged' = {}

EptStep == CompareReadTimes \/ EptReturn
=============================================================================
