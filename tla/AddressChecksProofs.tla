------------------------ MODULE AddressChecksProofs ------------------------
(***************************************************************************)
(* The inductive invariants of the checks of addresses: stacks captured by *)
(* DPCs, the tables of the HAL, the dispatch routines of drivers; and of   *)
(* the timed reads of their pages.  Each is proved of the steps of its own *)
(* component.  KernelChecksProofs shows that a step of the driver is such  *)
(* a step and draws the conclusions.                                       *)
(***************************************************************************)
EXTENDS DpcStackwalk, FiniteSetTheorems, TLAPS

\* Zenon first: it needs far less time than the translation for SMT.
USE ZenonT(10), SMTT(30)

-----------------------------------------------------------------------------
(* Stacks captured by DPCs.                                                *)

DpcNext ==
    \/ \E modules \in ModuleLists : DispatchStackwalkToEachCpuViaDpc(modules)
    \/ DpcWalkStep

LEMMA MinOfTwo ==
    ASSUME NEW a \in Int, NEW b \in Int
    PROVE  Min({a, b}) = IF a <= b THEN a ELSE b
<1> DEFINE m == IF a <= b THEN a ELSE b
<1>1. m \in {a, b} /\ \A y \in {a, b} : m <= y
  OBVIOUS
<1>2. \A x \in {a, b} : (\A y \in {a, b} : x <= y) => x = m
  OBVIOUS
<1> QED
  BY <1>1, <1>2 DEF Min

\* The test of an address tells the addresses inside a module from the others.
LEMMA RegionTest ==
    ASSUME NEW modules \in ModuleLists \cup {<<>>}, NEW rip \in Nat
    PROVE  IsInstructionPointerInInvalidRegion(rip, modules) <=> ~OutsideModules(rip, modules)
<1>1. \A i \in 1..Len(modules) : modules[i].base \in Nat /\ modules[i].size \in Nat
  BY DriverValidationAssumption DEF IsModule
<1>2. \A i \in 1..Len(modules) :
          InRegion(rip, modules[i].base, modules[i].base + modules[i].size)
              <=> rip \in AddressesOf(modules[i])
  BY <1>1 DEF InRegion, AddressesOf
<1> QED
  BY <1>2 DEF IsInstructionPointerInInvalidRegion, OutsideModules

LEMMA CapturedIsSeq ==
    ASSUME NEW stack \in Stacks
    PROVE  Captured(stack) \in Seq(Nat)
<1> DEFINE skip == DPC_STACKWALK_FRAMES_TO_SKIP
           last == skip + DPC_STACKWALK_STACKFRAME_COUNT
<1>1. stack \in Seq(Nat) /\ skip \in Nat /\ last \in Nat /\ Len(stack) \in Nat
  BY DpcAssumption
<1> DEFINE n == Min({Len(stack), last})
<1>2. n \in Int /\ n <= Len(stack)
  BY <1>1, MinOfTwo
<1> HIDE DEF n
<1>3. \A i \in (skip + 1)..n : stack[i] \in Nat
  BY <1>1, <1>2
<1>4. SubSeq(stack, skip + 1, n) \in Seq(Nat)
  BY <1>1, <1>2, <1>3
<1> QED
  BY <1>4 DEF Captured, n

\* A routine that has yet to write into its context is there only while the
\* thread waits; one whose flag is set has written.
DpcInv ==
    /\ dpc_pc \in {"idle", "modules", "call", "spin", "validate", "free"}
    /\ dpc_routine \in [Processors -> {"none", "queued", "captured", "executed", "signalled"}]
    /\ dpc_executed \in [Processors -> BOOLEAN]
    /\ \A k \in Processors : dpc_executed[k] => dpc_routine[k] \notin {"queued", "captured"}
    /\ \A k \in Processors :
           dpc_routine[k] \in {"queued", "captured"} => dpc_pc = "spin" /\ dpc_context
    /\ dpc_pc \in {"idle", "modules", "call"} => \A k \in Processors : ~dpc_executed[k]
    /\ dpc_pc # "idle" => dpc_context
    /\ dpc_context \in BOOLEAN

LEMMA DpcStart == DpcInit => DpcInv
<1> SUFFICES ASSUME DpcInit PROVE DpcInv
  OBVIOUS
<1> QED
  BY DEF DpcInit, DpcInv

LEMMA DpcStepInv ==
    ASSUME DpcInv, [DpcNext]_dpc_vars
    PROVE  DpcInv'
<1> USE DEF DpcInv
<1>1. ASSUME NEW modules \in ModuleLists, DispatchStackwalkToEachCpuViaDpc(modules)
      PROVE  DpcInv'
  BY <1>1 DEF DispatchStackwalkToEachCpuViaDpc, dpc_vars
<1>2. CASE QueryModulesForDpc
  BY <1>2 DEF QueryModulesForDpc
<1>3. CASE KeGenericCallDpc
  BY <1>3 DEF KeGenericCallDpc
<1>4. ASSUME NEW k \in Processors, DpcStackwalkCallbackRoutine(k)
      PROVE  DpcInv'
  BY <1>4 DEF DpcStackwalkCallbackRoutine
<1>5. CASE WaitForDpcs
  BY <1>5 DEF WaitForDpcs, CheckForDpcCompletion
<1>6. CASE ValidateDpcCapturedStack
  BY <1>6 DEF ValidateDpcCapturedStack
<1>7. CASE FreeDpcContexts
  BY <1>7 DEF FreeDpcContexts
<1>8. CASE UNCHANGED dpc_vars
  BY <1>8 DEF dpc_vars
<1> QED
  BY <1>1, <1>2, <1>3, <1>4, <1>5, <1>6, <1>7, <1>8 DEF DpcNext, DpcWalkStep

LEMMA DpcSafe == DpcInv => DpcFramesSettled
BY DEF DpcInv, DpcFramesSettled

DpcFound == dpc_reports \cup dpc_dropped

\* The frames before the one the validation is at.
Validated(k, i) == k < dpc_core \/ (k = dpc_core /\ i < dpc_frame)

\* While the frames are validated, what was reported or lost is outside every
\* module, and every frame outside that the loops have passed is among it.
DpcReportInv ==
    /\ dpc_modules \in ModuleLists \cup {<<>>}
    /\ dpc_frames \in [Processors -> Seq(Nat)]
    /\ dpc_core \in 0..ProcessorCount /\ dpc_frame \in Nat \ {0}
    /\ dpc_pc \in {"idle", "modules", "call"} => \A k \in Processors : dpc_frames[k] = <<>>
    /\ dpc_pc \in {"idle", "modules", "call", "spin"} =>
           DpcFound = {} /\ dpc_core = 0 /\ dpc_frame = 1
    /\ dpc_pc \in {"validate", "free"} =>
           \A rip \in DpcFound :
               /\ OutsideModules(rip, dpc_modules)
               /\ \E k \in Processors : \E i \in 1..Len(dpc_frames[k]) : dpc_frames[k][i] = rip
    /\ dpc_pc = "validate" =>
           \A k \in Processors : \A i \in 1..Len(dpc_frames[k]) :
               Validated(k, i) /\ OutsideModules(dpc_frames[k][i], dpc_modules)
                   => dpc_frames[k][i] \in DpcFound
    /\ dpc_pc = "free" =>
           \A k \in Processors : \A i \in 1..Len(dpc_frames[k]) :
               OutsideModules(dpc_frames[k][i], dpc_modules) => dpc_frames[k][i] \in DpcFound

LEMMA DpcReportStart == DpcInit => DpcReportInv
<1> SUFFICES ASSUME DpcInit PROVE DpcReportInv
  OBVIOUS
<1>1. ProcessorCount \in Nat
  BY DpcAssumption
<1> QED
  BY <1>1 DEF DpcInit, DpcReportInv, DpcFound

LEMMA DpcReportStepInv ==
    ASSUME DpcReportInv, DpcInv, [DpcNext]_dpc_vars
    PROVE  DpcReportInv'
<1>0. ProcessorCount \in Nat
  BY DpcAssumption
<1>1. ASSUME NEW modules \in ModuleLists, DispatchStackwalkToEachCpuViaDpc(modules)
      PROVE  DpcReportInv'
  BY <1>1 DEF DispatchStackwalkToEachCpuViaDpc, dpc_vars, DpcReportInv, DpcFound, Validated
<1>2. CASE QueryModulesForDpc
  BY SMTT(30), <1>2 DEF QueryModulesForDpc, DpcReportInv, DpcFound, Validated
<1>3. CASE KeGenericCallDpc
  BY <1>3 DEF KeGenericCallDpc, DpcReportInv, DpcFound, Validated
<1>4. ASSUME NEW k \in Processors, DpcStackwalkCallbackRoutine(k)
      PROVE  DpcReportInv'
  <2>1. CASE dpc_routine[k] = "queued"
    <3>1. PICK stack \in Stacks : dpc_frames' = [dpc_frames EXCEPT ![k] = Captured(stack)]
      BY <1>4, <2>1 DEF DpcStackwalkCallbackRoutine
    <3>2. dpc_frames' \in [Processors -> Seq(Nat)]
      BY <3>1, CapturedIsSeq DEF DpcReportInv
    <3>3. dpc_pc = "spin"
      BY <2>1 DEF DpcInv
    <3> QED
      BY <1>4, <3>2, <3>3 DEF DpcStackwalkCallbackRoutine, DpcReportInv, DpcFound
  <2>2. CASE dpc_routine[k] # "queued"
    BY SMTT(30), <1>4, <2>2 DEF DpcStackwalkCallbackRoutine, DpcReportInv, DpcFound, Validated
  <2> QED
    BY <2>1, <2>2
<1>5. CASE WaitForDpcs
  BY SMTT(30), <1>5, <1>0 DEF WaitForDpcs, DpcReportInv, DpcFound, Validated, Processors
<1>6. CASE ValidateDpcCapturedStack
  <2>0. /\ dpc_pc = "validate"
        /\ UNCHANGED <<dpc_modules, dpc_context, dpc_routine, dpc_frames, dpc_executed>>
    BY <1>6 DEF ValidateDpcCapturedStack
  <2>1. CASE dpc_core = ProcessorCount
    <3>1. dpc_pc' = "free" /\ UNCHANGED <<dpc_core, dpc_frame, dpc_reports, dpc_dropped>>
      BY <1>0, <1>6, <2>1 DEF ValidateDpcCapturedStack
    <3>2. \A k \in Processors : \A i \in 1..Len(dpc_frames[k]) : Validated(k, i)
      BY <1>0, <2>1 DEF Processors, Validated
    <3> QED
      BY SMTT(30), <2>0, <3>1, <3>2 DEF DpcReportInv, DpcFound
  <2>2. CASE dpc_core < ProcessorCount /\ dpc_frame > Len(dpc_frames[dpc_core])
    <3>1. /\ dpc_core' = dpc_core + 1 /\ dpc_frame' = 1
          /\ UNCHANGED <<dpc_pc, dpc_reports, dpc_dropped>>
      BY SMTT(30), <1>0, <1>6, <2>2 DEF ValidateDpcCapturedStack, DpcReportInv
    <3>2. dpc_core \in Processors /\ dpc_core \in Int /\ dpc_core' \in 0..ProcessorCount
      BY SMTT(30), <1>0, <2>2, <3>1 DEF Processors, DpcReportInv
    <3>3. \A k \in Processors : \A i \in 1..Len(dpc_frames[k]) :
              Validated(k, i)' => Validated(k, i)
      <4> TAKE k \in Processors
      <4> TAKE i \in 1..Len(dpc_frames[k])
      <4>1. k \in Int /\ i \in Int /\ i >= 1 /\ i <= Len(dpc_frames[k])
        BY SMTT(30), <1>0 DEF Processors, DpcReportInv
      <4> QED
        BY SMTT(30), <1>0, <2>2, <3>1, <3>2, <4>1 DEF Validated, DpcReportInv
    <3> QED
      BY SMTT(30), <2>0, <3>1, <3>2, <3>3 DEF DpcReportInv, DpcFound
  <2>3. CASE dpc_core < ProcessorCount /\ dpc_frame <= Len(dpc_frames[dpc_core])
    <3> DEFINE rip == dpc_frames[dpc_core][dpc_frame]
    <3>1. dpc_core \in Processors /\ dpc_core \in Int /\ dpc_frame \in 1..Len(dpc_frames[dpc_core])
      BY SMTT(30), <1>0, <2>3 DEF Processors, DpcReportInv
    <3>2. rip \in Nat /\ dpc_modules \in ModuleLists \cup {<<>>}
      BY SMTT(30), <3>1 DEF DpcReportInv
    <3>3. /\ IF IsInstructionPointerInInvalidRegion(rip, dpc_modules)
             THEN UNCHANGED <<dpc_reports, dpc_dropped>>
             ELSE ReportDpcStackwalkViolation(rip)
          /\ dpc_frame' = dpc_frame + 1
          /\ UNCHANGED <<dpc_pc, dpc_core>>
      BY <1>0, <1>6, <2>3, <3>1 DEF ValidateDpcCapturedStack
    <3>4. DpcFound' = IF OutsideModules(rip, dpc_modules) THEN DpcFound \cup {rip} ELSE DpcFound
      BY <3>2, <3>3, RegionTest DEF ReportDpcStackwalkViolation, DpcFound
    <3>5. \A k \in Processors : \A i \in 1..Len(dpc_frames[k]) :
              Validated(k, i)' => Validated(k, i) \/ (k = dpc_core /\ i = dpc_frame)
      BY SMTT(30), <3>1, <3>3 DEF Validated, DpcReportInv
    <3> QED
      BY SMTT(30), <2>0, <3>1, <3>3, <3>4, <3>5 DEF DpcReportInv
  <2> QED
    BY <1>0, <1>6, <2>1, <2>2, <2>3 DEF ValidateDpcCapturedStack
<1>7. CASE FreeDpcContexts
  BY SMTT(30), <1>0, <1>7 DEF FreeDpcContexts, DpcReportInv, DpcFound
<1>8. CASE UNCHANGED dpc_vars
  BY <1>8 DEF dpc_vars, DpcReportInv, DpcFound, Validated
<1> QED
  BY <1>1, <1>2, <1>3, <1>4, <1>5, <1>6, <1>7, <1>8 DEF DpcNext, DpcWalkStep

-----------------------------------------------------------------------------
(* The HAL's tables.                                                       *)

HalNext ==
    \/ \E modules \in ModuleLists, dispatch \in HalDispatchTables,
          private \in HalPrivateTables :
           ValidateHalDispatchTables(modules, dispatch, private)
    \/ HalStep

HalOutside(rip) == OutsideModules(rip, hal_modules)

\* A routine of HalPrivateDispatchTable that is to be found.
HalInvalid(rip) == rip # 0 /\ HalOutside(rip)

Reported(table) == \E report \in hal_reports : report[1] = table

\* Up to the routine the first loop is at all are outside every module, and the
\* last is the one it remembers; the second loop remembers a routine exactly if
\* it has passed one that is outside.
HalInv ==
    /\ hal_pc \in {"idle", "dispatch", "private", "done"}
    /\ hal_modules \in ModuleLists \cup {<<>>}
    /\ hal_index \in Nat \ {0} /\ hal_routine \in Nat /\ hal_status \in BOOLEAN
    /\ hal_pc # "idle" => /\ hal_table.dispatch \in HalDispatchTables
                          /\ hal_table.private \in HalPrivateTables
    /\ hal_pc = "dispatch" =>
           /\ hal_reports = {} /\ hal_index <= Len(hal_table.dispatch)
           /\ \A j \in 1..(hal_index - 1) : HalOutside(hal_table.dispatch[j])
           /\ hal_routine = IF hal_index = 1 THEN 0 ELSE hal_table.dispatch[hal_index - 1]
    /\ hal_pc \in {"private", "done"} =>
           /\ \A report \in hal_reports : HalOutside(report[2])
           /\ Reported("HalDispatch") <=> HalOutside(hal_table.dispatch[1])
    /\ hal_pc = "private" =>
           /\ ~Reported("HalPrivateDispatch")
           /\ hal_routine # 0 => hal_status /\ HalOutside(hal_routine)
           /\ hal_routine # 0 <=>
                  \E j \in 1..(hal_index - 1) : /\ j <= Len(hal_table.private)
                                                /\ HalInvalid(hal_table.private[j])
    /\ hal_pc = "done" =>
           (Reported("HalPrivateDispatch") <=>
                \E j \in 1..Len(hal_table.private) : HalInvalid(hal_table.private[j]))

LEMMA HalStart == HalInit => HalInv
<1> SUFFICES ASSUME HalInit PROVE HalInv
  OBVIOUS
<1>1. hal_status \in BOOLEAN
  BY DEF HalInit
<1> QED
  BY <1>1 DEF HalInit, HalInv

\* The report of a table, when its validation ends.
LEMMA FinishTableReports ==
    ASSUME NEW table, NEW next, NEW routine \in Nat, NEW status \in BOOLEAN,
           FinishTable(table, next, routine, status),
           routine # 0 => HalOutside(routine) /\ status,
           \A report \in hal_reports : HalOutside(report[2]),
           UNCHANGED hal_modules
    PROVE  /\ \A report \in hal_reports' : HalOutside(report[2])'
           /\ Reported(table)' <=> Reported(table) \/ routine # 0
           /\ \A other : other # table => (Reported(other)' <=> Reported(other))
           /\ hal_pc' = IF status THEN next ELSE "done"
           /\ hal_index' = 1 /\ hal_routine' = 0 /\ hal_status' \in BOOLEAN
<1>1. hal_status' \in BOOLEAN
  BY DEF FinishTable
<1>2. CASE routine = 0
  BY <1>1, <1>2 DEF FinishTable, Reported, HalOutside
<1>3. CASE routine # 0
  <2>1. PICK queued \in BOOLEAN : hal_reports' = hal_reports \cup {<<table, routine, queued>>}
    BY <1>3 DEF FinishTable, ReportDataTableInvalidRoutine
  <2> DEFINE new == <<table, routine, queued>>
  <2>2. new[1] = table /\ new[2] = routine
    OBVIOUS
  <2> HIDE DEF new
  <2>3. \A report \in hal_reports' : HalOutside(report[2])'
    BY <1>3, <2>1, <2>2 DEF HalOutside, new
  <2>4. Reported(table)'
    BY <2>1, <2>2 DEF Reported, new
  <2>5. \A other : other # table => (Reported(other)' <=> Reported(other))
    BY <2>1, <2>2 DEF Reported, new
  <2> QED
    BY <1>1, <1>3, <2>3, <2>4, <2>5 DEF FinishTable
<1> QED
  BY <1>2, <1>3

LEMMA HalDispatchInv ==
    ASSUME HalInv, ValidateHalDispatchTable
    PROVE  HalInv'
<1> DEFINE n == Len(hal_table.dispatch)
           rip == hal_table.dispatch[hal_index]
<1>1. /\ hal_pc = "dispatch" /\ hal_reports = {}
      /\ UNCHANGED <<hal_modules, hal_table>>
      /\ hal_table.dispatch \in HalDispatchTables /\ hal_table.private \in HalPrivateTables
      /\ hal_modules \in ModuleLists \cup {<<>>}
      /\ hal_index \in Nat \ {0} /\ hal_index <= n
      /\ \A j \in 1..(hal_index - 1) : HalOutside(hal_table.dispatch[j])
      /\ hal_routine = IF hal_index = 1 THEN 0 ELSE hal_table.dispatch[hal_index - 1]
  BY DEF ValidateHalDispatchTable, HalInv
<1>2. hal_table.dispatch \in Seq(Nat \ {0}) /\ n \in Nat \ {0}
  BY SMTT(30), <1>1, HalAssumption
<1>3. rip \in Nat \ {0} /\ \A j \in 1..n : hal_table.dispatch[j] \in Nat \ {0}
  BY <1>1, <1>2
<1>4. EndsHalDispatch(rip) <=> ~HalOutside(rip)
  BY <1>1, <1>3, RegionTest DEF EndsHalDispatch, HalOutside
<1> HIDE DEF rip
<1>5. ~Reported("HalDispatch") /\ ~Reported("HalPrivateDispatch")
  BY <1>1 DEF Reported
<1>6. \A x : HalOutside(x)' <=> HalOutside(x)
  BY <1>1 DEF HalOutside
<1>7. ASSUME NEW routine \in Nat, FinishTable("HalDispatch", "private", routine, TRUE),
             routine # 0 => HalOutside(routine),
             routine # 0 <=> HalOutside(hal_table.dispatch[1])
      PROVE  HalInv'
  <2>1. /\ \A report \in hal_reports' : HalOutside(report[2])'
        /\ Reported("HalDispatch")' <=> routine # 0
        /\ ~Reported("HalPrivateDispatch")'
        /\ hal_pc' = "private"
        /\ hal_index' = 1 /\ hal_routine' = 0 /\ hal_status' \in BOOLEAN
    BY <1>1, <1>5, <1>7, FinishTableReports
  <2> QED
    BY SMTT(30), <1>1, <1>6, <1>7, <2>1 DEF HalInv
<1>8. CASE EndsHalDispatch(rip)
  <2>1. FinishTable("HalDispatch", "private", hal_routine, TRUE)
    BY <1>1, <1>3, <1>8 DEF ValidateHalDispatchTable, rip
  <2>2. CASE hal_index = 1
    BY <1>1, <1>4, <1>7, <1>8, <2>1, <2>2 DEF rip
  <2>3. CASE hal_index # 1
    <3>1. hal_index - 1 \in 1..(hal_index - 1) /\ 1 \in 1..(hal_index - 1)
          /\ hal_index - 1 \in 1..n
      BY <1>1, <1>2, <2>3
    <3>2. hal_routine \in Nat \ {0} /\ HalOutside(hal_routine)
          /\ HalOutside(hal_table.dispatch[1])
      BY <1>1, <1>3, <2>3, <3>1
    <3> QED
      BY <1>7, <2>1, <3>2
  <2> QED
    BY <2>2, <2>3
<1>9. CASE ~EndsHalDispatch(rip) /\ hal_index = n
  <2>1. FinishTable("HalDispatch", "private", rip, TRUE)
    BY <1>1, <1>9 DEF ValidateHalDispatchTable, rip
  <2>2. HalOutside(rip) /\ HalOutside(hal_table.dispatch[1])
    BY <1>1, <1>4, <1>9 DEF rip
  <2> QED
    BY <1>3, <1>7, <2>1, <2>2
<1>10. CASE ~EndsHalDispatch(rip) /\ hal_index # n
  <2>1. /\ hal_routine' = rip /\ hal_status' = TRUE /\ hal_index' = hal_index + 1
        /\ UNCHANGED <<hal_pc, hal_reports>>
    BY <1>1, <1>10 DEF ValidateHalDispatchTable, rip
  <2>2. hal_status' \in BOOLEAN
    BY <2>1
  <2>3. hal_index' \in Nat \ {0} /\ hal_index' <= n /\ hal_index' # 1
        /\ hal_index' - 1 = hal_index
    <3>1. hal_index' = hal_index + 1 /\ hal_index \in Nat \ {0} /\ hal_index <= n /\ hal_index # n
          /\ n \in Nat
      BY <1>1, <1>2, <1>10, <2>1
    <3> HIDE DEF n
    <3> QED
      BY <3>1
  <2>4. \A j \in 1..(hal_index' - 1) : HalOutside(hal_table.dispatch[j])
    <3>1. HalOutside(hal_table.dispatch[hal_index])
      BY <1>4, <1>10 DEF rip
    <3>2. \A j \in 1..hal_index : j \in 1..(hal_index - 1) \/ j = hal_index
      BY <1>1
    <3> QED
      BY <1>1, <2>3, <3>1, <3>2
  <2> QED
    BY <1>1, <1>3, <1>6, <2>1, <2>2, <2>3, <2>4 DEF HalInv, rip
<1> QED
  BY <1>8, <1>9, <1>10

LEMMA HalPrivateInv ==
    ASSUME HalInv, ValidateHalPrivateDispatchTable
    PROVE  HalInv'
<1> DEFINE n == Len(hal_table.private)
           rip == hal_table.private[hal_index]
<1>1. /\ hal_pc = "private"
      /\ UNCHANGED <<hal_modules, hal_table>>
      /\ hal_table.dispatch \in HalDispatchTables /\ hal_table.private \in HalPrivateTables
      /\ hal_modules \in ModuleLists \cup {<<>>}
      /\ hal_index \in Nat \ {0} /\ hal_routine \in Nat /\ hal_status \in BOOLEAN
      /\ \A report \in hal_reports : HalOutside(report[2])
      /\ Reported("HalDispatch") <=> HalOutside(hal_table.dispatch[1])
      /\ ~Reported("HalPrivateDispatch")
      /\ hal_routine # 0 => hal_status /\ HalOutside(hal_routine)
      /\ hal_routine # 0 <=>
             \E j \in 1..(hal_index - 1) : j <= n /\ HalInvalid(hal_table.private[j])
  BY DEF ValidateHalPrivateDispatchTable, HalInv
<1>2. hal_table.private \in Seq(Nat) /\ n \in Nat
  BY SMTT(30), <1>1, HalAssumption
<1>3. \A x : (HalOutside(x)' <=> HalOutside(x)) /\ (HalInvalid(x)' <=> HalInvalid(x))
  BY <1>1 DEF HalOutside, HalInvalid
<1>4. CASE hal_index > n
  <2>1. FinishTable("HalPrivateDispatch", "done", hal_routine, hal_status)
    BY <1>4 DEF ValidateHalPrivateDispatchTable
  <2>2. /\ \A report \in hal_reports' : HalOutside(report[2])'
        /\ Reported("HalPrivateDispatch")' <=> hal_routine # 0
        /\ Reported("HalDispatch")' <=> Reported("HalDispatch")
        /\ hal_pc' = "done"
        /\ hal_index' = 1 /\ hal_routine' = 0 /\ hal_status' \in BOOLEAN
    BY <1>1, <2>1, FinishTableReports DEF FinishTable
  <2>3. hal_routine # 0 <=> \E j \in 1..n : HalInvalid(hal_table.private[j])
    <3>1. \A j \in Nat : j \in 1..n <=> j \in 1..(hal_index - 1) /\ j <= n
      BY <1>1, <1>2, <1>4
    <3> QED
      BY SMTT(30), <1>1, <3>1
  <2> QED
    BY SMTT(30), <1>1, <1>3, <2>2, <2>3 DEF HalInv
<1>5. CASE ~(hal_index > n)
  <2>1. rip \in Nat /\ hal_index \in 1..n
    BY <1>1, <1>2, <1>5
  <2>2. /\ hal_index' = hal_index + 1
        /\ UNCHANGED <<hal_pc, hal_reports>>
        /\ IF rip = 0 THEN UNCHANGED <<hal_routine, hal_status>>
           ELSE hal_routine' = KeepInvalidRoutine(rip) /\ hal_status' = TRUE
    BY <1>5 DEF ValidateHalPrivateDispatchTable
  <2>3. IsInstructionPointerInInvalidRegion(rip, hal_modules) <=> ~HalOutside(rip)
    BY <1>1, <2>1, RegionTest DEF HalOutside
  <2>5. (\E j \in 1..(hal_index' - 1) : j <= n /\ HalInvalid(hal_table.private[j]))
        <=> \/ \E j \in 1..(hal_index - 1) : j <= n /\ HalInvalid(hal_table.private[j])
            \/ HalInvalid(rip)
    <3>1. \A j : j \in 1..(hal_index' - 1) <=> j \in 1..(hal_index - 1) \/ j = hal_index
      BY <1>1, <2>2
    <3>2. hal_index <= n
      BY <2>1
    <3> QED
      BY <3>1, <3>2
  <2>6. hal_index' \in Nat \ {0}
    BY SMTT(30), <1>1, <2>2
  <2>7. /\ hal_routine' \in Nat /\ hal_status' \in BOOLEAN
        /\ hal_routine' # 0 => hal_status' /\ HalOutside(hal_routine')
        /\ hal_routine' # 0 <=> hal_routine # 0 \/ HalInvalid(rip)
    <3> HIDE DEF rip
    <3>1. CASE rip = 0
      BY <1>1, <2>2, <3>1 DEF HalInvalid
    <3>2. CASE rip # 0
      <4>1. hal_routine' = KeepInvalidRoutine(rip) /\ hal_status' \in BOOLEAN /\ hal_status'
        BY <2>2, <3>2
      <4> QED
        BY <1>1, <2>1, <2>3, <3>2, <4>1 DEF HalInvalid, KeepInvalidRoutine
    <3> QED
      BY <3>1, <3>2
  <2>8. \A table : Reported(table)' <=> Reported(table)
    BY <2>2 DEF Reported
  <2> QED
    BY <1>1, <1>3, <2>2, <2>5, <2>6, <2>7, <2>8 DEF HalInv
<1> QED
  BY <1>4, <1>5

LEMMA HalStepInv == ASSUME HalInv, [HalNext]_hal_vars PROVE HalInv'
<1>1. ASSUME NEW modules \in ModuleLists, NEW dispatch \in HalDispatchTables,
             NEW private \in HalPrivateTables,
             ValidateHalDispatchTables(modules, dispatch, private)
      PROVE  HalInv'
  <2>1. hal_status' \in BOOLEAN
    BY <1>1 DEF ValidateHalDispatchTables
  <2>2. Len(dispatch) \in Nat \ {0}
    BY HalAssumption
  <2>3. /\ hal_pc' = "dispatch" /\ hal_modules' = modules /\ hal_index' = 1
        /\ hal_table' = [dispatch |-> dispatch, private |-> private]
        /\ hal_routine' = 0 /\ hal_reports' = {}
    BY <1>1 DEF ValidateHalDispatchTables
  <2> QED
    BY SMTT(30), <2>1, <2>2, <2>3 DEF HalInv
<1>2. CASE HalReturn
  <2>1. hal_status' \in BOOLEAN
    BY <1>2 DEF HalReturn
  <2> QED
    BY SMTT(30), <1>2, <2>1 DEF HalReturn, HalInv
<1>3. CASE UNCHANGED hal_vars
  BY <1>3 DEF HalInv, hal_vars, HalOutside, HalInvalid, Reported
<1> QED
  BY <1>1, <1>2, <1>3, HalDispatchInv, HalPrivateInv DEF HalNext, HalStep

LEMMA OutsideCodeSafe ==
    ASSUME HalInv, DpcReportInv
    PROVE  OutsideCodeReported
<1>1. hal_pc = "done" =>
         /\ \A report \in hal_reports : OutsideModules(report[2], hal_modules)
         /\ (\E report \in hal_reports : report[1] = "HalDispatch")
                <=> OutsideModules(hal_table.dispatch[1], hal_modules)
         /\ (\E report \in hal_reports : report[1] = "HalPrivateDispatch")
                <=> \E i \in 1..Len(hal_table.private) :
                        /\ hal_table.private[i] # 0
                        /\ OutsideModules(hal_table.private[i], hal_modules)
  BY DEF HalInv, HalOutside, HalInvalid, Reported
<1>2. ASSUME dpc_pc = "free"
      PROVE  dpc_reports \cup dpc_dropped =
                 {rip \in UNION {Range(dpc_frames[k]) : k \in Processors} :
                      OutsideModules(rip, dpc_modules)}
  <2>1. \A k \in Processors : Range(dpc_frames[k]) = {dpc_frames[k][i] : i \in 1..Len(dpc_frames[k])}
    BY SMTT(30) DEF DpcReportInv, Range
  <2> DEFINE all == UNION {Range(dpc_frames[k]) : k \in Processors}
  <2>2. \A rip : rip \in all
            <=> \E k \in Processors : \E i \in 1..Len(dpc_frames[k]) : dpc_frames[k][i] = rip
    <3>1. \A rip : rip \in all <=> \E k \in Processors : rip \in Range(dpc_frames[k])
      OBVIOUS
    <3>2. \A k \in Processors : \A rip : rip \in Range(dpc_frames[k])
              <=> \E i \in 1..Len(dpc_frames[k]) : dpc_frames[k][i] = rip
      BY <2>1
    <3> HIDE DEF all
    <3> QED
      BY <3>1, <3>2
  <2>3. \A rip \in DpcFound :
             /\ OutsideModules(rip, dpc_modules)
             /\ \E k \in Processors : \E i \in 1..Len(dpc_frames[k]) : dpc_frames[k][i] = rip
    BY <1>2 DEF DpcReportInv
  <2>4. \A k \in Processors : \A i \in 1..Len(dpc_frames[k]) :
            OutsideModules(dpc_frames[k][i], dpc_modules) => dpc_frames[k][i] \in DpcFound
    BY <1>2 DEF DpcReportInv
  <2> HIDE DEF all
  <2>5. \A rip : rip \in DpcFound <=> rip \in {x \in all : OutsideModules(x, dpc_modules)}
    BY <2>2, <2>3, <2>4
  <2>6. DpcFound = {x \in all : OutsideModules(x, dpc_modules)}
    BY <2>5
  <2> QED
    BY <2>6 DEF DpcFound, all
<1> QED
  BY <1>1, <1>2 DEF OutsideCodeReported

-----------------------------------------------------------------------------
(* Driver objects.                                                         *)

LEMMA LeastIndex ==
    ASSUME NEW S \in SUBSET Nat, S # {}
    PROVE  \E m \in S : \A i \in S : m <= i
<1>1. PICK m \in S : \A n \in S : ~ (<<n, m>> \in OpToRel(<, Nat))
  BY WFMin, NatLessThanWellFounded
<1>2. \A n \in S : ~(n < m)
  BY <1>1 DEF OpToRel
<1> QED
  BY <1>2

LEMMA FirstIndexOf ==
    ASSUME NEW n \in Nat, NEW S \in SUBSET (1..n)
    PROVE  \/ S = {} /\ FirstIndex(S) = 0
           \/ FirstIndex(S) \in S /\ \A i \in S : FirstIndex(S) <= i
<1>1. CASE S = {}
  BY <1>1 DEF FirstIndex
<1>2. CASE S # {}
  <2>1. S \in SUBSET Nat
    BY SMTT(30)
  <2>2. \E m \in S : \A i \in S : m <= i
    BY <1>2, <2>1, LeastIndex, Zenon
  <2> QED
    BY <1>2, <2>2, Zenon DEF FirstIndex, Min
<1> QED
  BY <1>1, <1>2

ModuleFacts(modules) ==
    /\ modules \in ModuleLists /\ Len(modules) \in Nat
    /\ \A i \in 1..Len(modules) : modules[i].base \in Nat /\ modules[i].size \in Nat

LEMMA ModulesAreNumbers == \A modules \in ModuleLists : ModuleFacts(modules)
<1> SUFFICES ASSUME NEW modules \in ModuleLists PROVE ModuleFacts(modules)
  OBVIOUS
<1>1. modules \in Seq(AllModules)
  BY DirectoryAssumption
<1>2. \A i \in 1..Len(modules) : IsModule(modules[i])
  BY DriverValidationAssumption
<1> QED
  BY <1>1, <1>2 DEF ModuleFacts, IsModule

\* The first loop: a module that starts where the driver does, none, or an error.
LEMMA BackingModule ==
    ASSUME dv_modules \in ModuleLists, NEW d
    PROVE  LET r == ValidateDriverObjectHasBackingModule(dv_modules, d)
           IN /\ r \in {"no", "error", "yes"}
              /\ r = "no" => NoModuleStartsAt(d)
              /\ r = "yes" => \E i \in 1..Len(dv_modules) :
                                  dv_modules[i].base = d.start /\ d.start # 0
<1> DEFINE n == Len(dv_modules)
           S == {j \in 1..n : \/ dv_modules[j].size = 0 \/ dv_modules[j].base = 0
                              \/ dv_modules[j].base = d.start}
           i == FirstIndex(S)
           r == ValidateDriverObjectHasBackingModule(dv_modules, d)
<1>1. n \in Nat
  BY ModulesAreNumbers DEF ModuleFacts
<1>2. (S = {} /\ i = 0) \/ i \in S
  BY <1>1, FirstIndexOf
<1>3. r = CASE i = 0 -> "no"
            [] i # 0 /\ (dv_modules[i].size = 0 \/ dv_modules[i].base = 0) -> "error"
            [] OTHER -> "yes"
  BY DEF ValidateDriverObjectHasBackingModule
<1>4. i # 0 => i \in S
  BY <1>2
<1>5. i = 0 => S = {}
  BY <1>1, <1>2
<1> HIDE DEF i, r
<1>6. CASE i = 0
  <2>1. r = "no"
    BY <1>3, <1>6
  <2> QED
    BY <1>5, <1>6, <2>1 DEF r, NoModuleStartsAt
<1>7. CASE i # 0 /\ (dv_modules[i].size = 0 \/ dv_modules[i].base = 0)
  <2>1. r = "error"
    BY <1>3, <1>7
  <2> QED
    BY <2>1 DEF r
<1>8. CASE i # 0 /\ ~(dv_modules[i].size = 0 \/ dv_modules[i].base = 0)
  <2>1. r = "yes"
    BY <1>3, <1>8
  <2> QED
    BY <1>4, <1>8, <2>1 DEF r
<1> QED
  BY <1>6, <1>7, <1>8

\* The second loop, for a driver that has a module.
LEMMA DispatchRegion ==
    ASSUME dv_modules \in ModuleLists, NEW d, IsDriver(d), NEW k \in 1..Len(dv_modules),
           dv_modules[k].base = d.start, d.start # 0
    PROVE  ValidateDriverIOCTLDispatchRegion(dv_modules, d) <=> ~DispatchesElsewhere(d)
<1> DEFINE n == Len(dv_modules)
           S == {j \in 1..n : dv_modules[j].base = d.start}
           white == PopulateWhitelistedModuleBuffer(dv_modules)
           at(j) == InRegion(d.dispatch, dv_modules[j].base,
                             dv_modules[j].base + dv_modules[j].size)
           named(name) == {j \in 1..n : dv_modules[j].name = name}
<1>1. n \in Nat /\ d.dispatch \in Nat
      /\ \A j \in 1..n : dv_modules[j].base \in Nat /\ dv_modules[j].size \in Nat
  BY ModulesAreNumbers DEF ModuleFacts, IsDriver
<1>2. \A j \in 1..n : at(j) <=> d.dispatch \in AddressesOf(dv_modules[j])
  BY <1>1 DEF InRegion, AddressesOf
<1>3. \A j \in 1..n : dv_modules[j].base = d.start => j = k
  BY DirectoryAssumption
<1>4. FirstIndex(S) = k
  <2>1. S = {k}
    BY <1>3
  <2>2. FirstIndex(S) \in S
    BY <1>1, <2>1, FirstIndexOf
  <2> QED
    BY <2>1, <2>2
<1>5. ASSUME NEW name \in WHITELISTED_MODULES, d.dispatch # 0
      PROVE  InRegion(d.dispatch, white[name].base, white[name].end)
                 <=> \E j \in named(name) : at(j)
  <2>1. CASE named(name) = {}
    <3>1. FirstIndex(named(name)) = 0
      BY <2>1 DEF FirstIndex
    <3>2. white[name] = [base |-> 0, end |-> 0]
      BY <3>1 DEF PopulateWhitelistedModuleBuffer
    <3> QED
      BY <1>1, <1>5, <2>1, <3>2 DEF InRegion
  <2>2. CASE named(name) # {}
    <3> DEFINE j == FirstIndex(named(name))
    <3>1. j \in named(name)
      BY <1>1, <2>2, FirstIndexOf
    <3>2. \A i \in named(name) : i = j
      BY <1>5, <3>1, DirectoryAssumption
    <3>3. j # 0
      BY <1>1, <3>1
    <3>4. white[name] = [base |-> dv_modules[j].base,
                         end |-> dv_modules[j].base + dv_modules[j].size]
      BY <1>5, <3>3 DEF PopulateWhitelistedModuleBuffer
    <3> HIDE DEF j, white
    <3>5. InRegion(d.dispatch, white[name].base, white[name].end) <=> at(j)
      BY <3>4
    <3> QED
      BY <3>1, <3>2, <3>5
  <2> QED
    BY <2>1, <2>2
<1>6. ValidateDriverIOCTLDispatchRegion(dv_modules, d) <=>
          \/ d.dispatch = 0 \/ k = 0 \/ ~d.device \/ at(k)
          \/ \E name \in WHITELISTED_MODULES :
                 InRegion(d.dispatch, white[name].base, white[name].end)
  BY <1>4 DEF ValidateDriverIOCTLDispatchRegion
<1>7. ~NoModuleStartsAt(d) /\ k # 0
  BY <1>1 DEF NoModuleStartsAt
<1>8. DispatchesElsewhere(d) <=>
          /\ d.dispatch # 0 /\ d.device /\ ~at(k)
          /\ \A j \in 1..n : dv_modules[j].name \in WHITELISTED_MODULES => ~at(j)
  BY <1>2, <1>3, <1>7 DEF DispatchesElsewhere
<1> HIDE DEF at, white
<1> QED
  BY <1>5, <1>6, <1>7, <1>8


\* The two tests of a driver share one result: what a driver is listed for is the
\* one thing that makes it invalid.
LEMMA FailuresExact ==
    ASSUME dv_modules \in ModuleLists, NEW d, IsDriver(d),
           ValidateDriverObjectHasBackingModule(dv_modules, d) # "error"
    PROVE  \/ /\ Failures(dv_modules, d) = <<>>
              /\ \A reason \in Reasons : ~InvalidFor(d, reason)
           \/ \E reason \in Reasons :
                  Failures(dv_modules, d) = <<reason>> /\ InvalidFor(d, reason)
<1> DEFINE r == ValidateDriverObjectHasBackingModule(dv_modules, d)
           here == ValidateDriverIOCTLDispatchRegion(dv_modules, d)
           F == Failures(dv_modules, d)
<1>1. /\ r \in {"no", "yes"}
      /\ r = "no" => NoModuleStartsAt(d)
      /\ r = "yes" => \E i \in 1..Len(dv_modules) :
                          dv_modules[i].base = d.start /\ d.start # 0
  BY BackingModule
<1>2. F = (IF r = "no" THEN <<"no_backing_module">> ELSE <<>>)
          \o (IF here THEN <<>> ELSE <<"invalid_ioctl_dispatch">>)
  BY DEF Failures
<1> HIDE DEF F, r, here
<1>3. CASE r = "no"
  <2>1. NoModuleStartsAt(d)
    BY <1>1, <1>3
  <2>2. here
    <3>1. {j \in 1..Len(dv_modules) : dv_modules[j].base = d.start} = {}
      BY <2>1 DEF NoModuleStartsAt
    <3> QED
      BY <3>1 DEF here, ValidateDriverIOCTLDispatchRegion, FirstIndex
  <2>3. F = <<"no_backing_module">>
    BY <1>2, <1>3, <2>2
  <2> QED
    BY <2>1, <2>3 DEF Reasons, InvalidFor, F
<1>4. CASE r = "yes"
  <2>1. PICK k \in 1..Len(dv_modules) : dv_modules[k].base = d.start /\ d.start # 0
    BY <1>1, <1>4
  <2>2. here <=> ~DispatchesElsewhere(d)
    BY <2>1, DispatchRegion DEF here
  <2>3. ~NoModuleStartsAt(d)
    BY <2>1 DEF NoModuleStartsAt
  <2>4. CASE here
    <3>1. F = <<>>
      BY <1>2, <1>4, <2>4
    <3> QED
      BY <2>2, <2>3, <2>4, <3>1 DEF Reasons, InvalidFor, F
  <2>5. CASE ~here
    <3>1. F = <<"invalid_ioctl_dispatch">>
      BY <1>2, <1>4, <2>5
    <3> QED
      BY <2>2, <2>5, <3>1 DEF Reasons, InvalidFor, F
  <2> QED
    BY <2>4, <2>5
<1> QED
  BY <1>1, <1>3, <1>4

\* The drivers of a list, and that it names none twice.
DriversIn(list) == {list[i].driver : i \in 1..Len(list)}

NamedOnce(list) ==
    \A i, j \in 1..Len(list) : i # j => list[i].driver # list[j].driver

LEMMA EntryAdded ==
    ASSUME NEW T, NEW list \in Seq(T), NEW e \in T
    PROVE  LET longer == <<e>> \o list
           IN /\ longer \in Seq(T) /\ Len(longer) = Len(list) + 1
              /\ DriversIn(longer) = DriversIn(list) \cup {e.driver}
              /\ NamedOnce(list) /\ e.driver \notin DriversIn(list) => NamedOnce(longer)
<1> DEFINE longer == <<e>> \o list
           n == Len(list)
<1>1. longer \in Seq(T) /\ Len(longer) = n + 1 /\ n \in Nat /\ longer[1] = e
  OBVIOUS
<1>2. \A i \in 2..(n + 1) : longer[i] = list[i - 1] /\ i - 1 \in 1..n
  BY <1>1
<1>3. \A i \in 1..n : longer[i + 1] = list[i] /\ i + 1 \in 1..(n + 1)
  BY <1>1
<1> HIDE DEF longer, n
<1>4. DriversIn(longer) = DriversIn(list) \cup {e.driver}
  <2>1. ASSUME NEW i \in 1..(n + 1) PROVE longer[i].driver \in DriversIn(list) \cup {e.driver}
    <3>1. i = 1 \/ i \in 2..(n + 1)
      BY <1>1
    <3> QED
      BY <1>1, <1>2, <3>1 DEF DriversIn, n
  <2>2. ASSUME NEW i \in 1..n PROVE list[i].driver \in DriversIn(longer)
    BY <1>1, <1>3 DEF DriversIn
  <2>3. e.driver \in DriversIn(longer)
    <3>1. 1 \in 1..(n + 1)
      BY <1>1
    <3> QED
      BY <1>1, <3>1 DEF DriversIn
  <2> QED
    BY <1>1, <2>1, <2>2, <2>3 DEF DriversIn, n
<1>5. ASSUME NamedOnce(list), e.driver \notin DriversIn(list),
             NEW i \in 1..(n + 1), NEW j \in 1..(n + 1), i # j
      PROVE  longer[i].driver # longer[j].driver
  <2>1. \A k \in 2..(n + 1) : longer[k].driver # e.driver
    BY <1>2, <1>5 DEF DriversIn, n
  <2>2. CASE i = 1 \/ j = 1
    BY <1>1, <1>5, <2>1, <2>2
  <2>3. CASE i # 1 /\ j # 1
    <3>1. /\ i \in 2..(n + 1) /\ j \in 2..(n + 1)
          /\ i - 1 # j - 1
      BY <1>1, <1>5, <2>3
    <3> QED
      BY <1>2, <1>5, <3>1 DEF NamedOnce, n
  <2> QED
    BY <2>2, <2>3
<1> QED
  BY <1>1, <1>4, <1>5 DEF NamedOnce, longer, n

LEMMA EntryRemoved ==
    ASSUME NEW T, NEW list \in Seq(T), list # <<>>
    PROVE  /\ list[1] \in T
           /\ Tail(list) \in Seq(T) /\ Len(Tail(list)) = Len(list) - 1
           /\ DriversIn(Tail(list)) \subseteq DriversIn(list)
           /\ DriversIn(list) \subseteq DriversIn(Tail(list)) \cup {list[1].driver}
           /\ list[1].driver \in DriversIn(list)
           /\ NamedOnce(list) => NamedOnce(Tail(list)) /\ list[1].driver \notin DriversIn(Tail(list))
<1> DEFINE n == Len(list)
           rest == Tail(list)
<1>1. /\ n \in Nat \ {0} /\ Len(rest) = n - 1 /\ rest \in Seq(T)
      /\ 1 \in 1..n /\ list[1] \in T
  OBVIOUS
<1>2. \A i \in 1..(n - 1) : rest[i] = list[i + 1] /\ i + 1 \in 1..n /\ i + 1 # 1
  BY <1>1
<1>3. ASSUME NEW i \in 1..n, i # 1
      PROVE  i - 1 \in 1..(n - 1) /\ rest[i - 1] = list[i]
  <2>1. i - 1 \in 1..(n - 1) /\ (i - 1) + 1 = i
    BY <1>1, <1>3
  <2> HIDE DEF rest
  <2> QED
    BY <1>2, <2>1
<1> HIDE DEF rest, n
<1>4. DriversIn(rest) \subseteq DriversIn(list)
  BY <1>1, <1>2 DEF DriversIn, n
<1>5. DriversIn(list) \subseteq DriversIn(rest) \cup {list[1].driver}
  BY SMTT(30), <1>1, <1>3 DEF DriversIn, n
<1>6. list[1].driver \in DriversIn(list)
  BY <1>1 DEF DriversIn, n
<1>7. ASSUME NamedOnce(list) PROVE NamedOnce(rest) /\ list[1].driver \notin DriversIn(rest)
  <2>1. ASSUME NEW i \in 1..(n - 1), NEW j \in 1..(n - 1), i # j
        PROVE  rest[i].driver # rest[j].driver
    <3>1. i + 1 # j + 1
      BY <1>1, <2>1
    <3> QED
      BY SMTT(30), <1>2, <1>7, <3>1 DEF NamedOnce, n
  <2>2. ASSUME NEW i \in 1..(n - 1) PROVE rest[i].driver # list[1].driver
    BY <1>1, <1>2, <1>7 DEF NamedOnce, n
  <2> QED
    BY <1>1, <2>1, <2>2 DEF NamedOnce, DriversIn
<1> QED
  BY <1>1, <1>4, <1>5, <1>6, <1>7 DEF rest, n

LEMMA EntryAppended ==
    ASSUME NEW T, NEW list \in Seq(T), NEW e \in T
    PROVE  LET longer == Append(list, e)
           IN /\ longer \in Seq(T) /\ Len(longer) = Len(list) + 1
              /\ DriversIn(longer) = DriversIn(list) \cup {e.driver}
              /\ NamedOnce(list) /\ e.driver \notin DriversIn(list) => NamedOnce(longer)
<1> DEFINE longer == Append(list, e)
           n == Len(list)
<1>1. /\ longer \in Seq(T) /\ Len(longer) = n + 1 /\ n \in Nat /\ longer[n + 1] = e
      /\ \A i \in 1..n : longer[i] = list[i] /\ i \in 1..(n + 1) /\ i # n + 1
      /\ \A i \in 1..(n + 1) : i = n + 1 \/ i \in 1..n
      /\ n + 1 \in 1..(n + 1)
  OBVIOUS
<1> HIDE DEF longer, n
<1>2. DriversIn(longer) = DriversIn(list) \cup {e.driver}
  BY <1>1 DEF DriversIn, n
<1>3. ASSUME NamedOnce(list), e.driver \notin DriversIn(list),
             NEW i \in 1..(n + 1), NEW j \in 1..(n + 1), i # j
      PROVE  longer[i].driver # longer[j].driver
  BY <1>1, <1>3 DEF NamedOnce, DriversIn, n
<1> QED
  BY <1>1, <1>2, <1>3 DEF NamedOnce, longer, n


InvalidEntries == {e \in Entries : InvalidFor(e.driver, e.reason)}
InvalidDrivers == {d \in AllDrivers : \E reason \in Reasons : InvalidFor(d, reason)}

\* The drivers before the one to be validated next.
Behind ==
    {d \in AllDrivers : \E b \in 1..Len(dv_directory) : \E j \in 1..Len(dv_directory[b]) :
        d = dv_directory[b][j] /\ (b < dv_bucket \/ (b = dv_bucket /\ j < dv_entry))}

DvLimit == MODULE_VALIDATION_FAILURE_MAX_REPORT_COUNT

DvTypes ==
    /\ dv_pc \in {"idle", "validate", "report", "done"}
    /\ dv_pc # "idle" => dv_modules \in ModuleLists /\ dv_directory \in Directories
    /\ dv_bucket \in Nat \ {0} /\ dv_entry \in Nat \ {0}
    /\ dv_count \in Nat /\ dv_index \in Nat /\ dv_failures \in Nat
    /\ dv_head \in Seq(InvalidEntries) /\ dv_reports \in Seq(InvalidEntries)

\* No driver is on the list or reported twice, or both.
DvOnce ==
    /\ NamedOnce(dv_head) /\ NamedOnce(dv_reports)
    /\ DriversIn(dv_head) \cap DriversIn(dv_reports) = {}

\* As long as drivers are validated the list has only drivers already passed.
DvValidating ==
    dv_pc = "validate" =>
        /\ dv_reports = <<>> /\ dv_index = 0 /\ dv_failures = 0
        /\ dv_count = Len(dv_head)
        /\ DriversIn(dv_head) \subseteq Behind

\* Each iteration within the limit makes a report or leaves an entry; the ones
\* beyond it remove one.
DvReporting ==
    dv_pc \in {"report", "done"} =>
        /\ dv_bucket > Len(dv_directory)
        /\ Len(dv_reports) + dv_failures = IF dv_index <= DvLimit THEN dv_index ELSE DvLimit
        /\ Len(dv_head) + Len(dv_reports) =
               dv_count - (IF dv_index <= DvLimit THEN 0 ELSE dv_index - DvLimit)
        /\ dv_pc = "report" => dv_index < dv_count
        /\ dv_pc = "done" => dv_index = dv_count

\* No invalid driver was passed over.
DvListed ==
    dv_pc # "idle" /\ ~dv_given_up /\ (dv_pc = "validate" \/ dv_count <= DvLimit) =>
        (Behind \cap InvalidDrivers) \ dv_lost \subseteq DriversIn(dv_head) \cup DriversIn(dv_reports)

DvInv == DvTypes /\ DvOnce /\ DvValidating /\ DvReporting /\ DvListed

DvNext ==
    \/ \E modules \in ModuleLists, directory \in Directories :
           HandleValidateDriversIOCTL(modules, directory)
    \/ DriverValidationStep

LEMMA EmptyList == DriversIn(<<>>) = {} /\ NamedOnce(<<>>) /\ \A T : <<>> \in Seq(T)
BY DEF DriversIn, NamedOnce

LEMMA DvStart == DriverValidationInit => DvInv
<1> SUFFICES ASSUME DriverValidationInit PROVE DvInv
  OBVIOUS
<1>1. dv_head = <<>> /\ dv_reports = <<>> /\ dv_pc = "idle"
  BY DEF DriverValidationInit
<1>2. DvTypes
  BY <1>1, EmptyList DEF DriverValidationInit, DvTypes
<1>3. DvOnce
  BY <1>1, EmptyList DEF DvOnce
<1>4. DvValidating /\ DvReporting /\ DvListed
  BY <1>1 DEF DvValidating, DvReporting, DvListed
<1> QED
  BY <1>2, <1>3, <1>4 DEF DvInv

\* What is invalid depends on the modules only, and where the validation stands
\* on the directory and the position in it.
LEMMA SameModules ==
    ASSUME dv_modules' = dv_modules
    PROVE  InvalidEntries' = InvalidEntries /\ InvalidDrivers' = InvalidDrivers
BY DEF InvalidEntries, InvalidDrivers, InvalidFor, NoModuleStartsAt, DispatchesElsewhere

LEMMA SamePosition ==
    ASSUME dv_directory' = dv_directory, dv_bucket' = dv_bucket, dv_entry' = dv_entry
    PROVE  Behind' = Behind
BY DEF Behind

\* The handler starts: nothing is behind.
LEMMA DvStartsInv ==
    ASSUME NEW modules \in ModuleLists, NEW directory \in Directories,
           HandleValidateDriversIOCTL(modules, directory)
    PROVE  DvInv'
<1>1. /\ dv_head' = <<>> /\ dv_reports' = <<>> /\ dv_pc' = "validate"
      /\ dv_modules' = modules /\ dv_directory' = directory /\ dv_entry' = 1
      /\ dv_count' = 0 /\ dv_index' = 0 /\ dv_failures' = 0
  BY DEF HandleValidateDriversIOCTL
<1>2. dv_bucket' = 1 \/ (dv_bucket' = Len(directory) + 1 /\ dv_given_up')
  <2>1. CASE dv_bucket' = 1
    BY <2>1
  <2>2. CASE dv_bucket' = Len(directory) + 1 /\ dv_given_up' = TRUE
    BY <2>2
  <2> QED
    BY <2>1, <2>2, Zenon DEF HandleValidateDriversIOCTL
<1>3. Len(directory) \in Nat
  BY SMTT(30), DirectoryAssumption
<1>4. DvTypes'
  BY <1>1, <1>2, <1>3, EmptyList DEF DvTypes
<1>5. DvOnce'
  BY <1>1, EmptyList DEF DvOnce
<1>6. DvValidating' /\ DvReporting'
  BY <1>1, EmptyList DEF DvValidating, DvReporting
<1>7. DvListed'
  <2> SUFFICES ASSUME ~dv_given_up' PROVE Behind' = {}
    BY <1>1, EmptyList DEF DvListed
  <2>1. dv_bucket' = 1 /\ dv_entry' = 1
    BY <1>1, <1>2
  <2>2. \A b \in 1..Len(directory) : ~(b < 1)
    BY <1>3
  <2>3. \A b \in 1..Len(directory) : \A j \in 1..Len(directory[b]) : ~(j < 1)
    OBVIOUS
  <2> QED
    BY <1>1, <2>1, <2>2, <2>3 DEF Behind
<1> QED
  BY <1>4, <1>5, <1>6, <1>7 DEF DvInv


\* The driver to be validated next, and what the step makes of the position.
LEMMA NextDriver ==
    ASSUME DvTypes, dv_pc = "validate", dv_bucket <= Len(dv_directory),
           dv_entry <= Len(dv_directory[dv_bucket]), dv_directory' = dv_directory
    PROVE  LET d == dv_directory[dv_bucket][dv_entry]
           IN /\ d \in AllDrivers /\ IsDriver(d) /\ d \notin Behind
              /\ dv_bucket' = dv_bucket /\ dv_entry' = dv_entry + 1 =>
                     Behind' = Behind \cup {d}
              /\ dv_bucket' = dv_bucket + 1 /\ dv_entry' = 1 => Behind \subseteq Behind'
<1> DEFINE dir == dv_directory
           d == dir[dv_bucket][dv_entry]
<1>1. /\ dir \in Directories /\ dir \in Seq(Seq(AllDrivers)) /\ Len(dir) \in Nat
      /\ dv_bucket \in 1..Len(dir) /\ dv_entry \in Nat \ {0}
  BY SMTT(30), DirectoryAssumption DEF DvTypes
<1>2. \A b \in 1..Len(dir) : dir[b] \in Seq(AllDrivers) /\ Len(dir[b]) \in Nat
  BY <1>1
<1>3. dv_entry \in 1..Len(dir[dv_bucket])
  BY <1>1, <1>2
<1>4. d \in AllDrivers
  BY <1>1, <1>2, <1>3
<1>5. IsDriver(d)
  BY <1>1, <1>3, DriverValidationAssumption
<1>6. \A b \in 1..Len(dir) : \A j \in 1..Len(dir[b]) :
          dir[b][j] = d => b = dv_bucket /\ j = dv_entry
  BY <1>1, <1>3, DirectoryAssumption
<1>7. d \notin Behind
  <2> SUFFICES ASSUME d \in Behind PROVE FALSE
    OBVIOUS
  <2>1. PICK b \in 1..Len(dir) : \E j \in 1..Len(dir[b]) :
            d = dir[b][j] /\ (b < dv_bucket \/ (b = dv_bucket /\ j < dv_entry))
    BY Zenon DEF Behind
  <2>2. PICK j \in 1..Len(dir[b]) :
            d = dir[b][j] /\ (b < dv_bucket \/ (b = dv_bucket /\ j < dv_entry))
    BY <2>1
  <2>3. b = dv_bucket /\ j = dv_entry
    BY <1>6, <2>2
  <2> QED
    BY <1>1, <2>2, <2>3
<1>8. ASSUME dv_bucket' = dv_bucket, dv_entry' = dv_entry + 1 PROVE Behind' = Behind \cup {d}
  <2>1. \A b \in 1..Len(dir) : \A j \in 1..Len(dir[b]) :
            (b < dv_bucket \/ (b = dv_bucket /\ j < dv_entry + 1)) <=>
            (\/ b < dv_bucket \/ (b = dv_bucket /\ j < dv_entry)
             \/ (b = dv_bucket /\ j = dv_entry))
    <3> SUFFICES ASSUME NEW b \in 1..Len(dir), NEW j \in 1..Len(dir[b])
                 PROVE  j < dv_entry + 1 <=> j < dv_entry \/ j = dv_entry
      BY Zenon
    <3>1. j \in Nat
      BY <1>2
    <3> QED
      BY <1>1, <3>1
  <2>2. Behind' = {e \in AllDrivers : \E b \in 1..Len(dir) : \E j \in 1..Len(dir[b]) :
            e = dir[b][j] /\ (b < dv_bucket \/ (b = dv_bucket /\ j < dv_entry + 1))}
    BY <1>8 DEF Behind
  <2>3. ASSUME NEW e \in Behind' PROVE e \in Behind \cup {d}
    <3>1. PICK b \in 1..Len(dir) : \E j \in 1..Len(dir[b]) :
              e = dir[b][j] /\ (b < dv_bucket \/ (b = dv_bucket /\ j < dv_entry + 1))
      BY <2>2, <2>3, Zenon
    <3>2. PICK j \in 1..Len(dir[b]) :
              e = dir[b][j] /\ (b < dv_bucket \/ (b = dv_bucket /\ j < dv_entry + 1))
      BY <3>1
    <3>3. CASE b = dv_bucket /\ j = dv_entry
      BY <3>2, <3>3
    <3>4. CASE b < dv_bucket \/ (b = dv_bucket /\ j < dv_entry)
      <4>1. e \in AllDrivers
        BY <2>2, <2>3
      <4> QED
        BY <3>2, <3>4, <4>1, Zenon DEF Behind
    <3> QED
      BY <2>1, <3>2, <3>3, <3>4
  <2>4. ASSUME NEW e \in Behind PROVE e \in Behind'
    <3>1. PICK b \in 1..Len(dir) : \E j \in 1..Len(dir[b]) :
              e = dir[b][j] /\ (b < dv_bucket \/ (b = dv_bucket /\ j < dv_entry))
      BY <2>4, Zenon DEF Behind
    <3>2. e \in AllDrivers
      BY <2>4 DEF Behind
    <3> QED
      BY <2>1, <2>2, <3>1, <3>2, Zenon
  <2>5. d \in Behind'
    BY <1>1, <1>3, <1>4, <2>1, <2>2, Zenon
  <2> QED
    BY <2>3, <2>4, <2>5
<1>9. ASSUME dv_bucket' = dv_bucket + 1, dv_entry' = 1 PROVE Behind \subseteq Behind'
  <2>2. \A b \in 1..Len(dir) : b < dv_bucket \/ b = dv_bucket => b < dv_bucket + 1
    BY <1>1
  <2>3. Behind' = {e \in AllDrivers : \E b \in 1..Len(dir) : \E j \in 1..Len(dir[b]) :
            e = dir[b][j] /\ (b < dv_bucket + 1 \/ (b = dv_bucket + 1 /\ j < 1))}
    BY <1>9 DEF Behind
  <2>4. ASSUME NEW e \in Behind PROVE e \in Behind'
    BY <2>2, <2>3, <2>4, Zenon DEF Behind
  <2> QED
    BY <2>4
<1> HIDE DEF d
<1>10. /\ d \in AllDrivers /\ IsDriver(d) /\ d \notin Behind
       /\ dv_bucket' = dv_bucket /\ dv_entry' = dv_entry + 1 => Behind' = Behind \cup {d}
       /\ dv_bucket' = dv_bucket + 1 /\ dv_entry' = 1 => Behind \subseteq Behind'
  BY <1>4, <1>5, <1>7, <1>8, <1>9
<1> QED
  BY <1>10 DEF d

\* A bucket is left when all its drivers are behind.
LEMMA NextBucket ==
    ASSUME DvTypes, dv_pc = "validate", dv_bucket <= Len(dv_directory),
           dv_entry > Len(dv_directory[dv_bucket]), dv_directory' = dv_directory,
           dv_bucket' = dv_bucket + 1, dv_entry' = 1
    PROVE  Behind' = Behind
<1> DEFINE dir == dv_directory
<1>1. /\ dir \in Seq(Seq(AllDrivers)) /\ Len(dir) \in Nat
      /\ dv_bucket \in 1..Len(dir) /\ dv_entry \in Nat \ {0}
  BY SMTT(30), DirectoryAssumption DEF DvTypes
<1>2. \A b \in 1..Len(dir) : dir[b] \in Seq(AllDrivers) /\ Len(dir[b]) \in Nat
  BY <1>1
<1>3. \A b \in 1..Len(dir) : \A j \in 1..Len(dir[b]) :
          (b < dv_bucket + 1 \/ (b = dv_bucket + 1 /\ j < 1)) <=>
          (b < dv_bucket \/ (b = dv_bucket /\ j < dv_entry))
  <2> SUFFICES ASSUME NEW b \in 1..Len(dir), NEW j \in 1..Len(dir[b])
               PROVE  (b < dv_bucket + 1 \/ (b = dv_bucket + 1 /\ j < 1)) <=>
                      (b < dv_bucket \/ (b = dv_bucket /\ j < dv_entry))
    OBVIOUS
  <2>1. b \in Nat /\ j \in Nat /\ j >= 1 /\ Len(dir[b]) \in Nat /\ j <= Len(dir[b])
    BY <1>1, <1>2
  <2>2. b = dv_bucket => j < dv_entry
    BY <1>1, <2>1
  <2>3. b < dv_bucket + 1 <=> b < dv_bucket \/ b = dv_bucket
    BY <1>1, <2>1
  <2>4. ~(j < 1)
    BY <2>1
  <2> QED
    BY <2>2, <2>3, <2>4, Zenon
<1>4. Behind' = {e \in AllDrivers : \E b \in 1..Len(dir) : \E j \in 1..Len(dir[b]) :
          e = dir[b][j] /\ (b < dv_bucket + 1 \/ (b = dv_bucket + 1 /\ j < 1))}
  BY DEF Behind
<1> QED
  BY SMTT(30), <1>3, <1>4 DEF Behind

\* At the end of the directory nothing is left.
LEMMA AllBehind ==
    ASSUME DvTypes, dv_pc # "idle", dv_bucket > Len(dv_directory)
    PROVE  DriversOf(dv_directory) \subseteq Behind
<1> DEFINE dir == dv_directory
<1>1. dir \in Directories /\ dir \in Seq(Seq(AllDrivers)) /\ Len(dir) \in Nat /\ dv_bucket \in Nat
  BY SMTT(30), DirectoryAssumption DEF DvTypes
<1>2. \A b \in 1..Len(dir) : b < dv_bucket
  BY <1>1
<1>3. \A d \in DriversOf(dir) : d \in AllDrivers
  BY <1>1 DEF AllDrivers
<1>4. ASSUME NEW d \in DriversOf(dir) PROVE d \in Behind
  <2>1. PICK b \in 1..Len(dir) : \E j \in 1..Len(dir[b]) : d = dir[b][j]
    BY <1>4, Zenon DEF DriversOf
  <2> QED
    BY <1>2, <1>3, <2>1, Zenon DEF Behind
<1> QED
  BY <1>4


\* A driver is validated: it is passed, and listed if it is invalid.
LEMMA ValidateKeeps == ASSUME DvInv, ValidateDriverObjects PROVE DvInv'
<1> DEFINE d == dv_directory[dv_bucket][dv_entry]
           F == Failures(dv_modules, d)
           entries == [k \in 1..Len(F) |-> [driver |-> d, reason |-> F[k]]]
           error == ValidateDriverObjectHasBackingModule(dv_modules, d) = "error"
<1>1. /\ dv_pc = "validate" /\ dv_pc' = dv_pc /\ dv_modules' = dv_modules
      /\ dv_directory' = dv_directory /\ dv_index' = dv_index
      /\ dv_reports' = dv_reports /\ dv_failures' = dv_failures
      /\ dv_bucket <= Len(dv_directory) /\ dv_entry <= Len(dv_directory[dv_bucket])
  BY DEF ValidateDriverObjects
<1>2. /\ DvTypes /\ DvOnce /\ DvValidating /\ DvListed
      /\ dv_modules \in ModuleLists
  BY <1>1 DEF DvInv, DvTypes
<1>3. /\ d \in AllDrivers /\ IsDriver(d) /\ d \notin Behind
      /\ dv_bucket' = dv_bucket /\ dv_entry' = dv_entry + 1 => Behind' = Behind \cup {d}
      /\ dv_bucket' = dv_bucket + 1 /\ dv_entry' = 1 => Behind \subseteq Behind'
  BY <1>1, <1>2, NextDriver
<1>4. InvalidEntries' = InvalidEntries /\ InvalidDrivers' = InvalidDrivers
  BY <1>1, SameModules
<1>5. \/ /\ error
         /\ dv_bucket' = dv_bucket + 1 /\ dv_entry' = 1
         /\ dv_given_up' = TRUE
         /\ dv_head' = dv_head /\ dv_count' = dv_count
      \/ /\ ~error /\ dv_bucket' = dv_bucket /\ dv_entry' = dv_entry + 1
         /\ dv_given_up' = dv_given_up
         /\ dv_head' = entries \o dv_head /\ dv_count' = dv_count + Len(entries)
         /\ dv_lost' = dv_lost
      \/ /\ ~error /\ dv_bucket' = dv_bucket /\ dv_entry' = dv_entry + 1
         /\ dv_given_up' = dv_given_up
         /\ dv_head' = dv_head /\ dv_count' = dv_count
         /\ dv_lost' = dv_lost \cup {d}
  BY Zenon DEF ValidateDriverObjects, AddDriverToList, NoEntry
<1> HIDE DEF d, F, error
<1>6. CASE /\ error
           /\ dv_bucket' = dv_bucket + 1 /\ dv_entry' = 1
           /\ dv_given_up' = TRUE
           /\ dv_head' = dv_head /\ dv_count' = dv_count
  <2>1. DvTypes'
    BY <1>1, <1>2, <1>4, <1>6 DEF DvTypes
  <2>2. DvOnce' /\ DvReporting'
    BY <1>1, <1>2, <1>6 DEF DvOnce, DvReporting
  <2>3. DvValidating'
    BY <1>1, <1>2, <1>3, <1>6 DEF DvValidating
  <2>4. dv_given_up'
    BY <1>6
  <2>5. DvListed'
    BY <2>4 DEF DvListed
  <2> QED
    BY <2>1, <2>2, <2>3, <2>5 DEF DvInv
<1>7. CASE /\ ~error /\ dv_bucket' = dv_bucket /\ dv_entry' = dv_entry + 1
           /\ dv_given_up' = dv_given_up
           /\ dv_head' = dv_head /\ dv_count' = dv_count
           /\ dv_lost' = dv_lost \cup {d}
  <2>1. DvTypes'
    BY <1>1, <1>2, <1>4, <1>7 DEF DvTypes
  <2>2. DvOnce' /\ DvReporting'
    BY <1>1, <1>2, <1>7 DEF DvOnce, DvReporting
  <2>3. DvValidating'
    BY <1>1, <1>2, <1>3, <1>7 DEF DvValidating
  <2>4. Behind' = Behind \cup {d}
    BY <1>3, <1>7
  <2>5. dv_given_up' <=> dv_given_up
    BY <1>7
  <2>6. DvListed'
    BY <1>1, <1>2, <1>4, <1>7, <2>4, <2>5 DEF DvListed
  <2> QED
    BY <2>1, <2>2, <2>3, <2>6 DEF DvInv
<1>8. CASE /\ ~error /\ dv_bucket' = dv_bucket /\ dv_entry' = dv_entry + 1
           /\ dv_given_up' = dv_given_up
           /\ dv_head' = entries \o dv_head /\ dv_count' = dv_count + Len(entries)
           /\ dv_lost' = dv_lost
  <2>1. Behind' = Behind \cup {d}
    BY <1>3, <1>8
  <2>2. dv_given_up' <=> dv_given_up
    BY <1>8
  <2>3. \/ F = <<>> /\ \A reason \in Reasons : ~InvalidFor(d, reason)
        \/ \E reason \in Reasons : F = <<reason>> /\ InvalidFor(d, reason)
    BY <1>2, <1>3, <1>8, FailuresExact DEF F, error
  <2>4. CASE F = <<>> /\ \A reason \in Reasons : ~InvalidFor(d, reason)
    <3>1. entries = <<>>
      BY <2>4
    <3>2. dv_head' = dv_head /\ dv_count' = dv_count
      <4>1. dv_head' = <<>> \o dv_head /\ dv_count' = dv_count + Len(<<>>)
        BY <1>8, <3>1
      <4>2. dv_head \in Seq(InvalidEntries) /\ dv_count \in Nat
        BY <1>2 DEF DvTypes
      <4> HIDE DEF entries
      <4> QED
        BY <4>1, <4>2
    <3>3. d \notin InvalidDrivers
      BY <2>4 DEF InvalidDrivers
    <3> HIDE DEF entries
    <3>4. DvTypes'
      BY <1>1, <1>2, <1>4, <1>8, <3>2 DEF DvTypes
    <3>5. DvOnce' /\ DvReporting'
      BY <1>1, <1>2, <3>2 DEF DvOnce, DvReporting
    <3>6. DvValidating'
      BY <1>1, <1>2, <2>1, <3>2 DEF DvValidating
    <3>7. DvListed'
      BY <1>1, <1>2, <1>4, <1>8, <2>1, <2>2, <3>2, <3>3 DEF DvListed
    <3> QED
      BY <3>4, <3>5, <3>6, <3>7 DEF DvInv
  <2>5. ASSUME NEW reason \in Reasons, F = <<reason>>, InvalidFor(d, reason)
        PROVE  DvInv'
    <3> DEFINE e == [driver |-> d, reason |-> reason]
    <3>1. entries = <<e>>
      BY <2>5
    <3>2. e \in InvalidEntries /\ e.driver = d
      BY <1>3, <2>5 DEF InvalidEntries, Entries
    <3> HIDE DEF e
    <3>3. dv_head' = <<e>> \o dv_head /\ dv_count' = dv_count + 1
      BY <1>8, <3>1
    <3> HIDE DEF entries
    <3>4. dv_head \in Seq(InvalidEntries) /\ d \notin DriversIn(dv_head) /\ dv_count = Len(dv_head)
          /\ NamedOnce(dv_head) /\ dv_count \in Nat
      BY <1>1, <1>2, <1>3 DEF DvTypes, DvOnce, DvValidating
    <3>5. /\ dv_head' \in Seq(InvalidEntries) /\ Len(dv_head') = Len(dv_head) + 1
          /\ DriversIn(dv_head') = DriversIn(dv_head) \cup {d}
          /\ NamedOnce(dv_head')
      BY <3>2, <3>3, <3>4, EntryAdded
    <3>6. DvTypes'
      BY SMTT(30), <1>1, <1>2, <1>4, <1>8, <3>3, <3>5 DEF DvTypes
    <3>7. DriversIn(dv_reports) = {} /\ dv_reports = <<>> /\ NamedOnce(dv_reports)
      BY <1>1, <1>2, EmptyList DEF DvValidating
    <3>8. DvOnce'
      BY <1>1, <3>5, <3>7 DEF DvOnce
    <3>9. DvValidating'
      BY <1>1, <1>2, <2>1, <3>3, <3>4, <3>5 DEF DvValidating
    <3>10. DvReporting'
      BY <1>1 DEF DvReporting
    <3>11. DvListed'
      BY <1>1, <1>2, <1>4, <1>8, <2>1, <2>2, <3>5 DEF DvListed
    <3> QED
      BY <3>6, <3>8, <3>9, <3>10, <3>11 DEF DvInv
  <2> QED
    BY <2>3, <2>4, <2>5
<1> QED
  BY <1>5, <1>6, <1>7, <1>8

\* The next bucket, or the end of the directory.
LEMMA WrapperKeeps == ASSUME DvInv, ValidateDriverObjectsWrapper PROVE DvInv'
<1>1. /\ dv_pc = "validate" /\ dv_modules' = dv_modules
      /\ dv_directory' = dv_directory /\ dv_index' = dv_index
      /\ dv_reports' = dv_reports /\ dv_failures' = dv_failures /\ dv_head' = dv_head
      /\ dv_count' = dv_count /\ dv_lost' = dv_lost
  BY DEF ValidateDriverObjectsWrapper
<1>2. /\ DvTypes /\ DvOnce /\ DvValidating /\ DvListed
  BY <1>1 DEF DvInv
<1>3. InvalidEntries' = InvalidEntries /\ InvalidDrivers' = InvalidDrivers
  BY <1>1, SameModules
<1>4. dv_given_up' = dv_given_up
  BY DEF ValidateDriverObjectsWrapper
<1>5. dv_given_up' <=> dv_given_up
  BY <1>4
<1>6. DvOnce'
  BY <1>1, <1>2 DEF DvOnce
<1>7. CASE /\ dv_bucket <= Len(dv_directory)
           /\ dv_entry > Len(dv_directory[dv_bucket])
           /\ dv_bucket' = dv_bucket + 1 /\ dv_entry' = 1
           /\ dv_pc' = dv_pc
  <2>1. Behind' = Behind
    BY <1>1, <1>2, <1>7, NextBucket
  <2>2. DvTypes'
    BY <1>1, <1>2, <1>3, <1>7 DEF DvTypes
  <2>3. DvValidating' /\ DvReporting'
    BY <1>1, <1>2, <1>7, <2>1 DEF DvValidating, DvReporting
  <2>4. DvListed'
    BY <1>1, <1>2, <1>3, <1>5, <1>7, <2>1 DEF DvListed
  <2> QED
    BY <1>6, <2>2, <2>3, <2>4 DEF DvInv
<1>8. CASE /\ dv_bucket > Len(dv_directory)
           /\ dv_pc' = IF dv_count = 0 THEN "done" ELSE "report"
           /\ dv_bucket' = dv_bucket /\ dv_entry' = dv_entry
  <2>1. Behind' = Behind
    BY <1>1, <1>8, SamePosition
  <2>2. DvTypes'
    BY <1>1, <1>2, <1>3, <1>8 DEF DvTypes
  <2>3. DvValidating'
    BY <1>8 DEF DvValidating
  <2>4. DvReporting'
    <3>1. dv_count \in Nat /\ DvLimit \in Nat /\ dv_index = 0 /\ dv_failures = 0
          /\ Len(dv_reports) = 0 /\ Len(dv_head) = dv_count
      BY <1>1, <1>2, DriverValidationAssumption DEF DvTypes, DvValidating, DvLimit
    <3> QED
      BY <1>1, <1>8, <3>1 DEF DvReporting, DvLimit
  <2>5. DvListed'
    BY <1>1, <1>2, <1>3, <1>5, <1>8, <2>1 DEF DvListed
  <2> QED
    BY <1>6, <2>2, <2>3, <2>4, <2>5 DEF DvInv
<1> QED
  BY <1>7, <1>8, Zenon DEF ValidateDriverObjectsWrapper


\* An iteration of the reporting loop.
LEMMA ReportKeeps == ASSUME DvInv, ReportInvalidDriver PROVE DvInv'
<1> DEFINE e == dv_head[1]
<1>1. /\ dv_pc = "report" /\ dv_head # <<>>
      /\ dv_modules' = dv_modules /\ dv_directory' = dv_directory
      /\ dv_bucket' = dv_bucket /\ dv_entry' = dv_entry /\ dv_count' = dv_count
      /\ dv_lost' = dv_lost /\ dv_index' = dv_index + 1
      /\ dv_pc' = IF dv_index + 1 < dv_count THEN "report" ELSE "done"
  BY DEF ReportInvalidDriver
<1>2. dv_given_up' = dv_given_up
  BY DEF ReportInvalidDriver
<1>3. dv_given_up' <=> dv_given_up
  BY <1>2
<1>4. DvTypes /\ DvOnce /\ DvReporting /\ DvListed
  BY DEF DvInv
<1>5. InvalidEntries' = InvalidEntries /\ InvalidDrivers' = InvalidDrivers /\ Behind' = Behind
  BY <1>1, SameModules, SamePosition
<1>6. /\ dv_head \in Seq(InvalidEntries) /\ dv_reports \in Seq(InvalidEntries)
      /\ dv_count \in Nat /\ dv_index \in Nat /\ dv_failures \in Nat /\ DvLimit \in Nat
      /\ Len(dv_head) \in Nat /\ Len(dv_reports) \in Nat
      /\ dv_bucket > Len(dv_directory) /\ dv_index < dv_count
  BY <1>1, <1>4, DriverValidationAssumption DEF DvTypes, DvReporting, DvLimit
<1>7. /\ Len(dv_reports) + dv_failures = IF dv_index <= DvLimit THEN dv_index ELSE DvLimit
      /\ Len(dv_head) + Len(dv_reports) =
             dv_count - (IF dv_index <= DvLimit THEN 0 ELSE dv_index - DvLimit)
  BY <1>1, <1>4 DEF DvReporting
<1>8. \/ /\ dv_index < DvLimit
         /\ dv_reports' = Append(dv_reports, e) /\ dv_failures' = dv_failures
         /\ dv_head' = Tail(dv_head)
      \/ /\ dv_index < DvLimit
         /\ dv_reports' = dv_reports /\ dv_failures' = dv_failures + 1
         /\ dv_head' = dv_head
      \/ /\ dv_index >= DvLimit
         /\ dv_reports' = dv_reports /\ dv_failures' = dv_failures
         /\ dv_head' = Tail(dv_head)
  <2>1. PICK reported \in BOOLEAN :
            /\ reported => dv_index < DvLimit
            /\ dv_reports' = IF reported THEN Append(dv_reports, e) ELSE dv_reports
            /\ dv_failures' = dv_failures +
                   (IF reported \/ dv_index >= DvLimit THEN 0 ELSE 1)
            /\ IF reported \/ dv_index >= DvLimit
               THEN dv_head' = Tail(dv_head) ELSE dv_head' = dv_head
    BY Zenon DEF ReportInvalidDriver, RemoveInvalidDriverFromList, DvLimit
  <2>2. CASE reported
    BY <1>6, <2>1, <2>2
  <2>3. CASE ~reported /\ dv_index >= DvLimit
    BY <1>6, <2>1, <2>3
  <2>4. CASE ~reported /\ ~(dv_index >= DvLimit)
    BY <1>6, <2>1, <2>4
  <2> QED
    BY <2>2, <2>3, <2>4
<1>9. /\ e \in InvalidEntries
      /\ Tail(dv_head) \in Seq(InvalidEntries) /\ Len(Tail(dv_head)) = Len(dv_head) - 1
      /\ DriversIn(Tail(dv_head)) \subseteq DriversIn(dv_head)
      /\ DriversIn(dv_head) \subseteq DriversIn(Tail(dv_head)) \cup {e.driver}
      /\ e.driver \in DriversIn(dv_head)
      /\ NamedOnce(Tail(dv_head)) /\ e.driver \notin DriversIn(Tail(dv_head))
  BY <1>1, <1>4, <1>6, EntryRemoved DEF DvOnce
<1>10. LET longer == Append(dv_reports, e)
       IN /\ longer \in Seq(InvalidEntries) /\ Len(longer) = Len(dv_reports) + 1
          /\ DriversIn(longer) = DriversIn(dv_reports) \cup {e.driver}
          /\ NamedOnce(dv_reports) /\ e.driver \notin DriversIn(dv_reports) => NamedOnce(longer)
  BY <1>6, <1>9, EntryAppended
<1> HIDE DEF e
<1>11. DvTypes'
  <2>1. dv_head' \in Seq(InvalidEntries)
    BY <1>6, <1>8, <1>9
  <2>2. dv_reports' \in Seq(InvalidEntries)
    BY <1>6, <1>8, <1>10
  <2>3. dv_failures' \in Nat
    BY <1>6, <1>8
  <2> QED
    BY <1>1, <1>4, <1>5, <1>6, <2>1, <2>2, <2>3 DEF DvTypes
<1>12. DvOnce'
  <2>1. /\ NamedOnce(dv_head) /\ NamedOnce(dv_reports)
        /\ DriversIn(dv_head) \cap DriversIn(dv_reports) = {}
    BY <1>4 DEF DvOnce
  <2>2. CASE dv_reports' = Append(dv_reports, e) /\ dv_head' = Tail(dv_head)
    BY <1>9, <1>10, <2>1, <2>2 DEF DvOnce
  <2>3. CASE dv_reports' = dv_reports /\ dv_head' = dv_head
    BY <2>1, <2>3 DEF DvOnce
  <2>4. CASE dv_reports' = dv_reports /\ dv_head' = Tail(dv_head)
    BY <1>9, <2>1, <2>4 DEF DvOnce
  <2> QED
    BY <1>8, <2>2, <2>3, <2>4
<1>13. DvValidating'
  BY <1>1 DEF DvValidating
<1>14. DvReporting'
  <2>1. dv_pc' \in {"report", "done"} /\ dv_bucket' > Len(dv_directory')
    BY <1>1, <1>6
  <2>2. /\ dv_pc' = "report" => dv_index' < dv_count'
        /\ dv_pc' = "done" => dv_index' = dv_count'
    BY <1>1, <1>6
  <2>3. /\ dv_head' = dv_head => Len(dv_head') = Len(dv_head)
        /\ dv_head' = Tail(dv_head) => Len(dv_head') = Len(dv_head) - 1
        /\ dv_reports' = dv_reports => Len(dv_reports') = Len(dv_reports)
        /\ dv_reports' = Append(dv_reports, e) => Len(dv_reports') = Len(dv_reports) + 1
    BY <1>9, <1>10
  <2> DEFINE h == Len(dv_head)
             r == Len(dv_reports)
             hn == Len(dv_head')
             rn == Len(dv_reports')
  <2>4. \/ dv_index < DvLimit /\ rn = r + 1 /\ dv_failures' = dv_failures /\ hn = h - 1
        \/ dv_index < DvLimit /\ rn = r /\ dv_failures' = dv_failures + 1 /\ hn = h
        \/ dv_index >= DvLimit /\ rn = r /\ dv_failures' = dv_failures /\ hn = h - 1
    BY <1>8, <2>3
  <2>5. h \in Nat /\ r \in Nat
    BY <1>6
  <2> HIDE DEF h, r, hn, rn
  <2>6. /\ r + dv_failures = IF dv_index <= DvLimit THEN dv_index ELSE DvLimit
        /\ h + r = dv_count - (IF dv_index <= DvLimit THEN 0 ELSE dv_index - DvLimit)
    BY <1>7 DEF h, r
  <2>7. /\ rn + dv_failures' = IF dv_index + 1 <= DvLimit THEN dv_index + 1 ELSE DvLimit
        /\ hn + rn = dv_count - (IF dv_index + 1 <= DvLimit THEN 0 ELSE dv_index + 1 - DvLimit)
    <3>1. CASE dv_index < DvLimit
      BY <1>6, <2>4, <2>5, <2>6, <3>1
    <3>2. CASE dv_index = DvLimit
      BY <1>6, <2>4, <2>5, <2>6, <3>2
    <3>3. CASE dv_index > DvLimit
      BY <1>6, <2>4, <2>5, <2>6, <3>3
    <3> QED
      BY <1>6, <3>1, <3>2, <3>3
  <2>8. /\ Len(dv_reports') + dv_failures' = IF dv_index' <= DvLimit THEN dv_index' ELSE DvLimit
        /\ Len(dv_head') + Len(dv_reports') =
               dv_count' - (IF dv_index' <= DvLimit THEN 0 ELSE dv_index' - DvLimit)
    <3>1. dv_index' = dv_index + 1 /\ dv_count' = dv_count
      BY <1>1
    <3>2. /\ rn + dv_failures' = IF dv_index' <= DvLimit THEN dv_index' ELSE DvLimit
          /\ hn + rn = dv_count' - (IF dv_index' <= DvLimit THEN 0 ELSE dv_index' - DvLimit)
      BY <1>6, <2>7, <3>1
    <3> QED
      BY ONLY <3>2 DEF hn, rn
  <2> QED
    BY <2>1, <2>2, <2>8 DEF DvReporting, DvLimit
<1>15. DvListed'
  <2> SUFFICES ASSUME ~dv_given_up', dv_count' <= DvLimit
               PROVE  (Behind' \cap InvalidDrivers') \ dv_lost' \subseteq
                          DriversIn(dv_head') \cup DriversIn(dv_reports')
    BY <1>1 DEF DvListed, DvLimit
  <2>1. (Behind \cap InvalidDrivers) \ dv_lost \subseteq
            DriversIn(dv_head) \cup DriversIn(dv_reports)
    BY <1>1, <1>3, <1>4 DEF DvListed
  <2>2. dv_index < DvLimit
    BY <1>1, <1>6
  <2>3. \/ dv_reports' = Append(dv_reports, e) /\ dv_head' = Tail(dv_head)
        \/ dv_reports' = dv_reports /\ dv_head' = dv_head
    BY <1>6, <1>8, <2>2
  <2>4. DriversIn(dv_head) \cup DriversIn(dv_reports) \subseteq
            DriversIn(dv_head') \cup DriversIn(dv_reports')
    BY <1>9, <1>10, <2>3
  <2> QED
    BY <1>1, <1>5, <2>1, <2>4
<1> QED
  BY <1>11, <1>12, <1>13, <1>14, <1>15 DEF DvInv

LEMMA DvStepInv == ASSUME DvInv, [DvNext]_dv_vars PROVE DvInv'
<1>1. CASE DriverValidationReturn
  <2>1. DriverValidationInit'
    BY <1>1 DEF DriverValidationReturn, DriverValidationInit
  <2>2. dv_head' = <<>> /\ dv_reports' = <<>> /\ dv_pc' = "idle"
    BY <1>1 DEF DriverValidationReturn
  <2>3. DvTypes'
    BY <1>1, <2>2, EmptyList DEF DriverValidationReturn, DvTypes
  <2>4. DvOnce'
    BY <2>2, EmptyList DEF DvOnce
  <2>5. DvValidating' /\ DvReporting' /\ DvListed'
    BY <2>2 DEF DvValidating, DvReporting, DvListed
  <2> QED
    BY <2>3, <2>4, <2>5 DEF DvInv
<1>2. CASE UNCHANGED dv_vars
  <2>1. /\ dv_pc' = dv_pc /\ dv_modules' = dv_modules /\ dv_directory' = dv_directory
        /\ dv_bucket' = dv_bucket /\ dv_entry' = dv_entry /\ dv_head' = dv_head
        /\ dv_count' = dv_count /\ dv_index' = dv_index /\ dv_reports' = dv_reports
        /\ dv_lost' = dv_lost /\ dv_failures' = dv_failures
    BY <1>2 DEF dv_vars
  <2>2. dv_given_up' <=> dv_given_up
    BY <1>2 DEF dv_vars
  <2>3. InvalidEntries' = InvalidEntries /\ InvalidDrivers' = InvalidDrivers /\ Behind' = Behind
    BY <2>1, SameModules, SamePosition
  <2>4. DvTypes'
    BY <2>1, <2>3 DEF DvInv, DvTypes
  <2>5. DvOnce' /\ DvValidating' /\ DvReporting'
    BY <2>1, <2>3 DEF DvInv, DvOnce, DvValidating, DvReporting
  <2>6. DvListed'
    BY <2>1, <2>2, <2>3 DEF DvInv, DvListed
  <2> QED
    BY <2>4, <2>5, <2>6 DEF DvInv
<1> QED
  BY <1>1, <1>2, DvStartsInv, ValidateKeeps, WrapperKeeps, ReportKeeps
     DEF DvNext, DriverValidationStep

LEMMA DvSafe == DvInv => InvalidDriversAccountedFor
<1> SUFFICES ASSUME DvInv PROVE InvalidDriversAccountedFor
  OBVIOUS
<1> DEFINE entries == dv_head \o dv_reports
           h == Len(dv_head)
           r == Len(dv_reports)
<1>1. /\ dv_head \in Seq(InvalidEntries) /\ dv_reports \in Seq(InvalidEntries)
      /\ dv_count \in Nat /\ dv_index \in Nat /\ dv_failures \in Nat /\ DvLimit \in Nat
      /\ h \in Nat /\ r \in Nat
  BY DriverValidationAssumption DEF DvInv, DvTypes, DvLimit
<1>2. /\ entries \in Seq(InvalidEntries) /\ Len(entries) = h + r
      /\ \A i \in 1..h : entries[i] = dv_head[i] /\ i \in 1..(h + r)
      /\ \A i \in 1..r : entries[h + i] = dv_reports[i] /\ h + i \in 1..(h + r)
  BY <1>1
<1>3. \A i \in 1..(h + r) :
          \/ i \in 1..h /\ entries[i] = dv_head[i]
          \/ i - h \in 1..r /\ entries[i] = dv_reports[i - h]
  BY <1>1
<1> HIDE DEF entries
<1>4. dv_pc = "report" => dv_head # <<>>
  <2> SUFFICES ASSUME dv_pc = "report" PROVE h # 0
    BY DEF h
  <2> HIDE DEF h, r
  <2>1. /\ r + dv_failures = IF dv_index <= DvLimit THEN dv_index ELSE DvLimit
        /\ h + r = dv_count - (IF dv_index <= DvLimit THEN 0 ELSE dv_index - DvLimit)
        /\ dv_index < dv_count
    BY DEF DvInv, DvReporting, h, r
  <2> QED
    BY <1>1, <2>1
<1>5. \A i \in 1..Len(entries) : InvalidFor(entries[i].driver, entries[i].reason)
  BY <1>2 DEF InvalidEntries
<1>6. ASSUME NEW i \in 1..Len(entries), NEW j \in 1..Len(entries), i # j
      PROVE  entries[i].driver # entries[j].driver
  <2>1. /\ NamedOnce(dv_head) /\ NamedOnce(dv_reports)
        /\ DriversIn(dv_head) \cap DriversIn(dv_reports) = {}
    BY DEF DvInv, DvOnce
  <2>2. /\ \/ i \in 1..h /\ entries[i] = dv_head[i]
           \/ i - h \in 1..r /\ entries[i] = dv_reports[i - h]
        /\ \/ j \in 1..h /\ entries[j] = dv_head[j]
           \/ j - h \in 1..r /\ entries[j] = dv_reports[j - h]
    BY <1>2, <1>3
  <2>3. i - h # j - h
    BY <1>1, <1>2, <1>6
  <2>4. /\ \A k \in 1..h : dv_head[k].driver \in DriversIn(dv_head)
        /\ \A k \in 1..r : dv_reports[k].driver \in DriversIn(dv_reports)
    BY DEF DriversIn
  <2>5. CASE i \in 1..h /\ entries[i] = dv_head[i] /\ j \in 1..h /\ entries[j] = dv_head[j]
    BY <1>6, <2>1, <2>5 DEF NamedOnce
  <2>6. CASE /\ i - h \in 1..r /\ entries[i] = dv_reports[i - h]
             /\ j - h \in 1..r /\ entries[j] = dv_reports[j - h]
    BY <2>1, <2>3, <2>6 DEF NamedOnce
  <2>7. CASE /\ i \in 1..h /\ entries[i] = dv_head[i]
             /\ j - h \in 1..r /\ entries[j] = dv_reports[j - h]
    BY <2>1, <2>4, <2>7
  <2>8. CASE /\ i - h \in 1..r /\ entries[i] = dv_reports[i - h]
             /\ j \in 1..h /\ entries[j] = dv_head[j]
    BY <2>1, <2>4, <2>8
  <2> QED
    BY <2>2, <2>5, <2>6, <2>7, <2>8
<1>7. ASSUME dv_pc = "done"
      PROVE  /\ h = dv_failures
             /\ Len(entries) = Min({dv_count, DvLimit})
  <2> HIDE DEF h, r
  <2>1. /\ r + dv_failures = IF dv_index <= DvLimit THEN dv_index ELSE DvLimit
        /\ h + r = dv_count - (IF dv_index <= DvLimit THEN 0 ELSE dv_index - DvLimit)
        /\ dv_index = dv_count
    BY <1>7 DEF DvInv, DvReporting, h, r
  <2>2. Min({dv_count, DvLimit}) = IF dv_count <= DvLimit THEN dv_count ELSE DvLimit
    BY SMTT(30), <1>1, MinOfTwo
  <2>3. h + r = IF dv_count <= DvLimit THEN dv_count ELSE DvLimit
    BY <1>1, <2>1
  <2>4. h = dv_failures
    BY <1>1, <2>1, <2>3
  <2> QED
    BY <1>2, <2>2, <2>3, <2>4
<1>8. ASSUME dv_pc = "done", ~dv_given_up, dv_count <= DvLimit,
             NEW d \in DriversOf(dv_directory) \ dv_lost,
             \E reason \in Reasons : InvalidFor(d, reason)
      PROVE  \E i \in 1..Len(entries) : entries[i].driver = d
  <2>1. d \in Behind
    BY <1>8, AllBehind DEF DvInv, DvReporting, DvTypes
  <2>2. d \in InvalidDrivers
    BY <1>8, <2>1 DEF InvalidDrivers, Behind
  <2>3. d \in DriversIn(dv_head) \cup DriversIn(dv_reports)
    BY <1>8, <2>1, <2>2 DEF DvInv, DvListed
  <2>4. CASE d \in DriversIn(dv_head)
    BY <1>2, <2>4 DEF DriversIn
  <2>5. CASE d \in DriversIn(dv_reports)
    BY <1>2, <2>5 DEF DriversIn
  <2> QED
    BY <2>3, <2>4, <2>5
<1> QED
  BY <1>4, <1>5, <1>6, <1>7, <1>8 DEF InvalidDriversAccountedFor, DvLimit, entries

-----------------------------------------------------------------------------
(* Times of reads.                                                         *)

\* How many of the first reads did not fail.
Counted(times) == [i \in Nat |-> Cardinality({j \in 1..i : times[j] # 0})]

LEMMA ReadsCounted ==
    ASSUME NEW times
    PROVE  /\ Counted(times) \in [Nat -> Nat] /\ Counted(times)[0] = 0
           /\ \A i \in Nat : Counted(times)[i + 1] =
                  IF times[i + 1] = 0 THEN Counted(times)[i] ELSE Counted(times)[i] + 1
<1> DEFINE read(i) == {j \in 1..i : times[j] # 0}
<1>1. ASSUME NEW i \in Nat
      PROVE  IsFiniteSet(read(i)) /\ Cardinality(read(i)) \in Nat
  <2>1. IsFiniteSet(1..i)
    BY FS_Interval
  <2>2. IsFiniteSet(read(i))
    BY <2>1, FS_Subset
  <2> QED
    BY <2>2, FS_CardinalityType
<1>2. read(0) = {}
  OBVIOUS
<1>3. ASSUME NEW i \in Nat, times[i + 1] = 0 PROVE read(i + 1) = read(i)
  BY <1>3
<1>4. ASSUME NEW i \in Nat, times[i + 1] # 0
      PROVE  read(i + 1) = read(i) \cup {i + 1} /\ i + 1 \notin read(i)
  BY <1>4
<1>5. \A i \in Nat : i + 1 \in Nat /\ Counted(times)[i] = Cardinality(read(i))
  BY DEF Counted
<1>6. Counted(times) = [i \in Nat |-> Cardinality(read(i))]
  BY DEF Counted
<1> HIDE DEF read
<1>7. Counted(times) \in [Nat -> Nat] /\ Counted(times)[0] = 0
  BY <1>1, <1>2, <1>6, FS_EmptySet
<1>8. ASSUME NEW i \in Nat, times[i + 1] # 0
      PROVE  Cardinality(read(i + 1)) = Cardinality(read(i)) + 1
  BY SMTT(30), <1>1, <1>4, <1>8, FS_AddElement
<1> QED
  BY <1>3, <1>5, <1>7, <1>8, Zenon

EptNext ==
    \/ \E control \in ControlTimes, protected \in ProtectedTimes :
           DetectEptHooksInKeyFunctions(control, protected)
    \/ EptStep

\* What the comparison flags, of the times it was given.
EptInv ==
    /\ ept_pc # "idle" =>
           ept_times.control \in Seq(Nat) /\ ept_times.protected \in Seq(Nat)
    /\ ept_pc = "done" =>
           ept_flagged = IF ControlAverage(ept_times.control) = 0 THEN {} ELSE
               {i \in 1..Len(ept_times.protected) :
                   ControlAverage(ept_times.control) * EPT_EXECUTION_TIME_MULTIPLIER
                       < ept_times.protected[i]}

LEMMA EptStart == HalInit => EptInv
BY DEF HalInit, EptInv

LEMMA EptStepInv == ASSUME EptInv, [EptNext]_ept_vars PROVE EptInv'
<1>1. ASSUME NEW control \in ControlTimes, NEW protected \in ProtectedTimes,
             DetectEptHooksInKeyFunctions(control, protected)
      PROVE  EptInv'
  BY <1>1, HalAssumption DEF DetectEptHooksInKeyFunctions, EptInv
<1>2. CASE CompareReadTimes
  BY <1>2 DEF CompareReadTimes, EptInv
<1>3. CASE EptReturn
  BY <1>3 DEF EptReturn, EptInv
<1>4. CASE UNCHANGED ept_vars
  BY <1>4 DEF ept_vars, EptInv
<1> QED
  BY <1>1, <1>2, <1>3, <1>4 DEF EptNext, EptStep

\* The average is the quotient, rounded down.
LEMMA Average ==
    ASSUME NEW sum \in Nat, NEW reads \in Nat, reads > 0, reads <= sum
    PROVE  /\ sum \div reads \in Nat \ {0}
           /\ (sum \div reads) * reads <= sum
           /\ sum < (sum \div reads) * reads + reads
OBVIOUS

\* Every read that did not fail adds at least one to the sum.
ReadsAddUp(times) ==
    SumOf(times) \in Nat /\ ReadsOf(times) \in Nat /\ ReadsOf(times) <= SumOf(times)

\* Rounding the average down moves the limit by less than the multiplier leaves
\* room for.
LEMMA EptSafe ==
    ASSUME EptInv, ept_pc = "done", ReadsOf(ept_times.control) > 0,
           ReadsAddUp(ept_times.control), NEW i \in 1..Len(ept_times.protected)
    PROVE  LET sum == SumOf(ept_times.control)
               time == ept_times.protected[i] * ReadsOf(ept_times.control)
           IN /\ time > EPT_EXECUTION_TIME_MULTIPLIER * sum => i \in ept_flagged
              /\ i \in ept_flagged => time > sum
<1> DEFINE sum == SumOf(ept_times.control)
           reads == ReadsOf(ept_times.control)
           time == ept_times.protected[i]
           average == sum \div reads
<1>1. sum \in Nat /\ reads \in Nat /\ reads <= sum /\ reads > 0 /\ time \in Nat
  BY DEF EptInv, ReadsAddUp
<1>2. ControlAverage(ept_times.control) = average
  BY <1>1 DEF ControlAverage
<1> HIDE DEF sum, reads, time
<1>3. average \in Nat \ {0} /\ average * reads <= sum /\ sum < average * reads + reads
  BY <1>1, Average
<1> HIDE DEF average
<1>4. i \in ept_flagged <=> average * 10 < time
  BY <1>2, <1>3 DEF EptInv, EPT_EXECUTION_TIME_MULTIPLIER, time
<1>5. ASSUME time * reads > 10 * sum PROVE average * 10 < time
  <2>1. 10 * (average * reads) < time * reads
    BY <1>1, <1>3, <1>5
  <2>2. (10 * average) * reads < time * reads
    BY <1>1, <1>3, <2>1
  <2> QED
    BY <1>1, <1>3, <2>2
<1>6. ASSUME average * 10 < time PROVE time * reads > sum
  <2>1. average + 1 <= time
    BY <1>1, <1>3, <1>6
  <2>2. (average + 1) * reads <= time * reads
    BY <1>1, <1>3, <2>1
  <2>3. (average + 1) * reads = average * reads + reads
    BY <1>1, <1>3
  <2> QED
    BY <1>1, <1>3, <2>2, <2>3
<1> QED
  BY <1>4, <1>5, <1>6 DEF EPT_EXECUTION_TIME_MULTIPLIER, sum, reads, time

=============================================================================
