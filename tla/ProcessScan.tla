----------------------------- MODULE ProcessScan ------------------------------
(***************************************************************************)
(* Looking for processes that are in memory but not in the process list    *)
(* (FindUnlinkedProcesses and what it calls, driver/pool.c).  The page     *)
(* tables are walked, the process structures found are put into a buffer,  *)
(* the listed ones are taken out of it and the rest is reported.           *)
(* Processes start and end meanwhile.                                      *)
(***************************************************************************)
EXTENDS Integers, Sequences, FiniteSets, FiniteSetsExt, Functions

CONSTANTS
    Memories,       \* what is in memory: top level page tables
    PhysicalRanges, \* MmGetPhysicalMemoryRangesEx2: a sequence of ranges
    NoProcess       \* a free slot of the buffer

VARIABLES
    ps_pc,          \* "idle", "allocate", "walk", "check" or "report"
    ps_tables,      \* what is left to walk: the rest of a table for each level
    ps_processes,   \* addresses in the driver's process list
    ps_count,       \* PROCESS_SCAN_CONTEXT.process_count
    ps_buffer,      \* the part of process_buffer that is used
    ps_found,       \* process structures on the pages there are
    ps_full,        \* no slot of the buffer is free
    ps_listed,      \* the process list when it was compared with the buffer
    ps_index,       \* the slot the reporting loop is at
    ps_reports,     \* addresses reported
    ps_dropped      \* slots whose report could not be made

ps_vars == <<ps_pc, ps_tables, ps_processes, ps_count, ps_buffer, ps_found,
             ps_full, ps_listed, ps_index, ps_reports, ps_dropped>>

\* A page table is a sequence of entries: can the entry be read, is it present,
\* is it a large page, has what it points to a virtual address, its physical
\* address, and either the next table or the blocks of the page.  A block is
\* the sequence of its pool allocations with the process tag: where the process
\* structure would be, and the fields the test looks at.
LEVELS == 4

IsPresent(entry) == entry.valid /\ entry.present
IsLeaf(entry, level) == level = LEVELS \/ (level > 1 /\ entry.large)

\* Every leaf below a table, whether the walk gets to it or not; `below' is the
\* same for the tables of the next level.
LeavesAt(table, level, below(_)) ==
    UNION {IF IsLeaf(e, level) THEN {e} ELSE below(e.table) : e \in Range(table)}

PtLeaves(table) == LeavesAt(table, 4, LAMBDA t : {})
PdLeaves(table) == LeavesAt(table, 3, PtLeaves)
PdptLeaves(table) == LeavesAt(table, 2, PdLeaves)
LeavesOf(memory) == LeavesAt(memory, 1, PdptLeaves)

AllocationsOn(page) == UNION {Range(page.blocks[b]) : b \in 1..Len(page.blocks)}

Addresses == UNION {UNION {{a.address : a \in AllocationsOn(page)} :
                               page \in LeavesOf(memory)} : memory \in Memories}

\* What a page that is present holds, and an entry that is: no process is at the
\* address that marks a free slot.
IsPageOfBlocks(page) ==
    /\ page.blocks \in Seq(Seq(AllocationsOn(page)))
    /\ \A a \in AllocationsOn(page) : a.address # NoProcess

IsTable(table, level, below(_)) ==
    /\ table \in Seq(Range(table))
    /\ \A e \in Range(table) :
           IsPresent(e) => IF IsLeaf(e, level) THEN IsPageOfBlocks(e) ELSE below(e.table)

IsPt(table) == IsTable(table, 4, LAMBDA t : TRUE)
IsPd(table) == IsTable(table, 3, IsPt)
IsPdpt(table) == IsTable(table, 2, IsPd)
IsPml4(table) == IsTable(table, 1, IsPdpt)

ASSUME ProcessScanAssumption == \A memory \in Memories : IsPml4(memory)

ProcessScanTypeOK ==
    /\ ps_pc \in {"idle", "allocate", "walk", "check", "report"}
    /\ ps_processes \subseteq Addresses
    /\ ps_count \in Nat /\ ps_index \in Nat
    /\ Len(ps_buffer) <= ps_count
    /\ \A i \in 1..Len(ps_buffer) : ps_buffer[i] \in Addresses \cup {NoProcess}
    /\ ps_found \subseteq Addresses /\ ps_listed \subseteq Addresses
    /\ ps_reports \subseteq Addresses /\ ps_dropped \subseteq Addresses
    /\ ps_full \in BOOLEAN

ProcessScanInit ==
    /\ ps_pc = "idle"
    /\ ps_tables = <<>> /\ ps_processes = {} /\ ps_count = 0
    /\ ps_buffer = <<>> /\ ps_found = {} /\ ps_full = FALSE
    /\ ps_listed = {} /\ ps_index = 1 /\ ps_reports = {} /\ ps_dropped = {}

-----------------------------------------------------------------------------
\* Scanning a page.

\* `peb & 0x7ffd0000 == 0x7ffd0000' is `peb & 1', and so for the object table;
\* the alignment then leaves only NULL to pass either test, and a process must
\* pass neither.
ValidateIfAddressIsProcessStructure(a) ==
    LET peb_test == a.peb = 0 \/ (a.peb % 2 = 1 /\ a.peb % 4096 = 0)
        object_table_test ==
            a.object_table = 0 \/ (a.object_table % 2 = 1 /\ a.object_table % 8 = 0)
    IN \* a.large: both tests of the allocation's size
       /\ a.peak_virtual_size > 0
       /\ (a.dir_table_base \div 32) % 2 = 0
       /\ a.large
       /\ a.pool_type # 0
       /\ ~peb_test
       /\ ~object_table_test

\* The first free slot takes the address; without one it is dropped.
AddToBuffer(buffer, address) ==
    LET free == {i \in 1..Len(buffer) : buffer[i] = NoProcess}
    IN IF free = {} THEN buffer ELSE [buffer EXCEPT ![Min(free)] = address]

\* Mutant: the scan of a block ends at the first process.
ScanFirstOnly(block, buffer) ==
    LET hits == {i \in 1..Len(block) : ValidateIfAddressIsProcessStructure(block[i])}
    IN IF hits = {} THEN buffer ELSE AddToBuffer(buffer, block[Min(hits)].address)

\* The tags of a 4KB block in the order of their addresses.  `process' keeps its
\* value from one tag to the next: after a process, a tag that is none adds the
\* same process again.
ScanPageForKernelObjectAllocation(block, buffer) ==
    LET process[i \in 0..Len(block)] ==
            IF i = 0 THEN NoProcess
            ELSE IF ValidateIfAddressIsProcessStructure(block[i]) THEN block[i].address
            ELSE process[i - 1]
        scanned[i \in 0..Len(block)] ==
            IF i = 0 THEN buffer
            ELSE IF process[i] = NoProcess THEN scanned[i - 1]
            ELSE AddToBuffer(scanned[i - 1], process[i])
    IN scanned[Len(block)]

\* A large page is scanned block by block, a small one has one block.
EnumerateKernelLargePages(blocks, buffer) ==
    LET scanned[b \in 0..Len(blocks)] ==
            IF b = 0 THEN buffer
            ELSE ScanPageForKernelObjectAllocation(blocks[b], scanned[b - 1])
    IN scanned[Len(blocks)]

\* Both ends of a range count as part of it.
IsPhysicalAddressInPhysicalMemoryRange(physical) ==
    \E i \in 1..Len(PhysicalRanges) :
        /\ physical >= PhysicalRanges[i].base
        /\ physical <= PhysicalRanges[i].base + PhysicalRanges[i].bytes

\* A page is scanned when it is physical memory and has a virtual address.
IsScanned(page) ==
    page.mapped /\ IsPhysicalAddressInPhysicalMemoryRange(page.physical)

\* The pages a translation through an entry of a table reaches, those reached
\* from a table of each level, and the processes on them.
PagesThrough(e, level, below(_)) ==
    IF ~IsPresent(e) THEN {}
    ELSE IF IsLeaf(e, level) THEN IF IsScanned(e) THEN {e} ELSE {}
    ELSE IF e.mapped THEN below(e.table) ELSE {}

PagesAt(table, level, below(_)) ==
    UNION {PagesThrough(e, level, below) : e \in Range(table)}

PtPages(table) == PagesAt(table, 4, LAMBDA t : {})
PdPages(table) == PagesAt(table, 3, PtPages)
PdptPages(table) == PagesAt(table, 2, PdPages)
PagesOf(memory) == PagesAt(memory, 1, PdptPages)

ProcessesOn(page) ==
    {a.address : a \in {x \in AllocationsOn(page) : ValidateIfAddressIsProcessStructure(x)}}

ProcessesIn(memory) == UNION {ProcessesOn(page) : page \in PagesOf(memory)}

-----------------------------------------------------------------------------
\* The handler.

\* EnumerateProcessListWithCallbackRoutine(IncrementProcessCounter)
FindUnlinkedProcesses(memory, processes) ==
    /\ ps_pc = "idle"
    /\ processes # {}
    /\ ps_pc' = "allocate"
    /\ ps_tables' = <<memory>> /\ ps_found' = ProcessesIn(memory)
    /\ ps_processes' = processes
    /\ ps_count' = Cardinality(processes)
    /\ UNCHANGED <<ps_buffer, ps_full, ps_listed, ps_index, ps_reports,
                   ps_dropped>>

\* Room for twice the count is allocated, and the count's worth is used; without
\* memory the handler returns.  A walk that cannot start, without the physical
\* ranges or the top table's virtual address, finds nothing.
AllocateProcessBuffer ==
    /\ ps_pc = "allocate"
    /\ \/ /\ ps_buffer' = [i \in 1..ps_count |-> NoProcess]
          /\ \/ ps_pc' = "walk" /\ UNCHANGED <<ps_tables, ps_found>>
             \/ ps_pc' = "check" /\ ps_tables' = <<>> /\ ps_found' = {}
          /\ UNCHANGED <<ps_processes, ps_count>>
       \/ /\ ps_pc' = "idle"
          /\ ps_tables' = <<>> /\ ps_processes' = {} /\ ps_count' = 0 /\ ps_found' = {}
          /\ UNCHANGED ps_buffer
    /\ UNCHANGED <<ps_full, ps_listed, ps_index, ps_reports, ps_dropped>>

\* The level the walk is at, the rest of its table, and the walk one entry on.
Level == Len(ps_tables)
Rest == ps_tables[Level]
Advanced == [ps_tables EXCEPT ![Level] = Tail(@)]

\* Mutant: a large page directory entry is walked as a table.
LargePageIsTable(entry) == Level = LEVELS

IsPage(entry) == IsLeaf(entry, Level)

\* One entry of the table at this level, or its end.  A page is scanned, a table
\* with a virtual address is walked next, and the rest is passed over.
WalkKernelPageTables ==
    /\ ps_pc = "walk" /\ Level > 0
    /\ \/ /\ Rest = <<>>
          /\ ps_tables' = SubSeq(ps_tables, 1, Level - 1)
          /\ UNCHANGED <<ps_buffer, ps_full>>
       \/ /\ Rest # <<>>
          /\ LET entry == Head(Rest)
             IN IF IsPresent(entry) /\ IsPage(entry) /\ IsScanned(entry)
                THEN /\ ps_buffer' = EnumerateKernelLargePages(entry.blocks, ps_buffer)
                     /\ ps_full' = (\A i \in 1..ps_count : ps_buffer'[i] # NoProcess)
                     /\ ps_tables' = Advanced
                ELSE /\ ps_tables' = IF IsPresent(entry) /\ ~IsPage(entry) /\ entry.mapped
                                     THEN Append(Advanced, entry.table) ELSE Advanced
                     /\ UNCHANGED <<ps_buffer, ps_full>>
    /\ UNCHANGED <<ps_pc, ps_processes, ps_count, ps_found, ps_listed, ps_index,
                   ps_reports, ps_dropped>>

WalkEnds ==
    /\ ps_pc = "walk" /\ Level = 0
    /\ ps_pc' = "check"
    /\ UNCHANGED <<ps_tables, ps_processes, ps_count, ps_buffer, ps_found, ps_full,
                   ps_listed, ps_index, ps_reports, ps_dropped>>

\* An address within PROCESS_OBJECT_ALLOCATION_MARGIN of a listed process is
\* that process: structures are further apart than the margin.
CheckIfProcessAllocationIsInProcessList(i) == ps_buffer[i] \in ps_processes

ClearListedProcesses ==
    /\ ps_pc = "check"
    /\ ps_buffer' = [i \in 1..Len(ps_buffer) |->
           IF CheckIfProcessAllocationIsInProcessList(i) THEN NoProcess
           ELSE ps_buffer[i]]
    /\ ps_listed' = ps_processes
    /\ ps_index' = 1
    /\ ps_pc' = "report"
    /\ UNCHANGED <<ps_tables, ps_processes, ps_count, ps_found, ps_full,
                   ps_reports, ps_dropped>>

\* The next slot: a report is queued, or there is no memory for it.
ReportUnlinkedProcess ==
    /\ ps_pc = "report"
    /\ ps_index <= ps_count
    /\ IF ps_buffer[ps_index] = NoProcess THEN UNCHANGED <<ps_reports, ps_dropped>>
       ELSE \/ /\ ps_reports' = ps_reports \cup {ps_buffer[ps_index]}
               /\ UNCHANGED ps_dropped
            \/ /\ ps_dropped' = ps_dropped \cup {ps_buffer[ps_index]}
               /\ UNCHANGED ps_reports
    /\ ps_index' = ps_index + 1
    /\ UNCHANGED <<ps_pc, ps_tables, ps_processes, ps_count, ps_buffer, ps_found,
                   ps_full, ps_listed>>

ProcessScanReturn ==
    /\ ps_pc = "report"
    /\ ps_index > ps_count
    /\ ps_pc' = "idle"
    /\ ps_tables' = <<>> /\ ps_processes' = {} /\ ps_count' = 0
    /\ ps_buffer' = <<>> /\ ps_found' = {} /\ ps_full' = FALSE
    /\ ps_listed' = {} /\ ps_index' = 1 /\ ps_reports' = {} /\ ps_dropped' = {}

\* A process that was unlinked, or is starting, enters the list; one ends.
ProcessListChanges(a) ==
    /\ ps_pc # "idle"
    /\ ps_processes' = IF a \in ps_processes THEN ps_processes \ {a}
                       ELSE ps_processes \cup {a}
    /\ UNCHANGED <<ps_pc, ps_tables, ps_count, ps_buffer, ps_found, ps_full,
                   ps_listed, ps_index, ps_reports, ps_dropped>>

ProcessScanStep ==
    \/ AllocateProcessBuffer
    \/ WalkKernelPageTables \/ WalkEnds
    \/ ClearListedProcesses
    \/ ReportUnlinkedProcess
    \/ ProcessScanReturn

-----------------------------------------------------------------------------
\* A process that was in the list when the list was compared with the buffer is
\* not reported, whatever starts and ends during the scan; and unless the buffer
\* filled up, every process structure on a scanned page that is not in the list
\* is reported at the end: repeated entries and freed slots hide none
\* (FindUnlinkedProcesses, driver/pool.c:677).
UnlinkedProcessesReported ==
    /\ ps_reports \cap ps_listed = {}
    /\ ps_pc = "report" /\ ps_index > ps_count /\ ~ps_full =>
           ps_found \ ps_listed \subseteq ps_reports \cup ps_dropped
=============================================================================
