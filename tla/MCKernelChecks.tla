---------------------------- MODULE MCKernelChecks ----------------------------
(* Small inputs for each check. *)
EXTENDS KernelChecks

\* Modules at 10..14, 20..24 and 30..34; `wdf' is whitelisted.
Ntos == [name |-> "ntoskrnl", base |-> 10, size |-> 4]
Wdf == [name |-> "wdf", base |-> 20, size |-> 4]
Disk == [name |-> "disk", base |-> 30, size |-> 4]
Empty == [name |-> "empty", base |-> 40, size |-> 0]
MCModuleLists == {<<Ntos, Wdf, Disk>>, <<Ntos, Disk>>, <<Ntos, Empty, Wdf, Disk>>}

Driver(start, dispatch, device) ==
    [start |-> start, dispatch |-> dispatch, device |-> device]
Good == Driver(30, 34, TRUE)
Hooked == Driver(30, 35, TRUE)
HookedByWdf == Driver(30, 21, TRUE)
NoDevice == Driver(20, 50, FALSE)
Unbacked == Driver(50, 51, TRUE)
Unbacked2 == Driver(60, 0, TRUE)
MCDirectories ==
    {<<<<Good, Hooked>>, <<>>, <<Unbacked, HookedByWdf>>>>,
     <<<<Unbacked, Unbacked2, Hooked>>, <<NoDevice>>>>,
     <<<<Unbacked>>, <<Hooked, HookedByWdf>>, <<Unbacked2>>>>}

Allocation(address, peak, dir, large, pool, peb, table) ==
    [address |-> address, peak_virtual_size |-> peak, dir_table_base |-> dir,
     large |-> large, pool_type |-> pool, peb |-> peb, object_table |-> table]
Process(address) == Allocation(address, 5, 64, TRUE, 1, 4096, 8)
Freed(address) == Allocation(address, 0, 64, TRUE, 1, 4096, 8)
Kernel(address) == Allocation(address, 5, 64, TRUE, 1, 0, 8)
Unaligned(address) == Allocation(address, 5, 32, TRUE, 1, 4096, 8)

\* Entries of page tables: a page with blocks, and a table of the next level.
Entry(present, large, physical, table, blocks) ==
    [valid |-> TRUE, present |-> present, large |-> large, mapped |-> TRUE,
     physical |-> physical, table |-> table, blocks |-> blocks]
Page(present, physical, blocks) == Entry(present, FALSE, physical, <<>>, blocks)
LargePage(physical, blocks) == Entry(TRUE, TRUE, physical, <<>>, blocks)
PageTable(entries) == Entry(TRUE, FALSE, 0, entries, <<>>)
Unmapped(entry) == [entry EXCEPT !.mapped = FALSE]
Invalid(entry) == [entry EXCEPT !.valid = FALSE]
TwoBlocks == LargePage(1, <<<<Process("a"), Process("b")>>, <<Process("c")>>>>)
OffTheWalk == Unmapped(PageTable(<<Page(TRUE, 1, <<<<Process("c")>>>>)>>))
SmallPages ==
    PageTable(<<Page(TRUE, 2, <<<<Process("a"), Freed("b")>>>>),
                Page(FALSE, 2, <<<<Process("d")>>>>),
                Page(TRUE, 9, <<<<Process("d")>>>>)>>)
Mixed == LargePage(4, <<<<Kernel("d"), Process("c"), Unaligned("d")>>>>)
MCMemories ==
    {<<PageTable(<<PageTable(<<TwoBlocks, OffTheWalk>>)>>), Invalid(PageTable(<<>>))>>,
     <<PageTable(<<PageTable(<<SmallPages, Mixed>>),
                   LargePage(0, <<<<Process("b")>>>>)>>)>>}
MCPhysicalRanges == <<[base |-> 0, bytes |-> 4]>>
MCProcessLists == {{"a"}, {"a", "b", "d"}, {"a", "b", "c", "d"}}

Structure(type, strings) ==
    [type |-> type, formatted |-> <<0, 0, 7>>, strings |-> strings]
\* A vendor, and a serial number for each environment; the last string of a
\* structure is never found.
Firmware(vendor, vmware, native) ==
    <<Structure(4, <<>>), Structure(2, <<<<7>>, <<8, 8>>, <<7>>>> \o native),
      Structure(0, <<vendor, <<7>>>>), Structure(1, <<<<8>>, <<7, 7>>>> \o vmware)>>
Serials == {<<>>, <<<<7>>>>, <<<<7, 8>>, <<8>>>>, <<<<8>>, <<7>>>>, <<<<7, 8, 7>>, <<7>>>>}
Vendors == {<<8>>, <<8, 9, 7>>, <<7, 8>>, <<9, 7, 8>>, <<8, 8, 8, 8>>}
MCVmwareVendor == <<9, 7>>
MCVirtualBoxVendor == <<7, 8>>
MCMachines ==
    [table : {Firmware(v, s, n) : v \in Vendors, s, n \in Serials},
     cpuid : {"GenuineIntel"}, drive : {<<>>, <<7>>}]
    \cup [table : {Firmware(<<8>>, <<>>, <<<<7>>, <<8>>>>)},
          cpuid : {"GenuineIntel", "AuthenticAMD", "Other"},
          drive : {<<>>, <<7, 7>>, <<7, 7, 7>>}]
    \cup {[table |-> <<Structure(4, <<>>)>>, cpuid |-> "AuthenticAMD", drive |-> <<>>]}

MCHalDispatchTables == {<<11, 12, 31>>, <<50, 12, 51>>, <<50, 51, 22>>, <<50, 52, 51>>}
MCHalPrivateTables == {<<11, 0, 31>>, <<0, 25, 14>>, <<26, 50, 12>>, <<0, 0, 0>>}
MCControlTimes == [1..4 -> {0, 1, 3}]
MCProtectedTimes == {<<a, b>> : a \in {0, 3, 8, 11}, b \in {10, 20, 21, 31}}

MCStacks == {<<11, 11, 31>>, <<11, 50, 12, 51>>, <<11>>}

Section(executable, data) == [executable |-> executable, data |-> data]
MCImages ==
    {<<Section(TRUE, <<1, 2>>), Section(FALSE, <<0>>), Section(TRUE, <<3>>),
       Section(FALSE, <<>>)>>,
     <<Section(FALSE, <<0>>), Section(TRUE, <<1, 3>>), Section(FALSE, <<>>)>>,
     <<Section(TRUE, <<1>>), Section(TRUE, <<2>>)>>,
     <<Section(FALSE, <<0>>), Section(TRUE, <<1>>)>>}

Device(name, pdo, id) == [name |-> name, pdo |-> pdo, id |-> id]
MCPciObjects ==
    {Device("nic", TRUE, 1), Device("filter", FALSE, 7), Device("dma", TRUE, 7)}
MCPciDeviceLists ==
    {<<>>, <<Device("nic", TRUE, 1), Device("dma", TRUE, 7)>>,
     <<Device("filter", FALSE, 7), Device("nic", TRUE, 1)>>}

Handle(type, object, access) == [type |-> type, object |-> object, access |-> access]
MCImageName ==
    [p \in {"game", "copy", "editor", "csrss", "system"} |->
        CASE p \in {"game", "copy"} -> "game.exe" [] p = "csrss" -> "csrss.exe"
          [] OTHER -> p]
MCHandleTables ==
    LET row(p, table) == [process |-> p, readable |-> TRUE, table |-> table]
        unreadable(p) == [process |-> p, readable |-> FALSE, table |-> <<>>]
    IN {<<row("system", <<Handle("Process", "game", {"VM_WRITE"})>>),
          row("editor", <<Handle("File", "game", {"VM_READ"}),
                          Handle("Process", "game", {"VM_READ", "VM_WRITE", "SYNCHRONIZE"}),
                          Handle("Process", "editor", {"TERMINATE"})>>)>>,
        <<row("game", <<>>), row("csrss", <<Handle("Process", "game", {"VM_READ"}),
                                            Handle("Process", "copy", {"TERMINATE"})>>),
          unreadable("copy")>>}
Thread(t, owner, attached) == [thread |-> t, owner |-> owner, attached |-> attached]
MCAttachedThreads ==
    {<<Thread(1, "game", "game"), Thread(2, "editor", "game"), Thread(3, "csrss", "copy")>>,
     <<Thread(1, "editor", "editor"), Thread(2, "copy", "game")>>}
===============================================================================
