----------------------------- MODULE DriverImports ----------------------------
(***************************************************************************)
(* The three tables behind the encrypted imports that are kept in step by  *)
(* hand: the names that are resolved (NT_IMPORTS, driver/imports.c), the   *)
(* index of each entry (driver/imports.h) and, in each wrapper Imp*, the   *)
(* index it decrypts.                                                      *)
(***************************************************************************)
EXTENDS ImportTable, Sequences, FiniteSetsExt

\* The names in the order in which they are resolved.
NT_IMPORTS == <<
    "ObDereferenceObject", "PsLookupThreadByThreadId", "MmIsAddressValid",
    "PsSetCreateProcessNotifyRoutine", "PsRemoveCreateThreadNotifyRoutine",
    "PsGetCurrentThreadId", "PsGetProcessId", "PsLookupProcessByProcessId",
    "ExEnumHandleTable", "ObGetObjectType", "ExfUnblockPushLock",
    "PsGetProcessImageFileName", "strstr", "RtlInitUnicodeString",
    "RtlQueryRegistryValues", "MmGetSystemRoutineAddress",
    "RtlUnicodeStringToAnsiString", "RtlCopyUnicodeString",
    "RtlFreeAnsiString", "KeInitializeGuardedMutex", "IoCreateDevice",
    "IoCreateSymbolicLink", "IoDeleteDevice", "IoDeleteSymbolicLink",
    "ObRegisterCallbacks", "ObUnRegisterCallbacks",
    "PsSetCreateThreadNotifyRoutine", "KeRevertToUserAffinityThreadEx",
    "KeSetSystemAffinityThreadEx", "strnlen", "RtlInitAnsiString",
    "RtlAnsiStringToUnicodeString", "IoGetCurrentProcess", "RtlGetVersion",
    "RtlCompareMemory", "ExGetSystemFirmwareTable", "IoAllocateWorkItem",
    "IoFreeWorkItem", "IoQueueWorkItem", "ZwOpenFile", "ZwClose",
    "ZwCreateSection", "ZwMapViewOfSection", "ZwUnmapViewOfSection",
    "MmCopyMemory", "ZwDeviceIoControlFile", "KeStackAttachProcess",
    "KeUnstackDetachProcess", "KeWaitForSingleObject", "PsCreateSystemThread",
    "IofCompleteRequest", "ObReferenceObjectByHandle",
    "KeDelayExecutionThread", "KeRegisterNmiCallback",
    "KeDeregisterNmiCallback", "KeQueryActiveProcessorCount",
    "ExAcquirePushLockExclusiveEx", "ExReleasePushLockExclusiveEx",
    "PsGetThreadId", "RtlCaptureStackBackTrace", "ZwOpenDirectoryObject",
    "KeInitializeAffinityEx", "KeAddProcessorAffinityEx",
    "RtlQueryModuleInformation", "KeInitializeApc", "KeInsertQueueApc",
    "KeGenericCallDpc", "KeSignalCallDpcDone", "MmGetPhysicalMemoryRangesEx2",
    "MmGetVirtualForPhysical", "ObfReferenceObject", "ExFreePoolWithTag",
    "ExAllocatePool2", "KeReleaseGuardedMutex", "KeAcquireGuardedMutex",
    "DbgPrintEx", "RtlCompareUnicodeString", "RtlFreeUnicodeString",
    "PsGetProcessImageFileName">>

\* The X of each `#define X_INDEX n', in the order of n from 0.
IndexNames == <<
    "OB_DEREFERENCE_OBJECT", "PS_LOOKUP_THREAD_BY_THREAD_ID",
    "MM_IS_ADDRESS_VALID", "PS_SET_CREATE_PROCESS_NOTIFY_ROUTINE",
    "PS_REMOVE_CREATE_THREAD_NOTIFY_ROUTINE", "PS_GET_CURRENT_THREAD_ID",
    "PS_GET_PROCESS_ID", "PS_LOOKUP_PROCESS_BY_PROCESS_ID",
    "EX_ENUM_HANDLE_TABLE", "OB_GET_OBJECT_TYPE", "EXF_UNBLOCK_PUSH_LOCK",
    "PS_GET_PROCESS_IMAGE_FILE_NAME", "STRSTR", "RTL_INIT_UNICODE_STRING",
    "RTL_QUERY_REGISTRY_VALUES", "MM_GET_SYSTEM_ROUTINE_ADDRESS",
    "RTL_UNICODE_STRING_TO_ANSI_STRING", "RTL_COPY_UNICODE_STRING",
    "RTL_FREE_ANSI_STRING", "KE_INITIALIZE_GUARDED_MUTEX", "IO_CREATE_DEVICE",
    "IO_CREATE_SYMBOLIC_LINK", "IO_DELETE_DEVICE", "IO_DELETE_SYMBOLIC_LINK",
    "OB_REGISTER_CALLBACKS", "OB_UNREGISTER_CALLBACKS",
    "PS_SET_CREATE_THREAD_NOTIFY_ROUTINE",
    "KE_REVERT_TO_USER_AFFINITY_THREAD_EX",
    "KE_SET_SYSTEM_AFFINITY_THREAD_EX", "STRNLEN", "RTL_INIT_ANSI_STRING",
    "RTL_ANSI_STRING_TO_UNICODE_STRING", "IO_GET_CURRENT_PROCESS",
    "RTL_GET_VERSION", "RTL_COMPARE_MEMORY", "EX_GET_SYSTEM_FIRMWARE_TABLE",
    "IO_ALLOCATE_WORK_ITEM", "IO_FREE_WORK_ITEM", "IO_QUEUE_WORK_ITEM",
    "ZW_OPEN_FILE", "ZW_CLOSE", "ZW_CREATE_SECTION", "ZW_MAP_VIEW_OF_SECTION",
    "ZW_UNMAP_VIEW_OF_SECTION", "MM_COPY_MEMORY", "ZW_DEVICE_IO_CONTROL_FILE",
    "KE_STACK_ATTACH_PROCESS", "KE_UNSTACK_DETACH_PROCESS",
    "KE_WAIT_FOR_SINGLE_OBJECT", "PS_CREATE_SYSTEM_THREAD",
    "IOF_COMPLETE_REQUEST", "OB_REFERENCE_OBJECT_BY_HANDLE",
    "KE_DELAY_EXECUTION_THREAD", "KE_REGISTER_NMI_CALLBACK",
    "KE_DEREGISTER_NMI_CALLBACK", "KE_QUERY_ACTIVE_PROCESSOR_COUNT",
    "EX_ACQUIRE_PUSH_LOCK_EXCLUSIVE_EX", "EX_RELEASE_PUSH_LOCK_EXCLUSIVE_EX",
    "PS_GET_THREAD_ID", "RTL_CAPTURE_STACK_BACK_TRACE",
    "ZW_OPEN_DIRECTORY_OBJECT", "KE_INITIALIZE_AFFINITY_EX",
    "KE_ADD_PROCESSOR_AFFINITY_EX", "RTL_QUERY_MODULE_INFORMATION",
    "KE_INITIALIZE_APC", "KE_INSERT_QUEUE_APC", "KE_GENERIC_CALL_DPC",
    "KE_SIGNAL_CALL_DPC_DONE", "MM_GET_PHYSICAL_MEMORY_RANGES_EX2",
    "MM_GET_VIRTUAL_FOR_PHYSICAL", "OBF_REFERENCE_OBJECT",
    "EX_FREE_POOL_WITH_TAG", "EX_ALLOCATE_POOL2", "KE_RELEASE_GUARDED_MUTEX",
    "KE_ACQUIRE_GUARDED_MUTEX", "DBG_PRINT_EX", "RTL_COMPARE_UNICODE_STRING",
    "RTL_FREE_UNICODE_STRING", "PS_GET_PROCESS_IMAGE_FILE_NAME">>

ASSUME TablesHaveTheirLength ==
    Len(NT_IMPORTS) = NT_IMPORT_COUNT /\ Len(IndexNames) = NT_IMPORT_COUNT

\* PS_GET_PROCESS_IMAGE_FILE_NAME_INDEX is defined twice; the last one counts.
Index ==
    [name \in {IndexNames[n] : n \in 1..Len(IndexNames)} |->
        Max({n \in 1..Len(IndexNames) : IndexNames[n] = name}) - 1]

\* Each wrapper: the routine it stands for and the index it decrypts.
Wrappers1 == {
    <<"ObDereferenceObject", "OB_DEREFERENCE_OBJECT">>,
    <<"PsLookupThreadByThreadId", "PS_LOOKUP_THREAD_BY_THREAD_ID">>,
    <<"MmIsAddressValid", "MM_IS_ADDRESS_VALID">>,
    <<"PsSetCreateProcessNotifyRoutine", "PS_SET_CREATE_PROCESS_NOTIFY_ROUTINE">>,
    <<"PsRemoveCreateThreadNotifyRoutine", "PS_REMOVE_CREATE_THREAD_NOTIFY_ROUTINE">>,
    <<"PsGetCurrentThreadId", "PS_GET_CURRENT_THREAD_ID">>,
    <<"PsGetProcessId", "PS_GET_PROCESS_ID">>,
    <<"PsLookupProcessByProcessId", "PS_LOOKUP_PROCESS_BY_PROCESS_ID">>,
    <<"ExEnumHandleTable", "EX_ENUM_HANDLE_TABLE">>,
    <<"ObGetObjectType", "OB_GET_OBJECT_TYPE">>,
    <<"ExfUnblockPushLock", "EXF_UNBLOCK_PUSH_LOCK">>,
    <<"PsGetProcessImageFileName", "PS_GET_PROCESS_IMAGE_FILE_NAME">>,
    <<"strstr", "STRSTR">>}

Wrappers2 == {
    <<"RtlInitUnicodeString", "RTL_INIT_UNICODE_STRING">>,
    <<"RtlQueryRegistryValues", "RTL_QUERY_REGISTRY_VALUES">>,
    <<"MmGetSystemRoutineAddress", "MM_GET_SYSTEM_ROUTINE_ADDRESS">>,
    <<"RtlUnicodeStringToAnsiString", "RTL_UNICODE_STRING_TO_ANSI_STRING">>,
    <<"RtlCopyUnicodeString", "RTL_COPY_UNICODE_STRING">>,
    <<"RtlFreeAnsiString", "RTL_FREE_ANSI_STRING">>,
    <<"KeInitializeGuardedMutex", "KE_INITIALIZE_GUARDED_MUTEX">>,
    <<"IoCreateDevice", "IO_CREATE_DEVICE">>,
    <<"IoCreateSymbolicLink", "IO_CREATE_SYMBOLIC_LINK">>,
    <<"IoDeleteDevice", "IO_DELETE_DEVICE">>,
    <<"IoDeleteSymbolicLink", "IO_DELETE_SYMBOLIC_LINK">>,
    <<"ObRegisterCallbacks", "OB_REGISTER_CALLBACKS">>}

Wrappers3 == {
    <<"ObUnRegisterCallbacks", "OB_UNREGISTER_CALLBACKS">>,
    <<"PsSetCreateThreadNotifyRoutine", "PS_SET_CREATE_THREAD_NOTIFY_ROUTINE">>,
    <<"KeRevertToUserAffinityThreadEx", "KE_REVERT_TO_USER_AFFINITY_THREAD_EX">>,
    <<"KeSetSystemAffinityThreadEx", "KE_SET_SYSTEM_AFFINITY_THREAD_EX">>,
    <<"strnlen", "STRNLEN">>, <<"RtlInitAnsiString", "RTL_INIT_ANSI_STRING">>,
    <<"RtlAnsiStringToUnicodeString", "RTL_ANSI_STRING_TO_UNICODE_STRING">>,
    <<"IoGetCurrentProcess", "IO_GET_CURRENT_PROCESS">>,
    <<"RtlGetVersion", "RTL_GET_VERSION">>,
    <<"RtlCompareMemory", "RTL_COMPARE_MEMORY">>,
    <<"ExGetSystemFirmwareTable", "EX_GET_SYSTEM_FIRMWARE_TABLE">>,
    <<"IoAllocateWorkItem", "IO_ALLOCATE_WORK_ITEM">>}

Wrappers4 == {
    <<"IoFreeWorkItem", "IO_FREE_WORK_ITEM">>,
    <<"IoQueueWorkItem", "IO_QUEUE_WORK_ITEM">>,
    <<"ZwOpenFile", "ZW_OPEN_FILE">>, <<"ZwClose", "ZW_CLOSE">>,
    <<"ZwCreateSection", "ZW_CREATE_SECTION">>,
    <<"ZwMapViewOfSection", "ZW_MAP_VIEW_OF_SECTION">>,
    <<"ZwUnmapViewOfSection", "ZW_UNMAP_VIEW_OF_SECTION">>,
    <<"MmCopyMemory", "MM_COPY_MEMORY">>}

Wrappers5 == {
    <<"ZwDeviceIoControlFile", "ZW_DEVICE_IO_CONTROL_FILE">>,
    <<"KeStackAttachProcess", "KE_STACK_ATTACH_PROCESS">>,
    <<"KeUnstackDetachProcess", "KE_UNSTACK_DETACH_PROCESS">>,
    <<"KeWaitForSingleObject", "KE_WAIT_FOR_SINGLE_OBJECT">>,
    <<"PsCreateSystemThread", "PS_CREATE_SYSTEM_THREAD">>,
    <<"IofCompleteRequest", "IOF_COMPLETE_REQUEST">>,
    <<"ObReferenceObjectByHandle", "OB_REFERENCE_OBJECT_BY_HANDLE">>,
    <<"KeDelayExecutionThread", "KE_DELAY_EXECUTION_THREAD">>,
    <<"KeRegisterNmiCallback", "KE_REGISTER_NMI_CALLBACK">>,
    <<"KeDeregisterNmiCallback", "KE_DEREGISTER_NMI_CALLBACK">>}

Wrappers6 == {
    <<"KeQueryActiveProcessorCount", "KE_QUERY_ACTIVE_PROCESSOR_COUNT">>,
    <<"ExAcquirePushLockExclusiveEx", "EX_ACQUIRE_PUSH_LOCK_EXCLUSIVE_EX">>,
    <<"ExReleasePushLockExclusiveEx", "EX_RELEASE_PUSH_LOCK_EXCLUSIVE_EX">>,
    <<"PsGetThreadId", "PS_GET_THREAD_ID">>,
    <<"RtlCaptureStackBackTrace", "RTL_CAPTURE_STACK_BACK_TRACE">>,
    <<"ZwOpenDirectoryObject", "ZW_OPEN_DIRECTORY_OBJECT">>,
    <<"KeInitializeAffinityEx", "KE_INITIALIZE_AFFINITY_EX">>,
    <<"KeAddProcessorAffinityEx", "KE_ADD_PROCESSOR_AFFINITY_EX">>,
    <<"RtlQueryModuleInformation", "RTL_QUERY_MODULE_INFORMATION">>,
    <<"KeInitializeApc", "KE_INITIALIZE_APC">>}

Wrappers7 == {
    <<"KeInsertQueueApc", "KE_INSERT_QUEUE_APC">>,
    <<"KeGenericCallDpc", "KE_GENERIC_CALL_DPC">>,
    <<"KeSignalCallDpcDone", "KE_SIGNAL_CALL_DPC_DONE">>,
    <<"MmGetPhysicalMemoryRangesEx2", "MM_GET_PHYSICAL_MEMORY_RANGES_EX2">>,
    <<"MmGetVirtualForPhysical", "MM_GET_VIRTUAL_FOR_PHYSICAL">>,
    <<"ObfReferenceObject", "OBF_REFERENCE_OBJECT">>,
    <<"ExFreePoolWithTag", "EX_FREE_POOL_WITH_TAG">>,
    <<"ExAllocatePool2", "EX_ALLOCATE_POOL2">>,
    <<"KeReleaseGuardedMutex", "KE_RELEASE_GUARDED_MUTEX">>,
    <<"KeAcquireGuardedMutex", "KE_ACQUIRE_GUARDED_MUTEX">>,
    <<"DbgPrintEx", "DBG_PRINT_EX">>,
    <<"RtlCompareUnicodeString", "RTL_COMPARE_UNICODE_STRING">>,
    <<"RtlFreeUnicodeString", "RTL_FREE_UNICODE_STRING">>}

Wrappers == Wrappers1 \cup Wrappers2 \cup Wrappers3 \cup Wrappers4
            \cup Wrappers5 \cup Wrappers6 \cup Wrappers7

\* Once the driver has loaded, every wrapper calls the routine it is named for:
\* the names, the indices and the wrappers agree, and decryption finds the entry
\* wherever it is in its block (driver/imports.c, CryptDecryptImportsArrayEntry,
\* driver/crypt.c:93).
WrappersReachTheirRoutine ==
    imports_state = "ready" =>
        \A w \in Wrappers :
            LET entry == ImpCall(Index[w[2]])
            IN entry.keys = {} /\ entry.routine # 0 /\ NT_IMPORTS[entry.routine] = w[1]
=============================================================================
