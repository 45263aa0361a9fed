------------------------------ MODULE PciDevices ------------------------------
(***************************************************************************)
(* Reading the configuration space of every PCI device (driver/hw.c), from *)
(* the search for the PCI driver's object (driver/modules.c, lines         *)
(* 1804-1868) to the release of the references the enumeration took.       *)
(* Devices may arrive while the driver looks.                              *)
(***************************************************************************)
EXTENDS Integers, Sequences, FiniteSets

CONSTANTS
    PciObjects,             \* [name, pdo, id] devices
    PciDeviceLists,         \* devices of the PCI driver: sequences of them
    FLAGGED_DEVICE_IDS

ASSUME PciAssumption == PciDeviceLists \subseteq Seq(PciObjects)

VARIABLES
    pci_pc,         \* "idle", "open", "reference", "search", "count",
                    \* "allocate", "fill", "visit", "query", "free" or "done"
    pci_list,       \* DRIVER_OBJECT.DeviceObject, the devices there are
    pci_count,      \* object_count of the first call
    pci_array,      \* the array the second call filled
    pci_index,
    pci_held,       \* handle, directory, its lock, and the array
    pci_refs,       \* devices with a reference of ours
    pci_grew,       \* did a device arrive between the two calls?
    pci_seen,       \* devices whose configuration space was read
    pci_flagged     \* and those found flagged

pci_vars == <<pci_pc, pci_list, pci_count, pci_array, pci_index,
              pci_held, pci_refs, pci_grew, pci_seen, pci_flagged>>

PciTypeOK ==
    /\ pci_pc \in {"idle", "open", "reference", "search", "count", "allocate",
                   "fill", "visit", "query", "free", "done"}
    /\ pci_count \in Nat /\ pci_index \in Nat
    /\ pci_held \subseteq {"handle", "directory", "lock", "array"}
    /\ pci_refs \subseteq PciObjects /\ pci_grew \in BOOLEAN
    /\ pci_flagged \subseteq pci_seen /\ pci_seen \subseteq PciObjects

PciInit ==
    /\ pci_pc = "idle" /\ pci_list = <<>> /\ pci_count = 0
    /\ pci_array = <<>> /\ pci_index = 1 /\ pci_held = {} /\ pci_refs = {}
    /\ pci_grew = FALSE /\ pci_seen = {} /\ pci_flagged = {}

ValidatePciDevices(list) ==
    /\ pci_pc = "idle"
    /\ pci_pc' = "open" /\ pci_list' = list
    /\ UNCHANGED <<pci_count, pci_array, pci_index, pci_held, pci_refs, pci_grew,
                   pci_seen, pci_flagged>>

PciStays == UNCHANGED <<pci_list, pci_grew>>

\* GetDriverObjectByDriverName: the directory is opened, referenced and locked;
\* a failure undoes what was done and the handler returns.
OpenDirectory ==
    /\ \/ /\ pci_pc = "open"
          /\ \/ pci_pc' = "reference" /\ pci_held' = {"handle"}
             \/ pci_pc' = "done" /\ UNCHANGED pci_held
       \/ /\ pci_pc = "reference"
          /\ \/ pci_pc' = "search" /\ pci_held' = {"handle", "directory", "lock"}
             \/ pci_pc' = "done" /\ pci_held' = {}
    /\ PciStays
    /\ UNCHANGED <<pci_count, pci_array, pci_index, pci_refs, pci_seen, pci_flagged>>

\* The search ends at the first driver of that name, and all is released.  The
\* PCI driver is always there; nothing tests that it was found.
SearchDirectory ==
    /\ pci_pc = "search"
    /\ pci_held' = {} /\ pci_pc' = "count"
    /\ PciStays
    /\ UNCHANGED <<pci_count, pci_array, pci_index, pci_refs, pci_seen, pci_flagged>>

\* EnumerateDriverObjectDeviceObjects asks for the number of devices, allocates
\* an array for them and asks again.
CountDevices ==
    /\ pci_pc = "count"
    /\ pci_count' = Len(pci_list)
    /\ pci_pc' = IF Len(pci_list) = 0 THEN "done" ELSE "allocate"
    /\ PciStays
    /\ UNCHANGED <<pci_array, pci_index, pci_held, pci_refs, pci_seen, pci_flagged>>

AllocateArray ==
    /\ pci_pc = "allocate"
    /\ \/ pci_pc' = "fill" /\ pci_held' = {"array"}
       \/ pci_pc' = "done" /\ UNCHANGED pci_held
    /\ PciStays
    /\ UNCHANGED <<pci_count, pci_array, pci_index, pci_refs, pci_seen, pci_flagged>>

\* A device arrives; the count the array was allocated for may be stale.
DeviceArrives(d) ==
    /\ pci_pc \in {"count", "allocate", "fill"}
    /\ \A i \in 1..Len(pci_list) : pci_list[i] # d
    /\ pci_list' = <<d>> \o pci_list
    /\ pci_grew' = (pci_grew \/ pci_pc # "count")
    /\ UNCHANGED <<pci_pc, pci_count, pci_array, pci_index, pci_held,
                   pci_refs, pci_seen, pci_flagged>>

\* IoEnumerateDeviceObjectList references each device it puts in the array, also
\* when the array is too small for all of them.  Then the array is freed.
FillArray ==
    /\ pci_pc = "fill"
    /\ LET n == IF Len(pci_list) > pci_count THEN pci_count ELSE Len(pci_list)
       IN pci_refs' = {pci_list[i] : i \in 1..n}
    /\ IF Len(pci_list) > pci_count
       THEN pci_held' = {} /\ pci_pc' = "done" /\ UNCHANGED pci_array
       ELSE pci_array' = pci_list /\ pci_pc' = "visit" /\ UNCHANGED pci_held
    /\ PciStays
    /\ UNCHANGED <<pci_count, pci_index, pci_seen, pci_flagged>>

\* Mutant: the reference is kept.
SkipWithReference(d) == pci_refs

ObDereferenceObject(d) == pci_refs \ {d}

IsDeviceObjectValidPdo(d) == d.pdo

\* EnumeratePciDeviceObjects: a device that is not a PDO is released at once.
VisitDevice ==
    /\ pci_pc = "visit"
    /\ IF pci_index > Len(pci_array)
       THEN pci_pc' = "free" /\ UNCHANGED <<pci_index, pci_refs>>
       ELSE IF IsDeviceObjectValidPdo(pci_array[pci_index])
       THEN pci_pc' = "query" /\ UNCHANGED <<pci_index, pci_refs>>
       ELSE /\ pci_refs' = ObDereferenceObject(pci_array[pci_index])
            /\ pci_index' = pci_index + 1 /\ UNCHANGED pci_pc
    /\ PciStays
    /\ UNCHANGED <<pci_count, pci_array, pci_held, pci_seen, pci_flagged>>

\* The outcomes of the request for the configuration space: the device id in
\* its header, or nothing.
QueryPciDeviceConfigurationSpace(d) == {{d.id}, {}}

IsPciConfigurationSpaceFlagged(header) == header \cap FLAGGED_DEVICE_IDS # {}

\* The reference is dropped whether or not the header could be read.
PciDeviceQueryCallback ==
    /\ pci_pc = "query"
    /\ LET d == pci_array[pci_index]
       IN /\ \E header \in QueryPciDeviceConfigurationSpace(d) :
                /\ pci_seen' = IF header # {} THEN pci_seen \cup {d} ELSE pci_seen
                /\ pci_flagged' = IF IsPciConfigurationSpaceFlagged(header)
                                  THEN pci_flagged \cup {d} ELSE pci_flagged
          /\ pci_refs' = ObDereferenceObject(d)
    /\ pci_index' = pci_index + 1 /\ pci_pc' = "visit"
    /\ PciStays
    /\ UNCHANGED <<pci_count, pci_array, pci_held>>

FreeArray ==
    /\ pci_pc = "free"
    /\ pci_held' = {} /\ pci_pc' = "done"
    /\ PciStays
    /\ UNCHANGED <<pci_count, pci_array, pci_index, pci_refs, pci_seen, pci_flagged>>

PciReturn ==
    /\ pci_pc = "done"
    /\ pci_pc' = "idle" /\ pci_list' = <<>> /\ pci_count' = 0
    /\ pci_array' = <<>> /\ pci_index' = 1 /\ pci_held' = {} /\ pci_refs' = {}
    /\ pci_grew' = FALSE /\ pci_seen' = {} /\ pci_flagged' = {}

PciStep ==
    \/ OpenDirectory \/ SearchDirectory \/ CountDevices \/ AllocateArray
    \/ \E d \in PciObjects : DeviceArrives(d)
    \/ FillArray \/ VisitDevice \/ PciDeviceQueryCallback \/ FreeArray \/ PciReturn

-----------------------------------------------------------------------------
\* At the end neither a reference to a device nor the array nor the directory is
\* kept, unless a device arrived between the two calls of the enumeration, and
\* the devices flagged are those whose configuration space says so
\* (EnumeratePciDeviceObjects, driver/hw.c:194).
PciReferencesReturned ==
    pci_pc = "done" =>
        /\ pci_held = {} /\ (pci_refs = {} \/ pci_grew)
        /\ pci_flagged = {d \in pci_seen : d.id \in FLAGGED_DEVICE_IDS}
=============================================================================
