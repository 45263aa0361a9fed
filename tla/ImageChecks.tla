------------------------------ MODULE ImageChecks -----------------------------
(***************************************************************************)
(* Copying and hashing the executable sections of an image: the size and   *)
(* the sections of the driver's own image, a module of the protected       *)
(* process against its file, and a kernel module against the hash taken    *)
(* when it was loaded (driver/integrity.c, lines 102-590 and 785-1640).    *)
(* Allocations, handles and mappings are held until they are released.     *)
(***************************************************************************)
EXTENDS IoControl, Sequences

CONSTANTS
    Images              \* images: sequences of [executable, data] sections

ASSUME ImagesAssumption ==
    /\ Images \subseteq Seq([executable : BOOLEAN, data : Seq(Nat)])
    /\ \A image \in Images : Len(image) > 0

VARIABLES
    ic_pc,          \* where the handler is, "idle" or "done"
    ic_op,          \* "size", "regions", "loaded", "ours" or "module"
    ic_image,       \* the image in memory
    ic_other,       \* the file's image, or the one hashed at load
    ic_held,        \* what the handler has to release
    ic_lost,        \* what no pointer reaches any more
    ic_failed,      \* the step that failed, if one did
    ic_verdict      \* "none", "valid" or "invalid"

ic_vars == <<ic_pc, ic_op, ic_image, ic_other, ic_held, ic_lost, ic_failed, ic_verdict>>

Resources == {"modules", "path", "hash", "memory_buffer", "memory_hash",
              "disk_buffer", "disk_hash", "section_handle", "section"}

ImageChecksTypeOK ==
    /\ ic_pc \in {"idle", "modules", "find", "entry", "path", "memory", "answer",
                  "map", "disk", "hash_disk", "hash_memory", "compare", "release",
                  "done"}
    /\ ic_op \in {"none", "size", "regions", "loaded", "ours", "module"}
    /\ ic_held \subseteq Resources /\ ic_lost \subseteq Resources
    /\ ic_failed \in {"none", "call", "no_code", "hash"}
    /\ ic_verdict \in {"none", "valid", "invalid"}

ImageChecksInit ==
    /\ ic_pc = "idle" /\ ic_op = "none" /\ ic_image = <<>> /\ ic_other = <<>>
    /\ ic_held = {} /\ ic_lost = {} /\ ic_failed = "none" /\ ic_verdict = "none"

StartImageCheck(op, pc, image, other) ==
    /\ ic_pc = "idle"
    /\ ic_op' = op /\ ic_pc' = pc /\ ic_image' = image /\ ic_other' = other
    /\ UNCHANGED <<ic_held, ic_lost, ic_failed, ic_verdict>>

GetDriverImageSize(image) == StartImageCheck("size", "modules", image, <<>>)

RetrieveInMemoryModuleExecutableSections(image) ==
    StartImageCheck("regions", "modules", image, <<>>)

ValidateOurDriverImage(image, loaded) == StartImageCheck("ours", "modules", image, loaded)

ValidateSystemModule(image, loaded) == StartImageCheck("module", "entry", image, loaded)

\* An input of the wrong size ends it.
ValidateProcessLoadedModule(image, file) ==
    StartImageCheck("loaded",
        IF ValidateIrpInputBuffer(SizeOfProcessModuleInformation) THEN "memory" ELSE "done",
        image, file)

\* A step takes `new' and goes on, or fails.
Take(new, next) ==
    /\ ic_held' = ic_held \cup new
    /\ ic_pc' = next
    /\ UNCHANGED <<ic_lost, ic_failed>>

Fail(failure, next) ==
    /\ ic_failed' = failure
    /\ ic_pc' = next
    /\ UNCHANGED <<ic_held, ic_lost>>

OnlyProgress == UNCHANGED <<ic_op, ic_image, ic_other, ic_verdict>>

\* GetSystemModuleInformation, without which each of them returns.
QueryModulesForImage ==
    /\ ic_pc = "modules"
    /\ Take({"modules"}, "find") \/ Fail("call", "done")
    /\ OnlyProgress /\ UNCHANGED io_vars

\* FindSystemModuleByName: the driver's own module.  GetModuleInformationByName
\* frees the list of modules in both cases.
FindOurModule ==
    /\ ic_pc = "find"
    /\ IF ic_op = "regions"
       THEN /\ ic_held' = {}
            /\ \/ ic_pc' = "memory" /\ UNCHANGED ic_failed
               \/ ic_pc' = "done" /\ ic_failed' = "call"
            /\ UNCHANGED ic_lost
       ELSE \/ Take({}, IF ic_op = "size" THEN "answer" ELSE "entry")
            \/ Fail("call", "release")
    /\ OnlyProgress /\ UNCHANGED io_vars

\* The sections the loop visits: all but the last.
Visited(image) == SubSeq(image, 1, Len(image) - 1)

ExecutableSections(image) == SelectSeq(Visited(image), LAMBDA s : s.executable)

\* Was the module hashed when it was loaded?
Hashed == ExecutableSections(ic_other) # <<>>

\* Memory for the hash and the driver's entry, which must have been hashed if it
\* is our own.
FindHashedEntry ==
    /\ ic_pc = "entry"
    /\ \/ (ic_op = "ours" => Hashed) /\ Take({"hash"}, "path")
       \/ Fail("call", "release")
       \/ /\ ic_failed' = "call" /\ ic_pc' = "release"
          /\ ic_held' = ic_held \cup {"hash"} /\ UNCHANGED ic_lost
    /\ OnlyProgress /\ UNCHANGED io_vars

\* HashModule begins: the path is converted, and a 32 bit module can only be
\* hashed once WinLogon has started.
ConvertPath ==
    /\ ic_pc = "path"
    /\ \/ Take({"path"}, "memory")
       \/ Fail("call", "release")
       \/ /\ ic_failed' = "call" /\ ic_pc' = "release"
          /\ ic_held' = ic_held \cup {"path"} /\ UNCHANGED ic_lost
    /\ OnlyProgress /\ UNCHANGED io_vars

\* StoreModuleExecutableRegionsInBuffer: without memory, or when a copy fails,
\* there is no buffer; without an executable section it fails and there is one.
StoreModuleExecutableRegionsInBuffer(image, buffer, next) ==
    LET otherwise == IF ic_op = "regions" THEN "done" ELSE "release"
    IN \/ Fail("call", otherwise)
       \/ /\ ExecutableSections(image) = <<>>
          /\ ic_failed' = "no_code" /\ ic_pc' = otherwise
          /\ ic_held' = ic_held \cup {buffer} /\ UNCHANGED ic_lost
       \/ /\ ExecutableSections(image) # <<>>
          /\ Take({buffer}, next)

StoreMemoryImage ==
    /\ ic_pc = "memory" /\ ic_op \in {"regions", "loaded"}
    /\ StoreModuleExecutableRegionsInBuffer(ic_image, "memory_buffer",
           IF ic_op = "regions" THEN "answer" ELSE "map")
    /\ OnlyProgress /\ UNCHANGED io_vars

\* HashModule copies the module, a 32 bit one in the address space of WinLogon,
\* and hashes it below.
StoreKernelImage ==
    /\ ic_pc = "memory" /\ ic_op \notin {"regions", "loaded"}
    /\ StoreModuleExecutableRegionsInBuffer(ic_image, "memory_buffer", "hash_memory")
    /\ OnlyProgress /\ UNCHANGED io_vars

\* The file is opened, a section created from it and mapped, and the file
\* closed; what was opened is closed if a later step fails.
MapDiskImageIntoVirtualAddressSpace ==
    /\ ic_pc = "map"
    /\ \/ Take({"section_handle", "section"}, "disk")
       \/ Fail("call", "release")
    /\ OnlyProgress /\ UNCHANGED io_vars

StoreDiskImage ==
    /\ ic_pc = "disk"
    /\ StoreModuleExecutableRegionsInBuffer(ic_other, "disk_buffer", "hash_disk")
    /\ OnlyProgress /\ UNCHANGED io_vars

\* BytesWritten: a header, then each section behind its own header.
PacketSize(image) ==
    1 + Cardinality({i \in 1..(Len(image) - 1) : image[i].executable})

\* The answer is copied to the client if there is room.
AnswerRequest ==
    /\ ic_pc = "answer"
    /\ ValidateIrpOutputBuffer(IF ic_op = "size" THEN SizeOfULong
                               ELSE PacketSize(ic_image))
    /\ Take({}, "release")
    /\ OnlyProgress
    /\ UNCHANGED <<io_pc, io_code, io_input, io_length, io_completed, io_parked,
                   io_unwaited, hv_vars>>

\* The first section of the packet is the one that is hashed.
HashedSection(image) == Head(ExecutableSections(image)).data

\* The steps of ComputeHashOfBuffer and what each takes.  Everything but the
\* result is released at the end; the result is the caller's only if all
\* succeed.
HashSteps == <<"algo_handle", "size", "hash_object", "size", "result",
               "hash_handle", "hash", "finish">>

ComputeHashOfBuffer(result, next) ==
    \/ Take({result}, next)
    \/ \E failing \in 1..Len(HashSteps) :
           /\ ic_failed' = "hash" /\ ic_pc' = "release"
           /\ ic_lost' = IF \E i \in 1..(failing - 1) : HashSteps[i] = "result"
                         THEN ic_lost \cup {result} ELSE ic_lost
           /\ UNCHANGED ic_held

\* ComputeHashOfSections: sections of different sizes are not hashed.
HashDiskSection ==
    /\ ic_pc = "hash_disk"
    /\ IF Len(HashedSection(ic_image)) # Len(HashedSection(ic_other))
       THEN Fail("call", "release")
       ELSE ComputeHashOfBuffer("disk_hash", "hash_memory")
    /\ OnlyProgress /\ UNCHANGED io_vars

HashMemorySection ==
    /\ ic_pc = "hash_memory"
    /\ ComputeHashOfBuffer("memory_hash", "compare")
    /\ OnlyProgress /\ UNCHANGED io_vars

\* CompareHashes: a module of the process that differs is reported
\* (ReportInvalidProcessModule), a kernel module is logged.  The entry of a
\* kernel module that was not hashed holds zeros, which differ.
CompareHashes ==
    /\ ic_pc = "compare"
    /\ ic_verdict' = IF Hashed /\ HashedSection(ic_image) = HashedSection(ic_other)
                     THEN "valid" ELSE "invalid"
    /\ ic_pc' = "release"
    /\ UNCHANGED <<ic_op, ic_image, ic_other, ic_held, ic_lost, ic_failed, io_vars>>

\* Mutant: the hash of the file's section is forgotten.
ForgetDiskHash(op) ==
    CASE op = "size" -> {"modules"}
      [] op = "regions" -> {"memory_buffer"}
      [] op = "loaded" -> Resources \ {"modules", "path", "hash", "disk_hash"}
      [] OTHER -> {"memory_buffer", "memory_hash", "path", "hash", "modules"}

\* What each of them releases if it is there.
Releases(op) ==
    CASE op = "size" -> {"modules"}
      [] op = "regions" -> {"memory_buffer"}
      [] op = "loaded" -> Resources \ {"modules", "path", "hash"}
      [] OTHER -> {"memory_buffer", "memory_hash", "path", "hash", "modules"}

Release ==
    /\ ic_pc = "release"
    /\ ic_held' = ic_held \ Releases(ic_op)
    /\ ic_pc' = "done"
    /\ UNCHANGED <<ic_op, ic_image, ic_other, ic_lost, ic_failed, ic_verdict, io_vars>>

ImageCheckReturn ==
    /\ ic_pc = "done"
    /\ ic_pc' = "idle" /\ ic_op' = "none" /\ ic_image' = <<>> /\ ic_other' = <<>>
    /\ ic_held' = {} /\ ic_lost' = {} /\ ic_failed' = "none" /\ ic_verdict' = "none"
    /\ UNCHANGED io_vars

ImageCheckStep ==
    \/ QueryModulesForImage \/ FindOurModule \/ FindHashedEntry \/ ConvertPath
    \/ StoreMemoryImage \/ StoreKernelImage \/ MapDiskImageIntoVirtualAddressSpace \/ StoreDiskImage
    \/ AnswerRequest \/ HashDiskSection \/ HashMemorySection \/ CompareHashes
    \/ Release \/ ImageCheckReturn

-----------------------------------------------------------------------------
\* Whatever step fails, a check of an image has released at the end what it
\* allocated, opened and mapped.  There are two exceptions: a packet without an
\* executable section, and a hash that failed after its memory was allocated.
\* Only a check in which no step failed has a verdict, the one that a comparison
\* of the first executable sections gives (driver/integrity.c:887, 1441, 1574).
ImageChecksRelease ==
    ic_pc = "done" =>
        /\ ic_held = {} \/ (ic_op = "regions" /\ ic_failed = "no_code")
        /\ ic_lost = {} \/ ic_failed = "hash"
        /\ ic_verdict # "none" =>
               /\ ic_failed = "none"
               /\ ic_verdict = "valid" <=>
                      /\ ExecutableSections(ic_other) # <<>>
                      /\ HashedSection(ic_image) = HashedSection(ic_other)
=============================================================================
