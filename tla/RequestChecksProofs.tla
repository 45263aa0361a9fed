------------------------ MODULE RequestChecksProofs ------------------------
(***************************************************************************)
(* The inductive invariants of the threads of user mode, of the requests   *)
(* they make, of the checks of images, PCI devices, handles and threads    *)
(* that answer them, and of the table of imports the driver calls through. *)
(* Each is proved of the steps of its own component.  KernelChecksProofs   *)
(* shows that a step of the driver is such a step and draws the            *)
(* conclusions.                                                            *)
(***************************************************************************)
EXTENDS ImageChecks, PciDevices, ProcessAccess, DriverImports, Dispatcher,
        FiniteSetTheorems, TLAPS

\* Zenon first: it needs far less time than the translation for SMT.
USE ZenonT(10), SMTT(30)

-----------------------------------------------------------------------------
(* The threads of user mode.                                               *)

AllJobs == Ports \cup {Timer}

Queued == {jobs[i] : i \in 1..Len(jobs)}

DispatcherTypes ==
    /\ jobs \in Seq(AllJobs)
    /\ looking \in Nat /\ waiting \in Nat
    /\ user_pc \in {"timers", "queue", "notify", "loop"}
    /\ to_queue \subseteq AllJobs /\ running \subseteq AllJobs

\* Every job is in one place, and in the queue at one position.
JobsInOnePlace ==
    /\ AllJobs \subseteq to_queue \cup Queued \cup running \cup ended
    /\ to_queue \cap Queued = {} /\ to_queue \cap running = {}
    /\ Queued \cap running = {}
    /\ \A i, j \in 1..Len(jobs) : jobs[i] = jobs[j] => i = j

\* Only the timer thread ends, and behind the loop nothing is left to queue.
JobsEnd == ended \subseteq {Timer} /\ (user_pc = "loop" => to_queue = {})

\* Every thread is looking, blocked or running a job.
ThreadsCounted == looking + waiting + Cardinality(running) = DISPATCHER_THREAD_COUNT

ThreadsAwake ==
    waiting > 0 => Len(jobs) <= looking + (IF user_pc = "notify" THEN 1 ELSE 0)

DispatcherInv == DispatcherTypes /\ JobsInOnePlace /\ JobsEnd /\ ThreadsCounted /\ ThreadsAwake
-----------------------------------------------------------------------------
\* Adding a job to the running ones, and taking one away, counts by one.
LEMMA RunningCount ==
    ASSUME NEW S, S \subseteq AllJobs, NEW job
    PROVE  /\ Cardinality(S) \in Nat
           /\ job \notin S => Cardinality(S \cup {job}) = Cardinality(S) + 1
           /\ job \in S => Cardinality(S \ {job}) = Cardinality(S) - 1
<1>1. IsFiniteSet(AllJobs)
  BY DispatcherAssumption, FS_AddElement DEF AllJobs
<1>2. IsFiniteSet(S)
  BY <1>1, FS_Subset
<1> QED BY <1>2, FS_AddElement, FS_RemoveElement, FS_CardinalityType

\* A pool whose threads all run jobs runs all of them.
LEMMA AllRunning ==
    ASSUME NEW S, S \subseteq AllJobs, Cardinality(S) = DISPATCHER_THREAD_COUNT
    PROVE  S = AllJobs
<1>1. /\ IsFiniteSet(AllJobs)
      /\ Cardinality(AllJobs) = Cardinality(Ports) + 1
      /\ Cardinality(Ports) \in Nat
  BY DispatcherAssumption, FS_AddElement, FS_CardinalityType DEF AllJobs
<1>2. /\ Cardinality(S) \in Nat /\ Cardinality(S) <= Cardinality(AllJobs)
      /\ Cardinality(S) = Cardinality(AllJobs) => S = AllJobs
  BY <1>1, FS_Subset, FS_CardinalityType
<1> QED BY <1>1, <1>2, DispatcherAssumption

\* The inductive invariant gives the property.
LEMMA InvImpliesProperty == DispatcherInv => NoWakeupLost
<1> SUFFICES ASSUME DispatcherInv PROVE NoWakeupLost OBVIOUS
<1> USE DEF DispatcherInv
<1>1. ASSUME user_pc = "loop", looking = 0 PROVE Ports \subseteq running
  <2>1. CASE waiting > 0
    <3>1. Queued = {}
      BY <1>1, <2>1 DEF ThreadsAwake, DispatcherTypes, Queued
    <3> QED BY <1>1, <3>1, DispatcherAssumption DEF JobsInOnePlace, JobsEnd, AllJobs
  <2>2. CASE waiting = 0
    <3>1. Cardinality(running) \in Nat
      BY RunningCount DEF DispatcherTypes
    <3>2. Cardinality(running) = DISPATCHER_THREAD_COUNT
      BY <1>1, <2>2, <3>1 DEF ThreadsCounted
    <3> QED BY <3>2, AllRunning DEF DispatcherTypes, AllJobs
  <2> QED BY <2>1, <2>2 DEF DispatcherTypes
<1> QED BY <1>1 DEF NoWakeupLost, ThreadsAwake

\* The invariant holds at the start.
LEMMA DispatcherInitInv == DispatcherInit => DispatcherInv
<1> SUFFICES ASSUME DispatcherInit PROVE DispatcherInv OBVIOUS
<1> USE DEF DispatcherInit, PoolInit
<1>1. DispatcherTypes
  BY DispatcherAssumption DEF DispatcherTypes, AllJobs
<1>2. JobsInOnePlace /\ JobsEnd /\ ThreadsAwake
  BY DispatcherAssumption DEF JobsInOnePlace, JobsEnd, ThreadsAwake, Queued, AllJobs
<1>3. ThreadsCounted
  BY SMTT(30), DispatcherAssumption, FS_EmptySet DEF ThreadsCounted
<1> QED BY <1>1, <1>2, <1>3 DEF DispatcherInv

\* One step of the pool or of dispatcher::run preserves the invariant.
LEMMA DispatcherNextInv == DispatcherInv /\ [DispatcherStep]_user_vars => DispatcherInv'
<1> SUFFICES ASSUME DispatcherInv, [DispatcherStep]_user_vars PROVE DispatcherInv'
  OBVIOUS
<1> USE DEF DispatcherInv
<1>0. Cardinality(running) \in Nat /\ DISPATCHER_THREAD_COUNT \in Nat
  BY RunningCount, DispatcherAssumption DEF DispatcherTypes
<1>a. /\ looking \in Nat /\ waiting \in Nat /\ Len(jobs) \in Nat
      /\ looking + waiting + Cardinality(running) = DISPATCHER_THREAD_COUNT
      /\ waiting > 0 => Len(jobs) <= looking + (IF user_pc = "notify" THEN 1 ELSE 0)
  BY DEF DispatcherTypes, ThreadsCounted, ThreadsAwake
<1>b. ASSUME UNCHANGED <<to_queue, jobs, running, ended>>
      PROVE  JobsInOnePlace'
  BY SMTT(30), <1>b DEF JobsInOnePlace, Queued
<1>1. CASE init_timer_callbacks
  <2>1. UNCHANGED <<to_queue, jobs, running, ended, looking, waiting>>
    BY <1>1 DEF init_timer_callbacks, pool_vars
  <2>2. user_pc = "timers" /\ user_pc' = "queue"
    BY <1>1 DEF init_timer_callbacks
  <2>3. DispatcherTypes' /\ JobsEnd'
    BY <2>1, <2>2 DEF DispatcherTypes, JobsEnd
  <2>4. ThreadsCounted' /\ ThreadsAwake'
    BY <1>0, <1>a, <2>1, <2>2 DEF ThreadsCounted, ThreadsAwake
  <2> QED
    BY <1>b, <2>1, <2>3, <2>4
<1>2. CASE run
  <2>1. CASE user_pc = "queue"
    <3>1. PICK job \in to_queue :
              /\ push_job(job) /\ to_queue' = to_queue \ {job} /\ user_pc' = "notify"
      BY <1>2, <2>1 DEF run
    <3>2. /\ jobs' = Append(jobs, job) /\ job \in AllJobs /\ jobs \in Seq(AllJobs)
          /\ UNCHANGED <<looking, waiting, running, ended>>
      BY <3>1 DEF push_job, DispatcherTypes
    <3>3. DispatcherTypes'
      BY <3>1, <3>2 DEF DispatcherTypes
    <3>4. Len(jobs') = Len(jobs) + 1 /\ Queued' = Queued \cup {job}
      <4>1. /\ Len(jobs') = Len(jobs) + 1 /\ jobs'[Len(jobs) + 1] = job
            /\ \A i \in 1..Len(jobs) : jobs'[i] = jobs[i]
            /\ Len(jobs) \in Nat
        BY <3>2
      <4> QED BY SMTT(30), <4>1 DEF Queued
    <3>5. \A i, j \in 1..Len(jobs') : jobs'[i] = jobs'[j] => i = j
      BY SMTT(30), <3>1, <3>2, <3>4 DEF JobsInOnePlace, Queued
    <3>6. JobsInOnePlace' /\ JobsEnd'
      BY SMTT(30), <3>1, <3>2, <3>4, <3>5 DEF JobsInOnePlace, JobsEnd
    <3>7. ThreadsCounted' /\ ThreadsAwake'
      BY <2>1, <3>1, <3>2, <3>4 DEF ThreadsCounted, ThreadsAwake, DispatcherTypes
    <3> QED BY <3>3, <3>6, <3>7
  <2>2. CASE user_pc = "notify"
    <3>1. /\ notify_one /\ UNCHANGED <<to_queue, jobs, running, ended>>
          /\ user_pc' = IF to_queue = {} THEN "loop" ELSE "queue"
      BY <1>2, <2>2 DEF run, notify_one
    <3>2. DispatcherTypes' /\ JobsEnd'
      BY SMTT(30), <3>1 DEF notify_one, DispatcherTypes, JobsEnd
    <3>3. ThreadsCounted' /\ ThreadsAwake'
      BY <1>0, <1>a, <2>2, <3>1 DEF notify_one, ThreadsCounted, ThreadsAwake
    <3> QED BY <1>b, <3>1, <3>2, <3>3
  <2> QED BY <1>2, <2>1, <2>2 DEF run
<1>3. CASE run_timer_thread
  <2>1. /\ Timer \in running /\ running' = running \ {Timer}
        /\ ended' = ended \cup {Timer} /\ looking' = looking + 1
        /\ UNCHANGED <<user_pc, to_queue, jobs, waiting>>
    BY <1>3 DEF run_timer_thread, job_returns
  <2>2. Cardinality(running') = Cardinality(running) - 1
    BY <2>1, RunningCount DEF DispatcherTypes
  <2>3. DispatcherTypes' /\ JobsInOnePlace' /\ JobsEnd'
    BY SMTT(30), <2>1 DEF DispatcherTypes, JobsInOnePlace, Queued, JobsEnd
  <2>4. ThreadsCounted' /\ ThreadsAwake'
    BY <1>0, <2>1, <2>2 DEF ThreadsCounted, ThreadsAwake, DispatcherTypes
  <2> QED BY <2>3, <2>4
<1>4. CASE wait_for_task /\ UNCHANGED <<user_pc, to_queue>>
  <2>1. CASE jobs = <<>>
    <3>1. looking > 0 /\ looking' = looking - 1 /\ waiting' = waiting + 1
          /\ UNCHANGED <<user_pc, to_queue, jobs, running, ended>>
      BY <1>4, <2>1 DEF wait_for_task
    <3>2. DispatcherTypes' /\ JobsEnd'
      BY SMTT(30), <3>1 DEF DispatcherTypes, JobsEnd
    <3>3. ThreadsCounted' /\ ThreadsAwake'
      BY <1>0, <1>a, <2>1, <3>1 DEF ThreadsCounted, ThreadsAwake
    <3> QED BY <1>b, <3>1, <3>2, <3>3
  <2>2. CASE jobs # <<>>
    <3> DEFINE job == Head(jobs)
    <3>1. looking > 0 /\ looking' = looking - 1 /\ jobs' = Tail(jobs)
          /\ running' = running \cup {job}
          /\ UNCHANGED <<user_pc, to_queue, waiting, ended>>
      BY <1>4, <2>2 DEF wait_for_task
    <3>2. /\ Len(jobs) \in Nat \ {0} /\ jobs' \in Seq(AllJobs)
          /\ job = jobs[1] /\ job \in AllJobs /\ Len(jobs') = Len(jobs) - 1
          /\ \A i \in 1..Len(jobs') : jobs'[i] = jobs[i + 1]
      BY <2>2, <3>1 DEF DispatcherTypes
    <3> HIDE DEF job
    <3>3. Queued = Queued' \cup {job} /\ job \notin Queued'
      <4>1. ASSUME NEW i \in 2..Len(jobs)
            PROVE  i - 1 \in 1..Len(jobs') /\ jobs'[i - 1] = jobs[i]
        BY <3>2
      <4>2. ASSUME NEW i \in 1..Len(jobs')
            PROVE  i + 1 \in 2..Len(jobs) /\ jobs'[i] = jobs[i + 1]
        BY <3>2
      <4>3. Queued' = {jobs[i] : i \in 2..Len(jobs)}
        <5>1. ASSUME NEW x \in Queued' PROVE x \in {jobs[i] : i \in 2..Len(jobs)}
          BY <4>2 DEF Queued
        <5>2. ASSUME NEW i \in 2..Len(jobs) PROVE jobs[i] \in Queued'
          BY <4>1 DEF Queued
        <5> QED BY <5>1, <5>2
      <4>4. 1..Len(jobs) = {1} \cup 2..Len(jobs)
        BY SMTT(30), <3>2
      <4>5. job \notin Queued'
        BY SMTT(30), <3>2, <4>3, \A i \in 2..Len(jobs) : i # 1 /\ i \in 1..Len(jobs)
           DEF JobsInOnePlace
      <4>6. Queued = {jobs[i] : i \in 2..Len(jobs)} \cup {jobs[1]}
        BY <4>4 DEF Queued
      <4> QED BY <3>2, <4>3, <4>5, <4>6
    <3>4. job \notin running /\ Cardinality(running') = Cardinality(running) + 1
      BY <3>1, <3>3, RunningCount DEF JobsInOnePlace, DispatcherTypes
    <3>5. \A i, j \in 1..Len(jobs') : jobs'[i] = jobs'[j] => i = j
      BY SMTT(30), <3>2 DEF JobsInOnePlace
    <3>6. DispatcherTypes'
      BY SMTT(30), <3>1, <3>2 DEF DispatcherTypes
    <3>7. JobsInOnePlace' /\ JobsEnd'
      BY SMTT(30), <3>1, <3>3, <3>4, <3>5 DEF JobsInOnePlace, JobsEnd
    <3>8. ThreadsCounted'
      BY <1>0, <1>a, <3>1, <3>4 DEF ThreadsCounted
    <3>9. ThreadsAwake'
      BY <1>a, <3>1, <3>2 DEF ThreadsAwake
    <3> QED BY <3>6, <3>7, <3>8, <3>9
  <2> QED BY <2>1, <2>2
<1>5. CASE spurious_wakeup /\ UNCHANGED <<user_pc, to_queue>>
  <2>1. DispatcherTypes' /\ JobsEnd'
    BY SMTT(30), <1>5 DEF spurious_wakeup, DispatcherTypes, JobsEnd
  <2>2. UNCHANGED <<to_queue, jobs, running, ended>>
    BY <1>5 DEF spurious_wakeup
  <2>3. ThreadsCounted' /\ ThreadsAwake'
    BY <1>0, <1>a, <1>5 DEF spurious_wakeup, ThreadsCounted, ThreadsAwake
  <2> QED BY <1>b, <2>1, <2>2, <2>3
<1>6. CASE UNCHANGED user_vars
  <2>1. UNCHANGED <<to_queue, jobs, running, ended, looking, waiting, user_pc>>
    BY <1>6 DEF user_vars, pool_vars
  <2>2. DispatcherTypes' /\ JobsEnd' /\ ThreadsCounted' /\ ThreadsAwake'
    BY <2>1 DEF DispatcherTypes, JobsEnd, ThreadsCounted, ThreadsAwake
  <2> QED BY <1>b, <2>1, <2>2
<1> QED BY <1>1, <1>2, <1>3, <1>4, <1>5, <1>6 DEF DispatcherStep

-----------------------------------------------------------------------------
(* The import table.                                                       *)

\* The block and the place in it that CryptFindContainingBlockForArrayIndex
\* counts down to are the quotient and the remainder (driver/crypt.c:61).
LEMMA ContainingBlock ==
    ASSUME NEW index \in Nat
    PROVE  CryptFindContainingBlockForArrayIndex(index)
               = [block |-> index \div BlockSize, sub |-> index % BlockSize]
<1> DEFINE P(n) == /\ (index - n) % BlockSize = 0
                   /\ \A k \in 0..(n - 1) : (index - k) % BlockSize # 0
           r == index % BlockSize
<1>1. r \in 0..index /\ r \in 0..3 /\ (index - r) % BlockSize = 0
      /\ (index - r) \div BlockSize = index \div BlockSize
  BY DEF BlockSize
<1>2. \A k \in 0..(r - 1) : (index - k) % BlockSize # 0
  BY DEF BlockSize
<1>3. P(r)
  BY <1>1, <1>2
<1>4. ASSUME NEW n \in 0..index, P(n)
      PROVE  n = r
  <2>1. ~(r < n)
    <3> SUFFICES ASSUME r < n PROVE FALSE
      OBVIOUS
    <3>1. r \in 0..(n - 1)
      BY <1>1
    <3> QED BY <3>1, <1>1, <1>4
  <2>2. ~(n < r)
    <3> SUFFICES ASSUME n < r PROVE FALSE
      OBVIOUS
    <3>1. n \in 0..(r - 1)
      BY <1>1
    <3> QED BY <3>1, <1>2, <1>4
  <2> QED BY <2>1, <2>2, <1>1
<1> HIDE DEF P, r
<1>5. (CHOOSE n \in 0..index : P(n)) = r
  BY <1>1, <1>3, <1>4
<1>6. CASE index < BlockSize
  <2>1. index \div BlockSize = 0 /\ index % BlockSize = index
    BY <1>6 DEF BlockSize
  <2> QED BY <1>6, <2>1 DEF CryptFindContainingBlockForArrayIndex
<1>7. CASE index = BlockSize
  <2>1. index \div BlockSize = 1 /\ index % BlockSize = 0 /\ ~(index < BlockSize)
    BY <1>7 DEF BlockSize
  <2> QED BY <1>7, <2>1 DEF CryptFindContainingBlockForArrayIndex
<1>8. CASE ~(index < BlockSize) /\ index # BlockSize
  <2>1. CryptFindContainingBlockForArrayIndex(index)
            = LET steps == CHOOSE n \in 0..index : P(n)
              IN [block |-> (index - steps) \div BlockSize, sub |-> steps]
    BY <1>8 DEF CryptFindContainingBlockForArrayIndex, P
  <2> QED BY <2>1, <1>5, <1>1 DEF r
<1> QED BY <1>6, <1>7, <1>8

\* The key of a lane, applied twice, is gone (the xor of CryptEncryptImportsArray
\* and of CryptDecryptImportBlock, driver/crypt.c:20-59).
LEMMA XorTwice ==
    ASSUME NEW entry \in ImportEntries, NEW key \in Lanes
    PROVE  Xor(Xor(entry, key), key) = entry
<1> DEFINE other == (entry.keys \ {key}) \cup ({key} \ entry.keys)
<1>1. (other \ {key}) \cup ({key} \ other) = entry.keys
  OBVIOUS
<1>2. Xor(Xor(entry, key), key) = [routine |-> entry.routine, keys |-> entry.keys]
  BY <1>1 DEF Xor
<1> QED BY <1>2 DEF ImportEntries

\* Decrypting an entry of an encrypted table gives the entry that was encrypted.
LEMMA DecryptEncrypted ==
    ASSUME NEW array \in Table, NEW index \in 0..(IMPORTS_LENGTH - 1)
    PROVE  CryptDecryptImportsArrayEntry(
               CryptEncryptImportsArray(array, IMPORTS_LENGTH), index) = array[index]
<1> DEFINE block == index \div BlockSize
           lane == index % BlockSize
           encrypted == CryptEncryptImportsArray(array, IMPORTS_LENGTH)
<1>1. /\ index \in Nat /\ IMPORTS_LENGTH \in Nat
      /\ index < IMPORTS_LENGTH /\ IMPORTS_LENGTH % BlockSize = 0
  BY ImportsAssumption
<1>2. /\ lane \in Lanes /\ block * BlockSize + lane = index
      /\ block < IMPORTS_LENGTH \div BlockSize
  BY <1>1 DEF BlockSize, Lanes
<1>3. encrypted[index] = Xor(array[index], lane)
  BY <1>2 DEF CryptEncryptImportsArray, Table
<1>4. CryptDecryptImportBlock(encrypted, block)[lane] = Xor(encrypted[index], lane)
  BY <1>2 DEF CryptDecryptImportBlock
<1>5. CryptDecryptImportsArrayEntry(encrypted, index)
          = CryptDecryptImportBlock(encrypted, block)[lane]
  BY <1>1, ContainingBlock DEF CryptDecryptImportsArrayEntry
<1>6. array[index] \in ImportEntries
  BY DEF Table
<1> QED BY <1>2, <1>3, <1>4, <1>5, <1>6, XorTwice

-----------------------------------------------------------------------------
\* While the routines are resolved, the entries before the index hold theirs and
\* none is encrypted yet; this is what the encryption starts from.
Resolved ==
    imports_state = "resolve" =>
        \A i \in 0..(imports_index - 1) : driver_imports[i] = Plain(NtRoutine(i))

ImportsInv == ImportsTypeOK /\ Resolved /\ CallsReachTheirRoutine

\* A routine's address is an entry of the table.
LEMMA PlainEntry ==
    ASSUME NEW r \in Nat
    PROVE  Plain(r) \in ImportEntries
BY DEF Plain, ImportEntries

\* The invariant holds at the start.
LEMMA ImportsInitInv == ImportsInit => ImportsInv
<1> SUFFICES ASSUME ImportsInit PROVE ImportsInv
  OBVIOUS
<1>1. ImportsTypeOK
  BY PlainEntry, ImportsAssumption DEF ImportsInit, ImportsTypeOK, Table
<1>2. Resolved /\ CallsReachTheirRoutine
  BY DEF ImportsInit, Resolved, CallsReachTheirRoutine
<1> QED BY <1>1, <1>2 DEF ImportsInv

\* Resolving one routine keeps it.
LEMMA ResolveKeepsInv == ImportsInv /\ ImpResolveNtImport => ImportsInv'
<1> SUFFICES ASSUME ImportsInv, ImpResolveNtImport PROVE ImportsInv'
  OBVIOUS
<1>0. /\ imports_index \in Nat /\ imports_index < NT_IMPORT_COUNT
      /\ imports_index \in 0..(IMPORTS_LENGTH - 1) /\ driver_imports \in Table
      /\ imports_state = "resolve"
  BY ImportsAssumption DEF ImportsInv, ImportsTypeOK, ImpResolveNtImport
<1>1. CASE imports_state' = "failed" /\ UNCHANGED <<imports_index, driver_imports>>
  BY <1>1 DEF ImportsInv, ImportsTypeOK, Resolved, CallsReachTheirRoutine
<1>2. CASE /\ driver_imports' = [driver_imports EXCEPT ![imports_index]
                                     = Plain(NtRoutine(imports_index))]
           /\ imports_index' = imports_index + 1
           /\ UNCHANGED imports_state
  <2>1. Plain(NtRoutine(imports_index)) \in ImportEntries
    BY <1>0, PlainEntry DEF NtRoutine
  <2>2. driver_imports' \in Table
    BY <1>0, <1>2, <2>1 DEF Table
  <2>3. ImportsTypeOK'
    BY <1>0, <1>2, <2>2, ImportsAssumption DEF ImportsTypeOK
  <2>4. ASSUME NEW i \in 0..(imports_index' - 1)
        PROVE  driver_imports'[i] = Plain(NtRoutine(i))
    <3>1. i \in 0..(IMPORTS_LENGTH - 1)
      BY <1>0, <1>2, ImportsAssumption
    <3>2. CASE i = imports_index
      BY <1>0, <1>2, <3>1, <3>2 DEF Table
    <3>3. CASE i # imports_index
      <4>1. i \in 0..(imports_index - 1)
        BY <1>0, <1>2, <3>3
      <4> QED BY <1>0, <1>2, <3>1, <3>3, <4>1 DEF ImportsInv, Resolved, Table
    <3> QED BY <3>2, <3>3
  <2>5. Resolved'
    BY <2>4 DEF Resolved, Plain, NtRoutine
  <2>6. CallsReachTheirRoutine'
    BY <1>0, <1>2 DEF CallsReachTheirRoutine
  <2> QED BY <2>3, <2>5, <2>6 DEF ImportsInv
<1> QED BY <1>1, <1>2 DEF ImpResolveNtImport

\* Encrypting the table keeps it.
LEMMA EncryptKeepsInv == ImportsInv /\ ImpResolveDynamicImports => ImportsInv'
<1> SUFFICES ASSUME ImportsInv, ImpResolveDynamicImports PROVE ImportsInv'
  OBVIOUS
<1>1. /\ driver_imports \in Table /\ imports_state' = "ready"
      /\ imports_index = NT_IMPORT_COUNT /\ imports_index' = imports_index
      /\ driver_imports' = CryptEncryptImportsArray(driver_imports, IMPORTS_LENGTH)
  BY DEF ImportsInv, ImportsTypeOK, ImpResolveDynamicImports
<1>2. ASSUME NEW i \in 0..(IMPORTS_LENGTH - 1)
      PROVE  Xor(driver_imports[i], i % BlockSize) \in ImportEntries
  <2>1. i % BlockSize \in Lanes
    BY ImportsAssumption DEF BlockSize, Lanes
  <2>2. driver_imports[i] \in ImportEntries
    BY <1>1 DEF Table
  <2> QED BY <2>1, <2>2 DEF Xor, ImportEntries
<1>3. driver_imports' \in Table
  BY <1>1, <1>2 DEF CryptEncryptImportsArray, Table
<1>4. ImportsTypeOK'
  BY <1>1, <1>3 DEF ImportsInv, ImportsTypeOK
<1>5. ASSUME NEW i \in 0..(NT_IMPORT_COUNT - 1)
      PROVE  ImpCall(i)' = Plain(NtRoutine(i))
  <2>1. i \in 0..(IMPORTS_LENGTH - 1)
    BY ImportsAssumption
  <2>2. driver_imports[i] = Plain(NtRoutine(i))
    BY <1>1 DEF ImportsInv, Resolved, ImpResolveDynamicImports
  <2>3. ImpCall(i)' = CryptDecryptImportsArrayEntry(driver_imports', i)
    BY DEF ImpCall
  <2> QED BY <1>1, <2>1, <2>2, <2>3, DecryptEncrypted
<1>6. CallsReachTheirRoutine'
  BY <1>5 DEF CallsReachTheirRoutine, Plain, NtRoutine
<1>7. Resolved'
  BY <1>1 DEF Resolved
<1> QED BY <1>4, <1>6, <1>7 DEF ImportsInv

LEMMA ImportsStepInv == ImportsInv /\ [ImportsStep]_imports_vars => ImportsInv'
<1> SUFFICES ASSUME ImportsInv, [ImportsStep]_imports_vars PROVE ImportsInv'
  OBVIOUS
<1>1. CASE ImpResolveNtImport
  BY <1>1, ResolveKeepsInv
<1>2. CASE ImpResolveDynamicImports
  BY <1>2, EncryptKeepsInv
<1>3. CASE UNCHANGED imports_vars
  BY <1>3 DEF imports_vars, ImportsInv, ImportsTypeOK, Resolved, CallsReachTheirRoutine,
     ImpCall
<1> QED
  BY <1>1, <1>2, <1>3 DEF ImportsStep

-----------------------------------------------------------------------------
(* PCI devices.                                                            *)

PciNext ==
    \/ \E list \in PciDeviceLists : ValidatePciDevices(list)
    \/ PciStep

PciHeld ==
    CASE pci_pc = "reference" -> {"handle"}
      [] pci_pc = "search" -> {"handle", "directory", "lock"}
      [] pci_pc \in {"fill", "visit", "query", "free"} -> {"array"}
      [] OTHER -> {}

\* The references kept are those of devices the loop has yet to get to, and the
\* first call's count is right unless a device arrived since.
PciInv ==
    /\ PciTypeOK
    /\ pci_list \in Seq(PciObjects) /\ pci_array \in Seq(PciObjects)
    /\ pci_held = PciHeld /\ pci_index >= 1
    /\ pci_pc \notin {"visit", "query", "free", "done"} => pci_refs = {} /\ pci_index = 1
    /\ pci_pc \in {"visit", "query"} =>
           \A d \in pci_refs : \E i \in pci_index..Len(pci_array) : pci_array[i] = d
    /\ pci_pc = "query" => pci_index <= Len(pci_array)
    /\ pci_pc = "free" => pci_refs = {}
    /\ pci_pc = "done" => pci_refs = {} \/ pci_grew
    /\ pci_pc \in {"allocate", "fill"} /\ ~pci_grew => Len(pci_list) = pci_count
    /\ pci_flagged = {d \in pci_seen : d.id \in FLAGGED_DEVICE_IDS}

LEMMA PciStart == PciInit => PciInv
<1> SUFFICES ASSUME PciInit PROVE PciInv
  OBVIOUS
<1>1. PciTypeOK /\ pci_held = PciHeld
  BY DEF PciInit, PciTypeOK, PciHeld
<1> QED
  BY <1>1 DEF PciInit, PciInv

LEMMA PciStepInv ==
    ASSUME PciInv, [PciNext]_pci_vars
    PROVE  PciInv'
<1>1. ASSUME NEW list \in PciDeviceLists, ValidatePciDevices(list)
      PROVE  PciInv'
  BY <1>1, PciAssumption DEF ValidatePciDevices, PciInv, PciTypeOK, PciHeld
<1>2. CASE OpenDirectory
  BY <1>2 DEF OpenDirectory, PciStays, PciInv, PciTypeOK, PciHeld
<1>3. CASE SearchDirectory
  BY <1>3 DEF SearchDirectory, PciStays, PciInv, PciTypeOK, PciHeld
<1>4. CASE CountDevices
  BY SMTT(30), <1>4 DEF CountDevices, PciStays, PciInv, PciTypeOK, PciHeld
<1>5. CASE AllocateArray
  BY <1>5 DEF AllocateArray, PciStays, PciInv, PciTypeOK, PciHeld
<1>6. ASSUME NEW d \in PciObjects, DeviceArrives(d)
      PROVE  PciInv'
  <2>1. pci_list' \in Seq(PciObjects) /\ UNCHANGED PciHeld
    BY SMTT(30), <1>6 DEF DeviceArrives, PciInv, PciHeld
  <2>2. pci_grew' \/ pci_pc = "count"
    BY <1>6 DEF DeviceArrives, PciInv, PciTypeOK
  <2> QED
    BY <1>6, <2>1, <2>2 DEF DeviceArrives, PciInv, PciTypeOK
<1>7. CASE FillArray
  BY SMTT(30), <1>7 DEF FillArray, PciStays, PciInv, PciTypeOK, PciHeld
<1>8. CASE VisitDevice
  <2>1. CASE pci_index > Len(pci_array)
    BY SMTT(30), <1>8, <2>1 DEF VisitDevice, PciStays, PciInv, PciTypeOK, PciHeld
  <2>2. CASE pci_index <= Len(pci_array) /\ pci_pc' = "query"
    BY <1>8, <2>2 DEF VisitDevice, PciStays, PciInv, PciTypeOK, PciHeld
  <2>3. CASE pci_index <= Len(pci_array) /\ pci_pc' # "query"
    <3>1. /\ pci_refs' = pci_refs \ {pci_array[pci_index]}
          /\ pci_index' = pci_index + 1
          /\ UNCHANGED <<pci_pc, pci_list, pci_grew, pci_count, pci_array, pci_held,
                         pci_seen, pci_flagged>>
      BY SMTT(30), <1>8, <2>3 DEF VisitDevice, ObDereferenceObject, PciStays, PciInv, PciTypeOK
    <3>2. \A d \in pci_refs' : \E i \in pci_index'..Len(pci_array') : pci_array'[i] = d
      BY SMTT(30), <1>8, <3>1 DEF VisitDevice, PciInv, PciTypeOK
    <3> QED
      BY SMTT(30), <1>8, <3>1, <3>2 DEF VisitDevice, PciInv, PciTypeOK, PciHeld
  <2>4. pci_index \in Nat /\ Len(pci_array) \in Nat
    BY SMTT(30) DEF PciInv, PciTypeOK
  <2> QED
    BY <2>1, <2>2, <2>3, <2>4
<1>9. CASE PciDeviceQueryCallback
  <2> DEFINE d == pci_array[pci_index]
  <2>1. /\ pci_pc = "query" /\ pci_pc' = "visit"
        /\ pci_refs' = pci_refs \ {d} /\ pci_index' = pci_index + 1
        /\ UNCHANGED <<pci_list, pci_grew, pci_count, pci_array, pci_held>>
    BY <1>9 DEF PciDeviceQueryCallback, ObDereferenceObject, PciStays
  <2>2. d \in PciObjects
    BY SMTT(30), <2>1 DEF PciInv, PciTypeOK
  <2>3. PICK header \in {{d.id}, {}} :
            /\ pci_seen' = IF header # {} THEN pci_seen \cup {d} ELSE pci_seen
            /\ pci_flagged' = IF header \cap FLAGGED_DEVICE_IDS # {}
                              THEN pci_flagged \cup {d} ELSE pci_flagged
    BY <1>9 DEF PciDeviceQueryCallback, QueryPciDeviceConfigurationSpace,
       IsPciConfigurationSpaceFlagged
  <2>4. pci_flagged' = {x \in pci_seen' : x.id \in FLAGGED_DEVICE_IDS}
    BY SMTT(30), <2>3 DEF PciInv
  <2>5. \A x \in pci_refs' : \E i \in pci_index'..Len(pci_array') : pci_array'[i] = x
    BY SMTT(30), <2>1 DEF PciInv, PciTypeOK
  <2>6. pci_seen' \subseteq PciObjects /\ pci_flagged' \subseteq pci_seen'
    BY <2>2, <2>3, <2>4 DEF PciInv, PciTypeOK
  <2> QED
    BY SMTT(30), <2>1, <2>4, <2>5, <2>6 DEF PciInv, PciTypeOK, PciHeld
<1>10. CASE FreeArray
  BY <1>10 DEF FreeArray, PciStays, PciInv, PciTypeOK, PciHeld
<1>11. CASE PciReturn
  <2>1. (PciTypeOK /\ pci_held = PciHeld)'
    BY <1>11 DEF PciReturn, PciTypeOK, PciHeld
  <2> QED
    BY <1>11, <2>1 DEF PciReturn, PciInv
<1>12. CASE UNCHANGED pci_vars
  BY <1>12 DEF pci_vars, PciInv, PciTypeOK, PciHeld
<1> QED
  BY <1>1, <1>2, <1>3, <1>4, <1>5, <1>6, <1>7, <1>8, <1>9, <1>10, <1>11,
     <1>12 DEF PciNext, PciStep

LEMMA PciSafe == PciInv => PciReferencesReturned
BY DEF PciInv, PciHeld, PciReferencesReturned

-----------------------------------------------------------------------------
(* Checks of images.                                                       *)

ImageCheckNext ==
    \/ \E image \in Images : \/ GetDriverImageSize(image)
                             \/ RetrieveInMemoryModuleExecutableSections(image)
    \/ \E image, other \in Images : \/ ValidateProcessLoadedModule(image, other)
                                    \/ ValidateOurDriverImage(image, other)
                                    \/ ValidateSystemModule(image, other)
    \/ ImageCheckStep

\* Where each check can be.
ImageCheckAt ==
    CASE ic_op = "none" -> {"idle"}
      [] ic_op = "size" -> {"modules", "find", "answer", "release", "done"}
      [] ic_op = "regions" -> {"modules", "find", "memory", "answer", "release", "done"}
      [] ic_op = "loaded" -> {"memory", "map", "disk", "hash_disk", "hash_memory",
                              "compare", "release", "done"}
      [] OTHER -> {"modules", "find", "entry", "path", "memory", "hash_memory",
                   "compare", "release", "done"}

\* A check holds only what it releases at its end, except that the copy of the
\* driver's sections also holds the list of modules until it has found its own.
\* Nothing has failed, and there is no verdict, before the release.
ImageCheckInv ==
    /\ ic_op \in {"none", "size", "regions", "loaded", "ours", "module"}
    /\ ic_pc \in ImageCheckAt
    /\ {ic_image, ic_other} \subseteq Images \cup {<<>>}
    /\ ic_pc \in {"idle", "modules"} => ic_held = {}
    /\ ic_pc = "find" => ic_held \subseteq {"modules"}
    /\ ic_pc = "memory" /\ ic_op = "regions" => ic_held = {}
    /\ ic_pc # "find" => ic_held \subseteq Releases(ic_op)
    /\ ic_pc = "done" => ic_held = {} \/ (ic_op = "regions" /\ ic_failed = "no_code")
    /\ ic_pc \notin {"release", "done"} => ic_failed = "none" /\ ic_verdict = "none"
    /\ ic_lost # {} => ic_failed = "hash"
    /\ ic_verdict # "none" =>
           /\ ic_failed = "none"
           /\ ic_verdict = "valid" <=>
                  /\ ExecutableSections(ic_other) # <<>>
                  /\ HashedSection(ic_image) = HashedSection(ic_other)

LEMMA ImageCheckStart == ImageChecksInit => ImageCheckInv
BY DEF ImageChecksInit, ImageCheckInv, ImageCheckAt

LEMMA ImageCheckStepInv ==
    ASSUME ImageCheckInv, [ImageCheckNext]_ic_vars
    PROVE  ImageCheckInv'
<1> USE DEF ImageCheckInv, ImageCheckAt, Releases, Resources
<1>1. ASSUME NEW image \in Images, GetDriverImageSize(image)
      PROVE  ImageCheckInv'
  BY <1>1 DEF GetDriverImageSize, StartImageCheck
<1>2. ASSUME NEW image \in Images, RetrieveInMemoryModuleExecutableSections(image)
      PROVE  ImageCheckInv'
  BY <1>2 DEF RetrieveInMemoryModuleExecutableSections, StartImageCheck
<1>3. ASSUME NEW image \in Images, NEW other \in Images,
             \/ ValidateProcessLoadedModule(image, other)
             \/ ValidateOurDriverImage(image, other)
             \/ ValidateSystemModule(image, other)
      PROVE  ImageCheckInv'
  BY <1>3 DEF ValidateProcessLoadedModule, ValidateOurDriverImage, ValidateSystemModule,
     StartImageCheck
<1>4. CASE QueryModulesForImage
  BY <1>4 DEF QueryModulesForImage, Take, Fail, OnlyProgress
<1>5. CASE FindOurModule
  BY <1>5 DEF FindOurModule, Take, Fail, OnlyProgress
<1>6. CASE FindHashedEntry
  BY <1>6 DEF FindHashedEntry, Take, Fail, OnlyProgress
<1>7. CASE ConvertPath
  BY <1>7 DEF ConvertPath, Take, Fail, OnlyProgress
<1>8. CASE StoreMemoryImage
  BY <1>8 DEF StoreMemoryImage, StoreModuleExecutableRegionsInBuffer, Take, Fail,
     OnlyProgress
<1>9. CASE StoreKernelImage
  BY <1>9 DEF StoreKernelImage, StoreModuleExecutableRegionsInBuffer, Take, Fail,
     OnlyProgress
<1>10. CASE MapDiskImageIntoVirtualAddressSpace
  BY <1>10 DEF MapDiskImageIntoVirtualAddressSpace, Take, Fail, OnlyProgress
<1>11. CASE StoreDiskImage
  BY <1>11 DEF StoreDiskImage, StoreModuleExecutableRegionsInBuffer, Take, Fail,
     OnlyProgress
<1>12. CASE AnswerRequest
  BY <1>12 DEF AnswerRequest, Take, OnlyProgress
<1>13. CASE HashDiskSection
  BY <1>13 DEF HashDiskSection, ComputeHashOfBuffer, Take, Fail, OnlyProgress
<1>14. CASE HashMemorySection
  BY <1>14 DEF HashMemorySection, ComputeHashOfBuffer, Take, Fail, OnlyProgress
<1>15. CASE CompareHashes
  BY <1>15 DEF CompareHashes, Hashed
<1>16. CASE Release
  BY <1>16 DEF Release
<1>17. CASE ImageCheckReturn
  BY <1>17 DEF ImageCheckReturn
<1>18. CASE UNCHANGED ic_vars
  BY <1>18 DEF ic_vars
<1> HIDE DEF ImageCheckInv
<1> QED
  BY <1>1, <1>2, <1>3, <1>4, <1>5, <1>6, <1>7, <1>8, <1>9, <1>10, <1>11,
     <1>12, <1>13, <1>14, <1>15, <1>16, <1>17, <1>18 DEF ImageCheckNext, ImageCheckStep

LEMMA ImageCheckSafe == ImageCheckInv => ImageChecksRelease
BY DEF ImageCheckInv, ImageChecksRelease

LEMMA PacketSizeIsNat ==
    ASSUME NEW image \in Images \cup {<<>>}
    PROVE  PacketSize(image) \in Nat \ {0}
<1>1. Len(image) \in Nat
  BY ImagesAssumption
<1>2. IsFiniteSet(1..(Len(image) - 1))
  BY SMTT(30), <1>1, FS_Interval
<1>3. {i \in 1..(Len(image) - 1) : image[i].executable} \in SUBSET (1..(Len(image) - 1))
  OBVIOUS
<1>4. Cardinality({i \in 1..(Len(image) - 1) : image[i].executable}) \in Nat
  BY <1>2, <1>3, FS_Subset, FS_CardinalityType
<1> QED
  BY <1>4 DEF PacketSize

-----------------------------------------------------------------------------
(* Requests.                                                               *)

\* What a check of an image may do to the request: fill its buffer.
ImageAnswered ==
    /\ ValidateIrpOutputBuffer(IF ic_op = "size" THEN SizeOfULong ELSE PacketSize(ic_image))
    /\ UNCHANGED <<io_pc, io_code, io_input, io_length, io_completed, io_parked,
                   io_unwaited, hv_vars>>

\* What may happen to the request of a client: the steps of DeviceControl, and
\* the answer of a check of an image.
IoNext ==
    \/ \E code \in Codes, input, length \in BufferLengths, session \in BOOLEAN :
           DeviceControl(code, input, length, session)
    \/ RequestHardwareInformation \/ SharedMappingInitialise
    \/ \E code : Dispatch(code)
    \/ InsertIrpIntoQueue \/ PerformVirtualizationDetection
    \/ IoCompleteRequest \/ RequestIsOver \/ WaitForThread
    \/ ImageAnswered /\ ic_pc = "answer"

\* Until its handler has returned a request is neither completed nor queued.
IoInv ==
    /\ io_pc \in {"idle", "dispatch", "handler", "returned"}
    /\ io_input \in Nat /\ io_length \in Nat /\ io_written \in Nat
    /\ io_information \in Nat /\ io_completed \in Nat /\ io_parked \in BOOLEAN
    /\ io_information <= io_written
    /\ io_written <= io_input \/ io_written <= io_length
    /\ io_pc \in {"dispatch", "handler"} => io_completed = 0 /\ ~io_parked
    /\ io_pc = "returned" => io_completed = IF io_parked THEN 0 ELSE 1

PacketSizesAreNat == \A image \in Images \cup {<<>>} : PacketSize(image) \in Nat

\* The two outcomes of ValidateIrpOutputBuffer keep the buffer's bounds.
LEMMA OutputBufferInv ==
    ASSUME IoInv, NEW size \in Nat, ValidateIrpOutputBuffer(size),
           UNCHANGED <<io_input, io_length>>
    PROVE  /\ io_written' \in Nat /\ io_information' \in Nat
           /\ io_information' <= io_written'
           /\ io_written' <= io_input' \/ io_written' <= io_length'
BY DEF IoInv, ValidateIrpOutputBuffer, Fits

LEMMA IoStart == IoInit => IoInv
<1> SUFFICES ASSUME IoInit PROVE IoInv
  OBVIOUS
<1>1. io_parked \in BOOLEAN
  BY DEF IoInit
<1>2. /\ io_pc = "idle" /\ io_input = 0 /\ io_length = 0 /\ io_written = 0
      /\ io_information = 0 /\ io_completed = 0
  BY DEF IoInit
<1> QED
  BY <1>1, <1>2 DEF IoInv

LEMMA IoStepInv ==
    ASSUME PacketSizesAreNat, IoInv, ImageCheckInv, [IoNext]_io_vars
    PROVE  IoInv'
<1>1. ASSUME NEW code \in Codes, NEW input \in BufferLengths, NEW length \in BufferLengths,
             NEW session \in BOOLEAN, DeviceControl(code, input, length, session)
      PROVE  IoInv'
  <2>1. io_parked' \in BOOLEAN /\ ~io_parked'
    BY <1>1 DEF DeviceControl
  <2>2. /\ io_input' = input /\ io_length' = length /\ io_written' = input
        /\ io_information' = 0
        /\ \/ io_pc' = "dispatch" /\ io_completed' = 0
           \/ io_pc' = "returned" /\ io_completed' = 1
    BY <1>1 DEF DeviceControl
  <2>3. input \in Nat /\ length \in Nat
    BY IoAssumption
  <2> QED
    BY <2>1, <2>2, <2>3 DEF IoInv
<1>2. ASSUME NEW code, NEW size \in Nat, AnswerWith(code, size)
      PROVE  IoInv'
  BY <1>2, OutputBufferInv DEF AnswerWith, IoInv
<1>3. CASE RequestHardwareInformation
  BY <1>2, <1>3 DEF RequestHardwareInformation, SizeOfSystemInformation
<1>4. CASE SharedMappingInitialise
  BY <1>2, <1>4 DEF SharedMappingInitialise, SizeOfMappingInit
<1>5. ASSUME NEW code, Dispatch(code)
      PROVE  IoInv'
  BY <1>5 DEF Dispatch, IoInv
<1>6. CASE InsertIrpIntoQueue
  <2>1. ASSUME NEW size \in ReportSizes, ValidateIrpOutputBuffer(size), io_completed' = 1,
               UNCHANGED io_parked
        PROVE  IoInv'
    <3>1. size \in Nat
      BY IoAssumption
    <3> QED
      BY <1>6, <2>1, <3>1, OutputBufferInv DEF InsertIrpIntoQueue, IoInv
  <2> QED
    BY <1>6, <2>1 DEF InsertIrpIntoQueue, IoInv
<1>7. CASE PerformVirtualizationDetection
  BY <1>7, OutputBufferInv DEF PerformVirtualizationDetection, SizeOfHypervisorReport, IoInv
<1>8. CASE IoCompleteRequest
  BY <1>8 DEF IoCompleteRequest, IoInv
<1>9. CASE RequestIsOver
  <2>1. io_parked' \in BOOLEAN
    BY <1>9 DEF RequestIsOver
  <2>2. /\ io_pc' = "idle" /\ io_input' = 0 /\ io_length' = 0 /\ io_written' = 0
        /\ io_information' = 0 /\ io_completed' = 0
    BY <1>9 DEF RequestIsOver
  <2> QED
    BY <2>1, <2>2 DEF IoInv
<1>10. CASE WaitForThread
  BY <1>10 DEF WaitForThread, IoInv
<1>11. CASE ImageAnswered
  <2>1. (IF ic_op = "size" THEN SizeOfULong ELSE PacketSize(ic_image)) \in Nat
    BY DEF PacketSizesAreNat, ImageCheckInv, SizeOfULong
  <2> QED
    BY <1>11, <2>1, OutputBufferInv DEF ImageAnswered, IoInv
<1>12. CASE UNCHANGED io_vars
  BY <1>12 DEF io_vars, IoInv
<1> QED
  BY <1>1, <1>3, <1>4, <1>5, <1>6, <1>7, <1>8, <1>9, <1>10, <1>11, <1>12
     DEF IoNext

LEMMA IoSafe == IoInv => RequestAnswered
BY DEF IoInv, RequestAnswered

\* The check of an image answers the request that asked for it.
CodeOfCheck ==
    /\ ic_op = "size" => io_code = "image_size"
    /\ ic_op = "regions" => io_code = "regions"

\* The verdict is that of the two reads of the counter.
HvVerdict ==
    \E before, cycles \in Nat :
        /\ hv_reads = <<before, before + cycles>>
        /\ hv_detected <=> APERFMsrTimingCheck(before, before + cycles)

\* Nothing but PerformVirtualizationDetection answers its request.
HvInv ==
    /\ io_code = "virtualization" /\ io_pc = "dispatch" => io_information = 0
    /\ io_code = "virtualization" /\ io_information > 0 => HvVerdict

LEMMA HvStart == IoInit => HvInv
BY DEF IoInit, HvInv, NoCode

LEMMA HvStepInv ==
    ASSUME HvInv, CodeOfCheck, ImageCheckInv, [IoNext]_io_vars
    PROVE  HvInv'
<1>0. ASSUME UNCHANGED hv_vars PROVE HvVerdict' <=> HvVerdict
  BY <1>0 DEF hv_vars, HvVerdict
<1>1. ASSUME NEW code \in Codes, NEW input \in BufferLengths, NEW length \in BufferLengths,
             NEW session \in BOOLEAN, DeviceControl(code, input, length, session)
      PROVE  HvInv'
  BY <1>1 DEF DeviceControl, HvInv
<1>2. ASSUME NEW code, NEW size, AnswerWith(code, size), code # "virtualization"
      PROVE  HvInv'
  BY <1>2 DEF AnswerWith, HvInv
<1>3. ASSUME NEW code, Dispatch(code)
      PROVE  HvInv'
  BY <1>0, <1>3 DEF Dispatch, HvInv
<1>4. CASE InsertIrpIntoQueue
  BY <1>4 DEF InsertIrpIntoQueue, HvInv
<1>5. CASE PerformVirtualizationDetection
  <2>1. io_pc' = "handler"
    BY <1>5 DEF PerformVirtualizationDetection
  <2>2. CASE Fits(SizeOfHypervisorReport)
    <3>1. PICK before \in Counters, cycles \in Cycles :
              /\ hv_reads' = <<before, before + cycles>>
              /\ hv_detected' = (Fits(SizeOfHypervisorReport)
                                 /\ APERFMsrTimingCheck(before, before + cycles))
      BY <1>5 DEF PerformVirtualizationDetection
    <3>2. before \in Nat /\ cycles \in Nat
      BY IoAssumption
    <3>3. hv_detected' <=> APERFMsrTimingCheck(before, before + cycles)
      BY <2>2, <3>1
    <3>4. HvVerdict'
      BY <3>1, <3>2, <3>3 DEF HvVerdict
    <3> QED
      BY <2>1, <3>4 DEF HvInv
  <2>3. CASE ~Fits(SizeOfHypervisorReport)
    <3>1. io_information' = 0
      BY <1>5, <2>3 DEF PerformVirtualizationDetection, ValidateIrpOutputBuffer, HvInv
    <3> QED
      BY <2>1, <3>1 DEF HvInv
  <2> QED
    BY <2>2, <2>3
<1>6. CASE IoCompleteRequest \/ WaitForThread
  BY <1>0, <1>6 DEF IoCompleteRequest, WaitForThread, HvInv
<1>7. CASE RequestIsOver
  BY <1>7 DEF RequestIsOver, HvInv
<1>8. CASE ImageAnswered /\ ic_pc = "answer"
  <2>1. ic_op \in {"size", "regions"}
    BY <1>8 DEF ImageCheckInv, ImageCheckAt
  <2>2. io_code' # "virtualization"
    BY <1>8, <2>1 DEF CodeOfCheck, ImageAnswered
  <2> QED
    BY <2>2 DEF HvInv
<1>9. CASE UNCHANGED io_vars
  BY <1>0, <1>9 DEF io_vars, hv_vars, HvInv
<1> QED
  BY <1>1, <1>2, <1>3, <1>4, <1>5, <1>6, <1>7, <1>8, <1>9
     DEF IoNext, RequestHardwareInformation, SharedMappingInitialise

LEMMA Remainder ==
    ASSUME NEW d \in Nat \ {0}, NEW q \in Int, NEW r \in 0..(d - 1)
    PROVE  (d * q + r) % d = r
<1> DEFINE a == d * q + r
           p == a \div d
           s == a % d
<1>1. a \in Int
  OBVIOUS
<1> HIDE DEF a
<1>2. a = d * p + s /\ p \in Int /\ s \in 0..(d - 1)
  BY <1>1
<1> HIDE DEF p, s
<1>3. d * (q - p) = s - r
  BY <1>2 DEF a
<1>4. q - p >= 1 => d * (q - p) >= d
  BY <1>2
<1>5. q - p <= -1 => d * (q - p) <= -d
  BY <1>2
<1>6. q = p
  BY <1>2, <1>3, <1>4, <1>5
<1> QED
  BY <1>2, <1>3, <1>6 DEF a, s

\* Only the low halves of the counter are compared, which tell two values apart
\* unless they differ by a multiple of half a word.
LEMMA LowHalf ==
    ASSUME NEW value \in Nat, NEW half \in Nat \ {0}
    PROVE  (value * half) % (half * half) = half * (value % half)
<1> DEFINE q == value \div half
           r == value % half
<1>1. value = half * q + r /\ q \in Nat /\ r \in Nat /\ r < half
  OBVIOUS
<1> HIDE DEF q, r
<1>2. value * half = (half * half) * q + half * r
  BY <1>1
<1>3. half * r < half * half /\ half * r \in Nat /\ half * half \in Nat \ {0}
  BY <1>1
<1>4. half * r \in 0..((half * half) - 1)
  BY <1>1, <1>3
<1> DEFINE d == half * half
           s == half * r
<1>5. (d * q + s) % d = s
  <2>1. d \in Nat \ {0} /\ q \in Int /\ s \in 0..(d - 1)
    BY <1>1, <1>3, <1>4
  <2> HIDE DEF d, s
  <2> QED
    BY <2>1, Remainder
<1> QED
  BY <1>2, <1>5 DEF r

\* A counter that advances by less than half a word is seen not to have advanced
\* exactly if it has not.
LEMMA CounterAdvances ==
    ASSUME NEW before \in Nat, NEW cycles \in Nat, cycles < HalfWord
    PROVE  APERFMsrTimingCheck(before, before + cycles) <=> cycles = 0
<1> DEFINE half == HalfWord
           b == before % half
           a == (before + cycles) % half
<1>1. half \in Nat \ {0}
  BY IoAssumption
<1> HIDE DEF half
<1>2. APERFMsrTimingCheck(before, before + cycles)
          <=> (half * a - half * b) % (half * half) = 0
  <2>1. /\ (before * half) % (half * half) = half * b
        /\ ((before + cycles) * half) % (half * half) = half * a
    <3>1. before + cycles \in Nat
      OBVIOUS
    <3> QED
      BY <1>1, <3>1, LowHalf
  <2> HIDE DEF a, b
  <2> QED
    BY <2>1 DEF APERFMsrTimingCheck, half
<1>3. b \in 0..(half - 1) /\ a \in 0..(half - 1)
  BY <1>1
<1>4. a = b <=> cycles = 0
  <2>1. ASSUME a = b PROVE cycles = 0
    <3> DEFINE p == before \div half
               q == (before + cycles) \div half
    <3>1. before = half * p + b /\ before + cycles = half * q + a /\ p \in Int /\ q \in Int
      BY <1>1
    <3> HIDE DEF a, b, p, q
    <3>2. half * (q - p) = cycles
      BY <1>1, <1>3, <2>1, <3>1
    <3>3. q - p >= 1 => half * (q - p) >= half
      BY <1>1, <3>1
    <3>4. q - p <= -1 => half * (q - p) <= -half
      BY <1>1, <3>1
    <3>5. cycles < half
      BY DEF half
    <3>6. q = p
      BY <1>1, <3>1, <3>2, <3>3, <3>4, <3>5
    <3> QED
      BY <1>1, <3>1, <3>2, <3>6
  <2>2. ASSUME cycles = 0 PROVE a = b
    BY <2>2
  <2> QED
    BY <2>1, <2>2
<1> HIDE DEF a, b
<1>5. (half * a - half * b) % (half * half) = 0 <=> a = b
  <2> DEFINE d == half * half
             x == half * a - half * b
  <2>0. d \in Nat \ {0} /\ x \in Int /\ x = half * (a - b)
    BY <1>1, <1>3
  <2>1. CASE a = b
    <3>1. x = d * 0 + 0
      BY <1>1, <1>3, <2>1
    <3> HIDE DEF d, x
    <3>2. (d * 0 + 0) % d = 0
      BY SMTT(30), <2>0, Remainder
    <3> QED
      BY <2>1, <3>1, <3>2 DEF d, x
  <2>2. CASE a > b
    <3>1. x \in 1..(d - 1)
      <4>1. a - b \in 1..(half - 1)
        BY <1>1, <1>3, <2>2
      <4>2. half * (a - b) >= half /\ half * (a - b) <= half * (half - 1)
        BY <1>1, <4>1
      <4> QED
        BY <1>1, <2>0, <4>2
    <3>2. x = d * 0 + x
      BY <2>0
    <3> HIDE DEF d, x
    <3>3. (d * 0 + x) % d = x
      BY SMTT(30), <2>0, <3>1, Remainder
    <3>4. x % d # 0
      BY <3>1, <3>2, <3>3
    <3> QED
      BY <1>3, <2>2, <3>4 DEF d, x
  <2>3. CASE a < b
    <3>1. x + d \in 1..(d - 1)
      <4>1. b - a \in 1..(half - 1)
        BY <1>1, <1>3, <2>3
      <4>2. half * (b - a) >= half /\ half * (b - a) <= half * (half - 1)
        BY <1>1, <4>1
      <4>3. x = -(half * (b - a)) /\ half * (half - 1) = d - half
        BY <1>1, <1>3
      <4> DEFINE y == half * (b - a)
      <4>4. y \in Int
        BY <1>1, <1>3
      <4> HIDE DEF x, d, y
      <4>5. x = -y /\ y >= half /\ y <= d - half
        BY <4>2, <4>3 DEF y
      <4> QED
        BY <1>1, <2>0, <4>4, <4>5
    <3>2. x = d * (-1) + (x + d)
      BY <2>0
    <3> HIDE DEF d, x
    <3>3. (d * (-1) + (x + d)) % d = x + d
      BY SMTT(30), <2>0, <3>1, Remainder
    <3>4. x % d # 0
      BY <3>1, <3>2, <3>3
    <3> QED
      BY <1>3, <2>3, <3>4 DEF d, x
  <2> QED
    BY <1>3, <2>1, <2>2, <2>3
<1> QED
  BY <1>2, <1>4, <1>5

LEMMA HvSafe ==
    ASSUME HvInv, io_code = "virtualization", io_information > 0,
           hv_reads[2] - hv_reads[1] < HalfWord
    PROVE  hv_detected <=> hv_reads[2] - hv_reads[1] = 0
<1>1. PICK before, cycles \in Nat :
          /\ hv_reads = <<before, before + cycles>>
          /\ hv_detected <=> APERFMsrTimingCheck(before, before + cycles)
  BY DEF HvInv, HvVerdict
<1>2. hv_reads[2] - hv_reads[1] = cycles
  BY <1>1
<1> QED
  BY <1>1, <1>2, CounterAdvances

-----------------------------------------------------------------------------
(* Handles on the protected process, and threads attached to it.           *)

AccessNext ==
    \/ \E list \in HandleTables : EnumerateHandleTables(list)
    \/ \E list \in AttachedThreads : DetectThreadsAttachedToProtectedProcess(list)
    \/ ProcessAccessStep

\* The entries before the one the walk is at.
Walked(i, j) == i < pa_at \/ (i = pa_at /\ j < pa_entry)

\* Of the handle tables only access changes: the walk meets the rows and the
\* entries there were when it began.  An entry it has passed is settled, one it
\* has not reached is as it was.
HandleInv ==
    /\ pa_list \in Seq(Rows) /\ pa_initial \in Seq(Rows)
    /\ Len(pa_list) = Len(pa_initial)
    /\ \A i \in 1..Len(pa_list) :
           /\ pa_list[i].process = pa_initial[i].process
           /\ pa_list[i].readable = pa_initial[i].readable
           /\ Len(pa_list[i].table) = Len(pa_initial[i].table)
    /\ \A i \in 1..Len(pa_list) : ~PassedOver(pa_list[i]) =>
           \A j \in 1..Len(pa_list[i].table) :
               IF Walked(i, j) THEN HandleSettled(i, j)
               ELSE pa_list[i].table[j] = pa_initial[i].table[j]

ThreadInv ==
    Known = {[thread |-> pa_list[i].thread] :
                 i \in {k \in pa_seen : AttachedToProtected(pa_list[k])}}

AccessInv ==
    /\ pa_pc \in {"idle", "handles", "threads", "fault", "done"}
    /\ pa_at \in Nat \ {0} /\ pa_entry \in Nat \ {0}
    /\ pa_pc = "idle" => /\ pa_at = 1 /\ pa_entry = 1
                         /\ pa_seen = {} /\ pa_reports = {} /\ pa_dropped = {}
    /\ pa_pc = "handles" => HandleInv
    /\ pa_pc = "threads" => ThreadInv

LEMMA AccessStart == ProcessAccessInit => AccessInv
<1> SUFFICES ASSUME ProcessAccessInit PROVE AccessInv
  OBVIOUS
<1> QED
  BY DEF ProcessAccessInit, AccessInv

\* A row and an entry with a field replaced.
LEMMA RowWithTable ==
    ASSUME NEW row \in Rows, NEW table \in Seq(Handles)
    PROVE  [row EXCEPT !.table = table]
               = [process |-> row.process, readable |-> row.readable, table |-> table]
BY DEF Rows

LEMMA HandleWithAccess ==
    ASSUME NEW handle \in Handles, NEW access \in SUBSET STRING
    PROVE  [handle EXCEPT !.access = access]
               = [type |-> handle.type, object |-> handle.object, access |-> access]
BY DEF Handles

Replaced(s, i, x) == [s EXCEPT ![i] = x]

\* What the walk does to a row when it takes rights away from one entry.
LEMMA StrippedRow ==
    ASSUME NEW row \in Rows, NEW j \in 1..Len(row.table), NEW name
    PROVE  /\ StripHandle(row, j, name) \in Rows
           /\ StripHandle(row, j, name).process = row.process
           /\ StripHandle(row, j, name).readable = row.readable
           /\ Len(StripHandle(row, j, name).table) = Len(row.table)
           /\ \A k \in 1..Len(row.table) :
                  k # j => StripHandle(row, j, name).table[k] = row.table[k]
           /\ StripHandle(row, j, name).table[j].access = Stripped(row.table[j].access, name)
<1> DEFINE table == row.table
           handle == table[j]
           access == Stripped(handle.access, name)
           newhandle == [type |-> handle.type, object |-> handle.object, access |-> access]
           newtable == Replaced(table, j, newhandle)
           newrow == [process |-> row.process, readable |-> row.readable, table |-> newtable]
<1>1. table \in Seq(Handles)
  BY DEF Rows
<1>2. handle \in Handles
  BY <1>1
<1>3. access \in SUBSET STRING
  BY <1>2 DEF Stripped, Handles
<1>4. StripHandle(row, j, name) = [row EXCEPT !.table = Replaced(table, j, [handle EXCEPT !.access = access])]
  BY DEF StripHandle, Replaced
<1> HIDE DEF access
<1>0. newhandle \in Handles
  BY <1>2, <1>3 DEF Handles
<1>5. [handle EXCEPT !.access = access] = newhandle
  BY <1>2, <1>3, HandleWithAccess
<1> HIDE DEF newhandle, handle
<1>6. newtable \in Seq(Handles) /\ Len(newtable) = Len(table) /\ newtable[j] = newhandle
      /\ \A k \in 1..Len(table) : k # j => newtable[k] = table[k]
  <2>1. j \in 1..Len(table)
    OBVIOUS
  <2> HIDE DEF table
  <2> QED
    BY ONLY SMTT(30), <1>0, <1>1, <2>1 DEF Replaced
<1> HIDE DEF newtable, table
<1>7. newrow \in Rows
  BY <1>6 DEF Rows
<1>9. [row EXCEPT !.table = newtable] = newrow
  BY <1>6, RowWithTable
<1>8. newrow.process = row.process /\ newrow.readable = row.readable /\ newrow.table = newtable
  OBVIOUS
<1>11. newhandle.access = access
  BY DEF newhandle
<1> HIDE DEF newrow
<1>10. StripHandle(row, j, name) = newrow
  BY <1>4, <1>5, <1>9 DEF newtable
<1> QED
  BY <1>6, <1>7, <1>8, <1>10, <1>11 DEF table, access, handle

\* The walk goes on to the next entry of the table when this one is settled.
LEMMA NextEntry ==
    ASSUME HandleInv, pa_at \in Nat \ {0}, pa_entry \in Nat \ {0},
           NEW at, at = pa_at, NEW this, this = pa_entry,
           pa_at \in 1..Len(pa_list), ~PassedOver(pa_list[pa_at]),
           pa_entry \in 1..Len(pa_list[pa_at].table),
           pa_entry' = pa_entry + 1, UNCHANGED <<pa_at, pa_initial>>,
           pa_list' \in Seq(Rows), Len(pa_list') = Len(pa_list),
           \A k \in 1..Len(pa_list) : k # pa_at => pa_list'[k] = pa_list[k],
           pa_list'[pa_at].process = pa_list[pa_at].process,
           pa_list'[pa_at].readable = pa_list[pa_at].readable,
           Len(pa_list'[pa_at].table) = Len(pa_list[pa_at].table),
           \A k \in 1..Len(pa_list[pa_at].table) :
               k # pa_entry => pa_list'[pa_at].table[k] = pa_list[pa_at].table[k],
           pa_unlocked' = pa_unlocked \cup {<<pa_at, pa_entry>>},
           Known \subseteq Known',
           HandleSettled(at, this)'
    PROVE  HandleInv'
<1>1. \A k \in 1..Len(pa_list) : PassedOver(pa_list[k])' <=> PassedOver(pa_list[k])
  BY DEF PassedOver
<1>2. \A k \in 1..Len(pa_list) :
          /\ pa_list'[k].process = pa_initial[k].process
          /\ pa_list'[k].readable = pa_initial[k].readable
          /\ Len(pa_list'[k].table) = Len(pa_list[k].table)
          /\ Len(pa_list[k].table) = Len(pa_initial[k].table)
  BY DEF HandleInv
<1>3. ASSUME NEW i \in 1..Len(pa_list), ~PassedOver(pa_list[i]),
             NEW j \in 1..Len(pa_list[i].table)
      PROVE  IF Walked(i, j)' THEN HandleSettled(i, j)'
             ELSE pa_list'[i].table[j] = pa_initial[i].table[j]
  <2>1. CASE i = pa_at /\ j = pa_entry
    <3>1. Walked(i, j)'
      BY <2>1 DEF Walked
    <3> QED
      BY <2>1, <3>1
  <2>2. CASE ~(i = pa_at /\ j = pa_entry)
    <3>1. pa_list'[i].table[j] = pa_list[i].table[j]
      BY <2>2
    <3>2. HandleSettled(i, j) => HandleSettled(i, j)'
      BY <3>1 DEF HandleSettled
    <3>3. Walked(i, j)' <=> Walked(i, j)
      <4>1. pa_list \in Seq(Rows) /\ Len(pa_list) \in Nat /\ pa_list[i] \in Rows
        BY DEF HandleInv
      <4>2. Len(pa_list[i].table) \in Nat
        BY SMTT(30), <4>1 DEF Rows
      <4>3. i \in Nat /\ j \in Nat
        BY SMTT(30), <4>1, <4>2
      <4> QED
        BY <2>2, <4>3 DEF Walked
    <3>4. IF Walked(i, j) THEN HandleSettled(i, j)
          ELSE pa_list[i].table[j] = pa_initial[i].table[j]
      BY <1>3 DEF HandleInv
    <3> QED
      BY <3>1, <3>2, <3>3, <3>4
  <2> QED
    BY <2>1, <2>2
<1>4. pa_initial' \in Seq(Rows) /\ Len(pa_list') = Len(pa_initial')
  BY DEF HandleInv
<1> QED
  BY SMTT(30), <1>1, <1>2, <1>3, <1>4 DEF HandleInv

LEMMA WalkHandlesInv ==
    ASSUME AccessInv, WalkHandleTables
    PROVE  AccessInv'
<1>1. /\ pa_pc = "handles" /\ HandleInv
      /\ UNCHANGED <<pa_session, pa_initial, pa_seen>>
      /\ pa_at \in Nat \ {0} /\ pa_entry \in Nat \ {0}
  BY DEF WalkHandleTables, AccessInv
<1> DEFINE p == pa_list[pa_at]
           entry == p.table[pa_entry]
<1>2. CASE pa_at > Len(pa_list)
  BY <1>1, <1>2 DEF WalkHandleTables, AccessInv
<1>3. CASE ~(pa_at > Len(pa_list)) /\ (PassedOver(p) \/ pa_entry > Len(p.table))
  <2>1. /\ pa_at' = pa_at + 1 /\ pa_entry' = 1
        /\ UNCHANGED <<pa_pc, pa_list, pa_unlocked, pa_reports, pa_dropped>>
    BY <1>3 DEF WalkHandleTables
  <2>2. ASSUME NEW i \in 1..Len(pa_list), ~PassedOver(pa_list[i]),
               NEW j \in 1..Len(pa_list[i].table)
        PROVE  Walked(i, j)' <=> Walked(i, j)
    <3>1. pa_list \in Seq(Rows) /\ Len(pa_list) \in Nat /\ pa_list[i] \in Rows
      BY <1>1 DEF HandleInv
    <3>2. Len(pa_list[i].table) \in Nat
      BY SMTT(30), <3>1 DEF Rows
    <3>3. i = pa_at => j < pa_entry
      BY <1>1, <1>3, <2>2, <3>2
    <3> QED
      BY <1>1, <2>1, <3>1, <3>3 DEF Walked
  <2>3. \A i, j : HandleSettled(i, j)' <=> HandleSettled(i, j)
    BY SMTT(30), <1>1, <2>1 DEF HandleSettled, Known
  <2>4. HandleInv'
    BY <1>1, <2>1, <2>2, <2>3 DEF HandleInv, PassedOver
  <2> QED
    BY SMTT(30), <1>1, <2>1, <2>4 DEF AccessInv
<1>4. CASE ~(pa_at > Len(pa_list)) /\ ~(PassedOver(p) \/ pa_entry > Len(p.table))
  <2>1. EnumHandleCallback(p, entry) /\ UNCHANGED pa_at
    BY <1>4 DEF WalkHandleTables
  <2>2. /\ pa_list \in Seq(Rows) /\ Len(pa_list) \in Nat /\ pa_at \in 1..Len(pa_list)
        /\ p \in Rows
    BY <1>1, <1>4 DEF HandleInv
  <2>3. p.table \in Seq(Handles) /\ Len(p.table) \in Nat
    BY SMTT(30), <2>2 DEF Rows
  <2>4. pa_entry \in 1..Len(p.table)
    BY <1>1, <1>4, <2>3
  <2>5. entry \in Handles
    BY <2>3, <2>4
  <2>6. entry = pa_initial[pa_at].table[pa_entry]
    <3>1. ~Walked(pa_at, pa_entry)
      BY <1>1 DEF Walked
    <3> QED
      BY <1>1, <1>4, <2>2, <2>4, <3>1 DEF HandleInv
  <2> PICK at, this : at = pa_at /\ this = pa_entry
    OBVIOUS
  <2> DEFINE unlock == /\ pa_unlocked' = pa_unlocked \cup {<<pa_at, pa_entry>>}
                       /\ pa_entry' = pa_entry + 1 /\ UNCHANGED pa_pc
             ignore == unlock /\ UNCHANGED <<pa_list, pa_reports, pa_dropped>>
             name == ImageName[entry.object]
  <2>7. CASE entry.type = "Process" /\ ~pa_session
    BY <1>1, <2>1, <2>7 DEF EnumHandleCallback, AccessInv
  <2>8. CASE ignore /\ (entry.type # "Process" \/ name # ImageName[ProtectedProcess])
    <3>1. HandleSettled(at, this)'
      BY <1>1, <2>1, <2>6, <2>8 DEF HandleSettled
    <3>2. HandleInv'
      BY <1>1, <1>4, <2>1, <2>2, <2>4, <2>8, <3>1, NextEntry DEF Known
    <3> QED
      BY SMTT(30), <1>1, <2>1, <2>8, <3>2 DEF AccessInv
  <2>9. CASE entry.type = "Process" /\ name = ImageName[ProtectedProcess] /\ pa_session
    <3> DEFINE row == StripHandle(p, pa_entry, name)
    <3>1. /\ pa_list' = Replaced(pa_list, pa_at, row)
          /\ IF name \in CriticalNames THEN UNCHANGED <<pa_reports, pa_dropped>>
             ELSE ReportOrDrop([process |-> entry.object, access |-> entry.access])
          /\ unlock
      BY <2>1, <2>9 DEF EnumHandleCallback, Replaced
    <3>2. /\ row \in Rows
          /\ row.process = p.process /\ row.readable = p.readable
          /\ Len(row.table) = Len(p.table)
          /\ \A k \in 1..Len(p.table) : k # pa_entry => row.table[k] = p.table[k]
          /\ row.table[pa_entry].access = Stripped(entry.access, name)
      <4> HIDE DEF p, name
      <4>1. p \in Rows /\ pa_entry \in 1..Len(p.table)
        BY <2>2, <2>4
      <4> QED
        BY <4>1, StrippedRow, Zenon DEF entry
    <3> HIDE DEF row
    <3>3. /\ pa_list' \in Seq(Rows) /\ Len(pa_list') = Len(pa_list)
          /\ pa_list'[pa_at] = row
          /\ \A k \in 1..Len(pa_list) : k # pa_at => pa_list'[k] = pa_list[k]
      <4>1. row \in Rows /\ pa_list' = Replaced(pa_list, pa_at, row)
        BY <3>1, <3>2
      <4> DEFINE new == Replaced(pa_list, pa_at, row)
      <4>2. row \in Rows /\ pa_list \in Seq(Rows) /\ pa_at \in 1..Len(pa_list)
        BY <2>2, <3>2
      <4>3. /\ new \in Seq(Rows) /\ Len(new) = Len(pa_list) /\ new[pa_at] = row
            /\ \A k \in 1..Len(pa_list) : k # pa_at => new[k] = pa_list[k]
        BY ONLY SMTT(30), <4>2 DEF Replaced
      <4> HIDE DEF new
      <4> QED
        BY <4>1, <4>3 DEF new
    <3>4. /\ Known \subseteq Known'
          /\ name \notin CriticalNames =>
                 [process |-> entry.object, access |-> entry.access] \in Known'
      BY <3>1 DEF ReportOrDrop, Known
    <3>5. HandleSettled(at, this)'
      <4>1. /\ row.table[pa_entry].access \cap AlwaysStripped = {}
            /\ name \notin CriticalNames =>
                   row.table[pa_entry].access \cap StrippedUnlessCritical = {}
        BY <3>2 DEF Stripped
      <4>2. pa_list'[pa_at].table[pa_entry] = row.table[pa_entry]
        BY <3>3
      <4> QED
        BY <1>1, <2>1, <2>6, <2>9, <3>1, <3>4, <4>1, <4>2 DEF HandleSettled
    <3>6. HandleInv'
      BY <1>1, <1>4, <2>1, <2>2, <2>4, <3>1, <3>2, <3>3, <3>4, <3>5, NextEntry
    <3>7. pa_at' = pa_at /\ pa_pc' = pa_pc /\ pa_entry' = pa_entry + 1
      BY <2>1, <3>1
    <3>8. pa_entry' \in Nat \ {0} /\ pa_at' \in Nat \ {0} /\ pa_pc' = "handles"
      BY ONLY <1>1, <3>7, SMTT(30)
    <3> QED
      BY ONLY <3>6, <3>8, ZenonT(10) DEF AccessInv
  <2> QED
    BY <2>1, <2>7, <2>8, <2>9 DEF EnumHandleCallback
<1> QED
  BY <1>2, <1>3, <1>4

LEMMA WalkThreadsInv ==
    ASSUME AccessInv, WalkThreads
    PROVE  AccessInv'
<1>1. /\ pa_pc = "threads" /\ ThreadInv /\ pa_at \in Nat \ {0} /\ pa_entry \in Nat \ {0}
      /\ UNCHANGED <<pa_list, pa_entry, pa_session, pa_initial, pa_unlocked>>
  BY DEF WalkThreads, AccessInv
<1>2. CASE pa_at > Len(pa_list)
  BY <1>1, <1>2 DEF WalkThreads, AccessInv
<1>3. CASE ~(pa_at > Len(pa_list))
  <2> DEFINE t == pa_list[pa_at]
  <2>1. /\ IF pa_session /\ AttachedToProtected(t) THEN ReportOrDrop([thread |-> t.thread])
           ELSE UNCHANGED <<pa_reports, pa_dropped>>
        /\ pa_seen' = IF pa_session THEN pa_seen \cup {pa_at} ELSE pa_seen
        /\ pa_at' = pa_at + 1 /\ UNCHANGED pa_pc
    BY <1>3 DEF WalkThreads
  <2>2. ThreadInv'
    <3>1. CASE ~pa_session
      BY <1>1, <2>1, <3>1 DEF ThreadInv, Known, AttachedToProtected
    <3>2. CASE pa_session /\ AttachedToProtected(t)
      <4>1. Known' = Known \cup {[thread |-> t.thread]} /\ pa_seen' = pa_seen \cup {pa_at}
        BY <2>1, <3>2 DEF ReportOrDrop, Known
      <4> QED
        BY <1>1, <3>2, <4>1 DEF ThreadInv, AttachedToProtected
    <3>3. CASE pa_session /\ ~AttachedToProtected(t)
      <4>1. Known' = Known /\ pa_seen' = pa_seen \cup {pa_at}
        BY <2>1, <3>3 DEF Known
      <4> QED
        BY <1>1, <3>3, <4>1 DEF ThreadInv, AttachedToProtected
    <3> QED
      BY <3>1, <3>2, <3>3
  <2> QED
    BY SMTT(30), <1>1, <2>1, <2>2 DEF AccessInv
<1> QED
  BY <1>2, <1>3

LEMMA HandlesUnchanged ==
    ASSUME UNCHANGED <<pa_list, pa_at, pa_entry, pa_initial, pa_unlocked, pa_reports,
                       pa_dropped>>
    PROVE  HandleInv => HandleInv'
<1> SUFFICES ASSUME HandleInv PROVE HandleInv'
  OBVIOUS
<1>2. \A i \in 1..Len(pa_list) : ~PassedOver(pa_list[i]) =>
          \A j \in 1..Len(pa_list[i].table) :
              IF Walked(i, j)' THEN HandleSettled(i, j)'
              ELSE pa_list[i].table[j] = pa_initial[i].table[j]
  <2> SUFFICES ASSUME NEW i \in 1..Len(pa_list), ~PassedOver(pa_list[i]),
                      NEW j \in 1..Len(pa_list[i].table)
               PROVE  IF Walked(i, j)' THEN HandleSettled(i, j)'
                      ELSE pa_list[i].table[j] = pa_initial[i].table[j]
    OBVIOUS
  <2>1. IF Walked(i, j) THEN HandleSettled(i, j)
        ELSE pa_list[i].table[j] = pa_initial[i].table[j]
    BY DEF HandleInv
  <2>2. HandleSettled(i, j)' <=> HandleSettled(i, j)
    BY DEF HandleSettled, Known
  <2>3. Walked(i, j)' <=> Walked(i, j)
    BY DEF Walked
  <2> QED
    BY <2>1, <2>2, <2>3
<1> QED
  BY <1>2 DEF HandleInv

LEMMA AccessStepInv == ASSUME AccessInv, [AccessNext]_pa_vars PROVE AccessInv'
<1>1. ASSUME NEW list \in HandleTables, EnumerateHandleTables(list)
      PROVE  AccessInv'
  <2>1. /\ pa_pc' = "handles" /\ pa_list' = list /\ pa_initial' = list
        /\ pa_at' = 1 /\ pa_entry' = 1
    BY <1>1 DEF EnumerateHandleTables, StartWalk, AccessInv
  <2>2. list \in Seq(Rows) /\ Len(list) \in Nat
    BY AccessAssumption
  <2>3. \A i \in 1..Len(list) : \A j \in 1..Len(list[i].table) : ~Walked(i, j)'
    <3> SUFFICES ASSUME NEW i \in 1..Len(list), NEW j \in 1..Len(list[i].table)
                 PROVE  ~Walked(i, j)'
      OBVIOUS
    <3>1. list[i] \in Rows
      BY <2>2
    <3>2. Len(list[i].table) \in Nat
      BY SMTT(30), <3>1 DEF Rows
    <3>3. i \in Nat /\ j \in Nat /\ i >= 1 /\ j >= 1
      BY <2>2, <3>2
    <3> QED
      BY <2>1, <3>3 DEF Walked
  <2>4. HandleInv'
    BY <2>1, <2>2, <2>3 DEF HandleInv
  <2> QED
    BY <2>1, <2>4 DEF AccessInv
<1>2. ASSUME NEW list \in AttachedThreads, DetectThreadsAttachedToProtectedProcess(list)
      PROVE  AccessInv'
  <2>1. /\ pa_pc' = "threads" /\ pa_at' = 1 /\ pa_entry' = 1
        /\ pa_seen' = {} /\ Known' = {}
    BY <1>2 DEF DetectThreadsAttachedToProtectedProcess, StartWalk, AccessInv, Known
  <2> QED
    BY SMTT(30), <2>1 DEF AccessInv, ThreadInv
<1>3. CASE SessionEnds
  <2>1. UNCHANGED <<pa_pc, pa_list, pa_at, pa_entry, pa_initial, pa_unlocked, pa_seen,
                    pa_reports, pa_dropped>>
    BY <1>3 DEF SessionEnds
  <2>2. HandleInv => HandleInv'
    BY <2>1, HandlesUnchanged
  <2>3. ThreadInv => ThreadInv'
    BY <2>1 DEF ThreadInv, Known, AttachedToProtected
  <2> QED
    BY <2>1, <2>2, <2>3 DEF AccessInv
<1>4. CASE ProcessAccessReturn
  BY <1>4 DEF ProcessAccessReturn, AccessInv
<1>5. CASE UNCHANGED pa_vars
  <2>1. HandleInv => HandleInv'
    BY <1>5, HandlesUnchanged DEF pa_vars
  <2>2. ThreadInv => ThreadInv'
    BY <1>5 DEF pa_vars, ThreadInv, Known, AttachedToProtected
  <2> QED
    BY <1>5, <2>1, <2>2 DEF pa_vars, AccessInv
<1> QED
  BY <1>1, <1>2, <1>3, <1>4, <1>5, WalkHandlesInv, WalkThreadsInv
     DEF AccessNext, ProcessAccessStep

LEMMA AccessSafe == ASSUME AccessInv PROVE ForeignAccessReported
<1>1. ASSUME pa_pc = "handles", pa_at > Len(pa_list),
             NEW i \in 1..Len(pa_list), ~PassedOver(pa_list[i]),
             NEW j \in 1..Len(pa_list[i].table)
      PROVE  HandleSettled(i, j)
  <2>1. HandleInv /\ pa_at \in Nat
    BY <1>1 DEF AccessInv
  <2>2. Len(pa_list) \in Nat
    BY SMTT(30), <2>1 DEF HandleInv
  <2>3. Walked(i, j)
    BY <1>1, <2>1, <2>2 DEF Walked
  <2> QED
    BY <1>1, <2>1, <2>3 DEF HandleInv
<1>2. ASSUME pa_pc = "threads"
      PROVE  Known = {[thread |-> pa_list[i].thread] :
                          i \in {k \in pa_seen :
                                     /\ pa_list[k].attached = ProtectedProcess
                                     /\ pa_list[k].owner # ProtectedProcess}}
  BY <1>2 DEF AccessInv, ThreadInv, AttachedToProtected
<1> QED
  BY <1>1, <1>2 DEF ForeignAccessReported

=============================================================================
