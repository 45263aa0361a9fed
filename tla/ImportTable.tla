----------------------------- MODULE ImportTable ------------------------------
(***************************************************************************)
(* The driver's encrypted import table (driver/imports.c, driver/crypt.c): *)
(* DriverEntry resolves the routines, encrypts the table in blocks of four *)
(* entries, and every call through it decrypts the block of its entry.     *)
(* The last entry of the structure is a dummy that fills the last block    *)
(* (driver/imports.h, line 744).                                           *)
(***************************************************************************)
EXTENDS Integers

CONSTANTS
    NT_IMPORT_COUNT,    \* routines imported
    IMPORTS_LENGTH      \* entries of DRIVER_IMPORTS

BlockSize == 4

ASSUME ImportsAssumption ==
    /\ NT_IMPORT_COUNT \in Nat /\ IMPORTS_LENGTH \in Nat
    /\ NT_IMPORT_COUNT <= IMPORTS_LENGTH
    /\ IMPORTS_LENGTH % BlockSize = 0

VARIABLES
    imports_state,  \* "resolve", "ready" or "failed"
    imports_index,  \* the next routine to resolve
    driver_imports  \* the table

imports_vars == <<imports_state, imports_index, driver_imports>>

\* An entry is the number of a routine (0 for NULL) and the set of 64-bit keys
\* it is xored with.  Lane l of a block is xored with key l.
Lanes == 0..(BlockSize - 1)
ImportEntries == [routine : Nat, keys : SUBSET Lanes]
Table == [0..(IMPORTS_LENGTH - 1) -> ImportEntries]

Plain(r) == [routine |-> r, keys |-> {}]

\* Routine i of NT_IMPORTS, counted from 0, has number i + 1.
NtRoutine(i) == i + 1

Xor(entry, key) ==
    [routine |-> entry.routine,
     keys |-> (entry.keys \ {key}) \cup ({key} \ entry.keys)]

ImportsTypeOK ==
    /\ imports_state \in {"resolve", "ready", "failed"}
    /\ imports_index \in 0..NT_IMPORT_COUNT
    /\ driver_imports \in Table

ImportsInit ==
    /\ imports_state = "resolve"
    /\ imports_index = 0
    /\ driver_imports = [i \in 0..(IMPORTS_LENGTH - 1) |-> Plain(0)]

\* Mutant: the last block is left out.
EncryptAllButLast(array, entries) ==
    [i \in DOMAIN array |->
        IF i \div BlockSize < (entries - 1) \div BlockSize
        THEN Xor(array[i], i % BlockSize) ELSE array[i]]

\* Whole blocks only; entries behind the last whole block stay as they are.
CryptEncryptImportsArray(array, entries) ==
    [i \in DOMAIN array |->
        IF i \div BlockSize < entries \div BlockSize
        THEN Xor(array[i], i % BlockSize) ELSE array[i]]

CryptDecryptImportBlock(array, block) ==
    [l \in Lanes |-> Xor(array[block * BlockSize + l], l)]

\* The loop counts down from the index to a multiple of the block size.
CryptFindContainingBlockForArrayIndex(index) ==
    IF index < BlockSize THEN [block |-> 0, sub |-> index]
    ELSE IF index = BlockSize THEN [block |-> 1, sub |-> 0]
    ELSE LET steps == CHOOSE n \in 0..index :
                 /\ (index - n) % BlockSize = 0
                 /\ \A k \in 0..(n - 1) : (index - k) % BlockSize # 0
         IN [block |-> (index - steps) \div BlockSize, sub |-> steps]

CryptDecryptImportsArrayEntry(array, index) ==
    LET where == CryptFindContainingBlockForArrayIndex(index)
    IN CryptDecryptImportBlock(array, where.block)[where.sub]

\* ImpResolveDynamicImports: the next routine, found in the kernel's export
\* table or not.
ImpResolveNtImport ==
    /\ imports_state = "resolve"
    /\ imports_index < NT_IMPORT_COUNT
    /\ \/ /\ driver_imports' = [driver_imports EXCEPT ![imports_index] =
                                    Plain(NtRoutine(imports_index))]
          /\ imports_index' = imports_index + 1
          /\ UNCHANGED imports_state
       \/ /\ imports_state' = "failed"
          /\ UNCHANGED <<imports_index, driver_imports>>

\* All are resolved: the table is encrypted and the driver goes on.
ImpResolveDynamicImports ==
    /\ imports_state = "resolve"
    /\ imports_index = NT_IMPORT_COUNT
    /\ driver_imports' = CryptEncryptImportsArray(driver_imports, IMPORTS_LENGTH)
    /\ imports_state' = "ready"
    /\ UNCHANGED imports_index

ImportsStep == ImpResolveNtImport \/ ImpResolveDynamicImports

\* Imp*: the routine that a call through the table reaches.
ImpCall(index) == CryptDecryptImportsArrayEntry(driver_imports, index)

\* Once the driver has loaded, the call of import i reaches routine i, whatever
\* its place in its block (CryptDecryptImportsArrayEntry, driver/crypt.c:93).
CallsReachTheirRoutine ==
    imports_state = "ready" =>
        \A i \in 0..(NT_IMPORT_COUNT - 1) : ImpCall(i) = Plain(NtRoutine(i))
=============================================================================
