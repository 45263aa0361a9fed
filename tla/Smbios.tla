-------------------------------- MODULE Smbios --------------------------------
(***************************************************************************)
(* Reading one string of the SMBIOS table (ParseSMBIOSTable and what it    *)
(* calls, driver/integrity.c, lines 612-784): the structures are passed    *)
(* until one has the wanted type, then the strings behind it are counted   *)
(* and the wanted one is copied.  Positions start at 1.                    *)
(***************************************************************************)
EXTENDS Integers, Sequences, FiniteSets, FiniteSetsExt

VARIABLES
    sm_pc,          \* "idle", "structure", "string" or "done"
    sm_table,       \* the structures
    sm_request,     \* wanted type, string index and buffer size
    sm_at,          \* smbios_table_header: position of the current structure
    sm_char,        \* current_string_char: a position
    sm_string_count,
    sm_buffer,      \* the characters copied
    sm_status       \* NTSTATUS; "overrun" when a read left the table

sm_vars == <<sm_pc, sm_table, sm_request, sm_at, sm_char, sm_string_count,
             sm_buffer, sm_status>>

NUL == 0

\* One after the other.
Joined(parts) ==
    LET all[i \in 0..Len(parts)] == IF i = 0 THEN <<>> ELSE all[i - 1] \o parts[i]
    IN all[Len(parts)]

\* The strings with their terminators and one more; without strings there are two
\* terminators.
StringsBytes(strings) ==
    IF strings = <<>> THEN <<NUL, NUL>>
    ELSE Joined([i \in 1..Len(strings) |-> Append(strings[i], NUL)]) \o <<NUL>>

\* The bytes of a structure: type, length of the formatted area, the rest of
\* that area, the strings.
StructureBytes(s) ==
    <<s.type, 2 + Len(s.formatted)>> \o s.formatted \o StringsBytes(s.strings)

TableBytes(table) == Joined([i \in 1..Len(table) |-> StructureBytes(table[i])])

\* What the format asks of a table: a string is not empty and has no terminator in
\* it.
IsStructure(s) ==
    /\ s.type \in Nat /\ s.formatted \in Seq(Nat)
    /\ s.strings \in Seq(Seq(Nat \ {NUL}) \ {<<>>})

IsFirmware(table) ==
    /\ table \in Seq({table[k] : k \in 1..Len(table)})
    /\ \A k \in 1..Len(table) : IsStructure(table[k])

NoRequest == [type |-> 0, index |-> 0, size |-> 0]

SmbiosTypeOK ==
    /\ sm_pc \in {"idle", "structure", "string", "done"}
    /\ sm_request \in [type : Nat, index : Nat, size : Nat]
    /\ sm_at \in Nat /\ sm_char \in Nat /\ sm_string_count \in Nat
    /\ Len(sm_buffer) <= sm_request.size
    /\ sm_status \in {"none", "success", "not_found", "buffer_too_small", "overrun"}

SmbiosInit ==
    /\ sm_pc = "idle" /\ sm_table = <<>> /\ sm_request = NoRequest
    /\ sm_at = 1 /\ sm_char = 1 /\ sm_string_count = 0
    /\ sm_buffer = <<>> /\ sm_status = "none"

\* Where the strings of the structure at a position start.
StringSection(bytes, at) == at + bytes[at + 1]

IsDoubleNull(bytes, i) == bytes[i] = NUL /\ bytes[i + 1] = NUL

\* The first double terminator in or behind a string section.
EndOfStrings(bytes, at) ==
    Min({i \in StringSection(bytes, at)..(Len(bytes) - 1) : IsDoubleNull(bytes, i)})

GetNextSMBIOSStructureInTable(bytes, at) == EndOfStrings(bytes, at) + 2

\* Without the firmware table, or memory for it, nothing is read.
ParseSMBIOSTable(table, request) ==
    /\ sm_pc = "idle"
    /\ sm_pc' = "structure"
    /\ sm_table' = table /\ sm_request' = request
    /\ sm_at' = 1
    /\ UNCHANGED <<sm_char, sm_string_count, sm_buffer, sm_status>>

\* while (smbios_table_header->Type != TableIndex): nothing tests for the end.
NextStructure ==
    /\ sm_pc = "structure"
    /\ LET bytes == TableBytes(sm_table)
       IN \/ /\ sm_at > Len(bytes)
             /\ sm_status' = "overrun" /\ sm_pc' = "done"
             /\ UNCHANGED <<sm_at, sm_char>>
          \/ /\ sm_at <= Len(bytes) /\ bytes[sm_at] # sm_request.type
             /\ sm_at' = GetNextSMBIOSStructureInTable(bytes, sm_at)
             /\ UNCHANGED <<sm_status, sm_pc, sm_char>>
          \/ /\ sm_at <= Len(bytes) /\ bytes[sm_at] = sm_request.type
             /\ sm_char' = StringSection(bytes, sm_at)
             /\ sm_pc' = "string"
             /\ UNCHANGED <<sm_at, sm_status>>
    /\ UNCHANGED <<sm_table, sm_request, sm_string_count, sm_buffer>>

\* Mutant: the strings are counted from zero.
IsTargetFromZero(count) == count = sm_request.index

IsTarget(count) == count + 1 = sm_request.index

\* One iteration of GetStringAtIndexFromSMBIOSTable.  The end of the strings is
\* tested before the end of the wanted one.
GetStringAtIndexFromSMBIOSTable ==
    /\ sm_pc = "string"
    /\ LET bytes == TableBytes(sm_table)
           char == bytes[sm_char]
           Return(status) == /\ sm_status' = status /\ sm_pc' = "done"
                             /\ UNCHANGED <<sm_char, sm_string_count, sm_buffer>>
       IN CASE IsDoubleNull(bytes, sm_char) -> Return("not_found")
            [] ~IsDoubleNull(bytes, sm_char) /\ Len(sm_buffer) >= sm_request.size ->
                   Return("buffer_too_small")
            [] OTHER ->
                   IF IsTarget(sm_string_count) /\ char = NUL
                   THEN Return("success")
                   ELSE /\ sm_char' = sm_char + 1
                        /\ sm_buffer' = IF IsTarget(sm_string_count)
                                        THEN Append(sm_buffer, char) ELSE sm_buffer
                        /\ sm_string_count' = IF char = NUL THEN sm_string_count + 1
                                              ELSE sm_string_count
                        /\ UNCHANGED <<sm_status, sm_pc>>
    /\ UNCHANGED <<sm_table, sm_request, sm_at>>

SmbiosReturn ==
    /\ sm_pc = "done"
    /\ sm_pc' = "idle" /\ sm_table' = <<>> /\ sm_request' = NoRequest
    /\ sm_at' = 1 /\ sm_char' = 1 /\ sm_string_count' = 0
    /\ sm_buffer' = <<>> /\ sm_status' = "none"

-----------------------------------------------------------------------------
\* The first structure of a type, and its strings.
StringsOf(table, type) ==
    LET candidates == {k \in 1..Len(table) : table[k].type = type}
    IN IF candidates = {} THEN <<>> ELSE table[Min(candidates)].strings

\* With a structure of the wanted type in the table, no read leaves the table,
\* and the result is a success exactly for a string that is not the structure's
\* last and is shorter than the buffer, which then holds it
\* (GetStringAtIndexFromSMBIOSTable, driver/integrity.c:652).
SmbiosStringExact ==
    LET strings == StringsOf(sm_table, sm_request.type)
        i == sm_request.index
        present == \E k \in 1..Len(sm_table) : sm_table[k].type = sm_request.type
    IN sm_pc = "done" /\ present =>
           /\ sm_status # "overrun"
           /\ sm_status = "success" <=>
                  i < Len(strings) /\ Len(strings[i]) < sm_request.size
           /\ sm_status = "success" => sm_buffer = strings[i]
=============================================================================
