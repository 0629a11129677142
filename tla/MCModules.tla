------------------------------ MODULE MCModules ------------------------------
(***************************************************************************)
(* Four modules for TLC: two share a name, and one of these has no init.   *)
(* Five files: one with a header of another type, data that ends with      *)
(* zeros and an empty segment, which gets no memory; one that loads; an    *)
(* object file, of type 1; and two that write past the region they are     *)
(* given, because more is copied than asked for, and, without an entry,    *)
(* because the size asked for wraps.  Entries are where ld puts them by    *)
(* default, far from the heap.                                             *)
(***************************************************************************)
EXTENDS KernelModules

CONSTANTS ata, fs, fs2, tests

MCMods     == {ata, fs, fs2, tests}
MCWithInit == {ata, fs, tests}
MCName     == [m \in MCMods |-> IF m \in {fs, fs2} THEN "fs"
                               ELSE IF m = ata THEN "ata" ELSE "tests"]

ProgramHeader(t, f, n) == [type |-> t, filesz |-> f, memsz |-> n]
File(t, entry, ph) == [magic |-> TRUE, type |-> t, machine |-> 3, entry |-> entry, ph |-> ph]
MCFiles == {File(2, 100, <<ProgramHeader(4, 0, 0), ProgramHeader(1, 1, 3),
                           ProgramHeader(1, 0, 0)>>),
            File(2, 100, <<ProgramHeader(1, 1, 2)>>),
            File(1, 100, <<ProgramHeader(1, 1, 1)>>),
            File(2, 100, <<ProgramHeader(1, 3, 1)>>),
            File(2, 0,   <<ProgramHeader(1, 1, 15)>>)}
=============================================================================
