------------------------------ MODULE Registry -------------------------------
(***************************************************************************)
(* The interface registry, kernel/src/interfaces/registry.c: a singly      *)
(* linked list that only grows, at its front.  Names are values; Stored    *)
(* says what is left of one in the 31 characters an entry has for it.      *)
(***************************************************************************)
EXTENDS Integers, Sequences, SequencesExt

CONSTANTS Names, Interfaces, NULL,
          Stored,     \* Stored[name]: the name cut to an entry's field
          MaxEntries  \* bound on the list

ASSUME RegistryAssumption ==
  /\ NULL \notin Interfaces /\ Stored \in [Names -> Names] /\ MaxEntries \in Nat
  /\ \A n \in Names : Stored[Stored[n]] = Stored[n]

VARIABLE interfaces

Entries == [name : Names, interface : Interfaces]
-----------------------------------------------------------------------------
RegistryInit == interfaces = <<>>

(* Nobody hears of the entry that kmalloc had no room for.  (Variants,     *)
(* named after what is wrong in them, belong to no behaviour.)             *)
interface_register_AtTail(name, interface) ==
  /\ Len(interfaces) < MaxEntries
  /\ interfaces' = Append(interfaces, [name |-> Stored[name], interface |-> interface])
interface_register(name, interface) ==
  /\ Len(interfaces) < MaxEntries
  /\ \/ interfaces' = <<[name |-> Stored[name], interface |-> interface]>> \o interfaces
     \/ UNCHANGED interfaces

(* The first entry whose name, as stored, is the one asked for. *)
interface_get(name) ==
  LET i == SelectInSeq(interfaces, LAMBDA e : e.name = name)
  IN  IF i = 0 THEN NULL ELSE interfaces[i].interface

RegistryNext == \E n \in Names, i \in Interfaces : interface_register(n, i)

RegistrySpec == RegistryInit /\ [][RegistryNext]_interfaces
-----------------------------------------------------------------------------
RegistryTypeOK == interfaces \in Seq(Entries) /\ Len(interfaces) <= MaxEntries
=============================================================================
