----------------------------- MODULE LoaderClaims -----------------------------
(***************************************************************************)
(* What the module loader says and does not do, for TLC to refute.         *)
(***************************************************************************)
EXTENDS MCModules

(* "Module %s loaded at 0x%x": the entry that is called and printed lies   *)
(* in one of the segments loaded.  It is the address in the file's header, *)
(* while the segments are wherever kmalloc had room.                       *)
EntryIsLoaded ==
  [][call_entry => \E i \in DOMAIN load.at :
        load.file.entry \in load.at[i]..(load.at[i] + load.file.ph[i].memsz - 1)]_allVars
=============================================================================
