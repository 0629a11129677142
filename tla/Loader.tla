-------------------------------- MODULE Loader --------------------------------
(***************************************************************************)
(* The module loader, kernel/src/modules/loader.c: an ELF file, already in *)
(* memory, is checked, its segments are copied to memory of their own, and *)
(* its entry is called.  A step per program header, since each asks        *)
(* kmalloc, which is what Allocator says: a region nobody has, or none.    *)
(* A byte of a file is the file, the segment and its place there.          *)
(*                                                                         *)
(* Nothing compares a header's filesz with its memsz: the copy may be      *)
(* longer than the region.  What it writes is followed within the heap,    *)
(* where it may also hit the allocator's own headers (corrupt), after      *)
(* which kmalloc returns anything.  What it writes elsewhere is not.       *)
(***************************************************************************)
EXTENDS Integers, Sequences

CONSTANTS Files,     \* elf_header_t and program headers, as records
          WORD,      \* 2^32: where addresses and sizes wrap
          ALIGNMENT, \* the allocator's: 8
          MemoryEnd, \* the heap is 0..MemoryEnd - 1
          MaxLoads   \* bound on the loads begun

PT_LOAD == 1

ASSUME LoaderAssumption ==
  /\ WORD \in Nat \ {0} /\ ALIGNMENT \in Nat \ {0}
  /\ MemoryEnd \in 0..WORD /\ MaxLoads \in Nat
  /\ \A f \in Files :
       /\ f.magic \in BOOLEAN /\ f.type \in Nat /\ f.machine \in Nat /\ f.entry \in Nat
       /\ f.ph \in Seq([type : Nat, filesz : 0..(WORD - 1), memsz : 0..(WORD - 1)])

VARIABLES live,    \* live[p]: length of the region at p that kmalloc gave
          memory,  \* what each byte of the heap holds
          corrupt, \* something was written past the end of a region
          load,    \* the load in progress: its file, the loop's i, where segments went
          loads,   \* loads begun
          begun,   \* auxiliary: the files that passed the checks
          loaded   \* auxiliary: the loads whose entry was called

loaderVars == <<live, memory, corrupt, load, loads, begun, loaded>>

ZERO == <<0>>
OLD  == <<>>   \* what happened to be there

NoLoad == [stage |-> "out"]
Segments(f) == {i \in DOMAIN f.ph : f.ph[i].type = PT_LOAD}
-----------------------------------------------------------------------------
LoaderInit ==
  /\ live = [p \in {} |-> 0]
  /\ memory = [b \in 0..(MemoryEnd - 1) |-> OLD] /\ corrupt = FALSE
  /\ load = NoLoad /\ loads = 0 /\ begun = {} /\ loaded = {}

(* What load_elf_module asks for, and how much of it kmalloc grants: ALIGN *)
(* rounds up and wraps, so that the sizes next to WORD get a region of no  *)
(* bytes.  (Variants, named after what is wrong in them, belong to no      *)
(* behaviour.)                                                             *)
LengthOf_InFile(segment) == segment.filesz
LengthOf(segment) == segment.memsz
Granted(n) == LET v == (n + ALIGNMENT - 1) % WORD IN v - (v % ALIGNMENT)

Unclaimed(p, n) == /\ p % ALIGNMENT = 0 /\ p + n <= MemoryEnd
                   /\ \A q \in DOMAIN live : p # q /\ (p + n <= q \/ q + live[q] <= p)
kmalloc(p, n) ==
  /\ n > 0
  /\ corrupt \/ Unclaimed(p, Granted(n))
  /\ live' = [q \in DOMAIN live \cup {p} |-> IF q = p THEN Granted(n) ELSE live[q]]

(* load_elf_module's three checks; what does not pass has no effect.       *)
Accepted(f) == f.magic /\ f.type = 2 /\ f.machine = 3

load_module(f) ==
  /\ load = NoLoad /\ loads < MaxLoads
  /\ loads' = loads + 1
  /\ IF Accepted(f)
     THEN /\ load' = [stage |-> "loading", file |-> f, i |-> 1, at |-> <<>>]
          /\ begun' = begun \cup {f}
     ELSE UNCHANGED <<load, begun>>
  /\ UNCHANGED <<live, memory, corrupt, loaded>>

(* cpio_get_file knows no file (initrd.c). *)
load_module_from_cpio ==
  /\ load = NoLoad /\ loads < MaxLoads
  /\ loads' = loads + 1
  /\ UNCHANGED <<live, memory, corrupt, load, begun, loaded>>

InLoop == load.stage = "loading" /\ load.i <= Len(load.file.ph)
Header == load.file.ph[load.i]

(* memcpy of filesz bytes from p on, then memset up to memsz, each a byte  *)
(* at a time and round the end of the address space.                       *)
Extent(segment) == IF segment.filesz < segment.memsz THEN segment.memsz ELSE segment.filesz
Written(p) ==
  [b \in DOMAIN memory |->
     LET n == (b - p) % WORD
     IN  IF n < Header.filesz THEN <<load.file, load.i, n>>
         ELSE IF n < Header.memsz THEN ZERO ELSE memory[b]]

load_segment ==
  /\ InLoop /\ Header.type = PT_LOAD
  /\ \E p \in 0..MemoryEnd :
       /\ kmalloc(p, LengthOf(Header))
       /\ memory' = Written(p)
       /\ load' = [load EXCEPT !.i = @ + 1,
                               !.at = [i \in DOMAIN @ \cup {load.i} |->
                                         IF i = load.i THEN p ELSE @[i]]]
  /\ corrupt' = (corrupt \/ Extent(Header) > Granted(LengthOf(Header)))
  /\ UNCHANGED <<loads, begun, loaded>>

(* The segments that were loaded before stay where they are, nobody's. *)
segment_fails ==
  /\ InLoop /\ Header.type = PT_LOAD
  /\ load' = NoLoad
  /\ UNCHANGED <<live, memory, corrupt, loads, begun, loaded>>

skip_segment ==
  /\ InLoop /\ Header.type # PT_LOAD
  /\ load' = [load EXCEPT !.i = @ + 1]
  /\ UNCHANGED <<live, memory, corrupt, loads, begun, loaded>>

(* The entry, as the header has it, is called, unless it is zero: that is  *)
(* taken for a load that failed.                                           *)
LoopDone == load.stage = "loading" /\ ~InLoop
call_entry ==
  /\ LoopDone /\ load.file.entry # 0
  /\ load' = [load EXCEPT !.stage = "in_init"]
  /\ loaded' = loaded \cup {[file |-> load.file, at |-> load.at]}
  /\ UNCHANGED <<live, memory, corrupt, loads, begun>>
no_entry ==
  /\ LoopDone /\ load.file.entry = 0
  /\ load' = NoLoad
  /\ UNCHANGED <<live, memory, corrupt, loads, begun, loaded>>
entry_returns ==
  /\ load.stage = "in_init"
  /\ load' = NoLoad
  /\ UNCHANGED <<live, memory, corrupt, loads, begun, loaded>>

loader_step == \/ load_segment \/ segment_fails \/ skip_segment
               \/ call_entry \/ no_entry \/ entry_returns

LoaderNext == \/ \E f \in Files : load_module(f)
              \/ load_module_from_cpio \/ loader_step
LoaderSpec == LoaderInit /\ [][LoaderNext]_loaderVars
-----------------------------------------------------------------------------
LoaderTypeOK ==
  /\ DOMAIN memory = 0..(MemoryEnd - 1) /\ DOMAIN live \subseteq 0..MemoryEnd
  /\ \A p \in DOMAIN live : live[p] \in 0..(WORD - 1)
  /\ corrupt \in BOOLEAN /\ begun \subseteq Files
  /\ load.stage \in {"out", "loading", "in_init"} /\ loads \in 0..MaxLoads
  /\ \A l \in loaded : l.file \in begun /\ DOMAIN l.at = Segments(l.file)

(* No segment of the file is longer, in the file or in memory, than the    *)
(* region that is allocated for it.                                        *)
WellFormed(f) == \A i \in Segments(f) : Extent(f.ph[i]) <= Granted(f.ph[i].memsz)

(* As long as only well-formed files have been given to the loader, every  *)
(* module whose entry was called has each of its segments in memory of its *)
(* own: the bytes of the file, then zeros, and none of them is touched by  *)
(* what is loaded later, another copy of the same file or one that fails   *)
(* half way.  The premise is the boot loader's duty, and needed: the       *)
(* loader checks neither sizes nor offsets, and a file with a header whose *)
(* filesz is beyond its memsz overwrites whoever comes next.               *)
LoadedIsIntact ==
  (\A f \in begun : WellFormed(f)) =>
    \A l \in loaded : \A i \in Segments(l.file) :
      /\ l.at[i] \in DOMAIN live
      /\ \A b \in 0..(Extent(l.file.ph[i]) - 1) :
           /\ l.at[i] + b \in DOMAIN memory
           /\ memory[l.at[i] + b] = IF b < l.file.ph[i].filesz THEN <<l.file, i, b>> ELSE ZERO
=============================================================================
