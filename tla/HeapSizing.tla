------------------------------ MODULE HeapSizing ------------------------------
(***************************************************************************)
(* init_heap of kernel/src/mm/mm.c: where the heap begins and ends, from   *)
(* what the boot loader reports of the machine's memory.  The arithmetic   *)
(* is uint32_t arithmetic; module Heap takes its outcome as constants and  *)
(* assumes of them what HeapIsSound says here.                             *)
(***************************************************************************)
EXTENDS Integers

CONSTANTS WORD,      \* 2^32
          KILO,      \* 1024: the unit of mem_lower and mem_upper
          PAGE,      \* 4096: alignment of heap_start
          HEAP_SIZE, \* 2 MB: the most the heap may be
          ASSUMED,   \* 64 MB: available memory when none is reported
          HDR,       \* 16: sizeof(mem_block_t)
          ALIGNMENT, \* 8: alignment of the blocks
          KernelEnds, Lower, Upper  \* where the kernel may end, what is reported

ASSUME SizingAssumption ==
  /\ {WORD, HEAP_SIZE, ASSUMED, HDR} \subseteq Nat /\ {KILO, PAGE, ALIGNMENT} \subseteq Nat \ {0}
  /\ PAGE % KILO = 0 /\ KILO % ALIGNMENT = 0 /\ HEAP_SIZE % KILO = 0 /\ ASSUMED % KILO = 0
  /\ HDR < KILO /\ HDR <= HEAP_SIZE /\ HEAP_SIZE < WORD /\ ASSUMED < WORD
  /\ \A e \in KernelEnds : e \in Nat /\ e + PAGE + KILO <= ASSUMED
  /\ Lower \cup Upper \subseteq 0..(WORD - 1)

VARIABLES kernel_end, mb_info,    \* what init_heap was given
          heap_start, heap_end,
          first_size,             \* first_block->size
          available               \* mm_stats.total_memory

sizingVars == <<kernel_end, mb_info, heap_start, heap_end, first_size, available>>

UWord_Unbounded(x) == x
UWord(x) == x % WORD   \* of a sum, product or difference, as the word keeps it

(* The registers hold the magic number and the information the other way   *)
(* round (module Boot): the fields read may hold anything.                 *)
Infos == [flag : BOOLEAN, mem_lower : Lower, mem_upper : Upper]

NoInfo == [flag |-> FALSE, mem_lower |-> 0, mem_upper |-> 0]

SizingInit ==
  /\ kernel_end = 0 /\ mb_info = NoInfo
  /\ heap_start = 0 /\ heap_end = 0 /\ first_size = 0 /\ available = 0

Reported(i) == UWord(UWord(i.mem_lower + i.mem_upper) * KILO)
Available(i) == IF i.flag THEN Reported(i) ELSE ASSUMED
PageUp(e) == LET x == UWord(e + PAGE - 1) IN x - (x % PAGE)

(* What memory is left, as a word, and as much of it as the heap may be.   *)
(* (Variants named after what is wrong in them: no behaviour uses them.)   *)
max_heap_size(i, start) == UWord(Available(i) - start)
actual_heap_size_Largest(i, start) ==
  IF HEAP_SIZE < max_heap_size(i, start) THEN max_heap_size(i, start) ELSE HEAP_SIZE
actual_heap_size(i, start) ==
  IF HEAP_SIZE > max_heap_size(i, start) THEN max_heap_size(i, start) ELSE HEAP_SIZE

init_heap(end, info) ==
  LET start == PageUp(end)
      size  == actual_heap_size(info, start)
  IN  /\ heap_start = 0
      /\ kernel_end' = end /\ mb_info' = info
      /\ available'  = Available(info)
      /\ heap_start' = start
      /\ heap_end'   = UWord(start + size)
      /\ first_size' = UWord(size - HDR)

SizingNext == \E end \in KernelEnds, info \in Infos : init_heap(end, info)
SizingSpec == SizingInit /\ [][SizingNext]_sizingVars
-----------------------------------------------------------------------------
(* The reports for which the arithmetic means what it says: no product     *)
(* wraps, and there is room for a heap after the kernel.                   *)
Sane(i, e) ==
  i.flag => /\ (i.mem_lower + i.mem_upper) * KILO < WORD
            /\ e + PAGE + KILO <= (i.mem_lower + i.mem_upper) * KILO

(* For those, the heap lies between the kernel and the end of memory, can  *)
(* hold its first header, and has ends aligned like the blocks: what Heap  *)
(* assumes.                                                                *)
HeapIsSound ==
  heap_start # 0 /\ Sane(mb_info, kernel_end) =>
    /\ kernel_end <= heap_start /\ heap_start + HDR <= heap_end
    /\ heap_end <= available
    /\ heap_start % ALIGNMENT = 0 /\ heap_end % ALIGNMENT = 0
    /\ first_size = heap_end - heap_start - HDR
=============================================================================
