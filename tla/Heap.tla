-------------------------------- MODULE Heap --------------------------------
(***************************************************************************)
(* The kernel heap, kernel/src/mm/mm.c: a list of blocks laid end to end   *)
(* over heap_start..heap_end, each a mem_block_t header followed by its    *)
(* payload.  kmalloc takes the best fit and splits it, kfree marks a block *)
(* free and makes one merging pass over the list.                          *)
(*                                                                         *)
(* hdr holds the headers that are on the list (the ones first_block        *)
(* reaches), indexed by their address.  The kernel runs the allocator with *)
(* nothing else interleaved (no interrupt handler of the repository        *)
(* allocates), so one call is one step; module HeapLoops has a step for    *)
(* each iteration of the two list walks, and implements this one.          *)
(***************************************************************************)
EXTENDS Integers, FiniteSets

CONSTANTS HeapStart,  \* page-aligned address after the kernel (init_heap)
          HeapEnd,    \* HeapStart plus the heap size init_heap settled on
          WORD,       \* 2^32 on i386: where size_t arithmetic wraps
          Requests,   \* the sizes callers pass to kmalloc
          MaxAllocs   \* bound on alloc_count, to keep the model finite

NULL           == 0
ALIGNMENT      == 8
MIN_BLOCK_SIZE == 16
HDR            == 16  \* sizeof(mem_block_t): size, next, free (padded), magic

(* Unsigned addition of two words. *)
UAdd(x, y) == IF x + y < WORD THEN x + y ELSE x + y - WORD

(* The ALIGN macro: add, then clear the low bits.  (Variants of a definition, *)
(* named _Without..., are what it would be with a line of the C dropped or   *)
(* wrong; no behaviour uses them.)                                           *)
ALIGN_WithoutAdding(n) == n - (n % ALIGNMENT)
ALIGN(n) == LET v == UAdd(n, ALIGNMENT - 1) IN v - (v % ALIGNMENT)

ASSUME HeapAssumption ==
  /\ HeapStart \in Nat \ {0} /\ HeapStart % ALIGNMENT = 0
  /\ HeapEnd \in Nat         /\ HeapEnd % ALIGNMENT = 0
  /\ HeapStart + HDR <= HeapEnd /\ HeapEnd < WORD
  /\ WORD \in Nat            /\ Requests \subseteq 0..(WORD - 1)
  /\ MaxAllocs \in Nat

VARIABLES heap_start,  \* NULL until mm_init has run
          hdr,         \* address |-> [size, next, free], the list's headers
          allocated,   \* mm_stats.allocated
          alloc_count, \* mm_stats.alloc_count
          free_count,  \* mm_stats.free_count
          owned        \* callers' side: pointer held |-> size asked for

vars == <<heap_start, hdr, allocated, alloc_count, free_count, owned>>

Blocks     == DOMAIN hdr
Used(a)    == ~hdr[a].free
EndOf(a)   == a + HDR + hdr[a].size
Pointer(a) == a + HDR

(* What a block in use adds to mm_stats.allocated. *)
Cost_WithoutHeader(h, a) == h[a].size
Cost(h, a) == h[a].size + HDR
-----------------------------------------------------------------------------
Init ==
  /\ heap_start = NULL
  /\ hdr = [a \in {} |-> 0]
  /\ allocated = 0 /\ alloc_count = 0 /\ free_count = 0
  /\ owned = [p \in {} |-> 0]

(* kernel_main calls mm_init once: a single free block spans the heap. *)
mm_init ==
  /\ heap_start = NULL
  /\ heap_start' = HeapStart
  /\ hdr' = [a \in {HeapStart} |->
               [size |-> HeapEnd - HeapStart - HDR, next |-> NULL, free |-> TRUE]]
  /\ allocated' = 0 /\ alloc_count' = 0 /\ free_count' = 0
  /\ UNCHANGED owned

(* The free blocks that can hold n bytes, and the one the walk settles on: *)
(* the smallest, and the first in list (that is, address) order of those.  *)
Fits(n) == {a \in Blocks : hdr[a].free /\ hdr[a].size >= n}
BestFit(b, n) ==
  /\ b \in Fits(n)
  /\ \A a \in Fits(n) : \/ hdr[b].size < hdr[a].size
                        \/ hdr[b].size = hdr[a].size /\ b <= a

(* The header list after block b is taken for n bytes: what is left over   *)
(* becomes a block of its own when it can hold a header and a payload.     *)
Remaining(b, n) == hdr[b].size - n
Splits_WithoutMinimum(b, n) == Remaining(b, n) > 0
Splits(b, n) == Remaining(b, n) >= HDR + MIN_BLOCK_SIZE
Place(b, n) ==
  LET rest == b + HDR + n
  IN  IF Splits(b, n)
      THEN [a \in Blocks \cup {rest} |->
              IF a = b THEN [size |-> n, next |-> rest, free |-> FALSE]
              ELSE IF a = rest THEN [size |-> Remaining(b, n) - HDR,
                                     next |-> hdr[b].next, free |-> TRUE]
              ELSE hdr[a]]
      ELSE [hdr EXCEPT ![b].free = FALSE]

takes(b, n) ==
  /\ hdr' = Place(b, ALIGN(n))
  /\ allocated' = allocated + Cost(hdr', b)
  /\ alloc_count' = alloc_count + 1
  /\ owned' = [p \in DOMAIN owned \cup {Pointer(b)} |->
                 IF p = Pointer(b) THEN n ELSE owned[p]]
  /\ UNCHANGED <<heap_start, free_count>>

kmalloc(n) ==
  /\ n # 0 /\ heap_start # NULL
  /\ alloc_count < MaxAllocs
  /\ \E b \in Blocks : BestFit(b, ALIGN(n)) /\ takes(b, n)

(* kmalloc returns NULL: nothing asked for, no heap yet, or no block fits. *)
kmalloc_null(n) ==
  /\ n = 0 \/ heap_start = NULL \/ Fits(ALIGN(n)) = {}
  /\ UNCHANGED vars

(* A header carries BLOCK_MAGIC from the moment it is linked. *)
is_valid_pointer(p) ==
  /\ p # NULL /\ heap_start # NULL
  /\ HeapStart <= p /\ p < HeapEnd
  /\ p - HDR \in Blocks

(* The merging pass over list h.  Standing on a free block whose successor *)
(* is free it absorbs the successor and moves PAST it, so a block is       *)
(* absorbed exactly when its predecessor is free and was not itself        *)
(* absorbed.  M is the set of headers absorbed; h determines it.           *)
Sweep(h, M) ==
  \A a \in DOMAIN h :
    a \in M <=> \E p \in DOMAIN h : /\ h[p].next = a
                                    /\ h[p].free /\ h[a].free
                                    /\ p \notin M
Coalesce(h, M) ==
  [a \in DOMAIN h \ M |->
     IF h[a].next \in M
     THEN [size |-> h[a].size + HDR + h[h[a].next].size,
           next |-> h[h[a].next].next, free |-> h[a].free]
     ELSE h[a]]

Marked(b) == [hdr EXCEPT ![b].free = TRUE]

releases(p) ==
  /\ allocated' = allocated - Cost(hdr, p - HDR)
  /\ free_count' = free_count + 1
  /\ owned' = [q \in DOMAIN owned \ {p} |-> owned[q]]
  /\ UNCHANGED <<heap_start, alloc_count>>

kfree(p) ==
  LET h == Marked(p - HDR)
  IN  /\ is_valid_pointer(p) /\ releases(p)
      /\ \E M \in SUBSET Blocks : Sweep(h, M) /\ hdr' = Coalesce(h, M)

(* kfree of NULL or of an address outside the heap returns at once. *)
kfree_ignored(p) == ~is_valid_pointer(p) /\ UNCHANGED vars

(* Callers free what they hold, once; NULL and strays are refused. *)
Next ==
  \/ mm_init
  \/ \E n \in Requests : kmalloc(n) \/ kmalloc_null(n)
  \/ \E p \in DOMAIN owned : kfree(p)
  \/ \E p \in {NULL, HeapEnd} : kfree_ignored(p)

Spec == Init /\ [][Next]_vars
-----------------------------------------------------------------------------
(* Every field has the type its C declaration gives it; the counters stay  *)
(* in range, so that leaving them unbounded loses nothing.                 *)
TypeOK ==
  /\ heap_start \in {NULL, HeapStart}
  /\ hdr \in [Blocks -> [size : Nat, next : Nat, free : BOOLEAN]]
  /\ Blocks \subseteq HeapStart..HeapEnd
  /\ allocated \in Int /\ alloc_count \in 0..MaxAllocs /\ free_count \in Nat
  /\ owned \in [DOMAIN owned -> Requests]

(* The blocks tile the heap: each one ends where the next one on the list  *)
(* begins, the last one at heap_end, none overlaps another.  kmalloc's     *)
(* split and kfree's merge rewrite two headers each to keep this true.     *)
Tiled ==
  /\ (heap_start = NULL) <=> (Blocks = {})
  /\ heap_start # NULL => HeapStart \in Blocks
  /\ \A a \in Blocks : IF hdr[a].next = NULL
                       THEN EndOf(a) = HeapEnd
                       ELSE hdr[a].next = EndOf(a) /\ EndOf(a) \in Blocks
  /\ \A a, b \in Blocks : a < b => EndOf(a) <= b

(* Two neighbours on the list that kfree could have merged. *)
FreePair(a) ==
  /\ hdr[a].free
  /\ hdr[a].next # NULL
  /\ hdr[hdr[a].next].free

(* A merging pass moves past what it absorbs and can leave neighbours      *)
(* unmerged, but never more than one such pair in the whole heap: the next *)
(* pass takes care of it before another can form.                          *)
AtMostOneFreePair ==
  \A a, b \in Blocks : FreePair(a) /\ FreePair(b) => a = b

(* The blocks in use are the ones callers hold, and each is long enough    *)
(* for what its holder asked for.                                          *)
OwnersHaveTheirBytes ==
  /\ {Pointer(a) : a \in {b \in Blocks : Used(b)}} = DOMAIN owned
  /\ \A a \in Blocks : Used(a) => owned[Pointer(a)] <= hdr[a].size

(* mm_print_stats: allocated is the bytes, headers included, that the used *)
(* blocks take, so heap_size - allocated is what is free and never wraps.  *)
BytesOf(a) == a..(EndOf(a) - 1)
StatsAddUp ==
  /\ allocated = Cardinality(UNION {BytesOf(a) : a \in {b \in Blocks : Used(b)}})
  /\ alloc_count - free_count = Cardinality(DOMAIN owned)

(* What callers rely on: module Allocator, its regions the ones held here. *)
Promise == INSTANCE Allocator WITH Start <- HeapStart, End <- HeapEnd,
                                   Granule <- ALIGNMENT, Lengths <- Requests,
                                   live <- owned
KeepsPromise == Promise!Spec
=============================================================================
