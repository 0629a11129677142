------------------------------ MODULE HeapLoops ------------------------------
(***************************************************************************)
(* kmalloc and kfree of kernel/src/mm/mm.c with their list walks as the    *)
(* loops they are: a step per iteration, a cursor that follows next.  Heap *)
(* says what a call comes to without saying how; every behaviour here is   *)
(* one of Heap's, in which the iterations change nothing.                  *)
(*                                                                         *)
(* Nobody looks at the list or at mm_stats while a call is under way, so   *)
(* the variables of Heap change in the step in which the call returns; the *)
(* headers that kfree's loop rewrites under its own cursor are a variable  *)
(* of their own.                                                           *)
(***************************************************************************)
EXTENDS Heap

VARIABLES stage,    \* "out" of the allocator, in the "search", in the "merge"
          asked,    \* the argument of the call
          current,  \* the cursor of either loop
          best_fit, \* kmalloc's
          headers,  \* kfree: the blocks' headers as its loop has left them
          unlinked  \* kfree: the headers that no next leads to any more

loopVars == <<stage, asked, current, best_fit, headers, unlinked>>

first_block == heap_start
NoHeaders   == [a \in {} |-> 0]

LoopInit ==
  /\ Init
  /\ stage = "out" /\ asked = 0 /\ current = NULL /\ best_fit = NULL
  /\ headers = NoHeaders /\ unlinked = {}

returns ==
  /\ stage' = "out" /\ asked' = 0 /\ current' = NULL /\ best_fit' = NULL
  /\ headers' = NoHeaders /\ unlinked' = {}
-----------------------------------------------------------------------------
(* kmalloc(n), past its two checks; either check returns NULL at once.     *)
kmalloc_called(n) ==
  /\ stage = "out" /\ n # 0 /\ heap_start # NULL /\ alloc_count < MaxAllocs
  /\ stage' = "search" /\ asked' = n
  /\ current' = first_block /\ best_fit' = NULL
  /\ UNCHANGED <<vars, headers, unlinked>>

kmalloc_refuses(n) ==
  /\ stage = "out" /\ (n = 0 \/ heap_start = NULL)
  /\ UNCHANGED <<vars, loopVars>>

(* An iteration of the search.  (Variants, named after what is wrong in    *)
(* them, belong to no behaviour.)                                          *)
Improves_WithoutFree(n) ==
  /\ hdr[current].size >= n
  /\ best_fit = NULL \/ hdr[current].size < hdr[best_fit].size
Improves_OrEqual(n) ==
  /\ hdr[current].free /\ hdr[current].size >= n
  /\ best_fit = NULL \/ hdr[current].size <= hdr[best_fit].size
Improves(n) ==
  /\ hdr[current].free /\ hdr[current].size >= n
  /\ best_fit = NULL \/ hdr[current].size < hdr[best_fit].size
search ==
  /\ stage = "search" /\ current # NULL
  /\ best_fit' = IF Improves(ALIGN(asked)) THEN current ELSE best_fit
  /\ current' = hdr[current].next
  /\ UNCHANGED <<vars, stage, asked, headers, unlinked>>

kmalloc_fails ==
  /\ stage = "search" /\ current = NULL /\ best_fit = NULL
  /\ returns /\ UNCHANGED vars
kmalloc_returns ==
  /\ stage = "search" /\ current = NULL /\ best_fit # NULL
  /\ takes(best_fit, asked) /\ returns
-----------------------------------------------------------------------------
(* kfree(p) of a pointer that passes its checks, marked and counted.       *)
kfree_called(p) ==
  /\ stage = "out" /\ is_valid_pointer(p)
  /\ stage' = "merge" /\ asked' = p
  /\ headers' = Marked(p - HDR) /\ unlinked' = {}
  /\ current' = first_block
  /\ UNCHANGED <<vars, best_fit>>

kfree_refuses(p) ==
  /\ stage = "out" /\ ~is_valid_pointer(p)
  /\ UNCHANGED <<vars, loopVars>>

(* An iteration of the merging loop: the header under the cursor may grow  *)
(* over the one after it, which then nothing leads to.                     *)
Absorbs ==
  LET next == headers[current].next
  IN  headers[current].free /\ next # NULL /\ headers[next].free
Grown_WithoutHeader(a, b) ==
  [size |-> headers[a].size + headers[b].size, next |-> headers[b].next, free |-> TRUE]
Grown(a, b) ==
  [size |-> headers[a].size + HDR + headers[b].size, next |-> headers[b].next, free |-> TRUE]

absorb_Nothing ==
  /\ stage = "merge" /\ current # NULL /\ Absorbs
  /\ current' = headers[current].next
  /\ UNCHANGED <<vars, stage, asked, best_fit, headers, unlinked>>
absorb ==
  LET next == headers[current].next
  IN  /\ stage = "merge" /\ current # NULL /\ Absorbs
      /\ headers' = [headers EXCEPT ![current] = Grown(current, next)]
      /\ unlinked' = unlinked \cup {next}
      /\ current' = headers[next].next
      /\ UNCHANGED <<vars, stage, asked, best_fit>>
pass_over ==
  /\ stage = "merge" /\ current # NULL /\ ~Absorbs
  /\ current' = headers[current].next
  /\ UNCHANGED <<vars, stage, asked, best_fit, headers, unlinked>>

kfree_returns ==
  /\ stage = "merge" /\ current = NULL
  /\ hdr' = [a \in Blocks \ unlinked |-> headers[a]]
  /\ releases(asked) /\ returns
-----------------------------------------------------------------------------
LoopNext ==
  \/ stage = "out" /\ mm_init /\ UNCHANGED loopVars
  \/ \E n \in Requests : kmalloc_called(n) \/ kmalloc_refuses(n)
  \/ search \/ kmalloc_fails \/ kmalloc_returns
  \/ \E p \in DOMAIN owned : kfree_called(p)
  \/ \E p \in {NULL, HeapEnd} : kfree_refuses(p)
  \/ absorb \/ pass_over \/ kfree_returns

LoopSpec == LoopInit /\ [][LoopNext]_<<vars, loopVars>>
-----------------------------------------------------------------------------
(* The loops do what kmalloc and kfree of Heap say: the search settles on  *)
(* the first smallest block that fits and on none exactly when there is    *)
(* none, and the merging loop leaves on the list exactly the headers that  *)
(* kfree leaves, although it rewrites headers under its own cursor, skips  *)
(* what it has absorbed and never goes back.                               *)
KeepsHeap == Spec
=============================================================================
