------------------------------ MODULE Allocator ------------------------------
(***************************************************************************)
(* What the kernel's callers rely on when they call kmalloc and kfree      *)
(* (include/kernel/mm/kmalloc.h): a region of memory that nobody else has, *)
(* of at least the length asked for, aligned for any object, that stays    *)
(* theirs until they give it back.  How the memory is organised is not     *)
(* said; a call that fails is a stuttering step.                           *)
(***************************************************************************)
EXTENDS Integers

CONSTANTS Start,      \* first byte of the memory that is handed out
          End,        \* first byte after it
          Granule,    \* alignment of every region
          Lengths     \* the lengths callers ask for

VARIABLE live         \* live[p]: length asked for, of the region at p

(* The addresses a region may begin at. *)
Address == {p \in Start..End : p % Granule = 0}

Apart(p, n, q, m) == p + n <= q \/ q + m <= p

Init == live = [p \in {} |-> 0]

(* A region that meets no other is given to the caller. *)
Alloc(p, n) ==
  /\ p \notin DOMAIN live
  /\ p + n <= End
  /\ \A q \in DOMAIN live : Apart(p, n, q, live[q])
  /\ live' = [q \in DOMAIN live \cup {p} |-> IF q = p THEN n ELSE live[q]]

(* The owner gives its region back; nobody else's is touched. *)
Free(p) == live' = [q \in DOMAIN live \ {p} |-> live[q]]

Next ==
  \/ \E n \in Lengths, p \in Address : Alloc(p, n)
  \/ \E p \in DOMAIN live : Free(p)

Spec == Init /\ [][Next]_live
=============================================================================
