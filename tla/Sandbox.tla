------------------------------- MODULE Sandbox -------------------------------
(***************************************************************************)
(* The sandbox manager, kernel/src/sandbox/sandbox.c: a table of sandboxes *)
(* with their capabilities and their memory, and a count of those in use.  *)
(* kmalloc and kfree are the promise of module Allocator reduced to which  *)
(* blocks are out: kmalloc returns one that is not, or NULL, which it may  *)
(* do at any time (other parts of the kernel share the heap).              *)
(***************************************************************************)
EXTENDS Integers, FiniteSets

CONSTANTS NSANDBOXES, \* length of the table: 32
          Blocks,     \* what kmalloc may return
          NULL,
          Masks       \* the capability masks callers pass

Ids    == 0..(NSANDBOXES - 1)
BadIds == {-1, NSANDBOXES}  \* what callers may pass that is out of range
Caps   == {"DISK", "PIO", "FS", "MEMORY", "SYSCALL", "IPC"}  \* the CAP_ bits

ASSUME SandboxAssumption ==
  /\ NSANDBOXES \in Nat \ {0}
  /\ NULL \notin Blocks
  /\ Masks \subseteq SUBSET Caps

VARIABLES sandboxes,     \* the table
          sandbox_count,
          live,          \* blocks kmalloc has handed out through this code
          lent,          \* auxiliary: block |-> sandbox it was sandbox_alloc'ed for
          passed         \* what the last call let through: [id, op, mask], or NULL

vars == <<sandboxes, sandbox_count, live, lent, passed>>

Slot    == [used : BOOLEAN, capabilities : SUBSET Caps, memory_ptr : Blocks \cup {NULL}]
InUse   == {i \in Ids : sandboxes[i].used}
Valid(id) == id \in Ids /\ sandboxes[id].used

(* All the bits required, not just one of them. *)
has_caps(id, required) == required \subseteq sandboxes[id].capabilities
-----------------------------------------------------------------------------
(* Statically zeroed, which is also what sandbox_init makes of it. *)
Init ==
  /\ sandboxes = [i \in Ids |-> [used |-> FALSE, capabilities |-> {}, memory_ptr |-> NULL]]
  /\ sandbox_count = 0
  /\ live = {} /\ lent = [b \in {} |-> NULL]
  /\ passed = NULL

(* The slot sandbox_create settles on, as it leaves it when kmalloc gave   *)
(* it block m.  (_Without...: with a line of the C missing.)               *)
FirstFree(i) == /\ ~sandboxes[i].used
                /\ \A j \in 0..(i - 1) : sandboxes[j].used
Fresh_WithoutReset(i, m) == [sandboxes[i] EXCEPT !.used = m # NULL, !.memory_ptr = m]
Fresh(i, m) == [used |-> m # NULL, capabilities |-> {}, memory_ptr |-> m]

sandbox_create ==
  /\ sandbox_count < NSANDBOXES
  /\ \E i \in Ids, m \in Blocks \ live :
       /\ FirstFree(i)
       /\ sandboxes' = [sandboxes EXCEPT ![i] = Fresh(i, m)]
       /\ live' = live \cup {m}
  /\ sandbox_count' = sandbox_count + 1
  /\ passed' = NULL
  /\ UNCHANGED lent

(* kmalloc fails with the slot already taken and counted; both are undone, *)
(* the capabilities and the NULL pointer stay.                             *)
Rollback_WithoutCount(n) == n
Rollback(n) == n - 1
sandbox_create_fails ==
  /\ sandbox_count < NSANDBOXES
  /\ \E i \in Ids : /\ FirstFree(i)
                    /\ sandboxes' = [sandboxes EXCEPT ![i] = Fresh(i, NULL)]
  /\ sandbox_count' = Rollback(sandbox_count + 1)
  /\ passed' = NULL
  /\ UNCHANGED <<live, lent>>

sandbox_limit_reached ==
  /\ sandbox_count >= NSANDBOXES
  /\ passed' = NULL
  /\ UNCHANGED <<sandboxes, sandbox_count, live, lent>>

(* Every other operation refuses an id that is out of range or not in use. *)
refused(id) ==
  /\ ~Valid(id)
  /\ passed' = NULL
  /\ UNCHANGED <<sandboxes, sandbox_count, live, lent>>

Emptied_WithoutUsed(i) == sandboxes[i]
Emptied(i) == [sandboxes[i] EXCEPT !.used = FALSE]
sandbox_destroy(id) ==
  /\ Valid(id)
  /\ live' = live \ {sandboxes[id].memory_ptr}
  /\ sandboxes' = [sandboxes EXCEPT ![id] = Emptied(id)]
  /\ sandbox_count' = sandbox_count - 1
  /\ passed' = NULL
  /\ UNCHANGED lent

sandbox_grant_capability(id, mask) ==
  /\ Valid(id)
  /\ sandboxes' = [sandboxes EXCEPT ![id].capabilities = @ \cup mask]
  /\ passed' = NULL
  /\ UNCHANGED <<sandbox_count, live, lent>>

(* |= ~capability for &= ~capability *)
sandbox_revoke_capability_Or(id, mask) ==
  /\ Valid(id)
  /\ sandboxes' = [sandboxes EXCEPT ![id].capabilities =
                     @ \cup ((Caps \cup {"undefined bits"}) \ mask)]
  /\ passed' = NULL
  /\ UNCHANGED <<sandbox_count, live, lent>>
sandbox_revoke_capability(id, mask) ==
  /\ Valid(id)
  /\ sandboxes' = [sandboxes EXCEPT ![id].capabilities = @ \ mask]
  /\ passed' = NULL
  /\ UNCHANGED <<sandbox_count, live, lent>>

(* Called on its own; the operations below make the same test. *)
sandbox_check_permission(id, mask) ==
  /\ Valid(id)
  /\ passed' = IF has_caps(id, mask) THEN [id |-> id, op |-> "check", mask |-> mask]
                                     ELSE NULL
  /\ UNCHANGED <<sandboxes, sandbox_count, live, lent>>

(* Memory for a sandbox is the kernel's: no table says whose it is. *)
sandbox_alloc(id) ==
  /\ Valid(id) /\ has_caps(id, {"MEMORY"})
  /\ \E m \in Blocks \ live :
       /\ live' = live \cup {m}
       /\ lent' = [b \in DOMAIN lent \cup {m} |-> IF b = m THEN id ELSE lent[b]]
  /\ passed' = [id |-> id, op |-> "alloc", mask |-> {}]
  /\ UNCHANGED <<sandboxes, sandbox_count>>

(* No capability, or kmalloc fails. *)
sandbox_alloc_null(id) ==
  /\ Valid(id)
  /\ passed' = NULL
  /\ UNCHANGED <<sandboxes, sandbox_count, live, lent>>

(* Whoever was handed the memory frees it, with kfree. *)
kfree(b) ==
  /\ b \in DOMAIN lent
  /\ live' = live \ {b}
  /\ lent' = [c \in DOMAIN lent \ {b} |-> lent[c]]
  /\ passed' = NULL
  /\ UNCHANGED <<sandboxes, sandbox_count>>

(* Of the system calls only SYS_IPC_SEND is let through, and takes two     *)
(* capabilities; any other number ends in -1.                              *)
lets_through(id) == has_caps(id, {"SYSCALL"}) /\ has_caps(id, {"IPC"})
sandbox_syscall(id, known) ==
  /\ Valid(id)
  /\ passed' = IF lets_through(id) /\ known
               THEN [id |-> id, op |-> "ipc_send", mask |-> {}] ELSE NULL
  /\ UNCHANGED <<sandboxes, sandbox_count, live, lent>>

Next ==
  \/ sandbox_create \/ sandbox_create_fails \/ sandbox_limit_reached
  \/ \E id \in Ids \cup BadIds : refused(id)
  \/ \E id \in Ids :
       \/ sandbox_destroy(id)
       \/ \E mask \in Masks : \/ sandbox_grant_capability(id, mask)
                              \/ sandbox_revoke_capability(id, mask)
                              \/ sandbox_check_permission(id, mask)
       \/ sandbox_alloc(id) \/ sandbox_alloc_null(id)
       \/ \E known \in BOOLEAN : sandbox_syscall(id, known)
  \/ \E b \in Blocks : kfree(b)

Spec == Init /\ [][Next]_vars
-----------------------------------------------------------------------------
(* The table's fields have their types. *)
TypeOK ==
  /\ sandboxes \in [Ids -> Slot]
  /\ sandbox_count \in Int
  /\ live \subseteq Blocks
  /\ lent \in [DOMAIN lent -> Ids] /\ DOMAIN lent \subseteq Blocks
  /\ passed \in {NULL} \cup [id : Ids, op : {"check", "alloc", "ipc_send"}, mask : SUBSET Caps]

(* sandbox_count counts the slots in use, through every failed creation;   *)
(* so the limit check finds the table full exactly when it is, and the     *)
(* search after it always finds a slot.                                    *)
CountIsExact ==
  /\ sandbox_count = Cardinality(InUse)
  /\ sandbox_count < NSANDBOXES <=> \E i \in Ids : FirstFree(i)

(* Each sandbox has memory of its own that nobody else was given, and the  *)
(* manager holds on to no memory but that.                                 *)
MemoryIsPrivate ==
  /\ \A i \in InUse : sandboxes[i].memory_ptr \in live \ DOMAIN lent
  /\ \A i, j \in InUse : sandboxes[i].memory_ptr = sandboxes[j].memory_ptr => i = j
  /\ live = {sandboxes[i].memory_ptr : i \in InUse} \cup DOMAIN lent

(* What callers rely on: module Capabilities. *)
Promise == INSTANCE Capabilities WITH
  None <- NULL, Needs <- [alloc |-> {"MEMORY"}, ipc_send |-> {"SYSCALL", "IPC"}],
  holds <- [i \in InUse |-> sandboxes[i].capabilities]
KeepsPromise == Promise!Spec
=============================================================================
