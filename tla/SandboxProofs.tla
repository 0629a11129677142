---------------------------- MODULE SandboxProofs ----------------------------
(***************************************************************************)
(* Theorems about the sandbox manager (module Sandbox), for any length of  *)
(* the table, any memory and any masks.                                    *)
(***************************************************************************)
EXTENDS Sandbox, FiniteSetTheorems, WellFoundedInduction, TLAPS

IInv == TypeOK /\ sandbox_count = Cardinality(InUse) /\ MemoryIsPrivate

LEMMA IdsAreFinite ==
  /\ IsFiniteSet(Ids) /\ Cardinality(Ids) = NSANDBOXES
  /\ IsFiniteSet(InUse) /\ Cardinality(InUse) \in Nat /\ InUse \subseteq Ids
PROOF
  <1>1. IsFiniteSet(Ids) /\ Cardinality(Ids) = NSANDBOXES
    BY FS_Interval, SandboxAssumption DEF Ids
  <1>2. InUse \in SUBSET Ids
    BY DEF InUse
  <1> QED BY <1>1, <1>2, FS_Subset, FS_CardinalityType

LEMMA SmallestExists ==
  ASSUME NEW T \in SUBSET Nat, T # {}
  PROVE  \E x \in T : \A y \in T : x <= y
PROOF
  <1>1. PICK x \in T : \A y \in T : ~(<<y, x>> \in OpToRel(<, Nat))
    BY NatLessThanWellFounded, WFMin
  <1>2. \A y \in T : ~(y < x)
    BY <1>1 DEF OpToRel
  <1> QED BY <1>2

(* The search of sandbox_create finds a slot whenever the count allows it. *)
LEMMA RoomMeansSlot ==
  ASSUME IInv
  PROVE  sandbox_count < NSANDBOXES <=> \E i \in Ids : FirstFree(i)
PROOF
  <1>1. ASSUME NEW i \in Ids, FirstFree(i) PROVE sandbox_count < NSANDBOXES
    <2>1. InUse # Ids
      BY <1>1 DEF FirstFree, InUse
    <2>2. /\ Cardinality(InUse) <= Cardinality(Ids)
          /\ Cardinality(Ids) = Cardinality(InUse) => Ids = InUse
      BY IdsAreFinite, FS_Subset
    <2> QED BY <2>1, <2>2, IdsAreFinite, SandboxAssumption DEF IInv
  <1>2. ASSUME sandbox_count < NSANDBOXES PROVE \E i \in Ids : FirstFree(i)
    <2> DEFINE T == Ids \ InUse
    <2>1. T # {}
      <3>1. Cardinality(InUse) # Cardinality(Ids)
        BY <1>2, IdsAreFinite, SandboxAssumption DEF IInv
      <3> QED BY <3>1, IdsAreFinite
    <2>2. T \in SUBSET Nat
      BY SandboxAssumption DEF Ids
    <2>3. PICK i \in T : \A j \in T : i <= j
      BY <2>1, <2>2, SmallestExists
    <2>4. \A j \in 0..(i - 1) : j \in Ids /\ j \notin T
      BY <2>2, <2>3, SandboxAssumption DEF Ids
    <2> QED BY <2>3, <2>4 DEF FirstFree, InUse
  <1> QED BY <1>1, <1>2

LEMMA InitIsEmpty == Init => IInv
PROOF
  <1> SUFFICES ASSUME Init PROVE IInv
    OBVIOUS
  <1>1. InUse = {}
    BY DEF Init, InUse
  <1>2. TypeOK
    BY DEF Init, TypeOK, Slot
  <1> QED BY <1>1, <1>2, FS_EmptySet DEF Init, IInv, MemoryIsPrivate

(* One slot of the table is rewritten. *)
LEMMA SlotWritten ==
  ASSUME TypeOK, NEW i \in Ids, NEW s \in Slot,
         sandboxes' = [sandboxes EXCEPT ![i] = s]
  PROVE  /\ sandboxes' \in [Ids -> Slot] /\ sandboxes'[i] = s
         /\ \A j \in Ids \ {i} : sandboxes'[j] = sandboxes[j]
         /\ InUse' = IF s.used THEN InUse \cup {i} ELSE InUse \ {i}
PROOF
  <1>1. /\ sandboxes' \in [Ids -> Slot] /\ sandboxes'[i] = s
        /\ \A j \in Ids \ {i} : sandboxes'[j] = sandboxes[j]
    BY DEF TypeOK
  <1>2. InUse' = IF s.used THEN InUse \cup {i} ELSE InUse \ {i}
    BY <1>1 DEF InUse
  <1> QED BY <1>1, <1>2

LEMMA CreateKeeps ==
  ASSUME IInv, sandbox_create
  PROVE  IInv'
PROOF
  <1>1. PICK i \in Ids, m \in Blocks \ live :
          /\ ~sandboxes[i].used
          /\ sandboxes' = [sandboxes EXCEPT ![i] = Fresh(i, m)]
          /\ live' = live \cup {m} /\ lent' = lent /\ passed' = NULL
          /\ sandbox_count' = sandbox_count + 1
    BY DEF sandbox_create, FirstFree
  <1>2. /\ Fresh(i, m) \in Slot /\ Fresh(i, m).used /\ Fresh(i, m).memory_ptr = m
    BY <1>1, SandboxAssumption DEF Fresh, Slot
  <1>3. /\ sandboxes' \in [Ids -> Slot] /\ sandboxes'[i].memory_ptr = m
        /\ \A j \in Ids \ {i} : sandboxes'[j] = sandboxes[j]
        /\ InUse' = InUse \cup {i} /\ i \notin InUse
    BY <1>1, <1>2, SlotWritten DEF IInv, InUse
  <1>4. TypeOK'
    BY <1>1, <1>3 DEF IInv, TypeOK
  <1>5. sandbox_count' = Cardinality(InUse')
    BY <1>1, <1>3, IdsAreFinite, FS_AddElement DEF IInv
  <1>6. MemoryIsPrivate'
    <2>1. /\ \A j \in InUse : /\ sandboxes'[j].memory_ptr = sandboxes[j].memory_ptr
                              /\ sandboxes[j].memory_ptr \in live \ DOMAIN lent
                              /\ sandboxes[j].memory_ptr # m
          /\ m \notin DOMAIN lent
      BY <1>1, <1>3, IdsAreFinite DEF IInv, MemoryIsPrivate
    <2>2. live' = {sandboxes'[j].memory_ptr : j \in InUse'} \cup DOMAIN lent'
      BY <1>1, <1>3, <2>1 DEF IInv, MemoryIsPrivate
    <2>3. \A j, k \in InUse' : sandboxes'[j].memory_ptr = sandboxes'[k].memory_ptr => j = k
      BY <1>3, <2>1 DEF IInv, MemoryIsPrivate
    <2>4. \A j \in InUse' : sandboxes'[j].memory_ptr \in live' \ DOMAIN lent'
      BY <1>1, <1>3, <2>1
    <2> QED BY <2>2, <2>3, <2>4 DEF MemoryIsPrivate
  <1> QED BY <1>4, <1>5, <1>6 DEF IInv

(* The table changes, but neither which slots are in use nor their memory. *)
LEMMA SameUse ==
  ASSUME IInv, UNCHANGED <<sandbox_count, live, lent>>, TypeOK', InUse' = InUse,
         \A j \in InUse : sandboxes'[j].memory_ptr = sandboxes[j].memory_ptr
  PROVE  IInv'
PROOF BY DEF IInv, MemoryIsPrivate

LEMMA CreateFailsKeeps ==
  ASSUME IInv, sandbox_create_fails
  PROVE  IInv' /\ InUse' = InUse /\ \A j \in InUse : sandboxes'[j] = sandboxes[j]
PROOF
  <1>1. PICK i \in Ids :
          /\ ~sandboxes[i].used
          /\ sandboxes' = [sandboxes EXCEPT ![i] = Fresh(i, NULL)]
          /\ live' = live /\ lent' = lent /\ passed' = NULL
          /\ sandbox_count' = (sandbox_count + 1) - 1
    BY DEF sandbox_create_fails, FirstFree, Rollback
  <1>2. Fresh(i, NULL) \in Slot /\ ~Fresh(i, NULL).used
    BY DEF Fresh, Slot
  <1>3. /\ sandboxes' \in [Ids -> Slot] /\ i \notin InUse
        /\ \A j \in Ids \ {i} : sandboxes'[j] = sandboxes[j]
        /\ InUse' = InUse \ {i}
    BY <1>1, <1>2, SlotWritten DEF IInv, InUse
  <1>4. sandbox_count' = sandbox_count
    BY <1>1 DEF IInv, TypeOK
  <1>5. TypeOK'
    BY <1>1, <1>3, <1>4 DEF IInv, TypeOK
  <1>6. InUse' = InUse /\ \A j \in InUse : sandboxes'[j] = sandboxes[j]
    BY <1>3, IdsAreFinite
  <1> QED BY <1>1, <1>4, <1>5, <1>6, SameUse

LEMMA DestroyKeeps ==
  ASSUME IInv, NEW id \in Ids, sandbox_destroy(id)
  PROVE  IInv'
PROOF
  <1> DEFINE m == sandboxes[id].memory_ptr
  <1>1. /\ sandboxes[id].used
        /\ sandboxes' = [sandboxes EXCEPT ![id] = Emptied(id)]
        /\ live' = live \ {m} /\ lent' = lent /\ passed' = NULL
        /\ sandbox_count' = sandbox_count - 1
    BY DEF sandbox_destroy, Valid
  <1>2. Emptied(id) \in Slot /\ ~Emptied(id).used
    BY DEF IInv, TypeOK, Emptied, Slot
  <1>3. /\ sandboxes' \in [Ids -> Slot] /\ id \in InUse
        /\ \A j \in Ids \ {id} : sandboxes'[j] = sandboxes[j]
        /\ InUse' = InUse \ {id}
    BY <1>1, <1>2, SlotWritten DEF IInv, InUse
  <1>4. TypeOK'
    BY <1>1, <1>3 DEF IInv, TypeOK
  <1>5. sandbox_count' = Cardinality(InUse')
    BY <1>1, <1>3, IdsAreFinite, FS_RemoveElement DEF IInv
  <1>6. MemoryIsPrivate'
    <2>1. \A j \in InUse' : /\ sandboxes'[j].memory_ptr = sandboxes[j].memory_ptr
                            /\ sandboxes[j].memory_ptr \in live \ DOMAIN lent
                            /\ sandboxes[j].memory_ptr # m
      BY <1>3, IdsAreFinite DEF IInv, MemoryIsPrivate
    <2>2. m \notin DOMAIN lent
      BY <1>3 DEF IInv, MemoryIsPrivate
    <2>3. live' = {sandboxes'[j].memory_ptr : j \in InUse'} \cup DOMAIN lent'
      BY <1>1, <1>3, <2>1, <2>2 DEF IInv, MemoryIsPrivate
    <2>4. \A j, k \in InUse' : sandboxes'[j].memory_ptr = sandboxes'[k].memory_ptr => j = k
      BY <1>3, <2>1 DEF IInv, MemoryIsPrivate
    <2>5. \A j \in InUse' : sandboxes'[j].memory_ptr \in live' \ DOMAIN lent'
      BY <1>1, <2>1
    <2> QED BY <2>3, <2>4, <2>5 DEF MemoryIsPrivate
  <1> QED BY <1>4, <1>5, <1>6 DEF IInv

LEMMA CapabilitiesWritten ==
  ASSUME IInv, NEW id \in Ids, NEW C \in SUBSET Caps, Valid(id), passed' = NULL,
         sandboxes' = [sandboxes EXCEPT ![id].capabilities = C],
         UNCHANGED <<sandbox_count, live, lent>>
  PROVE  /\ IInv' /\ InUse' = InUse /\ id \in InUse /\ sandboxes'[id].capabilities = C
         /\ \A j \in Ids \ {id} : sandboxes'[j] = sandboxes[j]
PROOF
  <1> DEFINE s == [sandboxes[id] EXCEPT !.capabilities = C]
  <1>1. sandboxes[id] \in Slot /\ sandboxes[id].used
    BY DEF IInv, TypeOK, Valid
  <1>2. /\ s \in Slot /\ s.used /\ s.capabilities = C
        /\ s.memory_ptr = sandboxes[id].memory_ptr
    BY <1>1 DEF Slot
  <1>3. sandboxes' = [sandboxes EXCEPT ![id] = s]
    OBVIOUS
  <1>4. /\ sandboxes' \in [Ids -> Slot] /\ sandboxes'[id] = s
        /\ \A j \in Ids \ {id} : sandboxes'[j] = sandboxes[j]
        /\ InUse' = InUse \cup {id} /\ id \in InUse
    BY <1>1, <1>2, <1>3, SlotWritten DEF IInv, InUse
  <1>5. TypeOK'
    BY <1>4 DEF IInv, TypeOK
  <1>6. InUse' = InUse
        /\ \A j \in InUse : sandboxes'[j].memory_ptr = sandboxes[j].memory_ptr
    BY <1>2, <1>4, IdsAreFinite
  <1> QED BY <1>2, <1>4, <1>5, <1>6, SameUse

LEMMA AllocKeeps ==
  ASSUME IInv, NEW id \in Ids, sandbox_alloc(id)
  PROVE  IInv'
PROOF
  <1>1. PICK m \in Blocks \ live :
          /\ live' = live \cup {m}
          /\ lent' = [b \in DOMAIN lent \cup {m} |-> IF b = m THEN id ELSE lent[b]]
          /\ passed' = [id |-> id, op |-> "alloc", mask |-> {}]
          /\ sandboxes' = sandboxes /\ sandbox_count' = sandbox_count
    BY DEF sandbox_alloc
  <1>2. InUse' = InUse
    BY <1>1 DEF InUse
  <1>3. TypeOK'
    BY <1>1 DEF IInv, TypeOK
  <1>4. MemoryIsPrivate'
    BY <1>1, <1>2 DEF IInv, MemoryIsPrivate
  <1> QED BY <1>1, <1>2, <1>3, <1>4 DEF IInv

LEMMA FreeKeeps ==
  ASSUME IInv, NEW b \in Blocks, kfree(b)
  PROVE  IInv'
PROOF
  <1>1. /\ b \in DOMAIN lent /\ live' = live \ {b}
        /\ lent' = [c \in DOMAIN lent \ {b} |-> lent[c]]
        /\ passed' = NULL /\ sandboxes' = sandboxes /\ sandbox_count' = sandbox_count
    BY DEF kfree
  <1>2. InUse' = InUse
    BY <1>1 DEF InUse
  <1>3. TypeOK'
    BY <1>1 DEF IInv, TypeOK
  <1>4. MemoryIsPrivate'
    BY <1>1, <1>2 DEF IInv, MemoryIsPrivate
  <1> QED BY <1>1, <1>2, <1>3, <1>4 DEF IInv

(* Nothing but the report of the last call changes. *)
Idle == UNCHANGED <<sandboxes, sandbox_count, live, lent>>

LEMMA IdleKeeps ==
  ASSUME IInv, Idle, passed' \in {NULL} \cup [id : Ids, op : {"check", "alloc", "ipc_send"},
                                              mask : SUBSET Caps]
  PROVE  IInv'
PROOF
  <1>1. InUse' = InUse
    BY DEF Idle, InUse
  <1>2. TypeOK'
    BY DEF IInv, TypeOK, Idle
  <1> QED BY <1>1, <1>2, SameUse DEF Idle

LEMMA AnswersAreIdle ==
  ASSUME IInv
  PROVE  /\ sandbox_limit_reached => Idle /\ passed' = NULL
         /\ \A id \in Ids \cup BadIds : refused(id) => Idle /\ passed' = NULL
         /\ \A id \in Ids :
              /\ sandbox_alloc_null(id) => Idle /\ passed' = NULL
              /\ \A mask \in Masks : sandbox_check_permission(id, mask) =>
                   /\ Idle
                   /\ \/ passed' = NULL
                      \/ /\ id \in InUse /\ mask \subseteq sandboxes[id].capabilities
                         /\ passed' = [id |-> id, op |-> "check", mask |-> mask]
              /\ \A known \in BOOLEAN : sandbox_syscall(id, known) =>
                   /\ Idle
                   /\ \/ passed' = NULL
                      \/ /\ id \in InUse
                         /\ {"SYSCALL", "IPC"} \subseteq sandboxes[id].capabilities
                         /\ passed' = [id |-> id, op |-> "ipc_send", mask |-> {}]
PROOF BY DEF sandbox_limit_reached, refused, sandbox_alloc_null, sandbox_check_permission,
             sandbox_syscall, lets_through, has_caps, Valid, InUse, Idle

LEMMA NextKeeps == IInv /\ [Next]_vars => IInv'
PROOF
  <1> SUFFICES ASSUME IInv, [Next]_vars PROVE IInv'
    OBVIOUS
  <1>1. CASE sandbox_create
    BY <1>1, CreateKeeps
  <1>2. CASE sandbox_create_fails
    BY <1>2, CreateFailsKeeps
  <1>3. CASE sandbox_limit_reached
    BY <1>3, AnswersAreIdle, IdleKeeps
  <1>4. ASSUME NEW id \in Ids \cup BadIds, refused(id) PROVE IInv'
    BY <1>4, AnswersAreIdle, IdleKeeps
  <1>5. ASSUME NEW id \in Ids, sandbox_destroy(id) PROVE IInv'
    BY <1>5, DestroyKeeps
  <1>6. ASSUME NEW id \in Ids, NEW mask \in Masks, sandbox_grant_capability(id, mask)
        PROVE  IInv'
    <2> DEFINE C == sandboxes[id].capabilities \cup mask
    <2>1. C \in SUBSET Caps
      BY SandboxAssumption DEF IInv, TypeOK, Slot
    <2> QED BY <1>6, <2>1, CapabilitiesWritten DEF sandbox_grant_capability
  <1>7. ASSUME NEW id \in Ids, NEW mask \in Masks, sandbox_revoke_capability(id, mask)
        PROVE  IInv'
    <2> DEFINE C == sandboxes[id].capabilities \ mask
    <2>1. C \in SUBSET Caps
      BY DEF IInv, TypeOK, Slot
    <2> QED BY <1>7, <2>1, CapabilitiesWritten DEF sandbox_revoke_capability
  <1>8. ASSUME NEW id \in Ids, NEW mask \in Masks, sandbox_check_permission(id, mask)
        PROVE  IInv'
    <2>1. [id |-> id, op |-> "check", mask |-> mask] \in
            [id : Ids, op : {"check", "alloc", "ipc_send"}, mask : SUBSET Caps]
      BY SandboxAssumption
    <2> QED BY <1>8, <2>1, AnswersAreIdle, IdleKeeps
  <1>9. ASSUME NEW id \in Ids, sandbox_alloc(id) PROVE IInv'
    BY <1>9, AllocKeeps
  <1>10. ASSUME NEW id \in Ids, sandbox_alloc_null(id) PROVE IInv'
    BY <1>10, AnswersAreIdle, IdleKeeps
  <1>11. ASSUME NEW id \in Ids, NEW known \in BOOLEAN, sandbox_syscall(id, known)
         PROVE  IInv'
    BY <1>11, AnswersAreIdle, IdleKeeps
  <1>12. ASSUME NEW b \in Blocks, kfree(b) PROVE IInv'
    BY <1>12, FreeKeeps
  <1>13. CASE UNCHANGED vars
    BY <1>13, IdleKeeps DEF vars, Idle, IInv, TypeOK
  <1> QED BY <1>1, <1>2, <1>3, <1>4, <1>5, <1>6, <1>7, <1>8, <1>9, <1>10, <1>11,
             <1>12, <1>13 DEF Next

(* The table's fields keep their types. *)
THEOREM TypeCorrect == Spec => []TypeOK
PROOF
  <1>1. IInv => TypeOK
    BY DEF IInv
  <1> QED BY <1>1, InitIsEmpty, NextKeeps, PTL DEF Spec

(* Through every sequence of creations, failed creations and destructions, *)
(* sandbox_count is how many slots are in use: the limit is reported       *)
(* exactly when the table is full.                                         *)
THEOREM CountStaysExact == Spec => []CountIsExact
PROOF
  <1>1. IInv => CountIsExact
    BY RoomMeansSlot DEF IInv, CountIsExact
  <1> QED BY <1>1, InitIsEmpty, NextKeeps, PTL DEF Spec

(* No two sandboxes share memory, no sandbox's memory is handed to anyone  *)
(* else, and the manager loses none of what it took for them.              *)
THEOREM MemoryStaysPrivate == Spec => []MemoryIsPrivate
PROOF
  <1>1. IInv => MemoryIsPrivate
    BY DEF IInv
  <1> QED BY <1>1, InitIsEmpty, NextKeeps, PTL DEF Spec
-----------------------------------------------------------------------------
(* The table as capabilities held. *)
Holds == [i \in InUse |-> sandboxes[i].capabilities]

LEMMA CreateIsCreate ==
  ASSUME IInv, IInv', sandbox_create
  PROVE  Promise!Next
PROOF
  <1>1. PICK i \in Ids, m \in Blocks \ live :
          /\ ~sandboxes[i].used
          /\ sandboxes' = [sandboxes EXCEPT ![i] = Fresh(i, m)]
          /\ passed' = NULL
    BY DEF sandbox_create, FirstFree
  <1>2. /\ Fresh(i, m) \in Slot /\ Fresh(i, m).used /\ Fresh(i, m).capabilities = {}
    BY <1>1, SandboxAssumption DEF Fresh, Slot
  <1>3. /\ sandboxes'[i].capabilities = {}
        /\ \A j \in Ids \ {i} : sandboxes'[j] = sandboxes[j]
        /\ InUse' = InUse \cup {i} /\ i \notin InUse
    BY <1>1, <1>2, SlotWritten DEF IInv, InUse
  <1>4. Holds' = [t \in DOMAIN Holds \cup {i} |-> IF t = i THEN {} ELSE Holds[t]]
    BY <1>3, IdsAreFinite DEF Holds
  <1>5. Promise!Create(i)
    BY <1>1, <1>3, <1>4 DEF Promise!Create, Holds
  <1> QED BY <1>5 DEF Promise!Next

LEMMA DestroyIsDestroy ==
  ASSUME IInv, NEW id \in Ids, sandbox_destroy(id)
  PROVE  Promise!Next
PROOF
  <1>1. /\ sandboxes[id].used /\ passed' = NULL
        /\ sandboxes' = [sandboxes EXCEPT ![id] = Emptied(id)]
    BY DEF sandbox_destroy, Valid
  <1>2. Emptied(id) \in Slot /\ ~Emptied(id).used
    BY DEF IInv, TypeOK, Emptied, Slot
  <1>3. /\ id \in InUse /\ InUse' = InUse \ {id}
        /\ \A j \in Ids \ {id} : sandboxes'[j] = sandboxes[j]
    BY <1>1, <1>2, SlotWritten DEF IInv, InUse
  <1>4. Holds' = [t \in DOMAIN Holds \ {id} |-> Holds[t]]
    BY <1>3, IdsAreFinite DEF Holds
  <1>5. Promise!Destroy(id)
    BY <1>1, <1>4 DEF Promise!Destroy, Holds
  <1> QED BY <1>3, <1>5 DEF Promise!Next, Holds

LEMMA WriteIsGrantOrRevoke ==
  ASSUME IInv, NEW id \in Ids, NEW mask \in Masks,
         sandbox_grant_capability(id, mask) \/ sandbox_revoke_capability(id, mask)
  PROVE  Promise!Next
PROOF
  <1>1. mask \in SUBSET Caps
    BY SandboxAssumption
  <1>2. sandboxes[id].capabilities \in SUBSET Caps
    BY DEF IInv, TypeOK, Slot
  <1>3. CASE sandbox_grant_capability(id, mask)
    <2>1. PICK C \in SUBSET Caps : C = sandboxes[id].capabilities \cup mask
      BY <1>1, <1>2
    <2>2. /\ Valid(id) /\ passed' = NULL
          /\ sandboxes' = [sandboxes EXCEPT ![id].capabilities = C]
          /\ UNCHANGED <<sandbox_count, live, lent>>
      BY <1>3, <2>1 DEF sandbox_grant_capability
    <2>3. /\ InUse' = InUse /\ id \in InUse /\ sandboxes'[id].capabilities = C
          /\ \A j \in Ids \ {id} : sandboxes'[j] = sandboxes[j]
      BY <2>2, CapabilitiesWritten
    <2>4. Holds' = [Holds EXCEPT ![id] = @ \cup mask]
      BY <2>1, <2>3, IdsAreFinite DEF Holds
    <2>5. Promise!Grant(id, mask)
      BY <2>2, <2>4 DEF Promise!Grant, Holds
    <2> QED BY <1>1, <2>3, <2>5 DEF Promise!Next, Holds
  <1>4. CASE sandbox_revoke_capability(id, mask)
    <2>1. PICK C \in SUBSET Caps : C = sandboxes[id].capabilities \ mask
      BY <1>2
    <2>2. /\ Valid(id) /\ passed' = NULL
          /\ sandboxes' = [sandboxes EXCEPT ![id].capabilities = C]
          /\ UNCHANGED <<sandbox_count, live, lent>>
      BY <1>4, <2>1 DEF sandbox_revoke_capability
    <2>3. /\ InUse' = InUse /\ id \in InUse /\ sandboxes'[id].capabilities = C
          /\ \A j \in Ids \ {id} : sandboxes'[j] = sandboxes[j]
      BY <2>2, CapabilitiesWritten
    <2>4. Holds' = [Holds EXCEPT ![id] = @ \ mask]
      BY <2>1, <2>3, IdsAreFinite DEF Holds
    <2>5. Promise!Revoke(id, mask)
      BY <2>2, <2>4 DEF Promise!Revoke, Holds
    <2> QED BY <1>1, <2>3, <2>5 DEF Promise!Next, Holds
  <1> QED BY <1>3, <1>4

LEMMA IdleKeepsHolds == ASSUME Idle PROVE Holds' = Holds
PROOF BY DEF Idle, Holds, InUse

LEMMA RefusalIsRefuse ==
  ASSUME Holds' = Holds, passed' = NULL
  PROVE  Promise!Next
PROOF BY DEF Promise!Next, Promise!Refuse, Holds

LEMMA OperationIsUse ==
  ASSUME Holds' = Holds, NEW id \in InUse,
         \/ /\ {"MEMORY"} \subseteq sandboxes[id].capabilities
            /\ passed' = [id |-> id, op |-> "alloc", mask |-> {}]
         \/ /\ {"SYSCALL", "IPC"} \subseteq sandboxes[id].capabilities
            /\ passed' = [id |-> id, op |-> "ipc_send", mask |-> {}]
  PROVE  Promise!Next
PROOF
  <1>1. Promise!Use(id, "alloc") \/ Promise!Use(id, "ipc_send")
    BY DEF Promise!Use, Holds
  <1> QED BY <1>1 DEF Promise!Next, Holds

(* A sandbox acts only with capabilities it was granted since it was       *)
(* created and still has, whatever happened in its slot before.            *)
THEOREM SandboxKeepsPromise == Spec => KeepsPromise
PROOF
  <1>1. Init => Promise!Init
    BY DEF Init, Promise!Init, InUse
  <1>2. IInv /\ IInv' /\ [Next]_vars => [Promise!Next]_<<Holds, passed>>
    <2> SUFFICES ASSUME IInv, IInv', [Next]_vars
                 PROVE  Promise!Next \/ UNCHANGED <<Holds, passed>>
      OBVIOUS
    <2>1. CASE sandbox_create
      BY <2>1, CreateIsCreate
    <2>2. CASE sandbox_create_fails
      <3>1. InUse' = InUse /\ \A j \in InUse : sandboxes'[j] = sandboxes[j]
        BY <2>2, CreateFailsKeeps
      <3>2. Holds' = Holds /\ passed' = NULL
        BY <2>2, <3>1 DEF Holds, sandbox_create_fails
      <3> QED BY <3>2, RefusalIsRefuse
    <2>3. ASSUME Idle, passed' = NULL PROVE Promise!Next
      BY <2>3, IdleKeepsHolds, RefusalIsRefuse
    <2>4. CASE sandbox_limit_reached
      BY <2>3, <2>4, AnswersAreIdle
    <2>5. ASSUME NEW id \in Ids \cup BadIds, refused(id) PROVE Promise!Next
      BY <2>3, <2>5, AnswersAreIdle
    <2>6. ASSUME NEW id \in Ids, sandbox_destroy(id) PROVE Promise!Next
      BY <2>6, DestroyIsDestroy
    <2>7. ASSUME NEW id \in Ids, NEW mask \in Masks,
                 sandbox_grant_capability(id, mask) \/ sandbox_revoke_capability(id, mask)
          PROVE  Promise!Next
      BY <2>7, WriteIsGrantOrRevoke
    <2>8. ASSUME NEW id \in Ids, NEW mask \in Masks, sandbox_check_permission(id, mask)
          PROVE  Promise!Next
      <3>1. CASE passed' = NULL
        BY <2>3, <2>8, <3>1, AnswersAreIdle
      <3>2. CASE passed' # NULL
        <4>1. /\ Idle /\ id \in InUse /\ mask \subseteq sandboxes[id].capabilities
              /\ passed' = [id |-> id, op |-> "check", mask |-> mask]
          BY <2>8, <3>2, AnswersAreIdle
        <4>2. Promise!Confirm(id, mask)
          BY <4>1, IdleKeepsHolds DEF Promise!Confirm, Holds
        <4> QED BY <4>1, <4>2, SandboxAssumption DEF Promise!Next, Holds
      <3> QED BY <3>1, <3>2
    <2>9. ASSUME NEW id \in Ids, sandbox_alloc(id) PROVE Promise!Next
      <3>1. /\ sandboxes' = sandboxes /\ id \in InUse
            /\ {"MEMORY"} \subseteq sandboxes[id].capabilities
            /\ passed' = [id |-> id, op |-> "alloc", mask |-> {}]
        BY <2>9 DEF sandbox_alloc, Valid, has_caps, InUse
      <3>2. Holds' = Holds
        BY <3>1 DEF Holds, InUse
      <3> QED BY <3>1, <3>2, OperationIsUse
    <2>10. ASSUME NEW id \in Ids, sandbox_alloc_null(id) PROVE Promise!Next
      BY <2>3, <2>10, AnswersAreIdle
    <2>11. ASSUME NEW id \in Ids, NEW known \in BOOLEAN, sandbox_syscall(id, known)
           PROVE  Promise!Next
      <3>1. CASE passed' = NULL
        BY <2>3, <2>11, <3>1, AnswersAreIdle
      <3>2. CASE passed' # NULL
        BY <2>11, <3>2, AnswersAreIdle, IdleKeepsHolds, OperationIsUse
      <3> QED BY <3>1, <3>2
    <2>12. ASSUME NEW b \in Blocks, kfree(b) PROVE Promise!Next
      <3>1. Holds' = Holds /\ passed' = NULL
        BY <2>12 DEF kfree, Holds, InUse
      <3> QED BY <3>1, RefusalIsRefuse
    <2>13. CASE UNCHANGED vars
      BY <2>13 DEF vars, Holds, InUse
    <2> QED BY <2>1, <2>2, <2>4, <2>5, <2>6, <2>7, <2>8, <2>9, <2>10, <2>11,
               <2>12, <2>13 DEF Next
  <1>3. IInv /\ IInv' /\ [Next]_vars =>
          [Promise!Next]_<<[i \in InUse |-> sandboxes[i].capabilities], passed>>
    BY <1>2 DEF Holds
  <1> QED BY <1>1, <1>3, InitIsEmpty, NextKeeps, PTL
      DEF Spec, KeepsPromise, Promise!Spec
=============================================================================
