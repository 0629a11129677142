------------------------------ MODULE IpcProofs ------------------------------
(***************************************************************************)
(* Theorems about message passing (module Ipc): the intrusive list is the  *)
(* queue it is meant to be, for any number of receivers and nodes.         *)
(***************************************************************************)
EXTENDS Ipc, SequenceTheorems, TLAPS

(* Nothing is queued before ipc_init. *)
QuietBefore == ~ready => /\ \A p \in Pids : waiting[p] = <<>>
                         /\ DOMAIN message = {}

IInv == TypeOK /\ QuietBefore /\ Linked /\ NodesHaveOnePlace

LEMMA QueueTypes ==
  ASSUME TypeOK, NEW p \in Pids
  PROVE  /\ waiting[p] \in Seq(Nodes) /\ Len(waiting[p]) \in Nat
         /\ \A i \in 1..Len(waiting[p]) : waiting[p][i] \in Nodes
         /\ \A i \in Int : At(p, i) \in Cells
         /\ \A i \in 1..Len(waiting[p]) : At(p, i) = waiting[p][i]
         /\ At(p, 0) = p /\ At(p, Len(waiting[p]) + 1) = p
PROOF
  <1>1. waiting[p] \in Seq(Nodes)
    BY DEF TypeOK
  <1>2. Len(waiting[p]) \in Nat /\ \A i \in 1..Len(waiting[p]) : waiting[p][i] \in Nodes
    BY <1>1
  <1> QED BY <1>1, <1>2 DEF At, Cells

(* No cell occurs twice, in one ring or in two. *)
LEMMA CellsAreDistinct ==
  ASSUME TypeOK, NodesHaveOnePlace, NEW p \in Pids, NEW q \in Pids,
         NEW i \in 0..Len(waiting[p]), NEW j \in 0..Len(waiting[q]),
         At(p, i) = At(q, j)
  PROVE  p = q /\ i = j
PROOF
  <1>1. /\ Len(waiting[p]) \in Nat /\ Len(waiting[q]) \in Nat
        /\ \A k \in 1..Len(waiting[p]) : waiting[p][k] \in Nodes
        /\ \A k \in 1..Len(waiting[q]) : waiting[q][k] \in Nodes
    BY QueueTypes
  <1>2. /\ i = 0 => At(p, i) = p
        /\ j = 0 => At(q, j) = q
        /\ i # 0 => i \in 1..Len(waiting[p]) /\ At(p, i) = waiting[p][i]
        /\ j # 0 => j \in 1..Len(waiting[q]) /\ At(q, j) = waiting[q][j]
    BY <1>1 DEF At
  <1>3. Nodes \cap Pids = {}
    BY IpcAssumption
  <1> QED BY <1>1, <1>2, <1>3, SMTT(30) DEF NodesHaveOnePlace

(* The message queues of module Mailboxes, and their contents. *)
Box(p) == [i \in 1..Len(waiting[p]) |-> message[waiting[p][i]]]

LEMMA QueuedIsAllocated ==
  ASSUME TypeOK, NodesHaveOnePlace, NEW p \in Pids, NEW i \in 1..Len(waiting[p])
  PROVE  waiting[p][i] \in DOMAIN message
PROOF BY QueueTypes DEF NodesHaveOnePlace
-----------------------------------------------------------------------------
LEMMA InitIsQuiet == Init => IInv
PROOF
  <1> SUFFICES ASSUME Init PROVE IInv
    OBVIOUS
  <1>1. 0 \in Cells /\ next[0] = NULL
    BY IpcAssumption DEF Init, Cells, Pids
  <1>2. \A p \in Pids : waiting[p] = <<>> /\ Len(waiting[p]) = 0
    BY DEF Init
  <1>3. TypeOK
    BY DEF Init, TypeOK
  <1>4. NodesHaveOnePlace
    BY <1>2 DEF Init, NodesHaveOnePlace
  <1> QED BY <1>1, <1>2, <1>3, <1>4 DEF IInv, QuietBefore, Linked, ready, Init

LEMMA InitMakesRings ==
  ASSUME IInv, ipc_init
  PROVE  IInv'
PROOF
  <1>1. /\ ~ready /\ message' = message /\ waiting' = waiting
        /\ next' = [c \in Cells |-> IF c \in Pids THEN c ELSE next[c]]
        /\ prev' = [c \in Cells |-> IF c \in Pids THEN c ELSE prev[c]]
    BY DEF ipc_init
  <1>2. /\ Pids \subseteq Cells /\ 0 \in Pids /\ NULL \notin Cells
    BY IpcAssumption DEF Cells, Pids
  <1>3. \A p \in Pids : waiting'[p] = <<>> /\ next'[p] = p /\ prev'[p] = p
    BY <1>1, <1>2 DEF IInv, QuietBefore
  <1>4. TypeOK'
    BY <1>1, <1>2 DEF IInv, TypeOK
  <1>5. Linked'
    BY <1>3 DEF Linked, At
  <1>6. NodesHaveOnePlace'
    BY <1>1 DEF IInv, NodesHaveOnePlace
  <1>7. ready'
    BY <1>2, <1>3 DEF ready
  <1> QED BY <1>4, <1>5, <1>6, <1>7 DEF IInv, QuietBefore

LEMMA StaysReady == ASSUME IInv, ready PROVE next[0] \in Cells /\ next[0] # NULL
PROOF BY IpcAssumption, SMTT(30) DEF IInv, TypeOK, ready, Cells, Pids

(* A node is linked in behind the last one of the receiver's ring. *)
LEMMA SendKeepsRings ==
  ASSUME IInv, NEW to \in Pids, NEW type \in Types, NEW size \in Sizes,
         NEW data \in Data, ipc_send(to, type, size, data)
  PROVE  IInv'
PROOF
  <1> DEFINE m == [from_pid |-> get_current_pid, to_pid |-> to,
                   type |-> type, size |-> size, data |-> data]
             before == prev[to]
  <1>0. PICK len \in Nat : len = Len(waiting[to])
    BY QueueTypes DEF IInv
  <1> USE <1>0
  <1>1. PICK node \in Nodes \ DOMAIN message :
          /\ message' = [n \in DOMAIN message \cup {node} |->
                           IF n = node THEN m ELSE message[n]]
          /\ next' = [next EXCEPT ![node] = to, ![before] = node]
          /\ prev' = [prev EXCEPT ![to] = node, ![node] = before]
          /\ waiting' = [waiting EXCEPT ![to] = Append(@, node)]
    BY DEF ipc_send, list_add_tail
  <1>2. TypeOK /\ Linked /\ NodesHaveOnePlace /\ ready
    BY DEF IInv, ipc_send
  <1>3. /\ next \in [Cells -> Cells \cup {NULL}] /\ prev \in [Cells -> Cells \cup {NULL}]
        /\ waiting \in [Pids -> Seq(Nodes)] /\ message \in [DOMAIN message -> Messages]
        /\ DOMAIN message \subseteq Nodes
    BY <1>2 DEF TypeOK
  <1>4. /\ node \in Cells /\ to \in Cells /\ node # to /\ len \in Nat
        /\ Nodes \cap Pids = {} /\ NULL \notin Cells
    BY <1>3, IpcAssumption DEF Cells
  <1>5. \A p \in Pids : \A i \in 0..Len(waiting[p]) : At(p, i) # node
    <2> SUFFICES ASSUME NEW p \in Pids, NEW i \in 0..Len(waiting[p]) PROVE At(p, i) # node
      OBVIOUS
    <2>1. CASE i = 0
      BY <1>2, <1>4, <2>1, QueueTypes
    <2>2. CASE i \in 1..Len(waiting[p])
      BY <1>1, <1>2, <2>2, QueueTypes, QueuedIsAllocated
    <2> QED BY <1>2, <2>1, <2>2, QueueTypes
  <1>6. before = At(to, len) /\ before \in Cells /\ before # node
    <2>1. prev[At(to, len + 1)] = At(to, len)
      BY <1>2, <1>4 DEF Linked
    <2> QED BY <1>2, <1>4, <1>5, <2>1, QueueTypes
  <1>7. \A p \in Pids \ {to} : waiting'[p] = waiting[p] /\ \A i \in Int : At(p, i)' = At(p, i)
    BY <1>1, <1>3 DEF At
  <1>8. /\ Len(waiting'[to]) = len + 1 /\ waiting'[to][len + 1] = node
        /\ \A i \in 1..len : waiting'[to][i] = waiting[to][i]
        /\ waiting' \in [Pids -> Seq(Nodes)]
    BY <1>1, <1>3, <1>4
  <1>9. /\ At(to, len + 1)' = node /\ At(to, len + 2)' = to
        /\ \A i \in 0..len : At(to, i)' = At(to, i)
    BY <1>4, <1>8 DEF At
  <1>10. /\ next'[node] = to /\ next'[before] = node
         /\ prev'[to] = node /\ prev'[node] = before
         /\ \A c \in Cells : c # node /\ c # before => next'[c] = next[c]
         /\ \A c \in Cells : c # node /\ c # to => prev'[c] = prev[c]
    BY <1>1, <1>3, <1>4, <1>6
  <1>11. TypeOK'
    <2>1. m \in Messages
      BY IpcAssumption DEF Messages, get_current_pid, Pids
    <2>2. message' \in [DOMAIN message' -> Messages] /\ DOMAIN message' \subseteq Nodes
      BY <1>1, <1>3, <2>1
    <2>3. next' \in [Cells -> Cells \cup {NULL}] /\ prev' \in [Cells -> Cells \cup {NULL}]
      BY <1>1, <1>3, <1>4, <1>6
    <2> QED BY <1>8, <2>2, <2>3 DEF TypeOK
  <1>12. Linked'
    <2> SUFFICES ASSUME NEW p \in Pids, NEW i \in 0..Len(waiting'[p])
                 PROVE  /\ next'[At(p, i)'] = At(p, i + 1)'
                        /\ prev'[At(p, i + 1)'] = At(p, i)'
      BY DEF Linked, At
    <2>1. CASE p # to
      <3>1. i \in 0..Len(waiting[p]) /\ At(p, i)' = At(p, i) /\ At(p, i + 1)' = At(p, i + 1)
        BY <1>7, <2>1
      <3>2. next[At(p, i)] = At(p, i + 1) /\ prev[At(p, i + 1)] = At(p, i)
        BY <1>2, <3>1 DEF Linked
      <3>3. At(p, i) \in Cells /\ At(p, i) # node /\ At(p, i) # before
        <4>1. len \in 0..len
          BY <1>4
        <4> QED BY <1>2, <1>5, <1>6, <2>1, <3>1, <4>1, QueueTypes, CellsAreDistinct
      <3>4. At(p, i + 1) \in Cells /\ At(p, i + 1) # node /\ At(p, i + 1) # to
        <4>1. CASE i + 1 \in 0..Len(waiting[p])
          <5>1. At(p, i + 1) # node
            BY <1>5, <4>1
          <5>2. At(p, i + 1) # At(to, 0)
            BY <1>2, <1>4, <2>1, <4>1, CellsAreDistinct
          <5> QED BY <1>2, <3>1, <5>1, <5>2, QueueTypes
        <4>2. CASE i + 1 = Len(waiting[p]) + 1
          BY <1>2, <1>4, <2>1, <4>2, QueueTypes
        <4> QED BY <1>2, <3>1, <4>1, <4>2, QueueTypes
      <3> QED BY <1>10, <3>1, <3>2, <3>3, <3>4
    <2>2. CASE p = to /\ i < len
      <3>1. i \in 0..len /\ i + 1 \in 0..len
        BY <1>4, <2>2
      <3>2. next[At(to, i)] = At(to, i + 1) /\ prev[At(to, i + 1)] = At(to, i)
        BY <1>2, <3>1 DEF Linked
      <3>3. At(to, i) # node /\ At(to, i) # before /\ At(to, i) \in Cells
        BY <1>2, <1>4, <1>5, <1>6, <2>2, <3>1, CellsAreDistinct, QueueTypes
      <3>4. At(to, i + 1) # node /\ At(to, i + 1) # to /\ At(to, i + 1) \in Cells
        <4>1. At(to, i + 1) # At(to, 0)
          BY <1>2, <1>4, <3>1, CellsAreDistinct
        <4> QED BY <1>2, <1>5, <3>1, <4>1, QueueTypes
      <3> QED BY <1>9, <1>10, <2>2, <3>1, <3>2, <3>3, <3>4
    <2>3. CASE p = to /\ i = len
      BY <1>4, <1>6, <1>9, <1>10, <2>3
    <2>4. CASE p = to /\ i = len + 1
      BY <1>4, <1>9, <1>10, <2>4
    <2> QED BY <1>4, <1>8, <2>1, <2>2, <2>3, <2>4
  <1>13. NodesHaveOnePlace'
    <2>1. \A p, q \in Pids : \A i \in 1..Len(waiting[p]), j \in 1..Len(waiting[q]) :
            waiting[p][i] = waiting[q][j] => p = q /\ i = j
      BY <1>2 DEF NodesHaveOnePlace
    <2>2. \A p \in Pids : \A i \in 1..Len(waiting[p]) : waiting[p][i] # node
      BY <1>1, <1>2, QueuedIsAllocated
    <2>3. \A p, q \in Pids : \A i \in 1..Len(waiting'[p]), j \in 1..Len(waiting'[q]) :
            waiting'[p][i] = waiting'[q][j] => p = q /\ i = j
      <3>1. ASSUME NEW p \in Pids, NEW i \in 1..Len(waiting'[p])
            PROVE  \/ i \in 1..Len(waiting[p]) /\ waiting'[p][i] = waiting[p][i]
                   \/ p = to /\ i = len + 1 /\ waiting'[p][i] = node
        BY <1>7, <1>8
      <3> QED BY <2>1, <2>2, <3>1, SMTT(30)
    <2>4. DOMAIN message =
            {n \in Nodes : \E p \in Pids : \E i \in 1..Len(waiting[p]) : waiting[p][i] = n}
      BY <1>2 DEF NodesHaveOnePlace
    <2>5. DOMAIN message' = DOMAIN message \cup {node}
      BY <1>1
    <2>6. DOMAIN message' =
            {n \in Nodes : \E p \in Pids : \E i \in 1..Len(waiting'[p]) : waiting'[p][i] = n}
      <3>1. ASSUME NEW n \in DOMAIN message'
            PROVE  \E p \in Pids : \E i \in 1..Len(waiting'[p]) : waiting'[p][i] = n
        <4>1. CASE n = node
          BY <1>4, <1>8, <4>1
        <4>2. CASE n # node
          <5>1. PICK p \in Pids : \E i \in 1..Len(waiting[p]) : waiting[p][i] = n
            BY <2>4, <2>5, <4>2
          <5>2. PICK i \in 1..Len(waiting[p]) : waiting[p][i] = n
            BY <5>1
          <5>3. i \in 1..Len(waiting'[p]) /\ waiting'[p][i] = n
            BY <1>4, <1>7, <1>8, <5>2
          <5> QED BY <5>3
        <4> QED BY <4>1, <4>2
      <3>2. ASSUME NEW p \in Pids, NEW i \in 1..Len(waiting'[p])
            PROVE  waiting'[p][i] \in DOMAIN message'
        <4>1. CASE p # to \/ i <= len
          <5>1. i \in 1..Len(waiting[p]) /\ waiting'[p][i] = waiting[p][i]
            BY <1>7, <1>8, <4>1
          <5> QED BY <1>2, <2>5, <5>1, QueuedIsAllocated
        <4>2. CASE p = to /\ i = len + 1
          BY <1>8, <2>5, <4>2
        <4> QED BY <1>4, <1>8, <4>1, <4>2
      <3> QED BY <1>3, <2>5, <3>1, <3>2
    <2> QED BY <2>3, <2>6 DEF NodesHaveOnePlace
  <1>14. QuietBefore'
    <2>1. next[0] # NULL /\ 0 \in Cells
      BY <1>2, IpcAssumption DEF ready, Cells, Pids
    <2>2. next'[0] # NULL
      BY <1>4, <1>10, <2>1
    <2> QED BY <2>2 DEF QuietBefore, ready
  <1> QED BY <1>11, <1>12, <1>13, <1>14 DEF IInv

(* What ipc_receive and ipc_process_messages do to the lists. *)
Unlink(node) ==
  /\ ready /\ ~list_empty(0) /\ node = next[0]
  /\ list_del(node) /\ kfree(node)
  /\ waiting' = [waiting EXCEPT ![0] = Tail(@)]

(* The node they unlink is the oldest of the running process. *)
LEMMA FirstIsOldest ==
  ASSUME IInv, NEW node, Unlink(node)
  PROVE  /\ 0 \in Pids /\ waiting[0] # <<>> /\ Len(waiting[0]) >= 1
         /\ node = waiting[0][1] /\ node \in DOMAIN message
         /\ prev[node] = 0 /\ next[node] = At(0, 2) /\ prev[At(0, 2)] = node
PROOF
  <1>1. TypeOK /\ Linked /\ NodesHaveOnePlace /\ ready /\ 0 \in Pids
    BY IpcAssumption DEF IInv, Unlink, Pids
  <1>2. next[0] # 0 /\ node = next[0]
    BY DEF Unlink, list_empty
  <1>3. Len(waiting[0]) \in Nat /\ At(0, 0) = 0
    BY <1>1, QueueTypes
  <1>4. next[0] = At(0, 1) /\ prev[At(0, 1)] = 0
    BY <1>1, <1>3 DEF Linked
  <1>5. Len(waiting[0]) >= 1
    BY <1>2, <1>3, <1>4 DEF At
  <1>6. node = waiting[0][1]
    BY <1>2, <1>3, <1>4, <1>5 DEF At
  <1>7. next[At(0, 1)] = At(0, 2) /\ prev[At(0, 2)] = At(0, 1)
    <2>1. 1 \in 0..Len(waiting[0]) /\ 1 + 1 = 2
      BY <1>3, <1>5
    <2> QED BY <1>1, <2>1 DEF Linked
  <1>8. node \in DOMAIN message
    BY <1>1, <1>3, <1>5, <1>6, QueuedIsAllocated
  <1> QED BY <1>1, <1>2, <1>3, <1>4, <1>5, <1>6, <1>7, <1>8

LEMMA UnlinkKeepsRings ==
  ASSUME IInv, NEW node, Unlink(node)
  PROVE  IInv'
PROOF
  <1>1. TypeOK /\ Linked /\ NodesHaveOnePlace /\ ready /\ 0 \in Pids
    BY FirstIsOldest DEF IInv, Unlink
  <1>2. /\ next \in [Cells -> Cells \cup {NULL}] /\ prev \in [Cells -> Cells \cup {NULL}]
        /\ waiting \in [Pids -> Seq(Nodes)] /\ message \in [DOMAIN message -> Messages]
        /\ DOMAIN message \subseteq Nodes
    BY <1>1 DEF TypeOK
  <1>3. PICK len \in Nat : len = Len(waiting[0])
    BY <1>1, QueueTypes
  <1>4. PICK second \in Cells : second = At(0, 2)
    BY <1>1, QueueTypes
  <1>5. /\ len >= 1 /\ node = waiting[0][1] /\ node \in DOMAIN message
        /\ prev[node] = 0 /\ next[node] = second /\ prev[second] = node
    BY <1>3, <1>4, FirstIsOldest
  <1>6. /\ node \in Cells /\ 0 \in Cells /\ node # 0 /\ Nodes \cap Pids = {}
        /\ NULL \notin Cells /\ At(0, 1) = node /\ At(0, 0) = 0
    BY <1>1, <1>2, <1>3, <1>5, IpcAssumption, QueueTypes DEF Cells
  <1>7. second # node
    <2>1. CASE len = 1
      <3>1. At(0, 2) = 0
        BY <1>3, <2>1 DEF At
      <3> QED BY <1>4, <1>6, <3>1
    <2>2. CASE len > 1
      <3>1. 1 \in 0..Len(waiting[0]) /\ 2 \in 0..Len(waiting[0])
        BY <1>3, <2>2
      <3>2. At(0, 1) # At(0, 2)
        BY <1>1, <3>1, CellsAreDistinct
      <3> QED BY <1>4, <1>6, <3>2
    <2> QED BY <1>5, <2>1, <2>2
  <1>8. /\ next' = [next EXCEPT ![0] = second, ![node] = NULL]
        /\ prev' = [prev EXCEPT ![second] = 0, ![node] = NULL]
        /\ message' = [n \in DOMAIN message \ {node} |-> message[n]]
        /\ waiting' = [waiting EXCEPT ![0] = Tail(@)]
    BY <1>5 DEF Unlink, list_del, kfree
  <1>9. /\ next'[0] = second /\ prev'[second] = 0
        /\ \A c \in Cells : c # node /\ c # 0 => next'[c] = next[c]
        /\ \A c \in Cells : c # node /\ c # second => prev'[c] = prev[c]
    BY <1>2, <1>6, <1>7, <1>8
  <1>10. \A p \in Pids \ {0} : waiting'[p] = waiting[p] /\ \A i \in Int : At(p, i)' = At(p, i)
    BY <1>2, <1>8 DEF At
  <1>11. /\ Len(waiting'[0]) = len - 1 /\ waiting' \in [Pids -> Seq(Nodes)]
         /\ \A i \in 1..(len - 1) : waiting'[0][i] = waiting[0][i + 1]
    <2>1. waiting[0] \in Seq(Nodes) /\ waiting[0] # <<>>
      BY <1>1, <1>2, <1>3, <1>5
    <2>2. waiting'[0] = Tail(waiting[0])
      BY <1>1, <1>2, <1>8
    <2>3. Tail(waiting[0]) \in Seq(Nodes)
      BY <2>1
    <2>4. waiting' \in [Pids -> Seq(Nodes)]
      BY <1>2, <1>8, <2>3
    <2> QED BY <1>3, <2>1, <2>2, <2>4
  <1>12. At(0, 0)' = 0 /\ \A i \in 1..len : At(0, i)' = At(0, i + 1)
    BY <1>3, <1>11 DEF At
  <1>13. TypeOK'
    <2>1. message' \in [DOMAIN message' -> Messages] /\ DOMAIN message' \subseteq Nodes
      BY <1>2, <1>8
    <2>2. next' \in [Cells -> Cells \cup {NULL}] /\ prev' \in [Cells -> Cells \cup {NULL}]
      BY <1>2, <1>6, <1>8
    <2> QED BY <1>11, <2>1, <2>2 DEF TypeOK
  <1>14. Linked'
    <2> SUFFICES ASSUME NEW p \in Pids, NEW i \in 0..Len(waiting'[p])
                 PROVE  /\ next'[At(p, i)'] = At(p, i + 1)'
                        /\ prev'[At(p, i + 1)'] = At(p, i)'
      BY DEF Linked, At
    <2>1. CASE p # 0
      <3>1. i \in 0..Len(waiting[p]) /\ At(p, i)' = At(p, i) /\ At(p, i + 1)' = At(p, i + 1)
        BY <1>10, <2>1
      <3>2. next[At(p, i)] = At(p, i + 1) /\ prev[At(p, i + 1)] = At(p, i)
        BY <1>1, <3>1 DEF Linked
      <3>3. At(p, i) \in Cells /\ At(p, i) # node /\ At(p, i) # 0
        BY <1>1, <1>3, <1>5, <1>6, <2>1, <3>1, QueueTypes, CellsAreDistinct
      <3>4. At(p, i + 1) \in Cells /\ At(p, i + 1) # node /\ At(p, i + 1) # second
        <4>1. At(p, i + 1) # node
          <5>1. CASE i + 1 \in 0..Len(waiting[p])
            BY <1>1, <1>3, <1>5, <1>6, <2>1, <5>1, CellsAreDistinct
          <5>2. CASE i + 1 = Len(waiting[p]) + 1
            BY <1>1, <1>2, <1>5, <1>6, <5>2, QueueTypes
          <5> QED BY <1>1, <3>1, <5>1, <5>2, QueueTypes
        <4>2. At(p, i + 1) # second
          BY <1>5, <2>1, <3>2, <3>3
        <4> QED BY <1>1, <3>1, <4>1, <4>2, QueueTypes
      <3> QED BY <1>9, <3>1, <3>2, <3>3, <3>4
    <2>2. CASE p = 0 /\ i = 0
      <3>1. At(0, 1)' = second
        BY <1>4, <1>5, <1>12
      <3> QED BY <1>9, <1>12, <2>2, <3>1
    <2>3. CASE p = 0 /\ i # 0
      <3>1. /\ i \in 1..(len - 1) /\ i + 1 \in 1..len /\ i + 1 \in 0..len
            /\ i + 1 # 1
        BY <1>3, <1>11, <2>3
      <3>2. At(0, i)' = At(0, i + 1) /\ At(0, i + 1)' = At(0, i + 2)
        BY <1>12, <3>1
      <3>3. next[At(0, i + 1)] = At(0, i + 2) /\ prev[At(0, i + 2)] = At(0, i + 1)
        BY <1>1, <1>3, <3>1 DEF Linked
      <3>4. At(0, i + 1) \in Cells /\ At(0, i + 1) # node /\ At(0, i + 1) # 0
        BY <1>1, <1>3, <1>5, <1>6, <3>1, QueueTypes, CellsAreDistinct
      <3>5. At(0, i + 2) \in Cells /\ At(0, i + 2) # node /\ At(0, i + 2) # second
        <4>1. At(0, i + 2) # second
          BY <1>5, <3>3, <3>4
        <4>2. At(0, i + 2) # node
          <5>1. CASE i + 2 \in 0..len
            <6>1. i + 2 # 1
              BY <3>1
            <6> QED BY <1>1, <1>3, <1>5, <1>6, <5>1, <6>1, CellsAreDistinct
          <5>2. CASE i + 2 = len + 1
            BY <1>1, <1>3, <1>6, <5>2, QueueTypes
          <5> QED BY <3>1, <5>1, <5>2
        <4> QED BY <1>1, <3>1, <4>1, <4>2, QueueTypes
      <3> QED BY <1>9, <2>3, <3>2, <3>3, <3>4, <3>5
    <2> QED BY <2>1, <2>2, <2>3
  <1>15. NodesHaveOnePlace'
    <2>1. \A p, q \in Pids : \A i \in 1..Len(waiting[p]), j \in 1..Len(waiting[q]) :
            waiting[p][i] = waiting[q][j] => p = q /\ i = j
      BY <1>1 DEF NodesHaveOnePlace
    <2>2. DOMAIN message =
            {n \in Nodes : \E p \in Pids : \E i \in 1..Len(waiting[p]) : waiting[p][i] = n}
      BY <1>1 DEF NodesHaveOnePlace
    <2>3. ASSUME NEW p \in Pids, NEW i \in 1..Len(waiting'[p])
          PROVE  \/ p # 0 /\ i \in 1..Len(waiting[p]) /\ waiting'[p][i] = waiting[p][i]
                 \/ p = 0 /\ i + 1 \in 2..len /\ waiting'[p][i] = waiting[p][i + 1]
      BY <1>3, <1>10, <1>11
    <2>4. ASSUME NEW p \in Pids, NEW q \in Pids, NEW i \in 1..Len(waiting'[p]),
                 NEW j \in 1..Len(waiting'[q]), waiting'[p][i] = waiting'[q][j]
          PROVE  p = q /\ i = j
      <3>1. i \in Int /\ j \in Int /\ \A k \in 2..len : k \in 1..Len(waiting[0])
        BY <1>3
      <3>2. CASE p = 0 /\ q = 0
        <4>1. /\ i + 1 \in 2..len /\ waiting'[p][i] = waiting[p][i + 1]
              /\ j + 1 \in 2..len /\ waiting'[q][j] = waiting[q][j + 1]
          BY <2>3, <3>2
        <4>2. i + 1 = j + 1
          BY <2>1, <2>4, <3>1, <3>2, <4>1
        <4> QED BY <3>1, <3>2, <4>2
      <3>3. CASE p # 0 \/ q # 0
        BY <2>1, <2>3, <2>4, <3>1, <3>3
      <3> QED BY <3>2, <3>3
    <2>5. ASSUME NEW n \in Nodes
          PROVE  n \in DOMAIN message' <=>
                   \E p \in Pids : \E i \in 1..Len(waiting'[p]) : waiting'[p][i] = n
      <3>1. ASSUME n \in DOMAIN message'
            PROVE  \E p \in Pids : \E i \in 1..Len(waiting'[p]) : waiting'[p][i] = n
        <4>1. n \in DOMAIN message /\ n # node
          BY <1>8, <3>1
        <4>2. PICK p \in Pids : \E i \in 1..Len(waiting[p]) : waiting[p][i] = n
          BY <2>2, <4>1
        <4>3. PICK i \in 1..Len(waiting[p]) : waiting[p][i] = n
          BY <4>2
        <4>4. CASE p = 0
          <5>1. i # 1 /\ i \in 1..len
            BY <1>3, <1>5, <4>1, <4>3, <4>4
          <5>2. i - 1 \in 1..(len - 1) /\ (i - 1) + 1 = i
            BY <5>1
          <5> QED BY <1>11, <4>3, <4>4, <5>2
        <4>5. CASE p # 0
          BY <1>10, <4>3, <4>5
        <4> QED BY <4>4, <4>5
      <3>2. ASSUME NEW p \in Pids, NEW i \in 1..Len(waiting'[p]), waiting'[p][i] = n
            PROVE  n \in DOMAIN message'
        <4>1. PICK k \in 1..Len(waiting[p]) : waiting[p][k] = n /\ (p = 0 => k # 1)
          <5>1. CASE p = 0
            <6>1. i + 1 \in 1..Len(waiting[p]) /\ waiting[p][i + 1] = n /\ i + 1 # 1
              BY <1>3, <2>3, <3>2, <5>1
            <6> QED BY <6>1
          <5>2. CASE p # 0
            BY <2>3, <3>2, <5>2
          <5> QED BY <5>1, <5>2
        <4>2. n # node
          BY <1>1, <1>3, <1>5, <2>1, <4>1
        <4> QED BY <1>1, <1>8, <4>1, <4>2, QueuedIsAllocated
      <3> QED BY <3>1, <3>2
    <2>6. DOMAIN message' \subseteq Nodes
      BY <1>2, <1>8
    <2>7. DOMAIN message' =
            {n \in Nodes : \E p \in Pids : \E i \in 1..Len(waiting'[p]) : waiting'[p][i] = n}
      BY <2>5, <2>6
    <2> QED BY <2>4, <2>7 DEF NodesHaveOnePlace
  <1>16. QuietBefore'
    BY <1>6, <1>9 DEF QuietBefore, ready
  <1> QED BY <1>13, <1>14, <1>15, <1>16 DEF IInv

LEMMA NextKeepsRings == IInv /\ [Next]_vars => IInv'
PROOF
  <1> SUFFICES ASSUME IInv, [Next]_vars PROVE IInv'
    OBVIOUS
  <1>1. CASE ipc_init
    BY <1>1, InitMakesRings
  <1>2. ASSUME NEW to \in Pids, NEW type \in Types, NEW size \in Sizes, NEW data \in Data,
               ipc_send(to, type, size, data)
        PROVE  IInv'
    BY <1>2, SendKeepsRings
  <1>3. ASSUME UNCHANGED <<next, prev, message, waiting>> PROVE IInv'
    <2>0. next' = next /\ prev' = prev /\ message' = message /\ waiting' = waiting
      BY <1>3
    <2>1. TypeOK' /\ QuietBefore' /\ NodesHaveOnePlace'
      <3>1. TypeOK'
        BY <2>0 DEF IInv, TypeOK
      <3>2. QuietBefore'
        BY <2>0 DEF IInv, QuietBefore, ready
      <3>3. NodesHaveOnePlace'
        BY <2>0 DEF IInv, NodesHaveOnePlace
      <3> QED BY <3>1, <3>2, <3>3
    <2>2. \A p \in Pids : \A i \in Int : At(p, i)' = At(p, i)
      BY <1>3 DEF At
    <2>3. \A p \in Pids : Len(waiting[p]) \in Nat
      BY QueueTypes DEF IInv
    <2>4. Linked'
      BY <1>3, <2>2, <2>3 DEF IInv, Linked, ready
    <2> QED BY <2>1, <2>4 DEF IInv
  <1>4. ASSUME NEW to \in Pids \cup Strangers, ipc_send_fails(to) PROVE IInv'
    BY <1>3, <1>4 DEF ipc_send_fails
  <1>5. ASSUME NEW size \in Sizes, ipc_receive(size) PROVE IInv'
    BY <1>5, UnlinkKeepsRings DEF ipc_receive, Unlink, get_current_pid
  <1>6. CASE ipc_receive_empty
    BY <1>3, <1>6 DEF ipc_receive_empty
  <1>7. CASE ipc_process_messages
    BY <1>7, UnlinkKeepsRings DEF ipc_process_messages, Unlink, get_current_pid
  <1>8. CASE UNCHANGED vars
    BY <1>3, <1>8 DEF vars
  <1> QED BY <1>1, <1>2, <1>4, <1>5, <1>6, <1>7, <1>8 DEF Next

(* Links and messages keep their types. *)
THEOREM TypeCorrect == Spec => []TypeOK
PROOF
  <1>1. IInv => TypeOK
    BY DEF IInv
  <1> QED BY <1>1, InitIsQuiet, NextKeepsRings, PTL DEF Spec

(* The four stores of every insertion and removal keep each receiver's     *)
(* list one ring, in order of arrival, readable in both directions.        *)
THEOREM ListsStayRings == Spec => []Linked
PROOF
  <1>1. IInv => Linked
    BY DEF IInv
  <1> QED BY <1>1, InitIsQuiet, NextKeepsRings, PTL DEF Spec

(* Every allocated node is in exactly one place: no leak, no node freed    *)
(* while it is still linked, none linked twice.                            *)
THEOREM NodesStayInOnePlace == Spec => []NodesHaveOnePlace
PROOF
  <1>1. IInv => NodesHaveOnePlace
    BY DEF IInv
  <1> QED BY <1>1, InitIsQuiet, NextKeepsRings, PTL DEF Spec
-----------------------------------------------------------------------------
(* The lists as mailboxes. *)
LEMMA BoxesAre ==
  ASSUME TypeOK, NodesHaveOnePlace, NEW p \in Pids
  PROVE  /\ Len(waiting[p]) \in Nat
         /\ Box(p) \in Seq(Messages) /\ Len(Box(p)) = Len(waiting[p])
         /\ \A i \in 1..Len(waiting[p]) : Box(p)[i] = message[waiting[p][i]]
PROOF
  <1>1. Len(waiting[p]) \in Nat
    BY QueueTypes
  <1>2. \A i \in 1..Len(waiting[p]) : message[waiting[p][i]] \in Messages
    BY QueuedIsAllocated DEF TypeOK
  <1> QED BY <1>1, <1>2 DEF Box

LEMMA SendIsPut ==
  ASSUME IInv, IInv', NEW to \in Pids, NEW type \in Types, NEW size \in Sizes,
         NEW data \in Data, ipc_send(to, type, size, data)
  PROVE  Promise!Next
PROOF
  <1> DEFINE m == [from_pid |-> get_current_pid, to_pid |-> to,
                   type |-> type, size |-> size, data |-> data]
  <1>1. PICK node \in Nodes \ DOMAIN message :
          /\ message' = [n \in DOMAIN message \cup {node} |->
                           IF n = node THEN m ELSE message[n]]
          /\ waiting' = [waiting EXCEPT ![to] = Append(@, node)]
          /\ result' = NULL
    BY DEF ipc_send
  <1>2. TypeOK /\ NodesHaveOnePlace /\ waiting \in [Pids -> Seq(Nodes)]
    BY DEF IInv, TypeOK
  <1>3. m \in Messages
    BY IpcAssumption DEF Messages, get_current_pid, Pids
  <1>4. \A p \in Pids : \A i \in 1..Len(waiting[p]) : waiting[p][i] \in DOMAIN message
    BY <1>2, QueuedIsAllocated
  <1>5. \A p \in Pids \ {to} : Box(p)' = Box(p)
    BY <1>1, <1>2, <1>4 DEF Box
  <1>6. Box(to)' = Append(Box(to), m)
    <2>1. PICK len \in Nat : len = Len(waiting[to])
      BY <1>2, QueueTypes
    <2>2. /\ Len(waiting'[to]) = len + 1 /\ waiting'[to][len + 1] = node
          /\ \A i \in 1..len : waiting'[to][i] = waiting[to][i]
      BY <1>1, <1>2, <2>1
    <2>3. /\ message'[node] = m
          /\ \A i \in 1..len : message'[waiting'[to][i]] = message[waiting[to][i]]
      BY <1>1, <1>4, <2>1, <2>2
    <2>4. Box(to)' = [i \in 1..(len + 1) |-> message'[waiting'[to][i]]]
      BY <2>2 DEF Box
    <2>5. Box(to) \in Seq(Messages) /\ Len(Box(to)) = len
          /\ \A i \in 1..len : Box(to)[i] = message[waiting[to][i]]
      BY <1>2, <2>1, BoxesAre
    <2>6. Append(Box(to), m) = [i \in 1..(len + 1) |-> IF i = len + 1 THEN m ELSE Box(to)[i]]
      BY <1>3, <2>5
    <2> QED BY <2>2, <2>3, <2>4, <2>5, <2>6, SMTT(30)
  <1>7. [p \in Pids |-> Box(p)]' = [[p \in Pids |-> Box(p)] EXCEPT ![to] = Append(@, m)]
    BY <1>5, <1>6
  <1>8. Promise!Put(to, m)
    BY <1>1, <1>7 DEF Promise!Put, Box
  <1> QED BY <1>3, <1>8 DEF Promise!Next

LEMMA UnlinkIsTail ==
  ASSUME IInv, NEW node, Unlink(node)
  PROVE  /\ Box(0) # <<>> /\ Head(Box(0)) = message[node]
         /\ [p \in Pids |-> Box(p)]' = [[p \in Pids |-> Box(p)] EXCEPT ![0] = Tail(@)]
PROOF
  <1>1. /\ 0 \in Pids /\ waiting[0] # <<>> /\ node = waiting[0][1]
    BY FirstIsOldest
  <1>2. TypeOK /\ NodesHaveOnePlace /\ waiting \in [Pids -> Seq(Nodes)]
    BY DEF IInv, TypeOK
  <1>3. PICK len \in Nat : len = Len(waiting[0]) /\ len >= 1
    BY <1>1, <1>2, QueueTypes, FirstIsOldest
  <1>4. /\ Box(0) \in Seq(Messages) /\ Len(Box(0)) = len
        /\ \A i \in 1..len : Box(0)[i] = message[waiting[0][i]]
    BY <1>1, <1>2, <1>3, BoxesAre
  <1>5. Box(0) # <<>> /\ Head(Box(0)) = message[node]
    BY <1>1, <1>3, <1>4
  <1>6. /\ message' = [n \in DOMAIN message \ {node} |-> message[n]]
        /\ waiting' = [waiting EXCEPT ![0] = Tail(@)]
    BY DEF Unlink, kfree
  <1>7. \A p \in Pids : \A i \in 1..Len(waiting[p]) :
          /\ waiting[p][i] \in DOMAIN message
          /\ waiting[p][i] = node => p = 0 /\ i = 1
    <2>1. 1 \in 1..Len(waiting[0])
      BY <1>3
    <2> QED BY <1>1, <1>2, <2>1, QueuedIsAllocated DEF NodesHaveOnePlace
  <1>8. \A p \in Pids \ {0} : Box(p)' = Box(p)
    BY <1>2, <1>6, <1>7 DEF Box
  <1>9. Box(0)' = Tail(Box(0))
    <2>1. /\ Len(waiting'[0]) = len - 1
          /\ \A i \in 1..(len - 1) : waiting'[0][i] = waiting[0][i + 1]
      BY <1>1, <1>2, <1>3, <1>6
    <2>2. \A i \in 1..(len - 1) : /\ i + 1 \in 1..len /\ i + 1 # 1
      BY <1>3
    <2>3. \A i \in 1..(len - 1) : message'[waiting'[0][i]] = Box(0)[i + 1]
      BY <1>1, <1>3, <1>4, <1>6, <1>7, <2>1, <2>2
    <2>4. /\ Box(0)' = [i \in 1..(len - 1) |-> message'[waiting'[0][i]]]
          /\ \A i \in 1..(len - 1) : Box(0)[i + 1] \in Messages
      BY <1>4, <2>1, <2>2 DEF Box
    <2>5. PICK box : box = Box(0)'
      OBVIOUS
    <2>6. /\ box \in Seq(Messages) /\ Len(box) = len - 1
          /\ \A i \in 1..(len - 1) : box[i] = Box(0)[i + 1]
      BY <1>3, <2>3, <2>4, <2>5, SMTT(30)
    <2>7. /\ Tail(Box(0)) \in Seq(Messages) /\ Len(Tail(Box(0))) = len - 1
          /\ \A i \in 1..(len - 1) : Tail(Box(0))[i] = Box(0)[i + 1]
      BY <1>4, <1>5
    <2> QED BY <2>5, <2>6, <2>7, SeqEqual
  <1> QED BY <1>1, <1>5, <1>8, <1>9

(* Message passing hands over every message once, oldest first, no more of *)
(* it than there is room for, for any number of receivers and nodes.       *)
THEOREM IpcKeepsPromise == Spec => KeepsPromise
PROOF
  <1>1. Init => Promise!Init
    BY DEF Init, Promise!Init
  <1>2. IInv /\ IInv' /\ [Next]_vars =>
          [Promise!Next]_<<[p \in Pids |-> Box(p)], result>>
    <2> SUFFICES ASSUME IInv, IInv', [Next]_vars
                 PROVE  Promise!Next \/ UNCHANGED <<[p \in Pids |-> Box(p)], result>>
      OBVIOUS
    <2>1. CASE ipc_init
      BY <2>1 DEF ipc_init, Box
    <2>2. ASSUME NEW to \in Pids, NEW type \in Types, NEW size \in Sizes, NEW data \in Data,
                 ipc_send(to, type, size, data)
          PROVE  Promise!Next
      BY <2>2, SendIsPut
    <2>3. ASSUME result' = NULL, UNCHANGED <<message, waiting>> PROVE Promise!Next
      BY <2>3 DEF Promise!Next, Promise!Idle
    <2>4. ASSUME NEW to \in Pids \cup Strangers, ipc_send_fails(to) PROVE Promise!Next
      BY <2>3, <2>4 DEF ipc_send_fails
    <2>5. ASSUME NEW size \in Sizes, ipc_receive(size) PROVE Promise!Next
      <3>1. Unlink(next[0])
        BY <2>5 DEF ipc_receive, Unlink, get_current_pid
      <3>2. result' = [msg |-> message[next[0]],
                       bytes |-> IF size < message[next[0]].size THEN size
                                 ELSE message[next[0]].size]
        BY <2>5 DEF ipc_receive, get_current_pid, copy_size
      <3>3. Promise!Take(0, size)
        BY <3>1, <3>2, FirstIsOldest, UnlinkIsTail DEF Promise!Take, Box
      <3> QED BY <3>1, <3>3, FirstIsOldest DEF Promise!Next
    <2>6. CASE ipc_receive_empty
      BY <2>3, <2>6 DEF ipc_receive_empty
    <2>7. CASE ipc_process_messages
      <3> DEFINE m == message[next[0]]
      <3>1. Unlink(next[0])
        BY <2>7 DEF ipc_process_messages, Unlink, get_current_pid
      <3>2. result' = [msg |-> m, bytes |-> m.size]
        BY <2>7 DEF ipc_process_messages, get_current_pid
      <3>3. m \in Messages /\ m.size \in Sizes /\ m.size \in Nat
        BY <3>1, FirstIsOldest, IpcAssumption, SMTT(30) DEF IInv, TypeOK, Messages
      <3>4. PICK room \in Sizes : room = m.size
        BY <3>3
      <3>5. 0 \in Pids /\ Promise!Take(0, room)
        BY <3>1, <3>2, <3>3, <3>4, FirstIsOldest, UnlinkIsTail DEF Promise!Take, Box
      <3>6. Promise!Next
        BY <3>4, <3>5 DEF Promise!Next
      <3> QED BY <3>6
    <2>8. CASE UNCHANGED vars
      BY <2>8 DEF vars, Box
    <2> QED BY <2>1, <2>2, <2>4, <2>5, <2>6, <2>7, <2>8 DEF Next
  <1>3. IInv /\ IInv' /\ [Next]_vars =>
          [Promise!Next]_<<[p \in Pids |-> [i \in 1..Len(waiting[p]) |->
                                              message[waiting[p][i]]]], result>>
    BY <1>2 DEF Box
  <1> QED BY <1>1, <1>3, InitIsQuiet, NextKeepsRings, PTL
      DEF Spec, KeepsPromise, Promise!Spec
=============================================================================
