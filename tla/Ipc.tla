--------------------------------- MODULE Ipc ---------------------------------
(***************************************************************************)
(* Message passing, kernel/src/ipc/ipc.c over include/kernel/list.h: one   *)
(* circular doubly linked list per receiver, its head in message_queues,   *)
(* its nodes from kmalloc.  The pointers are modelled as they are written, *)
(* one list operation after the other; waiting, the order in which the     *)
(* nodes are meant to be linked, is an auxiliary variable that no guard    *)
(* and no other update reads.                                              *)
(***************************************************************************)
EXTENDS Integers, Sequences

CONSTANTS NPIDS,     \* length of message_queues: 32
          Nodes,     \* the blocks kmalloc may return for a node
          NULL,
          Strangers, \* receivers callers may name that have no queue
          Types, Data, Sizes  \* what callers send; Sizes also is their room

Pids  == 0..(NPIDS - 1)
Cells == Pids \cup Nodes   \* the head of queue p is written p

ASSUME IpcAssumption ==
  /\ NPIDS \in Nat \ {0}
  /\ Nodes \cap Pids = {} /\ NULL \notin Cells
  /\ Strangers \cap Pids = {} /\ Sizes \subseteq Nat

VARIABLES next, prev, \* the fields of every struct list_head
          message,    \* node |-> its ipc_message_t, for the allocated nodes
          result,     \* what the last call handed its caller
          waiting     \* auxiliary: waiting[p], the nodes queued for p

vars == <<next, prev, message, result, waiting>>

Messages == [from_pid : Pids, to_pid : Pids, type : Types, size : Sizes, data : Data]

(* There is one process: the stub in ipc.h. *)
get_current_pid == 0
-----------------------------------------------------------------------------
(* list.h, each operation as its sequence of stores. *)
list_empty(head) == next[head] = head

list_add_tail(new, head) ==
  LET before == prev[head]
  IN  /\ next' = [next EXCEPT ![new] = head, ![before] = new]
      /\ prev' = [prev EXCEPT ![head] = new, ![new] = before]

list_del_WithoutBack(entry) ==
  /\ next' = [next EXCEPT ![prev[entry]] = next[entry], ![entry] = NULL]
  /\ prev' = [prev EXCEPT ![entry] = NULL]
list_del(entry) ==
  /\ next' = [next EXCEPT ![prev[entry]] = next[entry], ![entry] = NULL]
  /\ prev' = [prev EXCEPT ![next[entry]] = prev[entry], ![entry] = NULL]
-----------------------------------------------------------------------------
(* message_queues is zeroed memory, and the nodes anything, to begin with. *)
Init ==
  /\ next = [c \in Cells |-> NULL] /\ prev = [c \in Cells |-> NULL]
  /\ message = [n \in {} |-> NULL]
  /\ result = NULL
  /\ waiting = [p \in Pids |-> <<>>]

(* kernel_main calls it once, before anything can be sent. *)
ready == next[0] # NULL
ipc_init_OneTooMany ==
  /\ ~ready
  /\ next' = [c \in Cells \cup {NPIDS} |-> IF c \in Pids THEN c ELSE NULL]
  /\ prev' = [c \in Cells \cup {NPIDS} |-> IF c \in Pids THEN c ELSE NULL]
  /\ UNCHANGED <<message, result, waiting>>
ipc_init ==
  /\ ~ready
  /\ next' = [c \in Cells |-> IF c \in Pids THEN c ELSE next[c]]
  /\ prev' = [c \in Cells |-> IF c \in Pids THEN c ELSE prev[c]]
  /\ UNCHANGED <<message, result, waiting>>

ipc_send(to, type, size, data) ==
  /\ ready /\ to \in Pids
  /\ \E node \in Nodes \ DOMAIN message :
       /\ message' = [n \in DOMAIN message \cup {node} |->
                        IF n = node
                        THEN [from_pid |-> get_current_pid, to_pid |-> to,
                              type |-> type, size |-> size, data |-> data]
                        ELSE message[n]]
       /\ list_add_tail(node, to)
       /\ waiting' = [waiting EXCEPT ![to] = Append(@, node)]
  /\ result' = NULL

(* No such receiver, or kmalloc has no block left. *)
ipc_send_fails(to) ==
  /\ ready
  /\ to \notin Pids \/ DOMAIN message = Nodes
  /\ result' = NULL
  /\ UNCHANGED <<next, prev, message, waiting>>

(* kfree of a node that has been unlinked. *)
kfree_WithoutCall(node) == UNCHANGED message
kfree(node) == message' = [n \in DOMAIN message \ {node} |-> message[n]]

copy_size_WithoutMin(size, m) == size
copy_size(size, m) == IF size < m.size THEN size ELSE m.size

(* The oldest message of the running process, to a caller with room for    *)
(* size bytes.  The node is unlinked, copied out and freed; bytes is what  *)
(* the call returns.                                                       *)
ipc_receive(size) ==
  LET pid  == get_current_pid
      node == next[pid]
  IN  /\ ready /\ ~list_empty(pid)
      /\ list_del(node)
      /\ result' = [msg |-> message[node], bytes |-> copy_size(size, message[node])]
      /\ kfree(node)
      /\ waiting' = [waiting EXCEPT ![pid] = Tail(@)]

(* Either receiver, when there is nothing to take. *)
ipc_receive_empty ==
  /\ ready /\ list_empty(get_current_pid)
  /\ result' = NULL
  /\ UNCHANGED <<next, prev, message, waiting>>

(* The kernel's own receiver.  It consumes the oldest message whole (what  *)
(* it prints of it depends on the type), unlinks and frees it, and leaves  *)
(* the walk over the list at once.                                         *)
ipc_process_messages ==
  LET pid == get_current_pid
      pos == next[pid]
  IN  /\ ready /\ ~list_empty(pid)
      /\ result' = [msg |-> message[pos], bytes |-> message[pos].size]
      /\ list_del(pos)
      /\ kfree(pos)
      /\ waiting' = [waiting EXCEPT ![pid] = Tail(@)]

Next ==
  \/ ipc_init
  \/ \E to \in Pids, type \in Types, size \in Sizes, data \in Data :
       ipc_send(to, type, size, data)
  \/ \E to \in Pids \cup Strangers : ipc_send_fails(to)
  \/ \E size \in Sizes : ipc_receive(size)
  \/ ipc_receive_empty
  \/ ipc_process_messages

Spec == Init /\ [][Next]_vars
-----------------------------------------------------------------------------
(* Links lead to cells, or nowhere; only allocated nodes hold messages. *)
TypeOK ==
  /\ next \in [Cells -> Cells \cup {NULL}]
  /\ prev \in [Cells -> Cells \cup {NULL}]
  /\ DOMAIN message \subseteq Nodes
  /\ message \in [DOMAIN message -> Messages]
  /\ waiting \in [Pids -> Seq(Nodes)]

(* The cell before and after each position of the ring that p's queue is,  *)
(* position 0 being the head itself.                                       *)
At(p, i) == IF i \in 1..Len(waiting[p]) THEN waiting[p][i] ELSE p

(* The pointers form one ring per receiver, in order of arrival, readable  *)
(* in both directions: an insertion or removal that forgot one of its four *)
(* stores would show up only several calls later.                          *)
Linked ==
  ready => \A p \in Pids : \A i \in 0..Len(waiting[p]) :
             /\ next[At(p, i)] = At(p, i + 1)
             /\ prev[At(p, i + 1)] = At(p, i)

(* Every node is in one place of one queue, and nothing is allocated that  *)
(* no queue reaches: receivers leak nothing and free nothing still linked. *)
NodesHaveOnePlace ==
  /\ \A p, q \in Pids : \A i \in 1..Len(waiting[p]), j \in 1..Len(waiting[q]) :
       waiting[p][i] = waiting[q][j] => p = q /\ i = j
  /\ DOMAIN message =
       {n \in Nodes : \E p \in Pids : \E i \in 1..Len(waiting[p]) : waiting[p][i] = n}

(* What callers rely on: module Mailboxes. *)
Promise == INSTANCE Mailboxes WITH
  Rooms <- Sizes, Nothing <- NULL, handed <- result,
  boxes <- [p \in Pids |-> [i \in 1..Len(waiting[p]) |-> message[waiting[p][i]]]]
KeepsPromise == Promise!Spec
=============================================================================
