------------------------------ MODULE Mailboxes ------------------------------
(***************************************************************************)
(* What ipc_send and ipc_receive promise (include/kernel/ipc.h): every     *)
(* process has a mailbox; a message put in is handed over once, in the     *)
(* order of arrival, no more of it than the receiver has room for.  How    *)
(* the boxes are kept, and how many messages they can hold, is not said.   *)
(***************************************************************************)
EXTENDS Integers, Sequences

CONSTANTS Pids,      \* the processes that have a mailbox
          Messages,  \* records with at least a field size
          Rooms,     \* how many bytes a receiver may have room for
          Nothing    \* handed over nothing

VARIABLES boxes,     \* boxes[p]: the messages waiting for p, oldest first
          handed     \* the last call handed over [msg, bytes], or Nothing

Init == /\ boxes = [p \in Pids |-> <<>>]
        /\ handed = Nothing

Put(p, m) ==
  /\ boxes' = [boxes EXCEPT ![p] = Append(@, m)]
  /\ handed' = Nothing

(* The oldest message leaves the box; of its bytes the receiver gets as    *)
(* many as there are and there is room for.                                *)
Take(p, room) ==
  /\ boxes[p] # <<>>
  /\ boxes' = [boxes EXCEPT ![p] = Tail(@)]
  /\ handed' = [msg   |-> Head(boxes[p]),
                bytes |-> IF room < Head(boxes[p]).size THEN room
                                                        ELSE Head(boxes[p]).size]

(* A call that hands over nothing leaves every box alone. *)
Idle == handed' = Nothing /\ UNCHANGED boxes

Next ==
  \/ \E p \in Pids, m \in Messages : Put(p, m)
  \/ \E p \in Pids, room \in Rooms : Take(p, room)
  \/ Idle

Spec == Init /\ [][Next]_<<boxes, handed>>
=============================================================================
