---------------------------- MODULE Capabilities ----------------------------
(***************************************************************************)
(* What the sandbox manager promises (include/kernel/sandbox/sandbox.h): a *)
(* sandbox starts with no capability, has exactly those it was granted and *)
(* not deprived of since, and nothing is allowed in its name for which it  *)
(* lacks one.                                                              *)
(***************************************************************************)
CONSTANTS Ids,    \* names of sandboxes
          Caps,   \* capabilities
          Needs,  \* Needs[op]: the capabilities operation op takes
          None    \* nothing was let through

VARIABLES holds,  \* holds[s]: the capabilities of the existing sandbox s
          passed  \* what the last call let through: [id, op, mask], or None

Init == holds = [s \in {} |-> {}] /\ passed = None

Create(s) ==
  /\ s \notin DOMAIN holds
  /\ holds' = [t \in DOMAIN holds \cup {s} |-> IF t = s THEN {} ELSE holds[t]]
  /\ passed' = None
Destroy(s) ==
  /\ holds' = [t \in DOMAIN holds \ {s} |-> holds[t]]
  /\ passed' = None
Grant(s, C) ==
  /\ holds' = [holds EXCEPT ![s] = @ \cup C]
  /\ passed' = None
Revoke(s, C) ==
  /\ holds' = [holds EXCEPT ![s] = @ \ C]
  /\ passed' = None

(* In the name of s an operation is let through that takes the             *)
(* capabilities Needs[op], or a question whether s has all those in C is   *)
(* answered yes.                                                           *)
Use(s, op) ==
  /\ Needs[op] \subseteq holds[s]
  /\ passed' = [id |-> s, op |-> op, mask |-> {}]
  /\ UNCHANGED holds
Confirm(s, C) ==
  /\ C \subseteq holds[s]
  /\ passed' = [id |-> s, op |-> "check", mask |-> C]
  /\ UNCHANGED holds
Refuse == passed' = None /\ UNCHANGED holds

Next ==
  \/ \E s \in Ids : Create(s)
  \/ \E s \in DOMAIN holds :
       \/ Destroy(s)
       \/ \E C \in SUBSET Caps : Grant(s, C) \/ Revoke(s, C) \/ Confirm(s, C)
       \/ \E op \in DOMAIN Needs : Use(s, op)
  \/ Refuse

Spec == Init /\ [][Next]_<<holds, passed>>
=============================================================================
