------------------------------- MODULE Modules -------------------------------
(***************************************************************************)
(* The module manager, kernel/src/modules/manager.c: modules on a circular *)
(* list (include/kernel/list.h), and initialize_modules, which walks it    *)
(* and calls each module's init back.  An init may itself register         *)
(* modules, so the list grows under the walk: the walk is a step per       *)
(* module and its cursor is state, everything else is one step.  order,    *)
(* the order of registration, and log, the inits called, are auxiliary.    *)
(***************************************************************************)
EXTENDS Integers, Sequences, FiniteSets

CONSTANTS Mods,     \* the struct modules there are
          HEAD,     \* loaded_modules
          NULL,
          WithInit, \* those whose init is not NULL
          Name      \* Name[m]: the name of module m

ASSUME ModulesAssumption ==
  /\ HEAD \notin Mods /\ NULL \notin Mods /\ HEAD # NULL
  /\ IsFiniteSet(Mods) /\ WithInit \subseteq Mods /\ DOMAIN Name = Mods

Cells == Mods \cup {HEAD}

VARIABLES next, prev,  \* the fields of every struct list_head
          stage,       \* "before", "walking", "in_init" or "after"
          pos,         \* the walk's cursor
          init_count,
          found,       \* what the last find_module returned
          order, log

vars == <<next, prev, stage, pos, init_count, found, order, log>>

Registered == {order[i] : i \in 1..Len(order)}
-----------------------------------------------------------------------------
(* LIST_HEAD: the list is empty; no module has links yet.  (Variants,      *)
(* named after what is wrong in them, belong to no behaviour.)             *)
Init_WithoutListHead ==
  /\ next = [c \in Cells |-> NULL] /\ prev = [c \in Cells |-> NULL]
  /\ stage = "before" /\ pos = NULL /\ init_count = 0 /\ found = NULL
  /\ order = <<>> /\ log = <<>>
Init ==
  /\ next = [c \in Cells |-> IF c = HEAD THEN HEAD ELSE NULL]
  /\ prev = [c \in Cells |-> IF c = HEAD THEN HEAD ELSE NULL]
  /\ stage = "before" /\ pos = NULL /\ init_count = 0 /\ found = NULL
  /\ order = <<>> /\ log = <<>>

list_add_tail_WithoutBack(new, head) ==
  LET before == prev[head]
  IN  /\ next' = [next EXCEPT ![new] = head, ![before] = new]
      /\ prev' = [prev EXCEPT ![new] = before]
list_add_tail(new, head) ==
  LET before == prev[head]
  IN  /\ next' = [next EXCEPT ![new] = head, ![before] = new]
      /\ prev' = [prev EXCEPT ![head] = new, ![new] = before]

(* Before the walk by anybody, during it by the init that is running, and  *)
(* after it; a module registers itself once.                               *)
register_kernel_module(mod) ==
  /\ stage # "walking"
  /\ mod \notin Registered
  /\ list_add_tail(mod, HEAD)
  /\ order' = Append(order, mod)
  /\ UNCHANGED <<stage, pos, init_count, found, log>>

(* The walk: for (pos = head.next; pos != head; pos = pos->next). *)
initialize_modules ==
  /\ stage = "before"
  /\ stage' = "walking" /\ pos' = next[HEAD] /\ init_count' = 0
  /\ UNCHANGED <<next, prev, found, order, log>>

call_init ==
  /\ stage = "walking" /\ pos \in WithInit
  /\ stage' = "in_init"
  /\ log' = Append(log, pos)
  /\ UNCHANGED <<next, prev, pos, init_count, found, order>>

(* init returns 0 or not; only now is the next link read. *)
init_returns_Retrying(result) ==
  /\ stage = "in_init"
  /\ stage' = "walking"
  /\ init_count' = IF result = 0 THEN init_count + 1 ELSE init_count
  /\ pos' = IF result = 0 THEN next[pos] ELSE pos
  /\ UNCHANGED <<next, prev, found, order, log>>
init_returns(result) ==
  /\ stage = "in_init"
  /\ stage' = "walking"
  /\ init_count' = IF result = 0 THEN init_count + 1 ELSE init_count
  /\ pos' = next[pos]
  /\ UNCHANGED <<next, prev, found, order, log>>

skip_module_Stays == /\ stage = "walking" /\ pos \notin WithInit \cup {HEAD}
                     /\ UNCHANGED vars
skip_module ==
  /\ stage = "walking" /\ pos \notin WithInit \cup {HEAD}
  /\ pos' = next[pos]
  /\ UNCHANGED <<next, prev, stage, init_count, found, order, log>>

all_visited ==
  /\ stage = "walking" /\ pos = HEAD
  /\ stage' = "after"
  /\ UNCHANGED <<next, prev, pos, init_count, found, order, log>>

(* The first module on the list that has the name.  Cell(i) is where the   *)
(* loop's cursor stands after i steps.                                     *)
Cell(i) == LET c[k \in 0..i] == IF k = 0 THEN next[HEAD] ELSE next[c[k - 1]] IN c[i]
find_module_FromSecond(name) ==
  /\ stage # "walking"
  /\ \E i \in 1..Cardinality(Mods) :
       /\ \A k \in 1..(i - 1) : Cell(k) # HEAD /\ Name[Cell(k)] # name
       /\ IF Cell(i) = HEAD THEN found' = NULL
                            ELSE Name[Cell(i)] = name /\ found' = Cell(i)
  /\ UNCHANGED <<next, prev, stage, pos, init_count, order, log>>
find_module(name) ==
  /\ stage # "walking"
  /\ \E i \in 0..Cardinality(Mods) :
       /\ \A k \in 0..(i - 1) : Cell(k) # HEAD /\ Name[Cell(k)] # name
       /\ IF Cell(i) = HEAD THEN found' = NULL
                            ELSE Name[Cell(i)] = name /\ found' = Cell(i)
  /\ UNCHANGED <<next, prev, stage, pos, init_count, order, log>>

Next ==
  \/ \E mod \in Mods : register_kernel_module(mod)
  \/ initialize_modules \/ call_init \/ skip_module \/ all_visited
  \/ \E result \in {0, -1} : init_returns(result)
  \/ \E mod \in Mods : find_module(Name[mod])

Walk == call_init \/ skip_module \/ all_visited \/ \E result \in {0, -1} : init_returns(result)

(* kernel_main goes on, and inits return. *)
Spec == Init /\ [][Next]_vars /\ WF_vars(Walk)
-----------------------------------------------------------------------------
(* Links lead to cells or, in a module not registered yet, nowhere; the    *)
(* cursor of a walk that has begun is never lost.                          *)
TypeOK ==
  /\ next \in [Cells -> Cells \cup {NULL}] /\ prev \in [Cells -> Cells \cup {NULL}]
  /\ stage \in {"before", "walking", "in_init", "after"}
  /\ stage = "before" \/ pos \in Cells
  /\ init_count \in 0..Len(log) /\ found \in Mods \cup {NULL}
  /\ order \in Seq(Mods) /\ log \in Seq(WithInit)

(* The cell before or after each place of the ring; place 0 is the head. *)
At(i) == IF i \in 1..Len(order) THEN order[i] ELSE HEAD

(* The pointers form one ring in the order of registration, both ways, and *)
(* also while an init, called from a walk over it, adds to it.             *)
Linked == \A i \in 0..Len(order) : /\ next[At(i)] = At(i + 1)
                                   /\ prev[At(i + 1)] = At(i)

(* log lists the modules of these places that have an init, in this order. *)
Lists(places) ==
  /\ {log[j] : j \in 1..Len(log)} = {order[k] : k \in places} \cap WithInit
  /\ \A j, k \in 1..Len(log), a, b \in places :
       j < k /\ log[j] = order[a] /\ log[k] = order[b] => a < b

(* At every point of the walk the inits called are those of the modules    *)
(* before the cursor, each once and in the order of registration; when it  *)
(* reaches the head again, of all, those that inits registered included.   *)
WalkIsInOrder ==
  stage \in {"walking", "in_init"} =>
    \E i \in 1..(Len(order) + 1) :
      /\ pos = At(i)
      /\ Lists({k \in 1..Len(order) : k < i \/ (k = i /\ stage = "in_init")})

(* find_module returns the module of that name registered first, also when *)
(* a running init asks, and NULL only if there is none.                    *)
FindsTheFirst ==
  [][\A n \in {Name[m] : m \in Mods} : find_module(n) =>
       LET named == {i \in 1..Len(order) : Name[order[i]] = n}
       IN  \/ found' = NULL /\ named = {}
           \/ \E i \in named : found' = order[i] /\ \A k \in named : i <= k]_vars

(* The walk comes to its end, however many modules join it. *)
WalkEnds == (stage = "walking") ~> (stage = "after")
=============================================================================
