------------------------------- MODULE Dispatch -------------------------------
(***************************************************************************)
(* Interrupts once the kernel is up: irq_handler and its table             *)
(* (kernel/src/interrupts/irq.c), the other table (irq_handlers.c), masks  *)
(* and ends of interrupt (pic.c), and the keyboard driver                  *)
(* (modules/drivers/core/keyboard/keyboard.c).  A thread registers         *)
(* handlers and sets masks while devices interrupt it.                     *)
(*                                                                         *)
(* External: the entry code that hands irq_handler the vector (the tree    *)
(* has no gate for 32 to 47 yet), the devices, the keyboard's controller.  *)
(* A device may take its request back at the last moment: the controller   *)
(* then gives the vector of its line 7 and has nothing in service.         *)
(***************************************************************************)
EXTENDS Pic8259, Sequences, FiniteSets

CONSTANTS Irqs,        \* numbers that handlers are registered for
          Exceptions,  \* vectors below 32 that reach irq_handler
          NULL, default_irq_handler, keyboard_handler, driver  \* handlers

ASSUME DispatchAssumption == Irqs \subseteq Int /\ Exceptions \subseteq 0..31

Handlers == {NULL, default_irq_handler, keyboard_handler, driver}

VARIABLES irq_handlers,  \* irq.c's table
          other_table,   \* irq_handlers.c's: also called irq_handlers
          frames,        \* what is being handled: vector, and how far that is
          access,        \* a mask that has been read and is to be written back
          keyboard,      \* a key is in the controller's buffer
          ready,         \* keyboard_init has run, and keyboard_exit has not
          masked         \* auxiliary: lines masked according to the calls made

vars == <<chips, irq_handlers, other_table, frames, access, keyboard, ready, masked>>

NoAccess == [chip |-> 0, byte |-> 0]
Thread == frames = <<>> /\ access = NoAccess
Set(byte, l)   == IF l \in Bits(byte) THEN byte ELSE byte + 2^l
Clear(byte, l) == IF l \in Bits(byte) THEN byte - 2^l ELSE byte
-----------------------------------------------------------------------------
(* As irq_init leaves things (module Boot): moved and masked, every line   *)
(* with the handler for the unexpected.                                    *)
Init ==
  /\ chips = [c \in 1..2 |-> [offset |-> IF c = 1 THEN 32 ELSE 40, imr |-> 255,
                              irr |-> {}, isr |-> {}, icw |-> 0]]
  /\ irq_handlers = [irq \in 0..15 |-> default_irq_handler]
  /\ other_table = [irq \in 0..15 |-> NULL]
  /\ frames = <<>> /\ access = NoAccess
  /\ keyboard = FALSE /\ ready = FALSE /\ masked = 0..15

(* The thread.  Numbers outside the table are ignored.  (Variants, named   *)
(* after what is wrong in them, belong to no behaviour.)                   *)
Stored_UpTo16(table, irq, handler) ==
  IF irq \in 0..16 THEN [i \in DOMAIN table \cup {irq} |-> IF i = irq THEN handler ELSE table[i]]
                   ELSE table
Stored(table, irq, handler) ==
  IF irq \in 0..15 THEN [table EXCEPT ![irq] = handler] ELSE table

irq_register_handler(irq, handler) ==
  /\ Thread
  /\ irq_handlers' = Stored(irq_handlers, irq, handler)
  /\ UNCHANGED <<chips, other_table, frames, access, keyboard, ready, masked>>

irq_unregister_handler(irq) ==
  /\ Thread
  /\ irq_handlers' = Stored(irq_handlers, irq, default_irq_handler)
  /\ UNCHANGED <<chips, other_table, frames, access, keyboard, ready, masked>>

(* The keyboard driver uses the table of irq_handlers.c. *)
register_irq_handler(irq, handler) == other_table' = Stored(other_table, irq, handler)

keyboard_init ==
  /\ Thread
  /\ register_irq_handler(1, keyboard_handler) /\ ready' = TRUE
  /\ UNCHANGED <<chips, irq_handlers, frames, access, keyboard, masked>>
keyboard_exit ==
  /\ Thread
  /\ register_irq_handler(1, NULL) /\ ready' = FALSE
  /\ UNCHANGED <<chips, irq_handlers, frames, access, keyboard, masked>>

(* The mask is read in one instruction and written back, changed, in       *)
(* another.                                                                *)
pic_set_mask(line) ==
  /\ Thread
  /\ access' = [chip |-> ChipOf(line), byte |-> Set(chips[ChipOf(line)].imr, line % 8)]
  /\ masked' = masked \cup {line}
  /\ UNCHANGED <<chips, irq_handlers, other_table, frames, keyboard, ready>>
pic_clear_mask_WithoutMinus8(line) ==
  /\ Thread
  /\ access' = [chip |-> ChipOf(line), byte |-> IF line < 8 THEN Clear(chips[1].imr, line)
                                                ELSE chips[2].imr]
  /\ masked' = masked \ {line}
  /\ UNCHANGED <<chips, irq_handlers, other_table, frames, keyboard, ready>>
pic_clear_mask(line) ==
  /\ Thread
  /\ access' = [chip |-> ChipOf(line), byte |-> Clear(chips[ChipOf(line)].imr, line % 8)]
  /\ masked' = masked \ {line}
  /\ UNCHANGED <<chips, irq_handlers, other_table, frames, keyboard, ready>>
mask_written ==
  /\ frames = <<>> /\ access # NoAccess
  /\ chips' = [chips EXCEPT ![access.chip] = WithData(@, access.byte)]
  /\ access' = NoAccess
  /\ UNCHANGED <<irq_handlers, other_table, frames, keyboard, ready, masked>>
-----------------------------------------------------------------------------
(* irq_handler, called by the entry code with interrupts off; a fault in   *)
(* what it calls comes back to it.                                         *)
Entered(vector) == [int_no |-> vector, stage |-> "entered"]
Frame == Head(frames)

keyboard_handler_runs == keyboard' = FALSE  \* nothing to read, or read

(* The table's handler, if there is one for the vector. *)
handler_called ==
  /\ frames # <<>> /\ Frame.stage # "called"
  /\ frames' = [frames EXCEPT ![1].stage = "called"]
  /\ IF Frame.int_no \in 32..47 /\ irq_handlers[Frame.int_no - 32] = keyboard_handler
     THEN keyboard_handler_runs ELSE UNCHANGED keyboard
  /\ UNCHANGED <<chips, irq_handlers, other_table, access, ready, masked>>

(* An end of interrupt to the master, and to the slave before it; what is  *)
(* below 32 wraps and is above 8 too.                                      *)
pic_send_eoi_ToOne(irq) ==
  chips' = [c \in 1..2 |-> IF (c = 2) = (irq >= 8) THEN EndOfInterrupt(chips[c]) ELSE chips[c]]
pic_send_eoi_Above8(irq) ==
  chips' = [c \in 1..2 |-> IF c = 1 \/ irq > 8 THEN EndOfInterrupt(chips[c]) ELSE chips[c]]
pic_send_eoi(irq) ==
  chips' = [c \in 1..2 |-> IF c = 1 \/ irq >= 8 THEN EndOfInterrupt(chips[c]) ELSE chips[c]]
handler_returned ==
  /\ frames # <<>> /\ Frame.stage = "called"
  /\ pic_send_eoi((Frame.int_no - 32) % 256)
  /\ frames' = Tail(frames)
  /\ UNCHANGED <<irq_handlers, other_table, access, keyboard, ready, masked>>

irq_handler == handler_called \/ handler_returned
-----------------------------------------------------------------------------
(* Requests and their vectors. *)
request(line) ==
  /\ line # 1 /\ raise(line)
  /\ UNCHANGED <<irq_handlers, other_table, frames, access, keyboard, ready, masked>>
key_pressed ==
  /\ 1 \in Lines /\ ~keyboard /\ raise(1)
  /\ keyboard' = TRUE
  /\ UNCHANGED <<irq_handlers, other_table, frames, access, ready, masked>>

interrupt ==
  /\ frames = <<>> /\ Master # {}
  /\ chips' = Acknowledged /\ frames' = <<Entered(Vector)>>
  /\ UNCHANGED <<irq_handlers, other_table, access, keyboard, ready, masked>>

(* The request taken back is the only one its controller passed on. *)
interrupt_spurious ==
  /\ frames = <<>>
  /\ \/ /\ Cardinality(Master) = 1 /\ First(Master) # 2
        /\ chips' = [chips EXCEPT ![1].irr = @ \ Master]
        /\ frames' = <<Entered(chips[1].offset + 7)>>
     \/ /\ Master # {} /\ First(Master) = 2 /\ Cardinality(Slave) = 1
        /\ chips' = [chips EXCEPT ![2].irr = @ \ Slave, ![1].isr = @ \cup {2}]
        /\ frames' = <<Entered(chips[2].offset + 7)>>
  /\ UNCHANGED <<irq_handlers, other_table, access, keyboard, ready, masked>>

(* The handler being called faults (once: a bound).                        *)
exception(vector) ==
  /\ Len(frames) = 1 /\ Frame.stage = "entered"
  /\ frames' = <<Entered(vector), [Frame EXCEPT !.stage = "faulted"]>>
  /\ UNCHANGED <<chips, irq_handlers, other_table, access, keyboard, ready, masked>>

Next ==
  \/ \E irq \in Irqs : \/ irq_unregister_handler(irq)
                       \/ \E h \in {NULL, driver} : irq_register_handler(irq, h)
  \/ keyboard_init \/ keyboard_exit
  \/ \E line \in Lines \cup {2} : pic_set_mask(line) \/ pic_clear_mask(line)
  \/ \E line \in Lines : request(line)
  \/ mask_written \/ irq_handler \/ key_pressed
  \/ interrupt \/ interrupt_spurious
  \/ \E vector \in Exceptions : exception(vector)

(* The processor takes interrupts and goes on with what it runs. *)
Spec == /\ Init /\ [][Next]_vars
        /\ WF_vars(interrupt) /\ WF_vars(irq_handler) /\ WF_vars(mask_written)
-----------------------------------------------------------------------------
Masked(line) == line % 8 \in Bits(chips[ChipOf(line)].imr)

(* Everything has its type; no number outside a table was stored in it.    *)
TypeOK ==
  /\ chips \in [1..2 -> Chip] /\ masked \subseteq 0..15
  /\ irq_handlers \in [0..15 -> Handlers] /\ other_table \in [0..15 -> Handlers]
  /\ frames \in Seq([int_no : 0..47, stage : {"entered", "faulted", "called"}])
  /\ Len(frames) <= 2
  /\ access \in [chip : 0..2, byte : 0..255]
  /\ keyboard \in BOOLEAN /\ ready \in BOOLEAN

(* Once irq_handler has returned nothing is in service, whatever it was    *)
(* called for: a line of the slave, which the master has in service too, a *)
(* request taken back, which one controller or none has, or a device whose *)
(* handler faulted, so that its service ended before its handler.          *)
NothingLeftInService == frames = <<>> => \A c \in 1..2 : chips[c].isr = {}

(* The masks are what the calls of pic_set_mask and pic_clear_mask amount  *)
(* to, over both controllers, with interrupts between each one's reading   *)
(* and writing.                                                            *)
MasksAreAsAsked ==
  access = NoAccess =>
    \A line \in 0..15 : Masked(line) <=> line \in masked

Waits(line) == /\ line % 8 \in chips[ChipOf(line)].irr
               /\ ~Masked(line) /\ (line >= 8 => ~Masked(2))
Alone(line) == \A k \in Lines \ {line} : ~Waits(k)

(* No line is dead: when from some time on no other line asks, a request   *)
(* that is not masked, for the slave's lines on neither controller, is     *)
(* taken (or masked, or taken back).                                       *)
NoLineIsDead == \A line \in Lines : <>[]Alone(line) => (Waits(line) ~> ~Waits(line))
=============================================================================
