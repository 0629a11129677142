---------------------------- MODULE DispatchClaims ----------------------------
(***************************************************************************)
(* What the keyboard driver says and the code does not do, for TLC to      *)
(* refute.                                                                 *)
(***************************************************************************)
EXTENDS Dispatch

(* "Register interrupt handler for keyboard (IRQ1)": after keyboard_init,  *)
(* an interrupt of line 1 is handled by the driver, and the key read.  It  *)
(* is not: the driver registers with irq_handlers.c, whose table           *)
(* irq_handler never looks at.                                             *)
KeyboardIsHeard ==
  [][handler_called /\ Frame.int_no = 33 /\ ready => ~keyboard']_vars
=============================================================================
