------------------------------ MODULE BootClaims ------------------------------
(***************************************************************************)
(* What comments and messages say of the boot and the code does not do,    *)
(* for TLC to refute.                                                      *)
(***************************************************************************)
EXTENDS Boot

(* boot.asm passes kernel_main its parameters "in the right order": the    *)
(* address of the information is the first.  It pushes it first, so the    *)
(* magic number is.                                                        *)
ToldTheInformation == told \in {"nothing", "ebx"}
=============================================================================
