---------------------------- MODULE KernelModules -----------------------------
(***************************************************************************)
(* The order of kernel_main (kernel/src/kernel.c): modules are loaded      *)
(* (Loader), and their entries may register modules with the manager       *)
(* (Modules), before initialize_modules walks over those registered.       *)
(***************************************************************************)
EXTENDS Modules, Loader

allVars == <<vars, loaderVars>>

BothInit == Init /\ LoaderInit

load_multiboot_modules == stage = "before" /\ LoaderNext /\ UNCHANGED vars
manages ==
  /\ load.stage = "out" \/ (load.stage = "in_init" /\ stage' = "before")
  /\ Next /\ UNCHANGED loaderVars

BothNext == load_multiboot_modules \/ manages

(* kernel_main goes on, and inits return. *)
BothSpec == BothInit /\ [][BothNext]_allVars /\ WF_allVars(loader_step /\ UNCHANGED vars)
                     /\ WF_vars(Walk)
-----------------------------------------------------------------------------
BothTypeOK == TypeOK /\ LoaderTypeOK
=============================================================================
