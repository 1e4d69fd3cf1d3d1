-------------------------- MODULE MCModuleHistory --------------------------
(***************************************************************************)
(* The instances of MCModule, for ModuleHistory.                           *)
(***************************************************************************)
EXTENDS MCModule, ModuleHistory
=============================================================================
