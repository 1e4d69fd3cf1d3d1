------------------------- MODULE MCWorkspaceHistory -------------------------
(***************************************************************************)
(* The instances of MCWorkspace, for WorkspaceHistory.                     *)
(***************************************************************************)
EXTENDS MCWorkspace, WorkspaceHistory
=============================================================================
