------------------------ MODULE MCWorkspaceLifecycle ------------------------
(* Small instances of WorkspaceLifecycle for TLC. *)
EXTENDS WorkspaceLifecycle, TLC

=============================================================================
