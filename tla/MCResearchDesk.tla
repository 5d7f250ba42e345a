--------------------------- MODULE MCResearchDesk ---------------------------
(* Small instances of ResearchDesk for TLC. *)
EXTENDS ResearchDesk, TLC

=============================================================================
