-------------------------- MODULE MCOrderExecution --------------------------
(* Small instances of OrderExecution for TLC. *)
EXTENDS OrderExecution, TLC

(* Slots and intents are interchangeable; used only where no liveness is asked. *)
Symmetry == Permutations(Intents) \cup Permutations(Requests) \cup Permutations(Operators)

=============================================================================
