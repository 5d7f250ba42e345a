---------------------------- MODULE RuntimeLife ----------------------------
(***************************************************************************)
(* The life of one workspace's broker runtime (_workspace_runtime of       *)
(* apps/worker/__main__.py and its entry in the connection supervisor's    *)
(* dict), on which its two descriptions have to agree: BrokerSync, where   *)
(* it drives one projection, and WorkspaceLifecycle, where a supervisor    *)
(* starts and cancels many.                                                *)
(***************************************************************************)

VARIABLE stage    \* "off", "initial", "running", "failing", "closing", "ended"

Init == stage = "off"

(* The credential is revealed and the first reconciliation begins, or cannot so
   much as mark the state, ...                                                *)
Begins == stage = "off" /\ stage' \in {"initial", "failing"}

(* ... or it is gone or cannot be read, and the task ends with its entry in place. *)
FindsNothing == stage = "off" /\ stage' = "ended"

(* The reconciliation is applied, the workspace set ACTIVE and the tasks started,
   or one of these raises.                                                    *)
Reconciles == stage = "initial" /\ stage' \in {"running", "failing"}

(* The supervisor cancels it: on to the finally clause. *)
Cancelled == stage \in {"initial", "running", "failing"} /\ stage' = "closing"

(* The finally clause of a runtime that failed: its entry stays. *)
FailsForGood == stage = "failing" /\ stage' = "ended"

(* The entry is removed, or the worker with all of them. *)
Gone == stage' = "off"

(* What has ended begins again only after it was gone, and what failed never
   runs: nothing leads from "ended" but to "off", nor back from "failing".   *)
Next == Begins \/ FindsNothing \/ Reconciles \/ Cancelled \/ FailsForGood \/ Gone

Spec == Init /\ [][Next]_stage

=============================================================================
