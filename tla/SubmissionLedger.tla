-------------------------- MODULE SubmissionLedger --------------------------
(***************************************************************************)
(* What the Execution Engine promises about orders, without saying how:    *)
(* an order intent is claimed at most once, its submission leaves for the  *)
(* broker at most once and only after the claim, the broker holds only     *)
(* orders that left, and the ledger calls an order ACCEPTED only when the  *)
(* broker really holds it.  Crashes, retries, double clicks and lost       *)
(* replies are invisible here.  OrderExecution implements this module.     *)
(***************************************************************************)
EXTENDS Naturals

CONSTANT Intents      \* immutable order intents, named by client order id

VARIABLES
    record,           \* [Intents -> state], the durable ledger row
    sent,             \* [Intents -> Nat], submissions that left for the broker
    placed            \* the intents the broker holds an order for

vars == <<record, sent, placed>>

Init ==
    /\ record = [i \in Intents |-> "ABSENT"]
    /\ sent = [i \in Intents |-> 0]
    /\ placed = {}

(* One caller wins the intent. *)
Claim(i) ==
    /\ record[i] = "ABSENT"
    /\ record' = [record EXCEPT ![i] = "SUBMISSION_STARTED"]
    /\ UNCHANGED <<sent, placed>>

(* The one submission of a claimed intent leaves. *)
Submit(i) ==
    /\ record[i] = "SUBMISSION_STARTED"
    /\ sent[i] = 0
    /\ sent' = [sent EXCEPT ![i] = 1]
    /\ UNCHANGED <<record, placed>>

(* The broker creates the order, possibly long after the ledger gave up. *)
Place(i) ==
    /\ sent[i] = 1
    /\ placed' = placed \cup {i}
    /\ UNCHANGED <<record, sent>>

(* The ledger learns that the order exists... *)
Confirm(i) ==
    /\ record[i] \in {"SUBMISSION_STARTED", "SUBMISSION_UNCERTAIN"}
    /\ i \in placed
    /\ record' = [record EXCEPT ![i] = "ACCEPTED"]
    /\ UNCHANGED <<sent, placed>>

(* ... or that it cannot know. *)
Doubt(i) ==
    /\ record[i] = "SUBMISSION_STARTED"
    /\ sent[i] = 1
    /\ record' = [record EXCEPT ![i] = "SUBMISSION_UNCERTAIN"]
    /\ UNCHANGED <<sent, placed>>

Next == \E i \in Intents :
    Claim(i) \/ Submit(i) \/ Place(i) \/ Confirm(i) \/ Doubt(i)

Spec == Init /\ [][Next]_vars

=============================================================================
