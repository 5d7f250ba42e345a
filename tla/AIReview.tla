------------------------------ MODULE AIReview ------------------------------
(***************************************************************************)
(* The AI review of a stored opportunity (apps/api/routes/desk.py):        *)
(* three agents answer one after the other, with one repair each           *)
(* (packages/ai/workflow.py), and the result is saved before it is         *)
(* returned (packages/ai/store.py).                                        *)
(***************************************************************************)
EXTENDS Naturals, Sequences

CONSTANT Reviews      \* POST /opportunities/{id}/ai calls, each made once

VARIABLES
    review,           \* [Reviews -> [pc, attempt, reports, result]]
    onRecord          \* ai_workflow_runs: [Reviews -> the saved results]

reviewVars == <<review, onRecord>>

Agents == <<"ai_context", "devils_advocate", "decision_composer">>

(* What comes back from a provider call: a report that cites known sources
   only, none, an unknown one, or no report at all (timeout, HTTP error,
   malformed or schema-invalid output).                                      *)
Replies == {"cited", "uncited", "unknown", "failed"}

(* NO_TRADE is to this module what PROCEED_TO_STRUCTURE_SELECTION is. *)
Recommendations == {"PROCEED_TO_STRUCTURE_SELECTION", "NEEDS_MORE_DATA"}

NoResult == [degraded |-> FALSE, reports |-> <<>>, recommendation |-> "none"]
NoReview == [pc |-> "new", attempt |-> 1, reports |-> <<>>, result |-> NoResult]

ReviewInit ==
    /\ review = [v \in Reviews |-> NoReview]
    /\ onRecord = [v \in Reviews |-> {}]

InStage(v, pc) == review[v].pc = pc
Step(v, pc) == review' = [review EXCEPT ![v].pc = pc]

End(v, pc) == review' = [review EXCEPT ![v] = [NoReview EXCEPT !.pc = pc]]

(* The route has loaded an opportunity of the workspace. *)
BeginReview(v) ==
    /\ InStage(v, "new")
    /\ Step(v, "getting")
    /\ UNCHANGED onRecord

(* store.get, and a transaction later store.reveal: either may find that the
   credential has gone.                                                      *)
RevealRouter(v) ==
    /\ InStage(v, "getting")
    /\ Step(v, "asking") \/ Step(v, "conflict")
    /\ UNCHANGED onRecord
-----------------------------------------------------------------------------

Agent(v) == Agents[Len(review[v].reports) + 1]

Degraded == [degraded |-> TRUE, reports |-> <<>>, recommendation |-> "NEEDS_MORE_DATA"]

Finish(v, result) ==
    review' = [review EXCEPT ![v] = [NoReview EXCEPT !.pc = "saving", !.result = result]]

(* A mistake for Accepts: citations are asked for, and not looked up. *)
AcceptsUnknown(reply) == reply \in {"cited", "unknown"}

Accepts(reply) == reply = "cited"

(* A report is kept, and the last one is the decision. *)
Accept(v, reply) ==
    LET kept == Append(review[v].reports, <<Agent(v), reply>>)
    IN  /\ Accepts(reply)
        /\ \/ /\ Len(kept) < Len(Agents)
              /\ review' = [review EXCEPT ![v].reports = kept, ![v].attempt = 1]
           \/ /\ Len(kept) = Len(Agents)
              /\ \E r \in Recommendations :
                    Finish(v, [degraded |-> FALSE, reports |-> kept, recommendation |-> r])

(* Mistakes for Repair: it is asked for for ever, or once too often. *)
RepairForEver(v, reply) ==
    /\ ~Accepts(reply)
    /\ review' = [review EXCEPT ![v].attempt = 3 - @]

RepairTwice(v, reply) ==
    /\ ~Accepts(reply)
    /\ \/ /\ review[v].attempt <= 2
          /\ review' = [review EXCEPT ![v].attempt = @ + 1]
       \/ /\ review[v].attempt > 2
          /\ Finish(v, Degraded)

(* One repair, and then the whole review is degraded. *)
Repair(v, reply) ==
    /\ ~Accepts(reply)
    /\ \/ /\ review[v].attempt = 1
          /\ review' = [review EXCEPT ![v].attempt = 2]
       \/ /\ review[v].attempt = 2
          /\ Finish(v, Degraded)

Generate(v, reply) ==
    /\ InStage(v, "asking")
    /\ Accept(v, reply) \/ Repair(v, reply)
    /\ UNCHANGED onRecord

SaveReview(v) ==
    /\ InStage(v, "saving")
    /\ onRecord' = [onRecord EXCEPT ![v] = @ \cup {review[v].result}]
    /\ End(v, "answered")

(* The save fails, or nobody hears that it did not: the call is an error. *)
SaveFails(v) ==
    /\ InStage(v, "saving")
    /\ onRecord' \in {onRecord, [onRecord EXCEPT ![v] = @ \cup {review[v].result}]}
    /\ End(v, "failed")

ReviewsDie ==
    /\ review' = [v \in Reviews |->
                    IF review[v].pc \in {"new", "conflict", "answered"} THEN review[v]
                    ELSE [NoReview EXCEPT !.pc = "failed"]]
    /\ UNCHANGED onRecord

Proceed(v) ==
    \/ RevealRouter(v)
    \/ \E reply \in Replies : Generate(v, reply)
    \/ SaveReview(v) \/ SaveFails(v)

ReviewTypeOK ==
    \A v \in Reviews :
        /\ review[v].pc \in {"new", "getting", "asking", "saving", "conflict",
                             "answered", "failed"}
        /\ review[v].attempt \in 1 .. 2
        /\ review[v].result.recommendation \in Recommendations \cup {"none"}

(* Who reads a review reads what is on record for it; one that is not degraded
   carries the reports of all three agents, each citing known sources only,
   and a degraded one carries none and recommends nothing.                   *)
ReviewsAreCited ==
    \A v \in Reviews :
        /\ InStage(v, "answered") => onRecord[v] # {}
        /\ \A x \in onRecord[v] :
              IF x.degraded THEN x = Degraded
              ELSE x.reports = [n \in 1 .. 3 |-> <<Agents[n], "cited">>]

(* A review that begins ends, whatever the provider does. *)
ReviewEnds ==
    \A v \in Reviews :
        InStage(v, "getting") ~> review[v].pc \in {"conflict", "answered", "failed"}

=============================================================================
