---------------------------- MODULE ResearchDesk ----------------------------
(***************************************************************************)
(* The research side of one workspace: scan runs store opportunities       *)
(* (ScanRuns), and reviews read them (AIReview).  The API process serves   *)
(* manual scans and reviews, so that its crash ends both.                  *)
(***************************************************************************)
EXTENDS ScanRuns, AIReview

researchVars == <<scanVars, reviewVars>>

Init == ScanInit /\ ReviewInit

HasOpportunity == loose \/ \E r \in Runs : stored[r] > 0

ReviewOpportunity(v) ==
    /\ HasOpportunity
    /\ BeginReview(v)
    /\ UNCHANGED scanVars

ApiCrash == Die(Manual) /\ ReviewsDie

Next ==
    \/ ScanNext /\ UNCHANGED reviewVars
    \/ \E v \in Reviews : ReviewOpportunity(v) \/ (Proceed(v) /\ UNCHANGED scanVars)
    \/ ApiCrash

Spec == Init /\ [][Next]_researchVars

(* A call to OpenRouter is cut off by asyncio.wait_for.  A call to Alpaca runs in
   a thread without a timeout, so that a scan may stop at any symbol for ever:
   nothing is assumed of its progress.                                       *)
Fairness == \A v \in Reviews : WF_researchVars(Proceed(v) /\ UNCHANGED scanVars)

FairSpec == Spec /\ Fairness

TypeOK == ScanTypeOK /\ ReviewTypeOK

(* Whatever runs beside it, dies or comes late, no step of another job touches a
   run that is complete, or what a run set out to attempt.                   *)
RunsAreFinal == [][\A r \in Runs : RunStands(r)]_researchVars

=============================================================================
