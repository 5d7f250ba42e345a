------------------------ MODULE OrderExecutionProofs ------------------------
(***************************************************************************)
(* Theorems of OrderExecution for any number of intents, confirm handlers  *)
(* and operators.  The key is who owns an intent: the one handler that won *)
(* its row, from the reservation until its row leaves SUBMISSION_STARTED.  *)
(***************************************************************************)
EXTENDS OrderExecution, TLAPS

(* A handler at or past the submission owns an intent of its own, whose row is
   still as the reservation left it.                                         *)
Ownership ==
    /\ \A r \in Requests : req[r].pc \in Submitting =>
           record[req[r].intent] = "SUBMISSION_STARTED"
    /\ \A r, s \in Requests :
           /\ req[r].pc \in Submitting
           /\ req[s].pc \in Submitting
           /\ req[r].intent = req[s].intent
           => r = s

(* What has left for the broker, by how far the owner has come. *)
Departures ==
    /\ \A i \in Intents : sent[i] \in {0, 1}
    /\ \A i \in Intents : record[i] = "ABSENT" => sent[i] = 0
    /\ \A i \in wire \cup placed : sent[i] = 1
    /\ \A r \in Requests : req[r].pc = "submit" => sent[req[r].intent] = 0
    /\ \A r \in Requests : req[r].pc \in {"awaiting", "accept", "uncertain"} =>
           sent[req[r].intent] = 1

(* Whoever is about to write ACCEPTED knows that the broker holds the order. *)
Acceptances ==
    /\ \A r \in Requests : req[r].pc = "accept" => req[r].intent \in placed
    /\ \A i \in found : i \in placed /\ record[i] = "SUBMISSION_UNCERTAIN"
    /\ \A i \in Intents : record[i] = "ACCEPTED" => i \in placed

LedgerInv == Ownership /\ Departures /\ Acceptances

(* No handler is held back by a halt that no longer stands. *)
HaltInv == HaltStopsOrders /\ (under # {} => active # {})

IInv == TypeOK /\ LedgerInv /\ HaltInv

-----------------------------------------------------------------------------

LEMMA InitInv == Init => IInv
<1> SUFFICES ASSUME Init PROVE IInv
  OBVIOUS
<1>1. TypeOK
  BY ConstantsAssumption DEF Init, TypeOK, Idle, At, Stages, LedgerStates, PossibleRows, Rows
<1>2. LedgerInv
  BY DEF Init, LedgerInv, Ownership, Departures, Acceptances, Idle, Submitting
<1>3. HaltInv
  BY DEF Init, HaltInv, HaltStopsOrders
<1> QED
  BY <1>1, <1>2, <1>3 DEF IInv

-----------------------------------------------------------------------------
(* Type correctness.                                                         *)

(* The part of TypeOK about the confirm handlers. *)
ReqOK ==
    /\ req \in [Requests -> [pc : Stages, intent : Intents \cup {NoIntent}, fits : BOOLEAN]]
    /\ \A r \in Requests : ~At(r, "idle") => req[r].intent \in Intents
    /\ under \subseteq Requests

(* A handler that goes on to another stage or answers leaves ReqOK true. *)
LEMMA MoveReqOK ==
    ASSUME NEW r \in Requests, NEW next \in Stages \ {"idle"}, ReqOK, ~At(r, "idle"),
           \/ Goto(r, next) /\ UNCHANGED under
           \/ Answer(r)
    PROVE  ReqOK'
<1>1. CASE Goto(r, next) /\ UNCHANGED under
  <2>1. req[r] \in [pc : Stages, intent : Intents \cup {NoIntent}, fits : BOOLEAN]
    BY DEF ReqOK
  <2>2. [req[r] EXCEPT !.pc = next]
           \in [pc : Stages, intent : Intents \cup {NoIntent}, fits : BOOLEAN]
    BY <2>1
  <2>3. req' = [req EXCEPT ![r] = [req[r] EXCEPT !.pc = next]]
    BY <1>1 DEF Goto, ReqOK
  <2>4. req' \in [Requests -> [pc : Stages, intent : Intents \cup {NoIntent}, fits : BOOLEAN]]
    BY <2>2, <2>3 DEF ReqOK
  <2>5. ASSUME NEW s \in Requests, req'[s].pc # "idle" PROVE req'[s].intent \in Intents
    <3>1. CASE s = r
      BY <2>1, <2>3, <3>1 DEF ReqOK, At
    <3>2. CASE s # r
      BY <2>3, <2>5, <3>2 DEF ReqOK, At
    <3> QED
      BY <3>1, <3>2
  <2> QED
    BY <1>1, <2>4, <2>5 DEF ReqOK, At
<1>2. CASE Answer(r)
  <2>1. Idle \in [pc : Stages, intent : Intents \cup {NoIntent}, fits : BOOLEAN]
    BY DEF Idle, Stages
  <2>2. req' \in [Requests -> [pc : Stages, intent : Intents \cup {NoIntent}, fits : BOOLEAN]]
    BY <1>2, <2>1 DEF Answer, ReqOK
  <2> QED
    BY <1>2, <2>2 DEF ReqOK, Answer, Idle, At
<1> QED
  BY <1>1, <1>2

(* The stages named in the actions are stages. *)
LEMMA StagesAre ==
    {"account", "positions", "status", "blocked", "reveal", "guardian",
     "preflight_status", "preflight_blocked", "reserve", "submit", "awaiting",
     "accept", "uncertain"} \subseteq Stages \ {"idle"}
BY DEF Stages, Checking, Cleared, Submitting

(* Every step of a confirm handler keeps the handlers well typed. *)
LEMMA ConfirmReqOK ==
    ASSUME NEW r \in Requests, ReqOK, Confirm(r)
    PROVE  ReqOK'
<1> USE StagesAre
<1>1. CASE ReadAccount(r)
  BY <1>1, MoveReqOK DEF ReadAccount, Check, At
<1>2. CASE ReadPositions(r)
  <2>1. req[r] \in [pc : Stages, intent : Intents \cup {NoIntent}, fits : BOOLEAN]
    BY DEF ReqOK
  <2> DEFINE fits == Cardinality(positions) < MaxStructures
  <2>a. fits \in BOOLEAN
    OBVIOUS
  <2>b. req' = [req EXCEPT ![r].pc = "status", ![r].fits = fits]
    BY <1>2 DEF ReadPositions
  <2> HIDE DEF fits
  <2>2. req' = [req EXCEPT ![r] = [req[r] EXCEPT !.pc = "status", !.fits = fits]]
    BY <2>b DEF ReqOK
  <2>3. req' \in [Requests -> [pc : Stages, intent : Intents \cup {NoIntent}, fits : BOOLEAN]]
    BY <2>1, <2>2, <2>a DEF ReqOK
  <2>4. under' = under /\ req[r].intent \in Intents
    BY <1>2 DEF ReadPositions, ReqOK, At
  <2>5. ASSUME NEW s \in Requests, req'[s].pc # "idle" PROVE req'[s].intent \in Intents
    <3>1. CASE s = r
      BY <2>1, <2>2, <2>4, <3>1 DEF ReqOK
    <3>2. CASE s # r
      BY <2>2, <2>5, <3>2 DEF ReqOK, At
    <3> QED
      BY <3>1, <3>2
  <2> QED
    BY <2>3, <2>4, <2>5 DEF ReqOK, At
<1>3. CASE RiskStatus(r)
  BY <1>3, MoveReqOK DEF RiskStatus, Check, At
<1>4. CASE RiskDecision(r)
  BY <1>4, MoveReqOK DEF RiskDecision, Check, At
<1>5. CASE Reveal(r)
  BY <1>5, MoveReqOK DEF Reveal, Check, At
<1>6. CASE PreflightGuardian(r)
  BY <1>6, MoveReqOK DEF PreflightGuardian, Check, At
<1>7. CASE PreflightStatus(r)
  BY <1>7, MoveReqOK DEF PreflightStatus, Check, At
<1>8. CASE PreflightAccount(r)
  BY <1>8, MoveReqOK DEF PreflightAccount, Check, At
<1>9. CASE Reserve(r)
  BY <1>9, MoveReqOK DEF Reserve, At
<1>10. CASE Submit(r)
  BY <1>10, MoveReqOK DEF Submit, At
<1>11. CASE SubmitReturns(r)
  BY <1>11, MoveReqOK DEF SubmitReturns, At
<1>12. CASE SubmitRaises(r)
  BY <1>12, MoveReqOK DEF SubmitRaises, At
<1>13. CASE RecordAccepted(r)
  BY <1>13, MoveReqOK DEF RecordAccepted, SetState, At
<1>14. CASE RecordUncertain(r)
  BY <1>14, MoveReqOK DEF RecordUncertain, SetState, At
<1> QED
  BY <1>1, <1>2, <1>3, <1>4, <1>5, <1>6, <1>7, <1>8, <1>9, <1>10, <1>11,
     <1>12, <1>13, <1>14 DEF Confirm

(* Every other step, and what it does to the handlers. *)
LEMMA OtherReqOK ==
    ASSUME ReqOK, [Next]_vars, ~ \E r \in Requests : Confirm(r)
    PROVE  ReqOK'
<1>1. ASSUME NEW r \in Requests, NEW i \in Intents, Begin(r, i) PROVE ReqOK'
  <2> DEFINE new == [pc |-> "account", intent |-> i, fits |-> FALSE]
  <2>1. new \in [pc : Stages, intent : Intents \cup {NoIntent}, fits : BOOLEAN]
    BY StagesAre
  <2>2. req' = [req EXCEPT ![r] = new] /\ under' \subseteq under \cup {r}
    BY <1>1 DEF Begin
  <2> QED
    BY <2>1, <2>2 DEF ReqOK, At
<1>2. ASSUME req' = req, under' \subseteq under \cup Requests PROVE ReqOK'
  BY <1>2 DEF ReqOK, At
<1>3. ASSUME NEW i \in Intents, Reconcile(i) \/ Broker(i) \/ Expire(i) PROVE ReqOK'
  BY <1>2, <1>3 DEF Reconcile, LookUpUncertain, SettleUncertain, Broker, BrokerAccepts,
                    BrokerRefuses, Expire
<1>4. ASSUME NEW o \in Operators, Operate(o) PROVE ReqOK'
  BY <1>2, <1>4 DEF Operate, HaltReads, HaltInserts, RecoverReads, RecoverClears,
                    DeleteCredential, PurgeWorkspace
<1>5. CASE SaveCredential \/ SyncApplies \/ SyncStateChanges \/ UNCHANGED vars
  BY <1>2, <1>5 DEF SaveCredential, SyncApplies, SyncStateChanges, vars
<1>6. CASE ApiCrash
  BY <1>6 DEF ApiCrash, ReqOK, At, Idle, Stages
<1> QED
  BY <1>1, <1>3, <1>4, <1>5, <1>6 DEF Next

(* The part of TypeOK about everything else. *)
DataOK ==
    /\ record \in [Intents -> LedgerStates]
    /\ sent \in [Intents -> Nat]
    /\ wire \subseteq Intents
    /\ placed \subseteq Intents
    /\ found \subseteq Intents
    /\ expired \subseteq Intents
    /\ row \in PossibleRows
    /\ positions \subseteq placed
    /\ credential \in BOOLEAN
    /\ active \subseteq Operators
    /\ op \in [Operators -> {"idle", "insert", "clear", "purge"}]
    /\ assured \subseteq Operators

(* Only four stages of a confirm handler write anything but the handler. *)
LEMMA ConfirmDataOK ==
    ASSUME NEW r \in Requests, ReqOK, DataOK, Confirm(r)
    PROVE  DataOK'
<1> USE DEF ledgerVars, brokerVars, deskVars, guardVars
<1>1. ASSUME UNCHANGED <<ledgerVars, brokerVars, deskVars, guardVars>> PROVE DataOK'
  BY <1>1 DEF DataOK
<1>2. ASSUME NEW state \in LedgerStates,
             record' \in {record, [record EXCEPT ![req[r].intent] = state]},
             UNCHANGED <<found, brokerVars, deskVars, guardVars>>
      PROVE  DataOK'
  BY <1>2 DEF DataOK
<1>3. CASE Reserve(r) \/ RecordAccepted(r) \/ RecordUncertain(r)
  <2>1. {"SUBMISSION_STARTED", "ACCEPTED", "SUBMISSION_UNCERTAIN"} \subseteq LedgerStates
    BY DEF LedgerStates
  <2>2. PICK state \in LedgerStates :
           /\ record' \in {record, [record EXCEPT ![req[r].intent] = state]}
           /\ UNCHANGED <<found, brokerVars, deskVars, guardVars>>
    BY <1>3, <2>1 DEF Reserve, RecordAccepted, RecordUncertain, SetState
  <2> QED
    BY <1>2, <2>2
<1>4. CASE Submit(r)
  <2>1. req[r].intent \in Intents
    BY <1>4 DEF Submit, ReqOK, At
  <2> QED
    BY <1>4, <2>1 DEF Submit, DataOK
<1>5. CASE ~(Reserve(r) \/ RecordAccepted(r) \/ RecordUncertain(r) \/ Submit(r))
  BY <1>1, <1>5 DEF Confirm, ReadAccount, ReadPositions, RiskStatus, RiskDecision, Reveal,
       PreflightGuardian, PreflightStatus, PreflightAccount, SubmitReturns, SubmitRaises
<1> QED
  BY <1>3, <1>4, <1>5

(* The other actions keep the tables well typed. *)
LEMMA OtherDataOK ==
    ASSUME DataOK, [Next]_vars, ~ \E r \in Requests : Confirm(r)
    PROVE  DataOK'
<1> USE DEF ledgerVars, brokerVars, deskVars, guardVars
<1>1. ASSUME NEW r \in Requests, NEW i \in Intents, Begin(r, i) PROVE DataOK'
  BY <1>1 DEF Begin, DataOK
<1>2. ASSUME NEW i \in Intents, Reconcile(i) \/ Broker(i) \/ Expire(i) PROVE DataOK'
  <2>1. CASE LookUpUncertain(i)
    BY <2>1 DEF LookUpUncertain, DataOK
  <2>2. CASE SettleUncertain(i)
    BY <2>2 DEF SettleUncertain, DataOK, LedgerStates
  <2>3. CASE BrokerAccepts(i) \/ BrokerRefuses(i)
    BY <2>3 DEF BrokerAccepts, BrokerRefuses, DataOK
  <2>4. CASE Expire(i)
    BY <2>4 DEF Expire, DataOK
  <2> QED
    BY <1>2, <2>1, <2>2, <2>3, <2>4 DEF Reconcile, Broker
<1>3. ASSUME NEW o \in Operators, Operate(o) PROVE DataOK'
  <2>1. CASE HaltReads(o) \/ HaltInserts(o) \/ RecoverReads(o) \/ RecoverClears(o)
    BY <2>1 DEF HaltReads, HaltInserts, RecoverReads, Assure, RecoverClears, DataOK
  <2>2. CASE DeleteCredential(o)
    BY <2>2 DEF DeleteCredential, DataOK
  <2>3. CASE PurgeWorkspace(o)
    BY <2>3 DEF PurgeWorkspace, DataOK, PossibleRows, Rows
  <2> QED
    BY <1>3, <2>1, <2>2, <2>3 DEF Operate
<1>4. CASE SaveCredential
  BY <1>4 DEF SaveCredential, DataOK
<1>5. CASE SyncApplies
  BY <1>5 DEF SyncApplies, Projection!Writes, DataOK, PossibleRows, Rows
<1>6. CASE SyncStateChanges
  BY <1>6 DEF SyncStateChanges, Projection!Turns, DataOK, PossibleRows, Rows
<1>7. CASE ApiCrash
  BY <1>7 DEF ApiCrash, DataOK
<1>8. CASE UNCHANGED vars
  BY <1>8 DEF vars, DataOK
<1> QED
  BY <1>1, <1>2, <1>3, <1>4, <1>5, <1>6, <1>7, <1>8 DEF Next

LEMMA TypeStep == TypeOK /\ [Next]_vars => TypeOK'
<1> SUFFICES ASSUME TypeOK, [Next]_vars PROVE TypeOK'
  OBVIOUS
<1>1. ReqOK /\ DataOK
  BY DEF TypeOK, ReqOK, DataOK
<1>2. ReqOK'
  BY <1>1, ConfirmReqOK, OtherReqOK
<1>3. DataOK'
  BY <1>1, ConfirmDataOK, OtherDataOK
<1> QED
  BY <1>2, <1>3 DEF TypeOK, ReqOK, DataOK, At

(* Every variable keeps its type, whatever the numbers of handlers are: the
   projection never shows a position the broker does not hold, and a known
   broker state always comes with an account.                                *)
THEOREM TypeCorrect == Spec => []TypeOK
<1>1. Init => TypeOK
  BY InitInv DEF IInv
<1> QED
  BY <1>1, TypeStep, PTL DEF Spec

-----------------------------------------------------------------------------
(* The ledger.                                                               *)

(* What a step of one handler does to the handlers. *)
LEMMA MoveReq ==
    ASSUME NEW r \in Requests, NEW next, ReqOK, Goto(r, next) \/ Answer(r)
    PROVE  /\ \A s \in Requests \ {r} : req'[s] = req[s]
           /\ Goto(r, next) => req'[r].pc = next /\ req'[r].intent = req[r].intent
           /\ Answer(r) => req'[r].pc = "idle"
<1>1. CASE Answer(r)
  <2>1. req' = [req EXCEPT ![r] = Idle] /\ req \in [Requests -> [pc : Stages, intent : Intents \cup {NoIntent}, fits : BOOLEAN]]
    BY <1>1 DEF Answer, ReqOK
  <2> QED
    BY <2>1 DEF Goto, Idle
<1>2. CASE Goto(r, next)
  BY <1>2 DEF Goto, Answer, Idle, ReqOK
<1> QED
  BY <1>1, <1>2

(* A step that touches neither the ledger nor the broker, and brings no handler
   into or along the submission, keeps the ledger invariant.                 *)
LEMMA QuietStep ==
    ASSUME LedgerInv, UNCHANGED <<record, sent, wire, placed, found>>,
           \A r \in Requests : req'[r].pc \in Submitting => req'[r] = req[r]
    PROVE  LedgerInv'
<1>1. Ownership'
  BY DEF LedgerInv, Ownership
<1>2. Departures'
  BY DEF LedgerInv, Departures, Submitting
<1>3. Acceptances'
  BY DEF LedgerInv, Acceptances, Submitting
<1> QED
  BY <1>1, <1>2, <1>3 DEF LedgerInv

(* The reservation: an ABSENT row has no owner and nothing sent, so the winner
   is its only owner.                                                        *)
LEMMA ReserveStep ==
    ASSUME NEW r \in Requests, TypeOK, LedgerInv, Reserve(r)
    PROVE  LedgerInv'
<1>0. ReqOK /\ record \in [Intents -> LedgerStates]
  BY DEF TypeOK, ReqOK
<1>1. CASE Answer(r) /\ UNCHANGED record
  <2>1. UNCHANGED <<record, sent, wire, placed, found>>
    BY <1>1 DEF Reserve, brokerVars
  <2>2. \A s \in Requests : req'[s].pc \in Submitting => req'[s] = req[s]
    BY <1>0, <1>1, MoveReq DEF Submitting
  <2> QED
    BY <2>1, <2>2, QuietStep
<1>2. CASE /\ record[req[r].intent] = "ABSENT"
           /\ record' = [record EXCEPT ![req[r].intent] = "SUBMISSION_STARTED"]
           /\ Goto(r, "submit")
  <2> DEFINE i == req[r].intent
  <2>1. i \in Intents
    BY <1>0 DEF ReqOK, Reserve, At
  <2>2. req'[r].pc = "submit" /\ req'[r].intent = i /\ \A s \in Requests \ {r} : req'[s] = req[s]
    BY <1>0, <1>2, MoveReq
  <2>3. UNCHANGED <<sent, wire, placed, found>>
    BY DEF Reserve, brokerVars
  <2>4. record'[i] = "SUBMISSION_STARTED" /\ \A j \in Intents \ {i} : record'[j] = record[j]
    BY <1>0, <1>2, <2>1
  <2>5. \A s \in Requests \ {r} : req[s].pc \in Submitting => req[s].intent \in Intents \ {i}
    BY <1>0, <1>2, <2>1 DEF LedgerInv, Ownership, ReqOK, At, Submitting
  <2>6. sent[i] = 0
    BY <1>2, <2>1 DEF LedgerInv, Departures
  <2>7. Ownership'
    BY <2>2, <2>4, <2>5 DEF LedgerInv, Ownership
  <2>8. Departures'
    BY <2>2, <2>3, <2>4, <2>6 DEF LedgerInv, Departures
  <2>9. Acceptances'
    <3>1. \A s \in Requests : req'[s].pc = "accept" => req'[s].intent \in placed'
      BY <2>2, <2>3 DEF LedgerInv, Acceptances
    <3>2. i \notin found
      BY <1>2 DEF LedgerInv, Acceptances
    <3>3. found \subseteq Intents
      BY DEF TypeOK
    <3> QED
      BY <2>3, <2>4, <3>1, <3>2, <3>3 DEF LedgerInv, Acceptances
  <2> QED
    BY <2>7, <2>8, <2>9 DEF LedgerInv
<1> QED
  BY <1>1, <1>2 DEF Reserve

(* The submission: only the owner sends, and it has sent nothing yet. *)
LEMMA SubmitStep ==
    ASSUME NEW r \in Requests, TypeOK, LedgerInv, Submit(r)
    PROVE  LedgerInv'
<1> DEFINE i == req[r].intent
<1>0. ReqOK /\ sent \in [Intents -> Nat]
  BY DEF TypeOK, ReqOK
<1>1. i \in Intents /\ req[r].pc = "submit"
  BY <1>0 DEF ReqOK, Submit, At
<1>2. req'[r].pc = "awaiting" /\ req'[r].intent = i /\ \A s \in Requests \ {r} : req'[s] = req[s]
  BY <1>0, MoveReq DEF Submit
<1>3. sent[i] = 0
  BY <1>1 DEF LedgerInv, Departures
<1>4. sent'[i] = 1 /\ \A j \in Intents \ {i} : sent'[j] = sent[j]
  BY <1>0, <1>1, <1>3 DEF Submit
<1>5. UNCHANGED <<record, found, placed>> /\ wire' = wire \cup {i}
  BY DEF Submit, ledgerVars
<1>6. \A s \in Requests \ {r} : req[s].pc \in Submitting => req[s].intent \in Intents \ {i}
  BY <1>0, <1>1 DEF LedgerInv, Ownership, ReqOK, At, Submitting
<1>7. record[i] = "SUBMISSION_STARTED"
  BY <1>1 DEF LedgerInv, Ownership, Submitting
<1>8. Ownership'
  BY <1>1, <1>2, <1>5 DEF LedgerInv, Ownership, Submitting
<1>9. Departures'
  <2>1. wire \subseteq Intents /\ placed \subseteq Intents
    BY DEF TypeOK
  <2>2. \A s \in Requests : req'[s].pc = "submit" => sent'[req'[s].intent] = 0
    BY <1>2, <1>4, <1>6 DEF LedgerInv, Departures, Submitting
  <2>3. \A s \in Requests : req'[s].pc \in {"awaiting", "accept", "uncertain"} =>
            sent'[req'[s].intent] = 1
    BY <1>2, <1>4, <1>6 DEF LedgerInv, Departures, Submitting
  <2>4. \A j \in Intents : record'[j] = "ABSENT" => sent'[j] = 0
    BY <1>4, <1>5, <1>7 DEF LedgerInv, Departures
  <2> QED
    BY <1>4, <1>5, <2>1, <2>2, <2>3, <2>4 DEF LedgerInv, Departures
<1>10. Acceptances'
  BY <1>2, <1>5 DEF LedgerInv, Acceptances
<1> QED
  BY <1>8, <1>9, <1>10 DEF LedgerInv

(* The outcome: an accepting handler has seen the broker answer. *)
LEMMA OutcomeStep ==
    ASSUME NEW r \in Requests, TypeOK, LedgerInv, SubmitReturns(r) \/ SubmitRaises(r)
    PROVE  LedgerInv'
<1>0. ReqOK
  BY DEF TypeOK, ReqOK
<1>1. PICK next \in {"accept", "uncertain"} :
        Goto(r, next) /\ (next = "accept" => req[r].intent \in placed)
  BY DEF SubmitReturns, SubmitRaises
<1>2. /\ req[r].pc = "awaiting"
      /\ req'[r].pc = next
      /\ req'[r].intent = req[r].intent
      /\ \A s \in Requests \ {r} : req'[s] = req[s]
  BY <1>0, <1>1, MoveReq DEF SubmitReturns, SubmitRaises, At
<1>3. UNCHANGED <<record, found, sent, wire, placed>>
  BY DEF SubmitReturns, SubmitRaises, ledgerVars, brokerVars
<1>4. Ownership'
  BY <1>2, <1>3 DEF LedgerInv, Ownership, Submitting
<1>5. Departures'
  BY <1>2, <1>3 DEF LedgerInv, Departures
<1>6. Acceptances'
  BY <1>1, <1>2, <1>3 DEF LedgerInv, Acceptances
<1> QED
  BY <1>4, <1>5, <1>6 DEF LedgerInv

(* The owner's last write: it may fail, but it never claims more than is so. *)
LEMMA RecordStep ==
    ASSUME NEW r \in Requests, TypeOK, LedgerInv, RecordAccepted(r) \/ RecordUncertain(r)
    PROVE  LedgerInv'
<1> DEFINE i == req[r].intent
<1>0. ReqOK /\ record \in [Intents -> LedgerStates]
  BY DEF TypeOK, ReqOK
<1>1. req[r].pc \in {"accept", "uncertain"} /\ i \in Intents
  BY <1>0 DEF RecordAccepted, RecordUncertain, SetState, ReqOK, At
<1>2. req'[r].pc = "idle" /\ \A s \in Requests \ {r} : req'[s] = req[s]
  BY <1>0, MoveReq DEF RecordAccepted, RecordUncertain, SetState
<1>3. UNCHANGED <<found, sent, wire, placed>>
  BY DEF RecordAccepted, RecordUncertain, SetState, brokerVars
<1>4. CASE UNCHANGED record
  <2>1. \A s \in Requests : req'[s].pc \in Submitting => req'[s] = req[s]
    BY <1>2 DEF Submitting
  <2> QED
    BY <1>3, <1>4, <2>1, QuietStep
<1>5. CASE \E state \in {"ACCEPTED", "SUBMISSION_UNCERTAIN"} :
             /\ record' = [record EXCEPT ![i] = state]
             /\ state = "ACCEPTED" => req[r].pc = "accept"
  <2>1. PICK state \in {"ACCEPTED", "SUBMISSION_UNCERTAIN"} :
             /\ record' = [record EXCEPT ![i] = state]
             /\ state = "ACCEPTED" => req[r].pc = "accept"
    BY <1>5
  <2>2. record'[i] = state /\ \A j \in Intents \ {i} : record'[j] = record[j]
    BY <1>0, <1>1, <2>1
  <2>3. \A s \in Requests \ {r} : req[s].pc \in Submitting => req[s].intent \in Intents \ {i}
    BY <1>0, <1>1 DEF LedgerInv, Ownership, ReqOK, At, Submitting
  <2>4. Ownership'
    BY <1>2, <2>2, <2>3 DEF LedgerInv, Ownership, Submitting
  <2>5. Departures'
    BY <1>2, <1>3, <2>2 DEF LedgerInv, Departures
  <2>6. Acceptances'
    <3>1. i \notin found
      BY <1>1 DEF LedgerInv, Ownership, Acceptances, Submitting
    <3>2. found \subseteq Intents
      BY DEF TypeOK
    <3>3. \A j \in found' : j \in placed' /\ record'[j] = "SUBMISSION_UNCERTAIN"
      BY <1>3, <2>2, <3>1, <3>2 DEF LedgerInv, Acceptances
    <3>4. state = "ACCEPTED" => i \in placed
      BY <2>1 DEF LedgerInv, Acceptances
    <3>5. \A j \in Intents : record'[j] = "ACCEPTED" => j \in placed'
      BY <1>3, <2>2, <3>4 DEF LedgerInv, Acceptances
    <3>6. \A s \in Requests : req'[s].pc = "accept" => req'[s].intent \in placed'
      BY <1>2, <1>3 DEF LedgerInv, Acceptances
    <3> QED
      BY <3>3, <3>5, <3>6 DEF Acceptances
  <2> QED
    BY <2>4, <2>5, <2>6 DEF LedgerInv
<1> QED
  BY <1>4, <1>5 DEF RecordAccepted, RecordUncertain, SetState, At

(* Reconciling an uncertain submission: what was found stays at the broker, and
   the row of a found intent has no owner left to change it.                 *)
LEMMA ReconcileStep ==
    ASSUME NEW i \in Intents, TypeOK, LedgerInv, Reconcile(i)
    PROVE  LedgerInv'
<1>1. CASE LookUpUncertain(i)
  <2>1. UNCHANGED <<record, req, sent, wire, placed>> /\ found' = found \cup {i}
    BY <1>1 DEF LookUpUncertain, brokerVars
  <2>2. i \in placed /\ record[i] = "SUBMISSION_UNCERTAIN"
    BY <1>1 DEF LookUpUncertain
  <2> QED
    BY <2>1, <2>2 DEF LedgerInv, Ownership, Departures, Acceptances
<1>2. CASE SettleUncertain(i)
  <2>1. UNCHANGED <<req, sent, wire, placed>> /\ found' = found \ {i} /\ i \in found
    BY <1>2 DEF SettleUncertain, brokerVars
  <2>2. record'[i] = "ACCEPTED" /\ \A j \in Intents \ {i} : record'[j] = record[j]
    BY <1>2 DEF SettleUncertain, TypeOK
  <2>3. \A s \in Requests : req[s].pc \in Submitting => req[s].intent \in Intents \ {i}
    BY <2>1 DEF LedgerInv, Ownership, Acceptances, TypeOK, At, Submitting
  <2>4. Ownership'
    BY <2>1, <2>2, <2>3 DEF LedgerInv, Ownership
  <2>5. Departures'
    BY <2>1, <2>2 DEF LedgerInv, Departures
  <2>6. found \subseteq Intents
    BY DEF TypeOK
  <2>7. Acceptances'
    BY <2>1, <2>2, <2>6 DEF LedgerInv, Acceptances
  <2> QED
    BY <2>4, <2>5, <2>7 DEF LedgerInv
<1> QED
  BY <1>1, <1>2 DEF Reconcile

(* Alpaca only ever turns what was sent into an order, and keeps its orders. *)
LEMMA BrokerStep ==
    ASSUME NEW i \in Intents, TypeOK, LedgerInv, Broker(i)
    PROVE  LedgerInv'
<1>1. /\ UNCHANGED <<record, found, req, sent>>
      /\ i \in wire
      /\ wire' = wire \ {i}
      /\ placed' \in {placed, placed \cup {i}}
  BY DEF Broker, BrokerAccepts, BrokerRefuses, ledgerVars
<1>2. Ownership'
  BY <1>1 DEF LedgerInv, Ownership
<1>3. Departures'
  BY <1>1 DEF LedgerInv, Departures
<1>4. Acceptances'
  BY <1>1 DEF LedgerInv, Acceptances
<1> QED
  BY <1>2, <1>3, <1>4 DEF LedgerInv

LEMMA CrashStep == ASSUME LedgerInv, ApiCrash PROVE LedgerInv'
<1>1. /\ UNCHANGED <<record, sent, wire, placed>>
      /\ found' = {}
      /\ \A r \in Requests : req'[r].pc = "idle"
  BY DEF ApiCrash, brokerVars, Idle
<1> QED
  BY <1>1 DEF LedgerInv, Ownership, Departures, Acceptances, Submitting

(* The steps of a confirm handler before its reservation. *)
LEMMA EarlyStep ==
    ASSUME NEW r \in Requests, TypeOK, LedgerInv,
           \/ ReadAccount(r) \/ ReadPositions(r) \/ RiskStatus(r) \/ RiskDecision(r)
           \/ Reveal(r) \/ PreflightGuardian(r) \/ PreflightStatus(r)
           \/ PreflightAccount(r) \/ \E i \in Intents : Begin(r, i)
    PROVE  LedgerInv'
<1>0. ReqOK
  BY DEF TypeOK, ReqOK
<1>1. UNCHANGED <<record, found, sent, wire, placed>>
  BY DEF Begin, ReadAccount, ReadPositions, RiskStatus, RiskDecision, Reveal,
         PreflightGuardian, PreflightStatus, PreflightAccount, ledgerVars, brokerVars
<1>2. CASE (\E next \in Checking \cup Cleared : Goto(r, next)) \/ Answer(r)
  <2>1. \A s \in Requests : req'[s].pc \in Submitting => req'[s] = req[s]
    BY <1>0, <1>2, MoveReq DEF Checking, Cleared, Submitting
  <2> QED
    BY <1>1, <2>1, QuietStep
<1>3. CASE ReadPositions(r) \/ \E i \in Intents : Begin(r, i)
  <2>1. req'[r].pc \in Checking /\ \A s \in Requests \ {r} : req'[s] = req[s]
    BY <1>0, <1>3 DEF ReadPositions, Begin, ReqOK, Checking
  <2>2. \A s \in Requests : req'[s].pc \in Submitting => req'[s] = req[s]
    BY <2>1 DEF Checking, Submitting
  <2> QED
    BY <1>1, <2>2, QuietStep
<1> QED
  BY <1>2, <1>3 DEF ReadAccount, RiskStatus, RiskDecision, Reveal, PreflightGuardian,
       PreflightStatus, PreflightAccount, Check, Checking, Cleared

LEMMA LedgerStep == TypeOK /\ LedgerInv /\ [Next]_vars => LedgerInv'
<1> SUFFICES ASSUME TypeOK, LedgerInv, [Next]_vars PROVE LedgerInv'
  OBVIOUS
<1>1. ASSUME NEW r \in Requests, Confirm(r) \/ \E i \in Intents : Begin(r, i)
      PROVE  LedgerInv'
  BY <1>1, EarlyStep, ReserveStep, SubmitStep, OutcomeStep, RecordStep DEF Confirm
<1>2. ASSUME UNCHANGED <<record, req, sent, wire, placed, found>> PROVE LedgerInv'
  BY <1>2, QuietStep
<1>3. ASSUME NEW o \in Operators, Operate(o) PROVE LedgerInv'
  BY <1>2, <1>3 DEF Operate, HaltReads, HaltInserts, RecoverReads, RecoverClears,
                    DeleteCredential, PurgeWorkspace, ledgerVars, brokerVars
<1>4. ASSUME NEW i \in Intents, Expire(i) PROVE LedgerInv'
  BY <1>2, <1>4 DEF Expire, ledgerVars, brokerVars
<1>5. CASE SaveCredential \/ SyncApplies \/ SyncStateChanges \/ UNCHANGED vars
  BY <1>2, <1>5 DEF SaveCredential, SyncApplies, SyncStateChanges, Projection!Writes,
                    Projection!Turns, vars, ledgerVars, brokerVars
<1> QED
  BY <1>1, <1>3, <1>4, <1>5, ReconcileStep, BrokerStep, CrashStep DEF Next

LEMMA LedgerInvariant == Spec => [](TypeOK /\ LedgerInv)
<1>1. Init => TypeOK /\ LedgerInv
  BY InitInv DEF IInv
<1>2. TypeOK /\ LedgerInv /\ [Next]_vars => (TypeOK /\ LedgerInv)'
  BY TypeStep, LedgerStep
<1> QED
  BY <1>1, <1>2, PTL DEF Spec

(* However many confirm handlers run and however often the API dies, at most
   one submission leaves for Alpaca under a client order id.                 *)
THEOREM AtMostOnce == Spec => []AtMostOnceSubmission
<1>1. LedgerInv => AtMostOnceSubmission
  BY DEF LedgerInv, Departures, AtMostOnceSubmission
<1> QED
  BY <1>1, LedgerInvariant, PTL

(* The intent ledger has a row for whatever is at the broker or on its way, and
   says ACCEPTED only of an order that is there.                             *)
THEOREM Honest == Spec => []LedgerIsHonest
<1>1. TypeOK /\ LedgerInv => LedgerIsHonest
  BY DEF TypeOK, LedgerInv, Departures, Acceptances, LedgerIsHonest
<1> QED
  BY <1>1, LedgerInvariant, PTL

-----------------------------------------------------------------------------
(* The halt.                                                                 *)

(* A handler held back by a halt moves only from check to check, or answers;
   the step past the Guardian check needs that no halt stands.               *)
LEMMA HeldStep ==
    ASSUME NEW r \in Requests, NEW next, ReqOK, HaltInv, UNCHANGED active,
           \/ Goto(r, next) /\ UNCHANGED under
           \/ Answer(r),
           r \in under => next \in Checking \/ Answer(r)
    PROVE  HaltInv'
<1>1. \A s \in under \ {r} : req'[s] = req[s] /\ req[s].pc \in Checking
  BY MoveReq DEF ReqOK, HaltInv, HaltStopsOrders
<1>2. CASE Answer(r)
  BY <1>1, <1>2 DEF Answer, HaltInv, HaltStopsOrders
<1>3. CASE ~Answer(r)
  <2>1. under' = under /\ req'[r].pc = next
    BY <1>3, MoveReq
  <2>2. r \in under' => req'[r].pc \in Checking
    BY <1>3, <2>1
  <2> QED
    BY <1>1, <2>1, <2>2 DEF HaltInv, HaltStopsOrders
<1> QED
  BY <1>2, <1>3

LEMMA HaltConfirm ==
    ASSUME NEW r \in Requests, ReqOK, HaltInv, Confirm(r)
    PROVE  HaltInv'
<1>0. UNCHANGED active
  BY DEF Confirm, ReadAccount, ReadPositions, RiskStatus, RiskDecision, Reveal,
         PreflightGuardian, PreflightStatus, PreflightAccount, Reserve, Submit,
         SubmitReturns, SubmitRaises, RecordAccepted, RecordUncertain, SetState, guardVars
<1>1. r \in under => req[r].pc \in Checking
  BY DEF HaltInv, HaltStopsOrders
<1>2. CASE ReadAccount(r) \/ RiskStatus(r) \/ RiskDecision(r) \/ Reveal(r)
  BY <1>0, <1>2, HeldStep
  DEF ReadAccount, RiskStatus, RiskDecision, Reveal, Check, Checking
<1>3. CASE ReadPositions(r)
  <2>1. under' = under
    BY <1>3 DEF ReadPositions
  <2>2. req'[r].pc \in Checking /\ \A s \in Requests \ {r} : req'[s] = req[s]
    BY <1>3 DEF ReadPositions, ReqOK, Checking
  <2> QED
    BY <1>0, <2>1, <2>2 DEF HaltInv, HaltStopsOrders, ReqOK
<1>4. CASE PreflightGuardian(r)
  <2>1. CASE active = {}
    <3>1. under = {}
      BY <2>1 DEF HaltInv
    <3> QED
      BY <1>0, <1>4, <3>1, HeldStep DEF PreflightGuardian, Check
  <2>2. CASE active # {}
    BY <1>0, <1>4, <2>2, HeldStep DEF PreflightGuardian, Check
  <2> QED
    BY <2>1, <2>2
<1>5. CASE \/ PreflightStatus(r) \/ PreflightAccount(r) \/ Reserve(r) \/ Submit(r)
           \/ SubmitReturns(r) \/ SubmitRaises(r) \/ RecordAccepted(r) \/ RecordUncertain(r)
  <2>1. req[r].pc \in Cleared \cup Submitting
    BY <1>5 DEF PreflightStatus, PreflightAccount, Reserve, Submit, SubmitReturns,
         SubmitRaises, RecordAccepted, RecordUncertain, SetState, At, Cleared, Submitting
  <2>2. r \notin under
    BY <1>1, <2>1 DEF Checking, Cleared, Submitting
  <2>3. (\E next \in Stages : Goto(r, next) /\ UNCHANGED under) \/ Answer(r)
    BY <1>5, StagesAre DEF PreflightStatus, PreflightAccount, Reserve, Submit, SubmitReturns,
         SubmitRaises, RecordAccepted, RecordUncertain, SetState, Check
  <2> QED
    BY <1>0, <2>2, <2>3, HeldStep
<1> QED
  BY <1>2, <1>3, <1>4, <1>5 DEF Confirm

LEMMA HaltStep == ReqOK /\ HaltInv /\ [Next]_vars => HaltInv'
<1> SUFFICES ASSUME ReqOK, HaltInv, [Next]_vars PROVE HaltInv'
  OBVIOUS
<1>1. ASSUME NEW r \in Requests, NEW i \in Intents, Begin(r, i) PROVE HaltInv'
  <2>1. req'[r].pc \in Checking /\ \A s \in Requests \ {r} : req'[s] = req[s]
    BY <1>1 DEF Begin, ReqOK, Checking
  <2>2. active' = active /\ under' = IF active # {} THEN under \cup {r} ELSE under
    BY <1>1 DEF Begin, guardVars
  <2> QED
    BY <2>1, <2>2 DEF HaltInv, HaltStopsOrders, ReqOK
<1>2. ASSUME UNCHANGED <<req, active, under>> PROVE HaltInv'
  BY <1>2 DEF HaltInv, HaltStopsOrders
<1>3. ASSUME NEW i \in Intents, Reconcile(i) \/ Broker(i) \/ Expire(i) PROVE HaltInv'
  BY <1>2, <1>3 DEF Reconcile, LookUpUncertain, SettleUncertain, Broker, BrokerAccepts,
                    BrokerRefuses, Expire, guardVars
<1>4. ASSUME NEW o \in Operators, Operate(o) PROVE HaltInv'
  <2>1. CASE HaltReads(o) \/ RecoverReads(o) \/ DeleteCredential(o)
    BY <1>2, <2>1 DEF HaltReads, RecoverReads, DeleteCredential
  <2>2. CASE HaltInserts(o)
    BY <2>2 DEF HaltInserts, HaltInv, HaltStopsOrders
  <2>3. CASE RecoverClears(o) \/ PurgeWorkspace(o)
    BY <2>3 DEF RecoverClears, PurgeWorkspace, HaltInv, HaltStopsOrders
  <2> QED
    BY <1>4, <2>1, <2>2, <2>3 DEF Operate
<1>5. CASE SaveCredential \/ SyncApplies \/ SyncStateChanges \/ UNCHANGED vars
  BY <1>2, <1>5 DEF SaveCredential, SyncApplies, SyncStateChanges, vars, guardVars
<1>6. CASE ApiCrash
  BY <1>6 DEF ApiCrash, HaltInv, HaltStopsOrders
<1> QED
  BY <1>1, HaltConfirm, <1>3, <1>4, <1>5, <1>6 DEF Next

(* While a halt stands, no handler that had not passed its Guardian check when
   the halt came in reaches the reservation, let alone the submission.       *)
THEOREM Halts == Spec => []HaltStopsOrders
<1>1. Init => HaltInv
  BY InitInv DEF IInv
<1>2. TypeOK => ReqOK
  BY DEF TypeOK, ReqOK
<1>3. HaltInv => HaltStopsOrders
  BY DEF HaltInv
<1> QED
  BY <1>1, <1>2, <1>3, HaltStep, TypeCorrect, PTL DEF Spec

(* Every recovery that goes on has found the broker state known. *)
AssuredInv == \A o \in Operators : op[o] = "clear" => o \in assured

LEMMA AssuredStep == DataOK /\ AssuredInv /\ [Next]_vars => AssuredInv'
<1> SUFFICES ASSUME DataOK, AssuredInv, [Next]_vars PROVE AssuredInv'
  OBVIOUS
<1>1. ASSUME UNCHANGED <<op, assured>> PROVE AssuredInv'
  BY <1>1 DEF AssuredInv
<1>2. ASSUME NEW r \in Requests, Confirm(r) \/ \E i \in Intents : Begin(r, i) PROVE AssuredInv'
  BY <1>1, <1>2 DEF Begin, Confirm, ReadAccount, ReadPositions, RiskStatus, RiskDecision,
       Reveal, PreflightGuardian, PreflightStatus, PreflightAccount, Reserve, Submit,
       SubmitReturns, SubmitRaises, RecordAccepted, RecordUncertain, SetState, guardVars
<1>3. ASSUME NEW i \in Intents, Reconcile(i) \/ Broker(i) \/ Expire(i) PROVE AssuredInv'
  BY <1>1, <1>3 DEF Reconcile, LookUpUncertain, SettleUncertain, Broker, BrokerAccepts,
                    BrokerRefuses, Expire, guardVars
<1>4. ASSUME NEW o \in Operators, Operate(o) PROVE AssuredInv'
  <2>1. CASE RecoverReads(o)
    BY <2>1 DEF RecoverReads, Assure, AssuredInv, DataOK
  <2>2. CASE HaltReads(o) \/ HaltInserts(o) \/ DeleteCredential(o) \/ PurgeWorkspace(o)
    BY <2>2 DEF HaltReads, HaltInserts, DeleteCredential, PurgeWorkspace, AssuredInv, DataOK
  <2>3. CASE RecoverClears(o)
    BY <2>3 DEF RecoverClears, AssuredInv, DataOK
  <2> QED
    BY <1>4, <2>1, <2>2, <2>3 DEF Operate
<1>5. CASE SaveCredential \/ SyncApplies \/ SyncStateChanges \/ UNCHANGED vars
  BY <1>1, <1>5 DEF SaveCredential, SyncApplies, SyncStateChanges, vars, guardVars
<1>6. CASE ApiCrash
  BY <1>6 DEF ApiCrash, AssuredInv
<1> QED
  BY <1>2, <1>3, <1>4, <1>5, <1>6 DEF Next

(* Only a recovery that found the broker state known, or a deletion that leaves
   it unknown, ends a halt, and either ends all of them.                      *)
THEOREM Resume == Spec => ResumeNeedsReconciliation
<1> DEFINE Way == /\ active' = {}
                  /\ \/ \E o \in assured : op[o] = "clear" /\ op'[o] = "idle"
                     \/ ~row'.known
           Ends == ~ (active \subseteq active') => Way
<1>1. DataOK /\ AssuredInv /\ [Next]_vars => Ends
  <2> SUFFICES ASSUME DataOK, AssuredInv, [Next]_vars, ~ (active \subseteq active')
               PROVE  Way
    OBVIOUS
  <2>1. ASSUME NEW r \in Requests, NEW i \in Intents, Begin(r, i) PROVE FALSE
    BY <2>1 DEF Begin, guardVars
  <2>2. ASSUME NEW r \in Requests, Confirm(r) PROVE FALSE
    BY <2>2 DEF Confirm, ReadAccount, ReadPositions, RiskStatus, RiskDecision, Reveal,
         PreflightGuardian, PreflightStatus, PreflightAccount, Reserve, Submit,
         SubmitReturns, SubmitRaises, RecordAccepted, RecordUncertain, SetState, guardVars
  <2>3. ASSUME NEW i \in Intents, Reconcile(i) \/ Broker(i) \/ Expire(i) PROVE FALSE
    BY <2>3 DEF Reconcile, LookUpUncertain, SettleUncertain, Broker, BrokerAccepts,
                BrokerRefuses, Expire, guardVars
  <2>4. ASSUME NEW o \in Operators, Operate(o) PROVE Way
    <3>1. CASE RecoverClears(o)
      <4>1. active' = {} /\ op[o] = "clear" /\ op'[o] = "idle"
        BY <3>1 DEF RecoverClears, DataOK
      <4>2. o \in assured
        BY <4>1 DEF AssuredInv
      <4> QED
        BY <4>1, <4>2
    <3>2. CASE PurgeWorkspace(o)
      BY <3>2 DEF PurgeWorkspace
    <3>3. CASE HaltReads(o) \/ HaltInserts(o) \/ RecoverReads(o) \/ DeleteCredential(o)
      BY <3>3 DEF HaltReads, HaltInserts, RecoverReads, DeleteCredential
    <3> QED
      BY <2>4, <3>1, <3>2, <3>3 DEF Operate
  <2>5. CASE SaveCredential \/ SyncApplies \/ SyncStateChanges \/ ApiCrash \/ UNCHANGED vars
    BY <2>5 DEF SaveCredential, SyncApplies, SyncStateChanges, ApiCrash, vars, guardVars
  <2> QED
    BY <2>1, <2>2, <2>3, <2>4, <2>5 DEF Next
<1>2. TypeOK => DataOK
  BY DEF TypeOK, DataOK
<1>3. Init => AssuredInv
  BY DEF Init, AssuredInv
<1> QED
  BY <1>1, <1>2, <1>3, AssuredStep, TypeCorrect, PTL DEF Spec, ResumeNeedsReconciliation

(* The handlers that are past their Guardian check and have not submitted. *)
Late == {r \in Requests : req[r].pc \in Cleared \cup {"submit"}}

Drains ==
    active # {} =>
        /\ Late' \subseteq Late
        /\ \A i \in Intents : sent'[i] # sent[i] =>
               /\ sent'[i] = sent[i] + 1
               /\ \E r \in Late : r \notin Late' /\ req[r].intent = i

LEMMA StillLate ==
    ASSUME UNCHANGED sent, \A r \in Requests : req'[r].pc \in Cleared \cup {"submit"} => r \in Late
    PROVE  Drains
BY DEF Drains, Late

(* The orders that may still leave under a halt are those of the handlers that
   were past the check when it came in, one for each: nobody joins them while
   an incident stands, and whoever submits is one of them no longer.          *)
THEOREM HaltDrains == Spec => [][Drains]_vars
<1>1. ASSUME TypeOK, Next, active # {} PROVE Drains
  <2>0. ReqOK /\ sent \in [Intents -> Nat]
    BY <1>1 DEF TypeOK, ReqOK
  <2>1. ASSUME NEW r \in Requests, UNCHANGED sent,
               \/ Answer(r)
               \/ \E next \in Stages :
                      Goto(r, next) /\ (next \in Cleared \cup {"submit"} => r \in Late)
        PROVE  Drains
    <3>1. PICK next : /\ Goto(r, next) \/ Answer(r)
                      /\ next \in Cleared \cup {"submit"} => r \in Late
      <4>1. "idle" \notin Cleared \cup {"submit"}
        BY DEF Cleared
      <4> QED
        BY <2>1, <4>1
    <3>2. \A s \in Requests \ {r} : req'[s] = req[s]
      BY <2>0, <3>1, MoveReq
    <3>3. req'[r].pc \in Cleared \cup {"submit"} => r \in Late
      BY <2>0, <3>1, MoveReq DEF Cleared
    <3>4. \A s \in Requests : req'[s].pc \in Cleared \cup {"submit"} => s \in Late
      BY <3>2, <3>3 DEF Late
    <3> QED
      BY <2>1, <3>4, StillLate
  <2>2. ASSUME NEW r \in Requests, Submit(r) PROVE Drains
    <3>1. req[r].pc = "submit" /\ req[r].intent \in Intents
      BY <2>0, <2>2 DEF Submit, ReqOK, At
    <3>2. req'[r].pc = "awaiting" /\ \A s \in Requests \ {r} : req'[s] = req[s]
      BY <2>0, <2>2, MoveReq DEF Submit
    <3>3. Late' \subseteq Late /\ r \in Late /\ r \notin Late'
      BY <3>1, <3>2 DEF Late, Cleared
    <3>4. /\ sent'[req[r].intent] = sent[req[r].intent] + 1
          /\ \A i \in Intents \ {req[r].intent} : sent'[i] = sent[i]
      BY <2>0, <2>2, <3>1 DEF Submit
    <3> QED
      BY <3>1, <3>3, <3>4 DEF Drains
  <2>3. ASSUME NEW r \in Requests, PreflightGuardian(r) PROVE Drains
    BY <1>1, <2>1, <2>3 DEF PreflightGuardian, Check, brokerVars
  <2>4. ASSUME NEW r \in Requests, PreflightStatus(r) \/ PreflightAccount(r) \/ Reserve(r)
        PROVE  Drains
    <3>1. r \in Late
      BY <2>4 DEF PreflightStatus, PreflightAccount, Reserve, At, Late, Cleared
    <3>2. UNCHANGED sent
      BY <2>4 DEF PreflightStatus, PreflightAccount, Reserve, brokerVars
    <3>3. Answer(r) \/ \E next \in Stages : Goto(r, next)
      BY <2>4 DEF PreflightStatus, PreflightAccount, Reserve, Check, Stages, Cleared, Submitting
    <3> QED
      BY <2>1, <3>1, <3>2, <3>3
  <2>5. ASSUME NEW r \in Requests,
               \/ ReadAccount(r) \/ RiskStatus(r) \/ RiskDecision(r) \/ Reveal(r)
               \/ SubmitReturns(r) \/ SubmitRaises(r) \/ RecordAccepted(r) \/ RecordUncertain(r)
        PROVE  Drains
    <3>1. UNCHANGED sent
      BY <2>5 DEF ReadAccount, RiskStatus, RiskDecision, Reveal, SubmitReturns, SubmitRaises,
                  RecordAccepted, RecordUncertain, SetState, brokerVars
    <3>2. Answer(r) \/ \E next \in Stages \ (Cleared \cup {"submit"}) : Goto(r, next)
      BY <2>5 DEF ReadAccount, RiskStatus, RiskDecision, Reveal, SubmitReturns, SubmitRaises,
                  RecordAccepted, RecordUncertain, SetState, Check, Stages, Checking, Cleared,
                  Submitting
    <3> QED
      BY <2>1, <3>1, <3>2
  <2>6. ASSUME NEW r \in Requests, ReadPositions(r) \/ \E i \in Intents : Begin(r, i)
        PROVE  Drains
    <3>1. UNCHANGED sent
      BY <2>6 DEF ReadPositions, Begin, brokerVars
    <3>2. req'[r].pc \in Checking /\ \A s \in Requests \ {r} : req'[s] = req[s]
      BY <2>0, <2>6 DEF ReadPositions, Begin, ReqOK, Checking
    <3>3. req'[r].pc \notin Cleared \cup {"submit"}
      BY <3>2 DEF Checking, Cleared
    <3> QED
      BY <3>1, <3>2, <3>3, StillLate DEF Late
  <2>7. ASSUME UNCHANGED <<req, sent>> PROVE Drains
    BY <2>7, StillLate DEF Late
  <2>8. ASSUME NEW i \in Intents, Reconcile(i) \/ Broker(i) \/ Expire(i) PROVE Drains
    BY <2>7, <2>8 DEF Reconcile, LookUpUncertain, SettleUncertain, Broker, BrokerAccepts,
                      BrokerRefuses, Expire, brokerVars
  <2>9. ASSUME NEW o \in Operators, Operate(o) PROVE Drains
    BY <2>7, <2>9 DEF Operate, HaltReads, HaltInserts, RecoverReads, RecoverClears,
                      DeleteCredential, PurgeWorkspace, brokerVars
  <2>10. CASE SaveCredential \/ SyncApplies \/ SyncStateChanges
    BY <2>7, <2>10 DEF SaveCredential, SyncApplies, SyncStateChanges, brokerVars
  <2>11. CASE ApiCrash
    <3>1. UNCHANGED sent /\ \A r \in Requests : req'[r].pc = "idle"
      BY <2>11 DEF ApiCrash, brokerVars, Idle
    <3> QED
      BY <3>1, StillLate DEF Cleared
  <2> QED
    BY <1>1, <2>2, <2>3, <2>4, <2>5, <2>6, <2>8, <2>9, <2>10, <2>11 DEF Next, Confirm
<1>2. TypeOK /\ [Next]_vars => [Drains]_vars
  BY <1>1 DEF Drains
<1> QED
  BY <1>2, TypeCorrect, PTL DEF Spec

-----------------------------------------------------------------------------
(* Refinement: record, sent and placed behave as the abstract ledger allows. *)

(* A step of the desk is a step of the abstract ledger or leaves it as it is. *)
LEMMA LedgerImplStep ==
    ASSUME TypeOK, LedgerInv, [Next]_vars
    PROVE  [Ledger!Next]_(Ledger!vars)
<1> USE DEF Ledger!vars
<1>0. /\ ReqOK
      /\ record \in [Intents -> LedgerStates]
      /\ sent \in [Intents -> Nat]
  BY DEF TypeOK, ReqOK
<1>1. ASSUME UNCHANGED <<record, sent, placed>> PROVE UNCHANGED Ledger!vars
  BY <1>1
<1>2. ASSUME NEW r \in Requests, Confirm(r) PROVE [Ledger!Next]_(Ledger!vars)
  <2> DEFINE i == req[r].intent
  <2>1. CASE Reserve(r)
    <3>1. i \in Intents
      BY <1>0, <2>1 DEF Reserve, ReqOK, At
    <3>2. Ledger!Claim(i) \/ UNCHANGED Ledger!vars
      BY <2>1 DEF Reserve, brokerVars, Ledger!Claim
    <3> QED
      BY <3>1, <3>2 DEF Ledger!Next
  <2>2. CASE Submit(r)
    <3>1. i \in Intents /\ req[r].pc = "submit"
      BY <1>0, <2>2 DEF Submit, ReqOK, At
    <3>2. record[i] = "SUBMISSION_STARTED" /\ sent[i] = 0
      BY <3>1 DEF LedgerInv, Ownership, Departures, Submitting
    <3>3. sent' = [sent EXCEPT ![i] = 1]
      BY <1>0, <2>2, <3>1, <3>2 DEF Submit
    <3>4. Ledger!Submit(i)
      BY <2>2, <3>2, <3>3 DEF Submit, ledgerVars, Ledger!Submit
    <3> QED
      BY <3>1, <3>4 DEF Ledger!Next
  <2>3. CASE RecordAccepted(r)
    <3>1. i \in Intents /\ req[r].pc = "accept"
      BY <1>0, <2>3 DEF RecordAccepted, SetState, ReqOK, At
    <3>2. record[i] = "SUBMISSION_STARTED" /\ i \in placed
      BY <3>1 DEF LedgerInv, Ownership, Acceptances, Submitting
    <3>3. Ledger!Confirm(i) \/ UNCHANGED Ledger!vars
      BY <2>3, <3>2 DEF RecordAccepted, SetState, brokerVars, Ledger!Confirm
    <3> QED
      BY <3>1, <3>3 DEF Ledger!Next
  <2>4. CASE RecordUncertain(r)
    <3>1. i \in Intents /\ req[r].pc = "uncertain"
      BY <1>0, <2>4 DEF RecordUncertain, SetState, ReqOK, At
    <3>2. record[i] = "SUBMISSION_STARTED" /\ sent[i] = 1
      BY <3>1 DEF LedgerInv, Ownership, Departures, Submitting
    <3>3. Ledger!Doubt(i) \/ UNCHANGED Ledger!vars
      BY <2>4, <3>2 DEF RecordUncertain, SetState, brokerVars, Ledger!Doubt
    <3> QED
      BY <3>1, <3>3 DEF Ledger!Next
  <2>5. CASE ~(Reserve(r) \/ Submit(r) \/ RecordAccepted(r) \/ RecordUncertain(r))
    BY <1>1, <1>2, <2>5 DEF Confirm, ReadAccount, ReadPositions, RiskStatus, RiskDecision,
         Reveal, PreflightGuardian, PreflightStatus, PreflightAccount, SubmitReturns,
         SubmitRaises, ledgerVars, brokerVars
  <2> QED
    BY <2>1, <2>2, <2>3, <2>4, <2>5
<1>3. ASSUME NEW i \in Intents, SettleUncertain(i) PROVE Ledger!Confirm(i)
  BY <1>3 DEF SettleUncertain, LedgerInv, Acceptances, brokerVars, Ledger!Confirm
<1>4. ASSUME NEW i \in Intents, BrokerAccepts(i) PROVE Ledger!Place(i)
  BY <1>4 DEF BrokerAccepts, LedgerInv, Departures, ledgerVars, Ledger!Place
<1>5. ASSUME NEW i \in Intents, LookUpUncertain(i) \/ BrokerRefuses(i) \/ Expire(i)
      PROVE  UNCHANGED Ledger!vars
  BY <1>1, <1>5 DEF LookUpUncertain, BrokerRefuses, Expire, ledgerVars, brokerVars
<1>6. ASSUME NEW r \in Requests, NEW i \in Intents, Begin(r, i) PROVE UNCHANGED Ledger!vars
  BY <1>1, <1>6 DEF Begin, ledgerVars, brokerVars
<1>7. ASSUME NEW o \in Operators, Operate(o) PROVE UNCHANGED Ledger!vars
  BY <1>1, <1>7 DEF Operate, HaltReads, HaltInserts, RecoverReads, RecoverClears,
                    DeleteCredential, PurgeWorkspace, ledgerVars, brokerVars
<1>8. CASE SaveCredential \/ SyncApplies \/ SyncStateChanges \/ ApiCrash \/ UNCHANGED vars
  BY <1>1, <1>8 DEF SaveCredential, SyncApplies, SyncStateChanges, Projection!Writes,
                    Projection!Turns, ApiCrash, vars, ledgerVars, brokerVars
<1> QED
  BY <1>2, <1>3, <1>4, <1>5, <1>6, <1>7, <1>8 DEF Next, Reconcile, Broker, Ledger!Next

(* The confirm handlers, the broker and the crashes together implement the
   ledger of SubmissionLedger: one claim, one submission, no false ACCEPTED. *)
THEOREM Refinement == Spec => ImplementsLedger
<1>1. Init => Ledger!Init
  BY DEF Init, Ledger!Init
<1>2. TypeOK /\ LedgerInv /\ [Next]_vars => [Ledger!Next]_(Ledger!vars)
  BY LedgerImplStep
<1> QED
  BY <1>1, <1>2, LedgerInvariant, PTL DEF Spec, ImplementsLedger, Ledger!Spec

-----------------------------------------------------------------------------
(* Refinement: row, positions and placed behave as the contract allows.      *)

(* A step of the desk is a step of the projection's contract or leaves it. *)
LEMMA ProjectionImplStep == [Next]_vars => [Projection!Next]_(Projection!vars)
<1> SUFFICES ASSUME [Next]_vars PROVE [Projection!Next]_(Projection!vars)
  OBVIOUS
<1> USE DEF Projection!vars
<1>1. ASSUME UNCHANGED <<row, positions, placed>> PROVE [Projection!Next]_(Projection!vars)
  BY <1>1
<1>2. ASSUME NEW r \in Requests, Confirm(r) PROVE UNCHANGED <<row, positions, placed>>
  BY <1>2 DEF Confirm, ReadAccount, ReadPositions, RiskStatus, RiskDecision, Reveal,
       PreflightGuardian, PreflightStatus, PreflightAccount, Reserve, Submit, SubmitReturns,
       SubmitRaises, RecordAccepted, RecordUncertain, SetState, brokerVars, deskVars
<1>3. ASSUME NEW r \in Requests, NEW i \in Intents, Begin(r, i)
      PROVE  UNCHANGED <<row, positions, placed>>
  BY <1>3 DEF Begin, brokerVars, deskVars
<1>4. ASSUME NEW i \in Intents, Reconcile(i) \/ Expire(i) \/ BrokerRefuses(i)
      PROVE  UNCHANGED <<row, positions, placed>>
  BY <1>4 DEF Reconcile, LookUpUncertain, SettleUncertain, Expire, BrokerRefuses,
              brokerVars, deskVars
<1>5. ASSUME NEW i \in Intents, BrokerAccepts(i) PROVE Projection!Place
  BY <1>5 DEF BrokerAccepts, deskVars, Projection!Place
<1>6. ASSUME NEW o \in Operators, Operate(o)
      PROVE  Projection!Removed \/ UNCHANGED <<row, positions, placed>>
  BY <1>6 DEF Operate, HaltReads, HaltInserts, RecoverReads, RecoverClears, DeleteCredential,
              PurgeWorkspace, brokerVars, deskVars, Projection!Removed, Projection!NoRow
<1>7. CASE SyncApplies \/ SyncStateChanges
  BY <1>7 DEF SyncApplies, SyncStateChanges, Projection!Next
<1>8. CASE SaveCredential \/ ApiCrash \/ UNCHANGED vars
  BY <1>1, <1>8 DEF SaveCredential, ApiCrash, vars, brokerVars, deskVars
<1> QED
  BY <1>1, <1>2, <1>3, <1>4, <1>5, <1>6, <1>7, <1>8 DEF Next, Broker, Projection!Next

(* No handler of the API writes the projection behind the worker's back: the
   confirm, Guardian and credential handlers with the environment change it
   only as BrokerProjection allows, which BrokerSync implements.            *)
THEOREM KeepsProjection == Spec => Projection!Spec
<1>1. Init => Projection!Init
  BY DEF Init, Projection!Init, Projection!NoRow
<1> QED
  BY <1>1, ProjectionImplStep, PTL DEF Spec, Projection!Spec

(* What the confirm and Guardian handlers read is at no time a known state or a
   position without an account: the contract's promise, which the deletion of
   the credential keeps as the worker does.                                   *)
THEOREM DeskIsCoherent == Spec => []Projection!Coherent
<1>1. Projection!Spec => []Projection!Coherent
  BY Projection!Coherence
<1> QED
  BY <1>1, KeepsProjection, PTL

VerdictStands(i) ==
    /\ record[i] # "ABSENT" => record'[i] # "ABSENT"
    /\ record[i] = "ACCEPTED" => record'[i] = "ACCEPTED"
    /\ i \in placed => i \in placed'

(* The ledger's verdicts stand: no step, crash or reply frees an intent that was
   claimed or takes an acceptance or an order back.                           *)
THEOREM VerdictsStand == Spec => [][\A i \in Intents : VerdictStands(i)]_vars
<1>1. ASSUME TypeOK, LedgerInv, Next, NEW i \in Intents PROVE VerdictStands(i)
  <2>1. [Ledger!Next]_(Ledger!vars)
    BY <1>1, LedgerImplStep
  <2>2. record \in [Intents -> LedgerStates]
    BY <1>1 DEF TypeOK
  <2>3. CASE UNCHANGED Ledger!vars
    BY <2>3 DEF Ledger!vars, VerdictStands
  <2>4. ASSUME NEW j \in Intents, Ledger!Claim(j) \/ Ledger!Confirm(j) \/ Ledger!Doubt(j)
        PROVE  VerdictStands(i)
    BY <2>2, <2>4 DEF Ledger!Claim, Ledger!Confirm, Ledger!Doubt, VerdictStands
  <2>5. ASSUME NEW j \in Intents, Ledger!Submit(j) \/ Ledger!Place(j) PROVE VerdictStands(i)
    BY <2>5 DEF Ledger!Submit, Ledger!Place, VerdictStands
  <2> QED
    BY <2>1, <2>3, <2>4, <2>5 DEF Ledger!Next
<1>2. TypeOK /\ LedgerInv /\ [Next]_vars => [\A i \in Intents : VerdictStands(i)]_vars
  BY <1>1
<1> QED
  BY <1>2, LedgerInvariant, PTL DEF Spec

-----------------------------------------------------------------------------
(* What nobody comes back to.                                                *)

(* A handler is at or past the submission of intent i. *)
Owned(i) == \E r \in Requests : req[r].pc \in Submitting /\ req[r].intent = i

(* Nobody is left who would write the row of intent i or send it. *)
Deserted(i) == record[i] # "ABSENT" /\ i \notin found /\ ~Owned(i)

Untouched(i) == record'[i] = record[i] /\ sent'[i] = sent[i] /\ ~Owned(i)'

(* A reservation whose handler is gone, and without a caller of
   reconcile_uncertain a submission in doubt.                                 *)
Stranded(i) == record[i] = "SUBMISSION_STARTED" /\ ~Owned(i)

Abandoned(i) == ~ReconcilerWired /\ record[i] = "SUBMISSION_UNCERTAIN"

(* What was reserved by a handler that is gone stays SUBMISSION_STARTED for
   good, whatever the broker made of it: it is never sent again and never
   settled; and what is in doubt stays so unless reconcile_uncertain has a
   caller.                                                                    *)
DoubtsRemain ==
    [][\A i \in Intents : /\ Stranded(i) => Stranded(i)' /\ sent'[i] = sent[i]
                          /\ Abandoned(i) => Abandoned(i)' /\ sent'[i] = sent[i]]_vars

(* A step that touches no row, sends nothing and brings nobody to a submission. *)
LEMMA UntouchedStays ==
    ASSUME NEW i \in Intents, Deserted(i), UNCHANGED <<record, sent>>,
           \A r \in Requests : req'[r].pc \in Submitting => req'[r] = req[r]
    PROVE  Untouched(i)
BY DEF Deserted, Untouched, Owned

(* A handler works on its own intent only: it has won the row of it, or is not
   that far and finds the row taken.                                          *)
LEMMA OthersUntouched ==
    ASSUME TypeOK, LedgerInv, NEW i \in Intents, Deserted(i), NEW r \in Requests,
           Reserve(r) \/ Submit(r) \/ SubmitReturns(r) \/ SubmitRaises(r)
             \/ RecordAccepted(r) \/ RecordUncertain(r)
    PROVE  Untouched(i)
<1>0. ReqOK /\ record \in [Intents -> LedgerStates] /\ sent \in [Intents -> Nat]
  BY DEF TypeOK, ReqOK
<1>1. req[r].pc \in Submitting => req[r].intent # i
  BY DEF Deserted, Owned
<1>2. ASSUME req[r].intent # i, \E next : Goto(r, next) \/ Answer(r) PROVE ~Owned(i)'
  <2>1. PICK next : Goto(r, next) \/ Answer(r)
    BY <1>2
  <2>2. \A s \in Requests \ {r} : req'[s] = req[s]
    BY <1>0, <2>1, MoveReq
  <2>3. req'[r].pc \in Submitting => req'[r].intent # i
    BY <1>0, <1>2, <2>1, MoveReq DEF Submitting
  <2> QED
    BY <2>2, <2>3 DEF Deserted, Owned
<1>3. CASE Reserve(r)
  <2>1. CASE record[req[r].intent] = "ABSENT" /\ Goto(r, "submit")
    <3>1. req[r].intent # i
      BY <2>1 DEF Deserted
    <3>2. record'[i] = record[i] /\ sent'[i] = sent[i]
      BY <1>0, <1>3, <3>1 DEF Reserve, brokerVars
    <3> QED
      BY <1>2, <2>1, <3>1, <3>2 DEF Untouched
  <2>2. CASE Answer(r) /\ UNCHANGED record
    <3>1. \A s \in Requests : req'[s].pc \in Submitting => req'[s] = req[s]
      BY <1>0, <2>2, MoveReq DEF Submitting
    <3>2. UNCHANGED <<record, sent>>
      BY <1>3, <2>2 DEF Reserve, brokerVars
    <3> QED
      BY <3>1, <3>2, UntouchedStays
  <2> QED
    BY <1>3, <2>1, <2>2 DEF Reserve
<1>4. CASE Submit(r)
  <2>1. req[r].intent # i
    BY <1>1, <1>4 DEF Submit, At, Submitting
  <2>2. record'[i] = record[i] /\ sent'[i] = sent[i]
    BY <1>0, <1>4, <2>1 DEF Submit, ledgerVars
  <2> QED
    BY <1>2, <1>4, <2>1, <2>2 DEF Submit, Untouched
<1>5. CASE SubmitReturns(r) \/ SubmitRaises(r)
  <2>1. req[r].intent # i
    BY <1>1, <1>5 DEF SubmitReturns, SubmitRaises, At, Submitting
  <2>2. record'[i] = record[i] /\ sent'[i] = sent[i]
    BY <1>5 DEF SubmitReturns, SubmitRaises, ledgerVars, brokerVars
  <2> QED
    BY <1>2, <1>5, <2>1, <2>2 DEF SubmitReturns, SubmitRaises, Untouched
<1>6. CASE RecordAccepted(r) \/ RecordUncertain(r)
  <2>1. req[r].intent # i
    BY <1>1, <1>6 DEF RecordAccepted, RecordUncertain, SetState, At, Submitting
  <2>2. record'[i] = record[i] /\ sent'[i] = sent[i]
    BY <1>0, <1>6, <2>1 DEF RecordAccepted, RecordUncertain, SetState, brokerVars
  <2> QED
    BY <1>2, <1>6, <2>1, <2>2 DEF RecordAccepted, RecordUncertain, SetState, Untouched
<1> QED
  BY <1>3, <1>4, <1>5, <1>6

LEMMA DesertedStep ==
    ASSUME TypeOK, LedgerInv, [Next]_vars, NEW i \in Intents, Deserted(i)
    PROVE  Untouched(i)
<1>0. ReqOK /\ record \in [Intents -> LedgerStates]
  BY DEF TypeOK, ReqOK
<1>1. ASSUME NEW r \in Requests,
             \/ ReadAccount(r) \/ ReadPositions(r) \/ RiskStatus(r) \/ RiskDecision(r)
             \/ Reveal(r) \/ PreflightGuardian(r) \/ PreflightStatus(r)
             \/ PreflightAccount(r) \/ \E j \in Intents : Begin(r, j)
      PROVE  Untouched(i)
  <2>1. UNCHANGED <<record, sent>>
    BY <1>1 DEF Begin, ReadAccount, ReadPositions, RiskStatus, RiskDecision, Reveal,
         PreflightGuardian, PreflightStatus, PreflightAccount, ledgerVars, brokerVars
  <2>2. CASE (\E next \in Checking \cup Cleared : Goto(r, next)) \/ Answer(r)
    <3>1. \A s \in Requests : req'[s].pc \in Submitting => req'[s] = req[s]
      BY <1>0, <2>2, MoveReq DEF Checking, Cleared, Submitting
    <3> QED
      BY <2>1, <3>1, UntouchedStays
  <2>3. CASE ReadPositions(r) \/ \E j \in Intents : Begin(r, j)
    <3>1. req'[r].pc \in Checking /\ \A s \in Requests \ {r} : req'[s] = req[s]
      BY <1>0, <2>3 DEF ReadPositions, Begin, ReqOK, Checking
    <3>2. \A s \in Requests : req'[s].pc \in Submitting => req'[s] = req[s]
      BY <3>1 DEF Checking, Submitting
    <3> QED
      BY <2>1, <3>2, UntouchedStays
  <2> QED
    BY <1>1, <2>2, <2>3 DEF ReadAccount, RiskStatus, RiskDecision, Reveal, PreflightGuardian,
         PreflightStatus, PreflightAccount, Check, Checking, Cleared
<1>2. ASSUME NEW r \in Requests, Confirm(r) \/ \E j \in Intents : Begin(r, j)
      PROVE  Untouched(i)
  BY <1>1, <1>2, OthersUntouched DEF Confirm
<1>3. ASSUME UNCHANGED <<record, req, sent>> PROVE Untouched(i)
  BY <1>3, UntouchedStays
<1>4. ASSUME NEW j \in Intents, Reconcile(j) PROVE Untouched(i)
  <2>1. CASE LookUpUncertain(j)
    BY <1>3, <2>1 DEF LookUpUncertain, brokerVars
  <2>2. CASE SettleUncertain(j)
    <3>1. j # i /\ UNCHANGED <<req, sent>>
      BY <2>2 DEF SettleUncertain, Deserted, brokerVars
    <3>2. record'[i] = record[i]
      BY <1>0, <2>2, <3>1 DEF SettleUncertain
    <3> QED
      BY <3>1, <3>2 DEF Untouched, Deserted, Owned
  <2> QED
    BY <1>4, <2>1, <2>2 DEF Reconcile
<1>5. ASSUME NEW j \in Intents, Broker(j) \/ Expire(j) PROVE Untouched(i)
  BY <1>3, <1>5 DEF Broker, BrokerAccepts, BrokerRefuses, Expire, ledgerVars, brokerVars
<1>6. ASSUME NEW o \in Operators, Operate(o) PROVE Untouched(i)
  BY <1>3, <1>6 DEF Operate, HaltReads, HaltInserts, RecoverReads, RecoverClears,
                    DeleteCredential, PurgeWorkspace, ledgerVars, brokerVars
<1>7. CASE SaveCredential \/ SyncApplies \/ SyncStateChanges \/ UNCHANGED vars
  BY <1>3, <1>7 DEF SaveCredential, SyncApplies, SyncStateChanges, vars, ledgerVars, brokerVars
<1>8. CASE ApiCrash
  <2>1. UNCHANGED <<record, sent>> /\ \A r \in Requests : req'[r].pc = "idle"
    BY <1>8 DEF ApiCrash, brokerVars, Idle
  <2> QED
    BY <2>1, UntouchedStays DEF Submitting
<1> QED
  BY <1>2, <1>4, <1>5, <1>6, <1>7, <1>8 DEF Next

(* Without a caller of reconcile_uncertain nothing is ever found. *)
NoneFound == ~ReconcilerWired => found = {}

LEMMA NoneFoundStep == NoneFound /\ [Next]_vars => NoneFound'
<1> SUFFICES ASSUME NoneFound, [Next]_vars, ~ReconcilerWired PROVE found' = {}
  BY DEF NoneFound
<1>1. found = {}
  BY DEF NoneFound
<1>2. ASSUME NEW r \in Requests, Confirm(r) PROVE found' = found
  BY <1>2 DEF Confirm, ReadAccount, ReadPositions, RiskStatus, RiskDecision, Reveal,
       PreflightGuardian, PreflightStatus, PreflightAccount, Reserve, Submit, SubmitReturns,
       SubmitRaises, RecordAccepted, RecordUncertain, SetState, ledgerVars
<1>3. ASSUME NEW r \in Requests, NEW i \in Intents, Begin(r, i) PROVE found' = found
  BY <1>3 DEF Begin, ledgerVars
<1>4. ASSUME NEW i \in Intents, Reconcile(i) \/ Broker(i) \/ Expire(i) PROVE found' = found
  BY <1>1, <1>4 DEF Reconcile, LookUpUncertain, SettleUncertain, Broker, BrokerAccepts,
                    BrokerRefuses, Expire, ledgerVars
<1>5. ASSUME NEW o \in Operators, Operate(o) PROVE found' = found
  BY <1>5 DEF Operate, HaltReads, HaltInserts, RecoverReads, RecoverClears, DeleteCredential,
              PurgeWorkspace, ledgerVars
<1>6. CASE SaveCredential \/ SyncApplies \/ SyncStateChanges \/ ApiCrash \/ UNCHANGED vars
  BY <1>1, <1>6 DEF SaveCredential, SyncApplies, SyncStateChanges, ApiCrash, vars, ledgerVars
<1> QED
  BY <1>1, <1>2, <1>3, <1>4, <1>5, <1>6 DEF Next

(* A lost handler's reservation and an unanswered submission stay in doubt. *)
THEOREM DoubtsStay == Spec => DoubtsRemain
<1> DEFINE Left(i) == /\ Stranded(i) => Stranded(i)' /\ sent'[i] = sent[i]
                      /\ Abandoned(i) => Abandoned(i)' /\ sent'[i] = sent[i]
<1>1. ASSUME TypeOK, LedgerInv, NoneFound, [Next]_vars, NEW i \in Intents PROVE Left(i)
  <2>1. CASE Stranded(i)
    <3>1. Deserted(i) /\ ~Abandoned(i)
      BY <1>1, <2>1 DEF Stranded, Abandoned, Deserted, LedgerInv, Acceptances
    <3>2. Untouched(i)
      BY <1>1, <3>1, DesertedStep
    <3> QED
      BY <2>1, <3>1, <3>2 DEF Stranded, Untouched
  <2>2. CASE Abandoned(i)
    <3>1. Deserted(i) /\ ~Stranded(i)
      BY <1>1, <2>2 DEF Stranded, Abandoned, Deserted, NoneFound, Owned, LedgerInv, Ownership
    <3>2. Untouched(i)
      BY <1>1, <3>1, DesertedStep
    <3> QED
      BY <2>2, <3>1, <3>2 DEF Abandoned, Untouched
  <2> QED
    BY <2>1, <2>2
<1>2. TypeOK /\ LedgerInv /\ NoneFound /\ [Next]_vars => [\A i \in Intents : Left(i)]_vars
  BY <1>1
<1>3. Init => NoneFound
  BY DEF Init, NoneFound
<1> QED
  BY <1>2, <1>3, LedgerInvariant, NoneFoundStep, PTL DEF Spec, DoubtsRemain

-----------------------------------------------------------------------------
(* The review window.                                                        *)

(* The handlers that are confirming intent i. *)
Confirming(i) == {r \in Requests : req[r].pc # "idle" /\ req[r].intent = i}

WindowShuts(i) ==
    i \in expired =>
        /\ i \in expired'
        /\ Confirming(i)' \subseteq Confirming(i)
        /\ sent'[i] # sent[i] => \E r \in Confirming(i) : req[r].pc = "submit"

LEMMA NobodyJoins ==
    ASSUME NEW i, UNCHANGED sent, expired \subseteq expired',
           \A r \in Requests : req'[r].pc # "idle" /\ req'[r].intent = i =>
               req[r].pc # "idle" /\ req[r].intent = i
    PROVE  WindowShuts(i)
BY DEF WindowShuts, Confirming

(* A review that has expired is confirmed only by handlers that had read it
   before, whose awaits outlasted the window: no new one begins, and an order
   that leaves late is of one of them.                                        *)
THEOREM WindowsShut == Spec => [][\A i \in Intents : WindowShuts(i)]_vars
<1>1. ASSUME TypeOK, Next, NEW i \in Intents PROVE WindowShuts(i)
  <2>0. ReqOK /\ sent \in [Intents -> Nat]
    BY <1>1 DEF TypeOK, ReqOK
  <2>1. ASSUME NEW r \in Requests, NEW next, ~At(r, "idle"), Goto(r, next) \/ Answer(r),
               UNCHANGED sent, UNCHANGED expired
        PROVE  WindowShuts(i)
    <3>1. \A s \in Requests \ {r} : req'[s] = req[s]
      BY <2>0, <2>1, MoveReq
    <3>2. req'[r].pc # "idle" => req'[r].intent = req[r].intent
      BY <2>0, <2>1, MoveReq
    <3>3. \A s \in Requests : req'[s].pc # "idle" /\ req'[s].intent = i =>
              req[s].pc # "idle" /\ req[s].intent = i
      BY <2>1, <3>1, <3>2 DEF At
    <3> QED
      BY <2>1, <3>3, NobodyJoins
  <2>2. ASSUME NEW r \in Requests,
               \/ ReadAccount(r) \/ RiskStatus(r) \/ RiskDecision(r) \/ Reveal(r)
               \/ PreflightGuardian(r) \/ PreflightStatus(r) \/ PreflightAccount(r)
               \/ Reserve(r) \/ SubmitReturns(r) \/ SubmitRaises(r)
               \/ RecordAccepted(r) \/ RecordUncertain(r)
        PROVE  WindowShuts(i)
    <3>1. ~At(r, "idle") /\ UNCHANGED <<sent, expired>>
      BY <2>2 DEF ReadAccount, RiskStatus, RiskDecision, Reveal, PreflightGuardian,
           PreflightStatus, PreflightAccount, Reserve, SubmitReturns, SubmitRaises,
           RecordAccepted, RecordUncertain, SetState, At, brokerVars, deskVars
    <3>2. Answer(r) \/ \E next \in Stages : Goto(r, next)
      BY <2>2 DEF ReadAccount, RiskStatus, RiskDecision, Reveal, PreflightGuardian,
           PreflightStatus, PreflightAccount, Reserve, SubmitReturns, SubmitRaises,
           RecordAccepted, RecordUncertain, SetState, Check, Stages, Checking, Cleared, Submitting
    <3> QED
      BY <2>1, <3>1, <3>2
  <2>3. ASSUME NEW r \in Requests, ReadPositions(r) PROVE WindowShuts(i)
    <3>1. /\ req[r].pc # "idle" /\ UNCHANGED <<sent, expired>>
          /\ \A s \in Requests \ {r} : req'[s] = req[s]
          /\ req'[r].intent = req[r].intent
      BY <2>0, <2>3 DEF ReadPositions, At, ReqOK, brokerVars, deskVars
    <3> QED
      BY <3>1, NobodyJoins
  <2>4. ASSUME NEW r \in Requests, NEW j \in Intents, Begin(r, j) PROVE WindowShuts(i)
    <3>1. /\ j \notin expired /\ UNCHANGED <<sent, expired>>
          /\ \A s \in Requests \ {r} : req'[s] = req[s]
          /\ req'[r].intent = j
      BY <2>0, <2>4 DEF Begin, ReqOK, brokerVars, deskVars
    <3> QED
      BY <3>1, NobodyJoins DEF WindowShuts
  <2>5. ASSUME NEW r \in Requests, Submit(r) PROVE WindowShuts(i)
    <3>1. /\ req[r].pc = "submit" /\ UNCHANGED expired
          /\ \A s \in Requests \ {r} : req'[s] = req[s]
          /\ req'[r].intent = req[r].intent
      BY <2>0, <2>5, MoveReq DEF Submit, At, deskVars
    <3>2. \A j \in Intents : j # req[r].intent => sent'[j] = sent[j]
      BY <2>0, <2>5 DEF Submit
    <3> QED
      BY <3>1, <3>2 DEF WindowShuts, Confirming
  <2>6. ASSUME UNCHANGED <<req, sent>>, expired \subseteq expired' PROVE WindowShuts(i)
    BY <2>6, NobodyJoins
  <2>7. ASSUME NEW j \in Intents, Reconcile(j) \/ Broker(j) \/ Expire(j) PROVE WindowShuts(i)
    BY <2>6, <2>7 DEF Reconcile, LookUpUncertain, SettleUncertain, Broker, BrokerAccepts,
                      BrokerRefuses, Expire, brokerVars, deskVars
  <2>8. ASSUME NEW o \in Operators, Operate(o) PROVE WindowShuts(i)
    BY <2>6, <2>8 DEF Operate, HaltReads, HaltInserts, RecoverReads, RecoverClears,
                      DeleteCredential, PurgeWorkspace, brokerVars, deskVars
  <2>9. CASE SaveCredential \/ SyncApplies \/ SyncStateChanges
    BY <2>6, <2>9 DEF SaveCredential, SyncApplies, SyncStateChanges, brokerVars
  <2>10. CASE ApiCrash
    <3>1. /\ UNCHANGED <<sent, expired>>
          /\ \A r \in Requests : req'[r].pc = "idle"
      BY <2>10 DEF ApiCrash, brokerVars, deskVars, Idle
    <3> QED
      BY <3>1, NobodyJoins
  <2> QED
    BY <1>1, <2>2, <2>3, <2>4, <2>5, <2>7, <2>8, <2>9, <2>10 DEF Next, Confirm
<1>2. TypeOK /\ [Next]_vars => [\A i \in Intents : WindowShuts(i)]_vars
  BY <1>1
<1> QED
  BY <1>2, TypeCorrect, PTL DEF Spec

=============================================================================
