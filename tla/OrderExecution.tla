--------------------------- MODULE OrderExecution ---------------------------
(***************************************************************************)
(* Confirming a paper order in one workspace: the confirm handler of the   *)
(* API (apps/api/routes/desk.py), the Execution Engine and its intent      *)
(* store (packages/execution), and the Guardian halt / recover handlers    *)
(* and store (packages/guardian).  Every await of a handler is a step, so  *)
(* handlers interleave with each other, with the worker that rewrites the  *)
(* broker projection, with the broker, and with a crash of the API.        *)
(*                                                                         *)
(* Data is abstracted to what the properties tell apart: an opportunity is *)
(* its intent, an intent its client order id; the numeric checks of the    *)
(* re-risk are one free choice, except the broker-state and position-count *)
(* checks, which read state this module has.                               *)
(***************************************************************************)
EXTENDS Naturals, FiniteSets

CONSTANTS
    Intents,          \* order intents of stored opportunities, by client order id
    Requests,         \* slots for POST /opportunities/{id}/confirm in flight
    Operators,        \* slots for Guardian and credential calls in flight
    NoIntent,         \* the intent of an idle slot
    MaxStructures,    \* RiskPolicy.max_concurrent_option_structures
    ReconcilerWired   \* whether any caller invokes ExecutionEngine.reconcile_uncertain

ASSUME ConstantsAssumption ==
    /\ NoIntent \notin Intents
    /\ MaxStructures \in Nat
    /\ ReconcilerWired \in BOOLEAN

VARIABLES
    record,       \* order_intents table: [Intents -> ledger state or "ABSENT"]
    req,          \* [Requests -> [pc, intent, fits]], one confirm handler each
    sent,         \* [Intents -> Nat], POST /orders calls that left for the broker
    wire,         \* submissions the broker has not processed yet
    placed,       \* client order ids the broker holds an order for
    found,        \* intents reconcile_uncertain has found at the broker
    expired,      \* opportunities whose two-minute review window is over
    row,          \* [known, account]: what the broker projection says
    positions,    \* open structures the projection shows
    credential,   \* whether an Alpaca credential is stored
    active,       \* guardian_incidents not cleared, named by who raised them
    op,           \* [Operators -> pc of a Guardian or credential handler]
    assured,      \* history: recoveries that found the broker state known
    under         \* history: confirm handlers that were before the Guardian check
                  \* when a halt that still stands came in, or that began under it

vars == <<record, req, sent, wire, placed, found, expired, row, positions,
          credential, active, op, assured, under>>

ledgerVars == <<record, found>>
brokerVars == <<sent, wire, placed>>
deskVars   == <<row, positions, credential, expired>>
guardVars  == <<active, op, assured>>

LedgerStates ==
    {"ABSENT", "SUBMISSION_STARTED", "SUBMISSION_UNCERTAIN", "ACCEPTED"}

(* Where a confirm handler waits: before the preflight's Guardian check, after
   it, and from the won reservation on.                                      *)
Checking   == {"account", "positions", "status", "blocked", "reveal", "guardian"}
Cleared    == {"preflight_status", "preflight_blocked", "reserve"}
Submitting == {"submit", "awaiting", "accept", "uncertain"}
Stages     == {"idle"} \cup Checking \cup Cleared \cup Submitting

Idle == [pc |-> "idle", intent |-> NoIntent, fits |-> FALSE]

Rows == [known : BOOLEAN, account : {"absent", "usable", "blocked"}]

(* A reconciliation writes the account and the state in one transaction and
   deleting the credential removes both, so a known state has an account.   *)
PossibleRows == {p \in Rows : p.known => p.account # "absent"}

Init ==
    /\ record = [i \in Intents |-> "ABSENT"]
    /\ req = [r \in Requests |-> Idle]
    /\ sent = [i \in Intents |-> 0]
    /\ wire = {}
    /\ placed = {}
    /\ found = {}
    /\ expired = {}
    /\ row = [known |-> FALSE, account |-> "absent"]
    /\ positions = {}
    /\ credential = FALSE
    /\ active = {}
    /\ op = [o \in Operators |-> "idle"]
    /\ assured = {}
    /\ under = {}

-----------------------------------------------------------------------------
(* The confirm handler up to the engine.                                     *)

At(r, stage) == req[r].pc = stage

Goto(r, stage) == req' = [req EXCEPT ![r].pc = stage]

(* The handler answers, with an order or an HTTP error. *)
Answer(r) ==
    /\ req' = [req EXCEPT ![r] = Idle]
    /\ under' = under \ {r}

(* Go on when the check passes, answer 409 when it does not. *)
Check(r, passes, next) ==
    \/ passes /\ Goto(r, next) /\ UNCHANGED under
    \/ ~passes /\ Answer(r)

(* Load the opportunity and its stored intent; an expired review is refused. *)
Begin(r, i) ==
    /\ At(r, "idle")
    /\ i \notin expired
    /\ req' = [req EXCEPT ![r] = [pc |-> "account", intent |-> i, fits |-> FALSE]]
    /\ under' = IF active # {} THEN under \cup {r} ELSE under
    /\ UNCHANGED <<ledgerVars, brokerVars, deskVars, guardVars>>

ReadAccount(r) ==
    /\ At(r, "account")
    /\ Check(r, row.account # "absent", "positions")
    /\ UNCHANGED <<ledgerVars, brokerVars, deskVars, guardVars>>

(* The position count the re-risk will judge, after the gate has answered. *)
ReadPositions(r) ==
    /\ At(r, "positions")
    /\ req' = [req EXCEPT ![r].pc = "status",
                          ![r].fits = Cardinality(positions) < MaxStructures]
    /\ UNCHANGED <<ledgerVars, brokerVars, deskVars, guardVars, under>>

(* BrokerExecutionGate.evaluate reads the sync status and the account in two
   transactions; here for the re-risk, below for the preflight.              *)
RiskStatus(r) ==
    /\ At(r, "status")
    /\ Check(r, row.known, "blocked")
    /\ UNCHANGED <<ledgerVars, brokerVars, deskVars, guardVars>>

RiskDecision(r) ==
    /\ At(r, "blocked")
    /\ \E numbersPass \in BOOLEAN :
           Check(r, row.account = "usable" /\ req[r].fits /\ numbersPass, "reveal")
    /\ UNCHANGED <<ledgerVars, brokerVars, deskVars, guardVars>>

Reveal(r) ==
    /\ At(r, "reveal")
    /\ Check(r, credential, "guardian")
    /\ UNCHANGED <<ledgerVars, brokerVars, deskVars, guardVars>>

-----------------------------------------------------------------------------
(* ExecutionEngine.execute.                                                  *)

(* A plausible mistake for PreflightGuardian: the halt is not consulted. *)
PreflightSkipsGuardian(r) ==
    /\ At(r, "guardian")
    /\ Goto(r, "preflight_status")
    /\ UNCHANGED <<ledgerVars, brokerVars, deskVars, guardVars, under>>

PreflightGuardian(r) ==
    /\ At(r, "guardian")
    /\ Check(r, active = {}, "preflight_status")
    /\ UNCHANGED <<ledgerVars, brokerVars, deskVars, guardVars>>

PreflightStatus(r) ==
    /\ At(r, "preflight_status")
    /\ Check(r, row.known, "preflight_blocked")
    /\ UNCHANGED <<ledgerVars, brokerVars, deskVars, guardVars>>

PreflightAccount(r) ==
    /\ At(r, "preflight_blocked")
    /\ Check(r, row.account = "usable", "reserve")
    /\ UNCHANGED <<ledgerVars, brokerVars, deskVars, guardVars>>

(* Mistakes for Reserve: an upsert instead of ON CONFLICT DO NOTHING, and a
   reservation kept only in the handler's memory.                            *)
ReserveUpserts(r) ==
    /\ At(r, "reserve")
    /\ record' = [record EXCEPT ![req[r].intent] = "SUBMISSION_STARTED"]
    /\ Goto(r, "submit")
    /\ UNCHANGED <<found, brokerVars, deskVars, guardVars, under>>

ReserveInMemory(r) ==
    /\ At(r, "reserve")
    /\ record[req[r].intent] = "ABSENT"
    /\ Goto(r, "submit")
    /\ UNCHANGED <<ledgerVars, brokerVars, deskVars, guardVars, under>>

(* INSERT ... ON CONFLICT DO NOTHING RETURNING: one handler gets the row, the
   others raise DuplicateSubmission.                                         *)
Reserve(r) ==
    /\ At(r, "reserve")
    /\ \/ /\ record[req[r].intent] = "ABSENT"
          /\ record' = [record EXCEPT ![req[r].intent] = "SUBMISSION_STARTED"]
          /\ Goto(r, "submit")
          /\ UNCHANGED under
       \/ /\ record[req[r].intent] # "ABSENT"
          /\ Answer(r)
          /\ UNCHANGED record
    /\ UNCHANGED <<found, brokerVars, deskVars, guardVars>>

(* adapter.submit_order runs in a thread: the POST leaves, then the handler
   waits for its outcome.                                                    *)
Submit(r) ==
    /\ At(r, "submit")
    /\ sent' = [sent EXCEPT ![req[r].intent] = @ + 1]
    /\ wire' = wire \cup {req[r].intent}
    /\ Goto(r, "awaiting")
    /\ UNCHANGED <<ledgerVars, placed, deskVars, guardVars, under>>

SubmitReturns(r) ==
    /\ At(r, "awaiting")
    /\ req[r].intent \in placed
    /\ Goto(r, "accept")
    /\ UNCHANGED <<ledgerVars, brokerVars, deskVars, guardVars, under>>

(* A mistake for SubmitRaises: a lost reply is taken for an acceptance. *)
SubmitAssumesAccepted(r) ==
    /\ At(r, "awaiting")
    /\ Goto(r, "accept")
    /\ UNCHANGED <<ledgerVars, brokerVars, deskVars, guardVars, under>>

(* Any exception: a rejection, or a timeout or lost reply, whatever the broker
   has done or will still do with the submission.                            *)
SubmitRaises(r) ==
    /\ At(r, "awaiting")
    /\ Goto(r, "uncertain")
    /\ UNCHANGED <<ledgerVars, brokerVars, deskVars, guardVars, under>>

(* set_state, whose own transaction may fail: the row then keeps its state. *)
SetState(r, stage, state) ==
    /\ At(r, stage)
    /\ \/ record' = [record EXCEPT ![req[r].intent] = state]
       \/ UNCHANGED record
    /\ Answer(r)
    /\ UNCHANGED <<found, brokerVars, deskVars, guardVars>>

RecordAccepted(r)  == SetState(r, "accept", "ACCEPTED")
RecordUncertain(r) == SetState(r, "uncertain", "SUBMISSION_UNCERTAIN")

(* ExecutionEngine.reconcile_uncertain: look the order up by its client order
   id, and record the acceptance if the broker has it.                       *)
LookUpUncertain(i) ==
    /\ ReconcilerWired
    /\ record[i] = "SUBMISSION_UNCERTAIN"
    /\ i \in placed \ found
    /\ found' = found \cup {i}
    /\ UNCHANGED <<record, req, brokerVars, deskVars, guardVars, under>>

(* A mistake for SettleUncertain: the intent is freed for another attempt. *)
SettleFrees(i) ==
    /\ i \in found
    /\ record' = [record EXCEPT ![i] = "ABSENT"]
    /\ found' = found \ {i}
    /\ UNCHANGED <<req, brokerVars, deskVars, guardVars, under>>

SettleUncertain(i) ==
    /\ i \in found
    /\ record' = [record EXCEPT ![i] = "ACCEPTED"]
    /\ found' = found \ {i}
    /\ UNCHANGED <<req, brokerVars, deskVars, guardVars, under>>

-----------------------------------------------------------------------------
(* Alpaca: it takes a submission once, late or never; client order ids are
   unique there, so it refuses one it already has.                           *)

BrokerAccepts(i) ==
    /\ i \in wire
    /\ wire' = wire \ {i}
    /\ placed' = placed \cup {i}
    /\ UNCHANGED <<ledgerVars, req, sent, deskVars, guardVars, under>>

BrokerRefuses(i) ==
    /\ i \in wire
    /\ wire' = wire \ {i}
    /\ UNCHANGED <<ledgerVars, req, sent, placed, deskVars, guardVars, under>>

(* The review window of an opportunity ends two minutes after the analysis. *)
Expire(i) ==
    /\ i \notin expired
    /\ expired' = expired \cup {i}
    /\ UNCHANGED <<ledgerVars, req, brokerVars, row, positions, credential,
                   guardVars, under>>

-----------------------------------------------------------------------------
(* Guardian and credential handlers.                                         *)

(* halt reads the active incident first and returns it if there is one; the
   read and the insert are one transaction, but nothing makes two of them
   exclude each other.                                                       *)
HaltReads(o) ==
    /\ op[o] = "idle"
    /\ active = {}
    /\ op' = [op EXCEPT ![o] = "insert"]
    /\ UNCHANGED <<ledgerVars, req, brokerVars, deskVars, active, assured, under>>

HaltInserts(o) ==
    /\ op[o] = "insert"
    /\ active' = active \cup {o}
    /\ under' = under \cup {r \in Requests : req[r].pc \in Checking}
    /\ op' = [op EXCEPT ![o] = "idle"]
    /\ UNCHANGED <<ledgerVars, req, brokerVars, deskVars, assured>>

(* What a recovery found the broker state to be. *)
Assure(o) == assured' = IF row.known THEN assured \cup {o} ELSE assured

(* A mistake for RecoverReads: whatever the broker state is, it goes on. *)
RecoverReadsBlindly(o) ==
    /\ op[o] = "idle"
    /\ op' = [op EXCEPT ![o] = "clear"]
    /\ Assure(o)
    /\ UNCHANGED <<ledgerVars, req, brokerVars, deskVars, active, under>>

(* guardian_recover refuses unless the broker state is known, ... *)
RecoverReads(o) ==
    /\ op[o] = "idle"
    /\ row.known
    /\ op' = [op EXCEPT ![o] = "clear"]
    /\ Assure(o)
    /\ UNCHANGED <<ledgerVars, req, brokerVars, deskVars, active, under>>

(* ... then clears every active incident in another transaction, the ones that
   came in and the state that turned unknown in between notwithstanding.      *)
RecoverClears(o) ==
    /\ op[o] = "clear"
    /\ active' = {}
    /\ under' = {}
    /\ op' = [op EXCEPT ![o] = "idle"]
    /\ assured' = assured \ {o}
    /\ UNCHANGED <<ledgerVars, req, brokerVars, deskVars>>

SaveCredential ==
    /\ ~credential
    /\ credential' = TRUE
    /\ UNCHANGED <<ledgerVars, req, brokerVars, row, positions, expired,
                   guardVars, under>>

(* delete_credentials: the credential in one transaction, ... *)
DeleteCredential(o) ==
    /\ op[o] = "idle"
    /\ credential' = FALSE
    /\ op' = [op EXCEPT ![o] = "purge"]
    /\ UNCHANGED <<ledgerVars, req, brokerVars, row, positions, expired,
                   active, assured, under>>

(* A mistake for PurgeWorkspace: the sync state row is kept. *)
PurgeKeepsSyncState(o) ==
    /\ op[o] = "purge"
    /\ row' = [row EXCEPT !.account = "absent"]
    /\ positions' = {}
    /\ active' = {}
    /\ under' = {}
    /\ op' = [op EXCEPT ![o] = "idle"]
    /\ UNCHANGED <<ledgerVars, req, brokerVars, credential, expired, assured>>

(* ... the projection, the sync state and the Guardian incidents in another.
   It deletes table by table, so what a reconciliation commits meanwhile may
   stay behind in the tables it has passed (BrokerProjection: Removed).       *)
PurgeWorkspace(o) ==
    /\ op[o] = "purge"
    /\ row' \in [known : {FALSE}, account : {"absent", "usable", "blocked"}]
    /\ positions' \in SUBSET placed
    /\ active' = {}
    /\ under' = {}
    /\ op' = [op EXCEPT ![o] = "idle"]
    /\ UNCHANGED <<ledgerVars, req, brokerVars, credential, expired, assured>>

-----------------------------------------------------------------------------
(* The environment: the worker (module BrokerSync) and crashes.              *)

(* The worker and the clock change the projection as BrokerProjection says. *)
Projection == INSTANCE BrokerProjection WITH Orders <- Intents

SyncApplies ==
    /\ Projection!Writes
    /\ UNCHANGED <<ledgerVars, req, sent, wire, credential, expired, guardVars, under>>

SyncStateChanges ==
    /\ Projection!Turns
    /\ UNCHANGED <<ledgerVars, req, sent, wire, credential, expired, guardVars, under>>

(* The API process dies: every handler is gone, what is committed or on the
   wire is not.                                                              *)
ApiCrash ==
    /\ req' = [r \in Requests |-> Idle]
    /\ op' = [o \in Operators |-> "idle"]
    /\ assured' = {}
    /\ found' = {}
    /\ under' = {}
    /\ UNCHANGED <<record, brokerVars, deskVars, active>>

-----------------------------------------------------------------------------

Confirm(r) ==
    \/ ReadAccount(r) \/ ReadPositions(r) \/ RiskStatus(r) \/ RiskDecision(r)
    \/ Reveal(r)
    \/ PreflightGuardian(r) \/ PreflightStatus(r) \/ PreflightAccount(r)
    \/ Reserve(r) \/ Submit(r) \/ SubmitReturns(r) \/ SubmitRaises(r)
    \/ RecordAccepted(r) \/ RecordUncertain(r)

Reconcile(i) == LookUpUncertain(i) \/ SettleUncertain(i)

Broker(i) == BrokerAccepts(i) \/ BrokerRefuses(i)

Operate(o) ==
    \/ HaltReads(o) \/ HaltInserts(o) \/ RecoverReads(o) \/ RecoverClears(o)
    \/ DeleteCredential(o) \/ PurgeWorkspace(o)

Next ==
    \/ \E r \in Requests : Confirm(r) \/ \E i \in Intents : Begin(r, i)
    \/ \E i \in Intents : Reconcile(i) \/ Broker(i) \/ Expire(i)
    \/ \E o \in Operators : Operate(o)
    \/ SaveCredential \/ SyncApplies \/ SyncStateChanges \/ ApiCrash

Spec == Init /\ [][Next]_vars

(* Handlers that have begun go on, Alpaca deals with a submission, and where a
   caller of reconcile_uncertain exists it keeps calling.                    *)
Fairness ==
    /\ \A r \in Requests : WF_vars(Confirm(r))
    /\ \A i \in Intents : WF_vars(Broker(i)) /\ WF_vars(Reconcile(i))
    /\ \A o \in Operators : WF_vars(HaltInserts(o) \/ RecoverClears(o) \/ PurgeWorkspace(o))

FairSpec == Spec /\ Fairness
-----------------------------------------------------------------------------

TypeOK ==
    /\ record \in [Intents -> LedgerStates]
    /\ req \in [Requests -> [pc : Stages, intent : Intents \cup {NoIntent}, fits : BOOLEAN]]
    /\ \A r \in Requests : ~At(r, "idle") => req[r].intent \in Intents
    /\ sent \in [Intents -> Nat]
    /\ wire \subseteq Intents
    /\ placed \subseteq Intents
    /\ found \subseteq Intents
    /\ expired \subseteq Intents
    /\ row \in PossibleRows
    /\ positions \subseteq placed
    /\ credential \in BOOLEAN
    /\ active \subseteq Operators
    /\ op \in [Operators -> {"idle", "insert", "clear", "purge"}]
    /\ assured \subseteq Operators
    /\ under \subseteq Requests

(* However often a review is confirmed, by however many handlers at once,
   before or after a crash of the API or a lost reply, at most one submission
   leaves for Alpaca under a client order id (engine.py: "DuplicateSubmission";
   store.py: "Atomic idempotency reservation").                               *)
AtMostOnceSubmission == \A i \in Intents : sent[i] <= 1

(* The intent ledger never lies about the broker: no order is at the broker, or
   on its way, without a committed row, and a row says ACCEPTED only when the
   broker holds the order, whatever replies were lost on the way.             *)
LedgerIsHonest ==
    /\ \A i \in wire \cup placed : record[i] # "ABSENT"
    /\ \A i \in Intents : record[i] = "ACCEPTED" => i \in placed

(* The kill switch: a confirm handler that had not passed its Guardian check
   when a halt came in, or that began under it, submits nothing while the halt
   stands.  Only handlers already past the check may still submit.            *)
HaltStopsOrders == \A r \in under : req[r].pc \in Checking

(* The only ways out of a halt, whoever raised it, however many handlers halted
   at once and whatever the projection did meanwhile: a recovery that found the
   broker state known, or a deletion of the credential that leaves a state the
   execution gate refuses; and either ends every halt there is.               *)
ResumeNeedsReconciliation ==
    [][~ (active \subseteq active') =>
          /\ active' = {}
          /\ \/ \E o \in assured : op[o] = "clear" /\ op'[o] = "idle"
             \/ ~row'.known]_vars

(* The desk implements the abstract ledger of SubmissionLedger. *)
Ledger == INSTANCE SubmissionLedger WITH record <- record, sent <- sent, placed <- placed
ImplementsLedger == Ledger!Spec

(* An order that Alpaca holds while its intent is in doubt is found and its
   acceptance recorded (engine.py: reconcile_uncertain).                      *)
UncertainIsReconciled ==
    \A i \in Intents :
        record[i] = "SUBMISSION_UNCERTAIN" /\ i \in placed ~> record[i] = "ACCEPTED"

(* The broker never holds more structures than the position-count check of the
   re-risk allows (risk/engine.py: "Concurrent option structure cap.").       *)
StructureCap == Cardinality(placed) <= MaxStructures

=============================================================================
