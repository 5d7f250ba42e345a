------------------------- MODULE WorkspaceLifecycle -------------------------
(***************************************************************************)
(* From a saved Alpaca credential to a running connection: the credential  *)
(* and scanner routes of the API (apps/api/routes/desk.py), the credential *)
(* store (packages/security/store.py), and the worker that serves every    *)
(* workspace (apps/worker/__main__.py): its connection supervisor, its     *)
(* runtimes and its scanner.  What a running runtime does to the broker    *)
(* projection is module BrokerSync; here it is a stage.                    *)
(*                                                                         *)
(* A secret is its own fingerprint (a digest of the plaintext).  Nothing in *)
(* src writes the status SUSPENDED, so it does not occur.                  *)
(***************************************************************************)
EXTENDS Naturals, Sequences, FiniteSets

CONSTANTS
    Workspaces,
    Calls,            \* slots for credential and scanner calls in flight
    Secrets,          \* Alpaca key pairs an operator may save
    NoSecret,
    NoWorkspace,
    Limit             \* settings.workspace_connection_limit

ASSUME ConstantsAssumption ==
    /\ NoSecret \notin Secrets
    /\ NoWorkspace \notin Workspaces
    /\ Limit \in Nat \ {0}

VARIABLES
    cred,             \* workspace_credentials: [Workspaces -> secret or NoSecret]
    saved,            \* workspaces with a credential, by updated_at
    unreadable,       \* credentials whose key version the worker does not have
    status,           \* workspaces.status
    scanner,          \* workspaces.scanner_enabled, as a set
    call,             \* [Calls -> [pc, workspace]], API calls between transactions
    up,               \* the worker process runs
    wanted,           \* what the supervisor discovered: [Workspaces -> secret]
    supervisor,       \* "sleep" or "refresh"
    runtime,          \* the supervisor's dict: [Workspaces -> [stage, print, uses]]
    todo              \* workspaces the scanner has read and not yet visited

vars == <<cred, saved, unreadable, status, scanner, call, up, wanted, supervisor,
          runtime, todo>>

vault  == <<cred, saved, unreadable>>
desk   == <<status, scanner>>
worker == <<up, wanted, supervisor, runtime, todo>>

Statuses == {"ONBOARDING", "CONNECTING", "ACTIVE", "CONNECTION_ERROR"}

(* "none" is no entry in the dict, "done" an entry whose task has ended;
   "leaving" is the finally clause, "cancelled" the same under a cancellation
   the supervisor waits for.                                                 *)
Stages == {"none", "revealing", "reconciling", "activating", "running",
           "erroring", "leaving", "cancelled", "done"}

NoEntry == [stage |-> "none", print |-> NoSecret, uses |-> NoSecret]
Free    == [pc |-> "idle", workspace |-> NoWorkspace]
Nothing == [w \in Workspaces |-> NoSecret]

Init ==
    /\ cred = Nothing
    /\ saved = <<>>
    /\ unreadable = {}
    /\ status = [w \in Workspaces |-> "ONBOARDING"]
    /\ scanner = {}
    /\ call = [c \in Calls |-> Free]
    /\ up = FALSE
    /\ wanted = Nothing
    /\ supervisor = "sleep"
    /\ runtime = [w \in Workspaces |-> NoEntry]
    /\ todo = {}

-----------------------------------------------------------------------------
(* The API.                                                                  *)

Position(w) == CHOOSE n \in DOMAIN saved : saved[n] = w

Without(w) ==
    IF cred[w] = NoSecret THEN saved
    ELSE SubSeq(saved, 1, Position(w) - 1) \o SubSeq(saved, Position(w) + 1, Len(saved))

Pending(c, pc, w) == call' = [call EXCEPT ![c] = [pc |-> pc, workspace |-> w]]
Done(c) == call' = [call EXCEPT ![c] = Free]

(* A mistake for SaveCredential: the row is inserted without the constraint. *)
SaveInserts(c, w, secret) ==
    /\ call[c].pc = "idle"
    /\ cred' = [cred EXCEPT ![w] = secret]
    /\ saved' = Append(saved, w)
    /\ unreadable' = unreadable \ {w}
    /\ Pending(c, "connecting", w)
    /\ UNCHANGED <<desk, worker>>

(* save_alpaca_credentials: upsert the credential, encrypted with the active
   key, in one transaction, ...                                              *)
SaveCredential(c, w, secret) ==
    /\ call[c].pc = "idle"
    /\ cred' = [cred EXCEPT ![w] = secret]
    /\ saved' = Append(Without(w), w)
    /\ unreadable' = unreadable \ {w}
    /\ Pending(c, "connecting", w)
    /\ UNCHANGED <<desk, worker>>

(* ... and the status in a second one. *)
MarkConnecting(c) ==
    /\ call[c].pc = "connecting"
    /\ status' = [status EXCEPT ![call[c].workspace] = "CONNECTING"]
    /\ Done(c)
    /\ UNCHANGED <<vault, scanner, worker>>

DeleteCredential(c, w) ==
    /\ call[c].pc = "idle"
    /\ cred' = [cred EXCEPT ![w] = NoSecret]
    /\ saved' = Without(w)
    /\ unreadable' = unreadable \ {w}
    /\ Pending(c, "purging", w)
    /\ UNCHANGED <<desk, worker>>

PurgeWorkspace(c) ==
    /\ call[c].pc = "purging"
    /\ status' = [status EXCEPT ![call[c].workspace] = "ONBOARDING"]
    /\ scanner' = scanner \ {call[c].workspace}
    /\ Done(c)
    /\ UNCHANGED <<vault, worker>>

(* set_scanner reads the credential before it writes the flag. *)
CheckScanner(c, w) ==
    /\ call[c].pc = "idle"
    /\ cred[w] # NoSecret
    /\ Pending(c, "enabling", w)
    /\ UNCHANGED <<vault, desk, worker>>

EnableScanner(c) ==
    /\ call[c].pc = "enabling"
    /\ scanner' = scanner \cup {call[c].workspace}
    /\ Done(c)
    /\ UNCHANGED <<vault, status, worker>>

DisableScanner(w) ==
    /\ w \in scanner
    /\ scanner' = scanner \ {w}
    /\ UNCHANGED <<vault, status, call, worker>>

ApiCrash ==
    /\ \E c \in Calls : call[c].pc # "idle"
    /\ call' = [c \in Calls |-> Free]
    /\ UNCHANGED <<vault, desk, worker>>

-----------------------------------------------------------------------------
(* The connection supervisor.                                                *)

Entries == {w \in Workspaces : runtime[w].stage # "none"}

(* A mistake for StaleEntries: what is no longer wanted is not compared. *)
ReplacedEntries == {w \in Entries : wanted[w] \notin {NoSecret, runtime[w].print}}

(* Entries of another credential, or of a workspace no longer wanted. *)
StaleEntries == {w \in Entries : wanted[w] # runtime[w].print}

Stage(w, stage) == runtime' = [runtime EXCEPT ![w].stage = stage]

(* The oldest verified credentials, as many as there are connections. *)
FirstSaved == {saved[n] : n \in {k \in DOMAIN saved : k <= Limit}}

Discover ==
    /\ up
    /\ supervisor = "sleep"
    /\ supervisor' = "refresh"
    /\ wanted' = [w \in Workspaces |-> IF w \in FirstSaved THEN cred[w] ELSE NoSecret]
    /\ UNCHANGED <<vault, desk, call, up, runtime, todo>>

(* Cancel one stale runtime and wait for its task: one that has not entered
   its try clause, has ended, or is already in its finally clause is gone at
   once, and a status transaction in flight may still commit.                *)
CancelStale(w) ==
    /\ supervisor = "refresh"
    /\ \A v \in Workspaces : runtime[v].stage # "cancelled"
    /\ w \in StaleEntries
    /\ IF runtime[w].stage \in {"revealing", "leaving", "done"}
       THEN runtime' = [runtime EXCEPT ![w] = NoEntry]
       ELSE Stage(w, "cancelled")
    /\ \/ UNCHANGED status
       \/ /\ runtime[w].stage = "activating"
          /\ status' = [status EXCEPT ![w] = "ACTIVE"]
       \/ /\ runtime[w].stage = "erroring"
          /\ status' = [status EXCEPT ![w] = "CONNECTION_ERROR"]
    /\ UNCHANGED <<vault, scanner, call, up, wanted, supervisor, todo>>

(* A mistake for StartMissing: it does not first stop what is stale. *)
StartWithoutStopping ==
    /\ supervisor = "refresh"
    /\ runtime' = [w \in Workspaces |->
                      IF w \in Entries \/ wanted[w] = NoSecret THEN runtime[w]
                      ELSE [NoEntry EXCEPT !.stage = "revealing", !.print = wanted[w]]]
    /\ supervisor' = "sleep"
    /\ UNCHANGED <<vault, desk, call, up, wanted, todo>>

(* Then start, without an await, whatever is wanted and has no entry. *)
StartMissing ==
    /\ supervisor = "refresh"
    /\ StaleEntries = {}
    /\ runtime' = [w \in Workspaces |->
                      IF w \in Entries \/ wanted[w] = NoSecret THEN runtime[w]
                      ELSE [NoEntry EXCEPT !.stage = "revealing", !.print = wanted[w]]]
    /\ supervisor' = "sleep"
    /\ UNCHANGED <<vault, desk, call, up, wanted, todo>>

-----------------------------------------------------------------------------
(* _workspace_runtime.                                                       *)

RestOfRuntime == <<vault, scanner, call, up, wanted, supervisor, todo>>

(* A credential that is gone ends the task, one that cannot be read or decrypted
   raises out of it.                                                         *)
Reveal(w) ==
    /\ runtime[w].stage = "revealing"
    /\ \/ Stage(w, "done")
       \/ /\ cred[w] # NoSecret
          /\ w \notin unreadable
          /\ runtime' = [runtime EXCEPT ![w].stage = "reconciling", ![w].uses = cred[w]]
    /\ UNCHANGED <<RestOfRuntime, status>>

(* The first reconciliation, BrokerSync's StartRuntime to Apply or Fail. *)
Reconcile(w) ==
    /\ runtime[w].stage = "reconciling"
    /\ \E stage \in {"activating", "erroring"} : Stage(w, stage)
    /\ UNCHANGED <<RestOfRuntime, status>>

Told(w, to) == [status EXCEPT ![w] = to]

(* _set_workspace_status stands in the try clause: when it raises, committed or
   not, the runtime fails after all, ...                                      *)
Activate(w) ==
    /\ runtime[w].stage = "activating"
    /\ \/ status' = Told(w, "ACTIVE") /\ Stage(w, "running")
       \/ status' \in {status, Told(w, "ACTIVE")} /\ Stage(w, "erroring")
    /\ UNCHANGED RestOfRuntime

(* ... and when it raises in the except clause, the finally clause follows. *)
MarkError(w) ==
    /\ runtime[w].stage = "erroring"
    /\ status' \in {status, Told(w, "CONNECTION_ERROR")}
    /\ Stage(w, "leaving")
    /\ UNCHANGED RestOfRuntime

(* The finally clause: the entry of a cancelled runtime is popped, that of one
   that failed stays.                                                        *)
Leave(w) ==
    /\ runtime[w].stage \in {"leaving", "cancelled"}
    /\ IF runtime[w].stage = "cancelled"
       THEN runtime' = [runtime EXCEPT ![w] = NoEntry]
       ELSE Stage(w, "done")
    /\ UNCHANGED <<RestOfRuntime, status>>

-----------------------------------------------------------------------------
(* The scanner, and the worker process.                                      *)

ScanRound ==
    /\ up
    /\ todo = {}
    /\ todo' = {w \in scanner : status[w] = "ACTIVE"}
    /\ UNCHANGED <<vault, desk, call, up, wanted, supervisor, runtime>>

(* A workspace without a credential is skipped, one with it is scanned. *)
ScanNext(w) ==
    /\ w \in todo \ unreadable
    /\ todo' = todo \ {w}
    /\ UNCHANGED <<vault, desk, call, up, wanted, supervisor, runtime>>

WorkerGone ==
    /\ up' = FALSE
    /\ wanted' = Nothing
    /\ supervisor' = "sleep"
    /\ runtime' = [w \in Workspaces |-> NoEntry]
    /\ todo' = {}
    /\ UNCHANGED <<vault, desk, call>>

(* A credential that cannot be decrypted raises out of the scanner, and with
   it out of the worker's run().                                             *)
ScanRaises == todo \cap unreadable # {} /\ WorkerGone

WorkerCrash == up /\ WorkerGone

(* It is restarted, perhaps with master keys that lack an old version. *)
WorkerStart ==
    /\ ~up
    /\ up' = TRUE
    /\ \E lost \in SUBSET {w \in Workspaces : cred[w] # NoSecret} :
           unreadable' = unreadable \cup lost
    /\ UNCHANGED <<cred, saved, desk, call, wanted, supervisor, runtime, todo>>

-----------------------------------------------------------------------------

Api ==
    \/ \E c \in Calls :
           \/ MarkConnecting(c) \/ PurgeWorkspace(c) \/ EnableScanner(c)
           \/ \E w \in Workspaces :
                  \/ DeleteCredential(c, w) \/ CheckScanner(c, w)
                  \/ \E secret \in Secrets : SaveCredential(c, w, secret)
    \/ \E w \in Workspaces : DisableScanner(w)
    \/ ApiCrash

Supervise == Discover \/ StartMissing \/ \E w \in Workspaces : CancelStale(w)

Run(w) == Reveal(w) \/ Reconcile(w) \/ Activate(w) \/ MarkError(w) \/ Leave(w)

Scan == ScanRound \/ ScanRaises \/ \E w \in Workspaces : ScanNext(w)

Next ==
    \/ Api \/ Supervise \/ Scan \/ WorkerCrash \/ WorkerStart
    \/ \E w \in Workspaces : Run(w)

Spec == Init /\ [][Next]_vars

(* A worker that is up keeps looping, and a runtime's finally clause ends.  A first
   reconciliation need not: its calls to Alpaca have no timeout.              *)
Fairness ==
    /\ WF_vars(Supervise)
    /\ \A w \in Workspaces : WF_vars(Leave(w))
    /\ \A c \in Calls : WF_vars(MarkConnecting(c) \/ PurgeWorkspace(c))

FairSpec == Spec /\ Fairness
-----------------------------------------------------------------------------

TypeOK ==
    /\ cred \in [Workspaces -> Secrets \cup {NoSecret}]
    /\ saved \in Seq(Workspaces)
    /\ {saved[n] : n \in DOMAIN saved} = {w \in Workspaces : cred[w] # NoSecret}
    /\ \A m, n \in DOMAIN saved : saved[m] = saved[n] => m = n
    /\ unreadable \subseteq {w \in Workspaces : cred[w] # NoSecret}
    /\ status \in [Workspaces -> Statuses]
    /\ scanner \subseteq Workspaces
    /\ call \in [Calls -> [pc : {"idle", "connecting", "purging", "enabling"},
                           workspace : Workspaces \cup {NoWorkspace}]]
    /\ up \in BOOLEAN
    /\ wanted \in [Workspaces -> Secrets \cup {NoSecret}]
    /\ supervisor \in {"sleep", "refresh"}
    /\ runtime \in [Workspaces -> [stage : Stages, print : Secrets \cup {NoSecret},
                                   uses : Secrets \cup {NoSecret}]]
    /\ todo \subseteq Workspaces

(* Whatever is saved, deleted and restarted in whatever order, the worker never
   holds more Alpaca connections than its limit, a stopping one included.    *)
ConnectionCap == Cardinality(Entries) <= Limit

(* A deleted credential disconnects: when a workspace stays without one, the
   worker ends its runtime for good, even one that was just being started from
   what the supervisor had discovered before.                                *)
DeletedIsDisconnected ==
    \A w \in Workspaces : <>[](cred[w] = NoSecret) => <>[](w \notin Entries)

(* "Saving/replacing operator Alpaca or OpenRouter credentials in the UI
   requires no restart" (docs/LOCAL_DEVELOPMENT.md): with a worker that stays
   up, a running connection under the saved credential makes the workspace
   ACTIVE.                                                                   *)
SavingNeedsNoRestart ==
    \A w \in Workspaces :
        <>[](runtime[w].stage = "running" /\ runtime[w].uses = cred[w])
            => []<>(status[w] = "ACTIVE")

=============================================================================
