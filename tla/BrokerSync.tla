----------------------------- MODULE BrokerSync -----------------------------
(***************************************************************************)
(* Keeping one workspace's broker projection in step with Alpaca: the      *)
(* projection store (packages/broker/projections.py), the reconciliation   *)
(* service and execution gate (packages/broker/reconciliation.py), the     *)
(* Alpaca adapter's snapshot and trade-update stream                       *)
(* (packages/broker/alpaca_adapter.py), and the worker tasks that drive    *)
(* them (apps/worker/__main__.py), with the API's close-position route,    *)
(* which writes the same projection from another process.                  *)
(*                                                                         *)
(* A store method is one transaction under a row lock, so one step; each   *)
(* broker call is a step of its own.  A transaction that raises may have   *)
(* been rolled back or committed without the caller hearing of it.  An     *)
(* order is only its status and a position only whether it is held.  A     *)
(* timestamp is an age, counted in ticks and saturating once the gate      *)
(* calls it stale.                                                         *)
(***************************************************************************)
EXTENDS Naturals, Sequences

CONSTANTS
    Orders,           \* orders at the broker; a filled one leaves a position
    Old,              \* orders the account had before, all done, oldest first
    PageSize,         \* orders of one GET /v2/orders answer, newest first (50)
    Closers,          \* slots for POST /broker/positions/{id}/close in flight
    MaxAge            \* BrokerExecutionGate's 90 seconds, in ticks

(* The worker's reconcilers: the runtime once at its start, its periodic task,
   and its trade-update supervisor after a failure.                           *)
WorkerReconcilers == {"runtime", "periodic", "supervisor"}

ASSUME ConstantsAssumption ==
    /\ Old \in Seq(Orders)
    /\ PageSize \in Nat
    /\ MaxAge \in Nat
    /\ Closers \cap WorkerReconcilers = {}

VARIABLES
    book,         \* broker: [Orders -> status], "NONE" before it exists
    arrivals,     \* broker: the orders it has had, in the order of their arrival
    held,         \* broker: orders whose position is open
    blocked,      \* broker: the account is blocked
    orders,       \* broker_orders rows: [Orders -> status], "NONE" without a row
    positions,    \* broker_positions rows
    account,      \* broker_accounts row
    sync,         \* broker_sync_states row: [state, stream, age]
    snap,         \* [Reconcilers -> the snapshot each is collecting]
    link,         \* the trade_updates websocket delivers
    queue,        \* updates delivered and not yet applied
    consumer,     \* stage of _trade_update_supervisor
    runtime,      \* stage of _workspace_runtime
    readAge,      \* history: true age of the order book in the tables
    orphan        \* history: the stream flag was left by a worker that died, or by a
                  \* transaction that raised

vars == <<book, arrivals, held, blocked, orders, positions, account, sync, snap, link,
          queue, consumer, runtime, readAge, orphan>>

truth == <<book, arrivals, held, blocked>>
rows  == <<orders, positions, account>>
feed  == <<link, queue>>
tasks == <<consumer, runtime>>
hist  == <<readAge, orphan>>

Statuses == {"NONE", "OPEN", "DONE"}
States   == {"NOT_CONFIGURED", "UNKNOWN", "RECONCILING", "RECONCILED"}
Accounts == {"absent", "usable", "blocked"}

Stale == MaxAge + 1            \* older than the gate accepts, or never
Ages  == 0..Stale
Older(age) == IF age < Stale THEN age + 1 ELSE age

(* Who collects snapshots. *)
Reconcilers == WorkerReconcilers \cup Closers

Empty == [pc |-> "idle", account |-> "absent", positions |-> {},
          orders |-> [o \in Orders |-> "NONE"], age |-> Stale]

Unconfigured == [state |-> "NOT_CONFIGURED", stream |-> FALSE, age |-> Stale]

Init ==
    /\ book = [o \in Orders |-> IF \E n \in DOMAIN Old : Old[n] = o THEN "DONE" ELSE "NONE"]
    /\ arrivals = Old
    /\ held = {}
    /\ blocked = FALSE
    /\ orders = [o \in Orders |-> "NONE"]
    /\ positions = {}
    /\ account = "absent"
    /\ sync = Unconfigured
    /\ snap = [r \in Reconcilers |-> Empty]
    /\ link = FALSE
    /\ queue = <<>>
    /\ consumer = "off"
    /\ runtime = "off"
    /\ readAge = Stale
    /\ orphan = FALSE

(* BrokerExecutionGate.evaluate, were its two reads one. *)
GateOpen ==
    /\ sync.state = "RECONCILED"
    /\ sync.age <= MaxAge
    /\ sync.stream
    /\ account = "usable"

-----------------------------------------------------------------------------
(* The projection store's transactions on the sync row.                      *)

MarkState(state) == [sync EXCEPT !.state = state]

(* A mistake for SetStream: losing the stream leaves the state as it is. *)
SetStreamOnly(connected) == [sync EXCEPT !.stream = connected]

SetStream(connected) ==
    [sync EXCEPT !.stream = connected,
                 !.state = IF ~connected /\ @ = "RECONCILED" THEN "UNKNOWN" ELSE @]

(* The transaction that was to write `written` has raised. *)
Raised(written) == sync' \in {sync, written}

-----------------------------------------------------------------------------
(* Reconciliation.                                                           *)

StartSnap(r) == snap' = [snap EXCEPT ![r] = [Empty EXCEPT !.pc = "account"]]

(* The connection supervisor starts a runtime, which reconciles first. *)
StartRuntime ==
    /\ runtime = "off"
    /\ runtime' = "initial"
    /\ sync' = MarkState("RECONCILING")
    /\ StartSnap("runtime")
    /\ UNCHANGED <<truth, rows, feed, consumer, hist>>

PeriodicMarks ==
    /\ runtime = "running"
    /\ snap["periodic"].pc = "idle"
    /\ sync' = MarkState("RECONCILING")
    /\ StartSnap("periodic")
    /\ UNCHANGED <<truth, rows, feed, tasks, hist>>

SupervisorMarks ==
    /\ consumer = "retry"
    /\ consumer' = "reconciling"
    /\ sync' = MarkState("RECONCILING")
    /\ StartSnap("supervisor")
    /\ UNCHANGED <<truth, rows, feed, runtime, hist>>

(* reconcile marks before its try: when that raises, a first reconciliation
   fails the runtime and the other two wait for their next turn.             *)
MarkRaises ==
    /\ Raised(MarkState("RECONCILING"))
    /\ \/ runtime = "off" /\ runtime' = "failing" /\ UNCHANGED consumer
       \/ runtime = "running" /\ snap["periodic"].pc = "idle" /\ UNCHANGED tasks
       \/ consumer = "retry" /\ consumer' = "connect" /\ UNCHANGED runtime
    /\ UNCHANGED <<truth, rows, snap, feed, hist>>

(* close_position: the broker takes the closing order, then the route collects
   a snapshot of its own, without marking the state first.                    *)
CloseBegins(c) ==
    /\ snap[c].pc = "idle"
    /\ StartSnap(c)
    /\ UNCHANGED <<truth, rows, sync, feed, tasks, hist>>

(* adapter.reconcile: three calls, one after the other; the snapshot is dated
   when the last has returned.                                                *)
ReadAccount(r) ==
    /\ snap[r].pc = "account"
    /\ snap' = [snap EXCEPT ![r].pc = "positions",
                            ![r].account = IF blocked THEN "blocked" ELSE "usable"]
    /\ UNCHANGED <<truth, rows, sync, feed, tasks, hist>>

ReadPositions(r) ==
    /\ snap[r].pc = "positions"
    /\ snap' = [snap EXCEPT ![r].pc = "orders", ![r].positions = held]
    /\ UNCHANGED <<truth, rows, sync, feed, tasks, hist>>

(* The orders of one page: every status, newest first. *)
Page == {o \in Orders : \E n \in DOMAIN arrivals :
                           arrivals[n] = o /\ n + PageSize > Len(arrivals)}

Shown == [o \in Orders |-> IF o \in Page THEN book[o] ELSE "NONE"]

ReadOrders(r) ==
    /\ snap[r].pc = "orders"
    /\ snap' = [snap EXCEPT ![r].pc = "apply", ![r].orders = Shown, ![r].age = 0]
    /\ UNCHANGED <<truth, rows, sync, feed, tasks, hist>>

(* Where the worker goes when a reconciler is done.  A first reconciliation that
   succeeded still fails the runtime when setting the workspace ACTIVE raises. *)
AfterSuccess(r) ==
    \/ /\ r = "runtime"
       /\ \/ runtime' = "running" /\ consumer' = "connect"
          \/ runtime' = "failing" /\ UNCHANGED consumer
    \/ /\ r = "supervisor"
       /\ consumer' = "connect"
       /\ UNCHANGED runtime
    \/ /\ r \notin {"runtime", "supervisor"}
       /\ UNCHANGED tasks

AfterFailure(r) ==
    /\ runtime' = IF r = "runtime" THEN "failing" ELSE runtime
    /\ consumer' = IF r = "supervisor" THEN "connect" ELSE consumer

(* A mistake for Stamp: the projection is dated when it is written. *)
StampOnWrite(r) == 0

Stamp(r) == snap[r].age

(* A mistake for Replace: the snapshot is merged into what is there. *)
MergeRows(r) ==
    /\ positions' = positions \cup snap[r].positions
    /\ orders' = [o \in Orders |->
                     IF snap[r].orders[o] = "NONE" THEN orders[o] ELSE snap[r].orders[o]]

Replace(r) ==
    /\ positions' = snap[r].positions
    /\ orders' = snap[r].orders

(* apply_reconciliation: one transaction replaces every row and reconciles. *)
Apply(r) ==
    /\ snap[r].pc = "apply"
    /\ account' = snap[r].account
    /\ Replace(r)
    /\ sync' = [sync EXCEPT !.state = "RECONCILED", !.age = Stamp(r)]
    /\ readAge' = snap[r].age
    /\ snap' = [snap EXCEPT ![r] = Empty]
    /\ AfterSuccess(r)
    /\ UNCHANGED <<truth, feed, orphan>>

(* A broker call or the transaction raises.  The service marks the state UNKNOWN,
   which may raise too, and passes the error on; the close route answers 400. *)
Fail(r) ==
    /\ snap[r].pc # "idle"
    /\ IF r \in Closers THEN UNCHANGED sync ELSE Raised(MarkState("UNKNOWN"))
    /\ snap' = [snap EXCEPT ![r] = Empty]
    /\ AfterFailure(r)
    /\ UNCHANGED <<truth, rows, feed, hist>>

(* The transaction's COMMIT succeeds and is not heard: it raises all the same. *)
ApplyUnheard(r) ==
    /\ snap[r].pc = "apply"
    /\ account' = snap[r].account
    /\ Replace(r)
    /\ \E state \in IF r \in Closers THEN {"RECONCILED"} ELSE {"RECONCILED", "UNKNOWN"} :
           sync' = [sync EXCEPT !.state = state, !.age = Stamp(r)]
    /\ readAge' = snap[r].age
    /\ snap' = [snap EXCEPT ![r] = Empty]
    /\ AfterFailure(r)
    /\ UNCHANGED <<truth, feed, orphan>>

-----------------------------------------------------------------------------
(* The trade-update stream.                                                  *)

(* consume_trade_updates declares the stream connected before it subscribes. *)
Connect ==
    /\ consumer = "connect"
    /\ consumer' = "consuming"
    /\ sync' = SetStream(TRUE)
    /\ queue' = <<>>
    /\ orphan' = FALSE
    /\ UNCHANGED <<truth, rows, snap, link, runtime, readAge>>

(* It does so before its try: when that raises, nobody takes the flag back. *)
ConnectFails ==
    /\ consumer = "connect"
    /\ consumer' = "retry"
    /\ Raised(SetStream(TRUE))
    /\ orphan' = sync'.stream
    /\ UNCHANGED <<truth, rows, snap, feed, runtime, readAge>>

(* The websocket library connects, drops and reconnects on its own thread;
   trade_updates waits on its queue only, so nobody is told.                 *)
LinkUp ==
    /\ consumer = "consuming"
    /\ ~link
    /\ link' = TRUE
    /\ UNCHANGED <<truth, rows, sync, snap, queue, tasks, hist>>

LinkDrops ==
    /\ link
    /\ link' = FALSE
    /\ UNCHANGED <<truth, rows, sync, snap, queue, tasks, hist>>

(* apply_trade_update: upsert whatever the update says, connected again. *)
Upsert(update) ==
    /\ orders' = [orders EXCEPT ![update.order] = update.status]
    /\ sync' = SetStream(TRUE)

ApplyUpdate ==
    /\ consumer = "consuming"
    /\ queue # <<>>
    /\ Upsert(Head(queue))
    /\ queue' = Tail(queue)
    /\ UNCHANGED <<truth, positions, account, snap, link, tasks, hist>>

(* It raises: the generator, its queue and its subscription are given up. *)
UpdateFails ==
    /\ consumer = "consuming"
    /\ queue # <<>>
    /\ \/ Upsert(Head(queue))
       \/ UNCHANGED <<orders, sync>>
    /\ consumer' = "dropping"
    /\ link' = FALSE
    /\ queue' = <<>>
    /\ UNCHANGED <<truth, positions, account, snap, runtime, hist>>

(* The except clause disconnects and marks; whichever of the two raises, the
   finally clause follows.                                                    *)
Disconnects ==
    /\ consumer = "dropping"
    /\ \/ consumer' = "marking" /\ sync' = SetStream(FALSE)
       \/ consumer' = "finally" /\ Raised(SetStream(FALSE))
    /\ UNCHANGED <<truth, rows, snap, feed, runtime, hist>>

MarksUnknown ==
    /\ consumer = "marking"
    /\ consumer' = "finally"
    /\ Raised(MarkState("UNKNOWN"))
    /\ UNCHANGED <<truth, rows, snap, feed, runtime, hist>>

(* The finally clause, which may raise as well; then the supervisor retries, or
   has been cancelled.                                                        *)
ConsumerFinally ==
    /\ consumer = "finally"
    /\ consumer' = IF runtime = "running" THEN "retry" ELSE "off"
    /\ Raised(SetStream(FALSE))
    /\ orphan' = sync'.stream
    /\ UNCHANGED <<truth, rows, snap, feed, runtime, readAge>>

-----------------------------------------------------------------------------
(* The runtime's end.                                                        *)

Cancelled == [r \in Reconcilers |-> IF r \in Closers THEN snap[r] ELSE Empty]

(* The connection supervisor cancels a runtime whose credential is gone or
   replaced.  Cancellation is no Exception: a reconciliation leaves the state
   it marked, the consumer runs its finally clause if it had entered the try,
   and if it was about to, its transaction may still commit.                 *)
Stop ==
    /\ runtime \in {"initial", "running"}
    /\ runtime' = "closing"
    /\ snap' = Cancelled
    /\ link' = FALSE
    /\ queue' = <<>>
    /\ \/ /\ consumer \in {"consuming", "dropping", "marking", "finally"}
          /\ consumer' = "finally"
          /\ UNCHANGED <<sync, orphan>>
       \/ /\ consumer \in {"off", "connect", "retry", "reconciling"}
          /\ consumer' = "off"
          /\ UNCHANGED <<sync, orphan>>
       \/ /\ consumer = "connect"
          /\ consumer' = "off"
          /\ sync' = SetStream(TRUE)
          /\ orphan' = FALSE
    /\ UNCHANGED <<truth, rows, readAge>>

(* A runtime that failed is cancelled while it reports the error, and still
   runs its finally clause, or in the finally clause, and leaves it.         *)
StopFailing ==
    /\ runtime = "failing"
    /\ \/ runtime' = "closing" /\ UNCHANGED <<sync, orphan>>
       \/ runtime' = "off" /\ Raised(SetStream(FALSE)) /\ orphan' = sync'.stream
    /\ UNCHANGED <<truth, rows, snap, feed, consumer, readAge>>

(* A mistake for RuntimeFinally: it trusts the consumer to have disconnected. *)
RuntimeFinallyTrusts ==
    /\ runtime \in {"failing", "closing"}
    /\ consumer = "off"
    /\ runtime' = IF runtime = "failing" THEN "ended" ELSE "off"
    /\ UNCHANGED <<truth, rows, sync, snap, feed, consumer, hist>>

(* The runtime's finally clause, once its tasks are gone; its transaction may
   raise.  A runtime that failed keeps its place and is not started again.    *)
RuntimeFinally ==
    /\ runtime \in {"failing", "closing"}
    /\ consumer = "off"
    /\ runtime' = IF runtime = "failing" THEN "ended" ELSE "off"
    /\ Raised(SetStream(FALSE))
    /\ orphan' = sync'.stream
    /\ UNCHANGED <<truth, rows, snap, feed, consumer, readAge>>

Forget ==
    /\ runtime = "ended"
    /\ runtime' = "off"
    /\ UNCHANGED <<truth, rows, sync, snap, feed, consumer, hist>>

(* The worker process dies: tasks and queue are gone, the rows stay. *)
WorkerCrash ==
    /\ runtime # "off"
    /\ runtime' = "off"
    /\ consumer' = "off"
    /\ snap' = Cancelled
    /\ link' = FALSE
    /\ queue' = <<>>
    /\ orphan' = sync.stream
    /\ UNCHANGED <<truth, rows, sync, readAge>>

(* The API process dies in the middle of a close. *)
ApiCrash ==
    /\ \E c \in Closers : snap[c].pc # "idle"
    /\ snap' = [r \in Reconcilers |-> IF r \in Closers THEN Empty ELSE snap[r]]
    /\ UNCHANGED <<truth, rows, sync, feed, tasks, hist>>

(* A mistake for Purge: the sync row is kept. *)
PurgeKeepsSyncState ==
    /\ orders' = [o \in Orders |-> "NONE"]
    /\ positions' = {}
    /\ account' = "absent"
    /\ UNCHANGED <<truth, sync, snap, feed, tasks, hist>>

NoSyncRow ==
    /\ sync' = Unconfigured
    /\ readAge' = Stale
    /\ orphan' = FALSE

(* delete_credentials deletes the orders, the positions, the account and the
   sync row, in this order and in one transaction.                            *)
Purge ==
    /\ orders' = [o \in Orders |-> "NONE"]
    /\ positions' = {}
    /\ account' = "absent"
    /\ NoSyncRow
    /\ UNCHANGED <<truth, snap, feed, tasks>>

(* It locks nothing first: a reconciliation may commit between two of its
   deletes, and what that wrote to the tables already passed stays, without a
   sync row.  Both commits are one step: what other tasks do between them they
   could as well do before the first.                                         *)
PurgeMisses(r) ==
    /\ snap[r].pc = "apply"
    /\ orders' = snap[r].orders
    /\ positions' \in {{}, snap[r].positions}
    /\ account' \in {"absent"} \cup (IF positions' = snap[r].positions
                                      THEN {snap[r].account} ELSE {})
    /\ NoSyncRow
    /\ snap' = [snap EXCEPT ![r] = Empty]
    /\ AfterSuccess(r)
    /\ UNCHANGED <<truth, feed>>

(* So may a trade update that brings a new row. *)
PurgeMissesUpdate ==
    /\ consumer = "consuming"
    /\ queue # <<>>
    /\ orders' = [o \in Orders |-> IF o = Head(queue).order THEN Head(queue).status ELSE "NONE"]
    /\ positions' = {}
    /\ account' = "absent"
    /\ NoSyncRow
    /\ queue' = Tail(queue)
    /\ UNCHANGED <<truth, snap, link, tasks>>

-----------------------------------------------------------------------------
(* Alpaca and the clock.                                                     *)

Deliver(o, status) ==
    queue' = IF link THEN Append(queue, [order |-> o, status |-> status]) ELSE queue

OrderArrives(o) ==
    /\ book[o] = "NONE"
    /\ book' = [book EXCEPT ![o] = "OPEN"]
    /\ arrivals' = Append(arrivals, o)
    /\ Deliver(o, "OPEN")
    /\ UNCHANGED <<held, blocked, rows, sync, snap, link, tasks, hist>>

(* Filled, which opens a position, or cancelled. *)
OrderEnds(o) ==
    /\ book[o] = "OPEN"
    /\ book' = [book EXCEPT ![o] = "DONE"]
    /\ held' \in {held, held \cup {o}}
    /\ Deliver(o, "DONE")
    /\ UNCHANGED <<arrivals, blocked, rows, sync, snap, link, tasks, hist>>

PositionCloses(o) ==
    /\ o \in held
    /\ held' = held \ {o}
    /\ UNCHANGED <<book, arrivals, blocked, rows, sync, snap, feed, tasks, hist>>

AccountBlocked ==
    /\ ~blocked
    /\ blocked' = TRUE
    /\ UNCHANGED <<book, arrivals, held, rows, sync, snap, feed, tasks, hist>>

(* Time passes: every timestamp ages. *)
Tick ==
    /\ sync' = [sync EXCEPT !.age = Older(@)]
    /\ snap' = [r \in Reconcilers |-> [snap[r] EXCEPT !.age = Older(@)]]
    /\ readAge' = Older(readAge)
    /\ UNCHANGED <<truth, rows, feed, tasks, orphan>>

-----------------------------------------------------------------------------

Collect(r) == ReadAccount(r) \/ ReadPositions(r) \/ ReadOrders(r) \/ Apply(r)

Consumer ==
    \/ Connect \/ ConnectFails \/ ApplyUpdate \/ UpdateFails
    \/ Disconnects \/ MarksUnknown \/ ConsumerFinally \/ SupervisorMarks

Runtime ==
    \/ StartRuntime \/ PeriodicMarks \/ MarkRaises \/ Stop \/ StopFailing \/ RuntimeFinally \/ Forget
    \/ WorkerCrash

Alpaca ==
    \/ \E o \in Orders : OrderArrives(o) \/ OrderEnds(o) \/ PositionCloses(o)
    \/ AccountBlocked \/ LinkUp \/ LinkDrops

Next ==
    \/ \E r \in Reconcilers : Collect(r) \/ ApplyUnheard(r) \/ Fail(r)
    \/ Consumer
    \/ Runtime
    \/ \E c \in Closers : CloseBegins(c)
    \/ ApiCrash
    \/ Purge \/ PurgeMissesUpdate \/ \E r \in Reconcilers : PurgeMisses(r)
    \/ Alpaca
    \/ Tick

Spec == Init /\ [][Next]_vars

(* The loop of the periodic task goes round. *)
Fairness == WF_vars(PeriodicMarks)

FairSpec == Spec /\ Fairness

-----------------------------------------------------------------------------

Snapshots == [pc : {"idle", "account", "positions", "orders", "apply"},
              account : Accounts, positions : SUBSET Orders,
              orders : [Orders -> Statuses], age : Ages]

Updates == [order : Orders, status : Statuses]

TypeOK ==
    /\ book \in [Orders -> Statuses]
    /\ arrivals \in Seq(Orders)
    /\ held \subseteq Orders
    /\ blocked \in BOOLEAN
    /\ orders \in [Orders -> Statuses]
    /\ positions \subseteq Orders
    /\ account \in Accounts
    /\ sync \in [state : States, stream : BOOLEAN, age : Ages]
    /\ snap \in [Reconcilers -> Snapshots]
    /\ link \in BOOLEAN
    /\ queue \in Seq(Updates)
    /\ consumer \in {"off", "connect", "consuming", "dropping", "marking",
                     "finally", "retry", "reconciling"}
    /\ runtime \in {"off", "initial", "running", "failing", "closing", "ended"}
    /\ readAge \in Ages
    /\ orphan \in BOOLEAN
    /\ sync.state = "RECONCILED" => account # "absent"

(* The stream flag the execution gate reads is left behind only by a failure:
   while it is set, a consumer that set it is still there, or a runtime is about
   to clear it, or the worker died or a transaction on it raised and nobody has
   connected or cleared it since.  Cancellation alone, wherever it strikes,
   leaves no flag (the finally clauses of consume_trade_updates and
   _workspace_runtime).                                                       *)
StreamFlagHasOwner ==
    sync.stream =>
        \/ consumer \in {"consuming", "dropping", "finally"}
        \/ runtime = "closing"
        \/ orphan

(* Losing the stream costs the reconciled state, and only a snapshot gives it
   back: no reconnect and no trade update reopens the gate by itself.         *)
ReadmissionNeedsSnapshot ==
    [][/\ sync.stream /\ ~sync'.stream => sync'.state # "RECONCILED"
       /\ sync.state # "RECONCILED" /\ sync'.state = "RECONCILED" =>
              \E r \in Reconcilers : snap[r].pc = "apply" /\ snap'[r].pc = "idle"]_vars

(* However long a reconciliation takes and however reconciliations overlap,
   an open gate stands on an order book read at most MaxAge ago.              *)
OpenGateIsRecent == GateOpen => readAge <= MaxAge

(* What the gate reads when it asks for the state and for the account. *)
Row == [known |-> /\ sync.state = "RECONCILED"
                  /\ sync.age <= MaxAge
                  /\ sync.stream,
        account |-> account]

(* Orders the broker has had. *)
Arrived == {o \in Orders : book[o] # "NONE"}

(* Whatever the worker's tasks, a close call, a crash or a deletion do, the
   gate and the desk read what BrokerProjection promises: the state is known
   only beside an account, account and positions appear together and are of real
   orders, a deletion leaves no known state, and nothing but a snapshot that is
   written adds a position.                                                   *)
Projection == INSTANCE BrokerProjection WITH row <- Row, placed <- Arrived
ImplementsProjection == Projection!Spec

Converged ==
    /\ orders = Shown
    /\ positions = held
    /\ account = IF blocked THEN "blocked" ELSE "usable"

(* Calls to Alpaca have no timeout and any may fail: that those of the periodic
   task, and its transaction, neither hang nor fail every time.               *)
PeriodicTaskIsServed ==
    /\ SF_vars(ReadAccount("periodic"))
    /\ SF_vars(ReadPositions("periodic"))
    /\ SF_vars(ReadOrders("periodic"))
    /\ SF_vars(Apply("periodic"))

(* Whatever updates were lost, late or undone by an older snapshot, a runtime
   that stays up on a connection that is not deleted, while its periodic task is
   served, brings the projection to the broker's account, positions and newest
   page of orders for good once the broker is quiet.                          *)
ProjectionConverges ==
    /\ PeriodicTaskIsServed
    /\ <>[](runtime = "running" /\ account # "absent")
    => <>[]Converged

(* "Unknown, stale, divergent, or unreconciled state blocks execution"
   (docs/PROJECT_STATUS.md): an order row differs from the broker under an open
   gate only while the update that explains it is queued.                     *)
DivergenceBlocksExecution ==
    GateOpen => \A o \in Orders :
        orders[o] = book[o] \/ \E n \in DOMAIN queue : queue[n].order = o

=============================================================================
