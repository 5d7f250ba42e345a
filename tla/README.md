# A TLA+ development of AlphaDesk

AlphaDesk is a paper-trading desk: a FastAPI application (`src/apps/api`), a worker
process (`src/apps/worker`), packages with the trading logic (`src/packages`) and a web
interface. Operators connect an Alpaca paper account; the worker keeps a projection of
that account in PostgreSQL; the API analyses symbols, shows order reviews and submits a
reviewed order when the operator confirms it. The models follow an operator through the desk:
**an invitation that is spent once**, the analysis that proposes **a trade of bounded loss**, an AI
review that **cites what it knows**, the worker that keeps **a projection of the broker the execution
gate can rely on**, and the confirmation that **submits an order at most once** under **a kill switch
that holds**.

## The system

| Component | State it keeps | Operations | Talks to | What makes it correct |
|---|---|---|---|---|
| Order confirmation (`apps/api/routes/desk.py`, `confirm_paper_order`) | none (one coroutine per request) | load review, re-risk, preflight, execute | everything below | acts on one immutable review; refuses when any check fails |
| Execution Engine and intent ledger (`packages/execution`) | `order_intents` rows | `reserve_submission`, `submit_order`, `set_state`, `reconcile_uncertain` | Alpaca | at most one submission per client order id; the ledger never claims more than is so; doubts are settled |
| Guardian (`packages/guardian`) | `guardian_incidents` | `halt`, `recover`, `status`, `evaluate` (not wired) | broker state | a standing halt lets nothing new through; it ends only over a known broker state |
| Broker projection (`packages/broker/projections.py`) | account, position and order rows, `broker_sync_states` | `mark_state`, `set_stream_connected`, `apply_reconciliation`, `apply_trade_update` | written by worker and API | shows what the broker last said, or is not called reconciled |
| Reconciliation and gate (`packages/broker/reconciliation.py`) | none | `reconcile`, `consume_trade_updates`, `evaluate` | adapter, projection | the gate is open only on recent data |
| Alpaca adapter (`packages/broker/alpaca_adapter.py`) | websocket, queue | snapshot, stream, submit, look up, close | Alpaca | a snapshot is what the broker said; no update is lost unnoticed |
| Worker (`apps/worker/__main__.py`) | in-memory runtimes, scan times | connection supervisor, runtime, periodic task, update supervisor, scanner | all workspaces' rows | every verified workspace is served; one does not harm another |
| Credential vault (`packages/security`) | encrypted credentials, audit rows | save, get, reveal, delete | API, worker | tenant-bound; deletion takes effect everywhere |
| Workspaces and registration (`packages/auth`) | users, workspaces, invitations, redemptions; Supabase identities and tokens | `register`, `create`/disable/expire an invitation, `provision`, `_sync_user` | Supabase | uses are redemptions; who is told 201 can enter; an identity left over is accounted for |
| Scan runs (`packages/connected`, `scan_now`, `_scanner_supervisor`) | opportunities, scan runs | start, analyse each symbol, complete | Alpaca data, risk | a run's counts add up and are final; what stays open was interrupted |
| Analysis (`packages/connected`, `execution/intents.py`) | opportunities, order intents | `analyze` | Alpaca data, projection, risk | an approved intent is bounded at every price |
| Options, strategies, risk, Guardian rules (`packages/options`, `strategy`, `risk`, `guardian/engine.py`) | none | pure functions | | losses and profits are those of the payoff; rules are monotone and take no side |
| AI workflow (`packages/ai`) | `ai_runs` | three agents with one repair each, save | OpenRouter | never executes; cites known sources or is degraded; ends |
| Demo, replay, Strategy Lab (`packages/demo`, `replay`, `lab`) | demo sessions, evidence | deterministic replays, metrics, analogs, windows | | evidence looks back only |
| Event bus, settings, logging, schema, web | | | | not modelled |

How they interact: handlers of the API and tasks of the worker never call each other. They
share rows of PostgreSQL, each store method being one transaction, and the broker. Every
`await` is a point where another handler, the worker, the broker or a crash can come in.

What is hard here (each at its line in `PROJECT.json`, "hazards"): confirmations of one review
racing each other; a submission whose reply is lost; a crash between a reservation and its
result; halts and recoveries that read in one transaction and write in another; four
reconcilers from two processes overlapping on one row; a websocket that reconnects by itself;
cancellation in any await; credentials deleted under a running worker; a database transaction
with a call to another system in the middle of it; commits nobody hears of; two scans of one
watchlist; decisions that turn on the last cent of a bound.

## The modules

| Module | Models | Composes with |
|---|---|---|
| `SubmissionLedger` | abstract: what the Execution Engine promises about claims, submissions, orders and the ledger | implemented by `OrderExecution` |
| `OrderExecution` | the confirm route, Execution Engine, intent store, Guardian store and routes, credential deletion, with the broker and the worker as environment | |
| `OrderExecutionProofs` | theorems about it | |
| `BrokerProjection` | abstract: what the desk may rely on when it reads the broker projection | implemented by `BrokerSync`; `OrderExecution` takes the projection's changes from it |
| `BrokerSync` | one workspace's runtime and its tasks, the projection store, gate, adapter and the close route, with Alpaca and a clock | |
| `RuntimeLife` | abstract: the life of one workspace's runtime, from its start to its end | implemented by `BrokerSync` and, for each workspace, by `WorkspaceLifecycle` |
| `WorkspaceLifecycle` | credential and scanner routes, credential store, the worker's connection supervisor, runtimes and scanner, for several workspaces | takes a runtime's inside from `BrokerSync` as stages |
| `InvitationBook` | abstract: an invitation admits at most as many people as it allows, nobody twice, nobody once it is disabled | implemented by `Registration` |
| `Registration` | the register route and service, invitations, provisioning and sign-in, with Supabase and PostgreSQL's locks and commits | |
| `ScanRuns` | manual and scheduled scans of one workspace, each symbol a transaction | part of `ResearchDesk` |
| `AIReview` | AI reviews: three agents, repairs, degradation, the record | part of `ResearchDesk` |
| `ResearchDesk` | composes the two: reviews read what scans store, and one API process serves both | |
| `OptionStructures`, `TradingRules`, `LabEvidence` | the pure rules: structures and payoffs; liquidity, strategies, risk, Guardian triggers; drawdown, analogs, windows | used by the next two |
| `TradeAnalysis` | one analysis from market features to a disposition and an intent | |
| `Decisions` | composes it with samples on which every rule is judged | |
| `WorkspaceLifecycleProofs`, `BrokerSyncProofs`, `RegistrationProofs`, `ResearchDeskProofs`, `LabEvidenceProofs`, `DecisionsProofs` | theorems about the module each is named after | |
| `MCOrderExecution`, `MCBrokerSync`, `MCWorkspaceLifecycle`, `MCRegistration`, `MCResearchDesk`, `MCDecisions` | the instances TLC checks; symmetry in the first, for safety runs | |

### OrderExecution

`record` is the `order_intents` table, `req[r]` a confirm handler: the stage where it waits
(`pc`), its intent and whether its position count passed. `sent`, `wire` and `placed` are the
submission's way to Alpaca: it has left, it has not been dealt with, the broker holds the
order. `row` is what the broker projection answers the gate (`known`: RECONCILED, fresh and
connected; `account`: absent, usable, blocked). `active` are the uncleared incidents, named by
who raised them, `op` the Guardian and credential handlers between their two transactions. `under` and
`assured` are history: the handlers a standing halt must hold back, and the recoveries between their
two transactions whose first found the broker state known.

A handler's stages are its awaits: `Begin` (load, expiry) -> `ReadAccount` -> `ReadPositions` ->
`RiskStatus`, `RiskDecision` (the gate's two reads, then the risk engine) -> `Reveal` ->
`PreflightGuardian` -> `PreflightStatus`, `PreflightAccount` -> `Reserve` -> `Submit` ->
`SubmitReturns` or `SubmitRaises` -> `RecordAccepted` or `RecordUncertain`. A failed check
answers and frees the slot. `set_state` can fail in its own transaction. `ApiCrash` removes all
handlers and keeps what is committed or on the wire. The worker appears as `SyncApplies` and
`SyncStateChanges`, the steps `Writes` and `Turns` of `BrokerProjection`.

Numbers are abstracted: the per-trade, concentration, daily-loss, drawdown and Greek checks are
one free choice; the broker-state and position-count checks are modelled on state. Alpaca
refuses a second order under a client order id it holds.

### BrokerProjection

The contract between the two halves of the desk that meet in PostgreSQL only. `row` is what the gate
reads, `positions` what is shown, `placed` what the broker has had. `Writes` is a reconciliation's
transaction, `Turns` a change of the state alone (marked, aged, disconnected, reconnected), `Removed` the
deletion, `Place` the broker. `BrokerSync` implements it with its tasks, snapshots, queue and clock
(`ImplementsProjection`: `Row` and `Arrived` are the refinement mapping). The converse holds of the reader:
`OrderExecution` has the worker as steps of this module, so that what its handlers face is what
the worker is shown to do, and no handler of the API touches the projection in any other way.

### BrokerSync

`book`, `held`, `blocked` are the truth at Alpaca, `arrivals` the orders it has had, in the order they came; `orders`,
`positions`, `account`, `sync` the rows. `snap[r]` is the snapshot a reconciler is collecting: the runtime's first
one, the periodic task's, the update supervisor's after a failure, and one per close request in the API process,
which marks nothing before and nothing on failure. `consumer` and `runtime` are the stages of
`_trade_update_supervisor`/`consume_trade_updates` and `_workspace_runtime`. Timestamps are ages,
aged by `Tick` and saturating above the gate's limit. `readAge` and `orphan` are history: the
true age of the rows' order book, and whether a dead worker or a transaction that raised left the stream flag.

A store method is one transaction under a row lock, so one action; it may raise, rolled back or committed with
nobody hearing of it (`Raised`, `ApplyUnheard`), also in an `except` or a `finally` clause and in the
`set_stream_connected(True)` that stands before the `try`. The three broker calls of a snapshot are three
actions. The order list asks for one page of the newest orders (`limit=50`, here `PageSize`), and the rows it
replaces are all rows, so that an older order drops out of the projection (`Shown`). The websocket's
connection is `link`: it comes and goes without telling anybody, since alpaca-py reconnects on its thread and
`trade_updates` waits on its queue. `Stop` is the cancellation of a runtime by the connection supervisor, including a
`set_stream_connected(True)` whose transaction commits although its task was cancelled.
`StopFailing` is the same for a runtime that is reporting a failed first reconciliation, or one that
succeeded and could not be reported as ACTIVE.

`delete_credentials` deletes the orders, positions, account and sync rows one after the other, in one
transaction without a lock. Under READ COMMITTED a reconciliation may commit between two of the deletes,
and what it wrote to a table already passed stays: `PurgeMisses(r)` is the two commits in one step, for each place
between the deletes, and `PurgeMissesUpdate` the same with a trade update. What other tasks do between the
two commits they could as well do before the first, so that one step loses nothing.

### RuntimeLife

`BrokerSync` and `WorkspaceLifecycle` both describe `_workspace_runtime`: the one with its tasks inside, for one
projection, the other with the supervisor's dict around it, for many workspaces. What they must agree on
is when a runtime begins, fails, is cancelled and is gone, and this is that machine, six stages of it. In
`BrokerSync` its `stage` is the variable `runtime`; in `WorkspaceLifecycle` it is `LifeOf(w)`, which
takes together the finer stages of its status writes (`activating` is initial, `erroring` and `leaving` are failing) and sees
no difference between an entry that is revealing and none. No run checks it; both refinements are proved.

### WorkspaceLifecycle

`cred` and `saved` are the `workspace_credentials` rows and their order by `updated_at`; a secret
stands for its fingerprint too, `unreadable` are rows whose key version the worker's master keys
lack. `status` and `scanner` are the columns of `workspaces`. `call[c]` is a credential or scanner
route between its two transactions: `SaveCredential` -> `MarkConnecting`, `DeleteCredential` ->
`PurgeWorkspace`, `CheckScanner` -> `EnableScanner`.

`wanted` is what the supervisor discovered, `runtime[w]` its dict entry: the fingerprint it was
started for (`print`), the secret the task read (`uses`), and the stage of `_workspace_runtime`. A
refresh is `Discover`, then `CancelStale` one entry at a time, waiting for each, then `StartMissing`,
which starts all that is missing without an await. The first reconciliation is one step with two
outcomes, its detail being `BrokerSync`. A status transaction in flight when its task is
cancelled may still commit, and one that raises, committed or not, fails a runtime that was about to
become ACTIVE (`Activate`) or leaves one that was reporting an error to its finally clause (`MarkError`). `todo` is the scanner's list of one round; market hours and the five
minutes between scans are left out, so it may start a round at any time. A credential that
cannot be decrypted ends the worker from the scanner (`ScanRaises`) and only its own task from a
runtime (`Reveal`). Nothing writes the status SUSPENDED, so it is not modelled.

### Registration

`max`, `uses`, `disabled`, `expired` are the columns of `invitations`, `redeemed` the redemptions, `users`
and `workspaces` the local tables, by the subject Supabase gives. `wire`, `identities`, `tokens` are
Supabase's side: creations it has not decided, what it holds, who has a token. `call[c]` is one
`POST /auth/register`; its stages are the awaits of `register`: `AskProvider`, `Enter` (locks the
invitation's row, reads its uses), `CreateSucceeds`/`CreateFails` (the reply of Supabase, which may have
created the identity all the same), `Flush`, `Commit` or `CommitUnheard`, `Fail`, `CleanUp`. Each request to Supabase
may also end with an error that `SupabaseAdminAuth` does not translate (a connection reset while the reply is
read, say), the answer `uncaught`: from the creation it leaves no subject to clean up, from the cleanup no log.

The row lock is the predicate `Holds`: a call in `creating`, `flushing` or `committing` has it, others that
need the row wait in `Enter` or `DisableInvitation`. What a transaction writes appears at its commit, with
the use count *it read*, so that the lock is what makes the count right. The unique indexes make a second
insert of an email wait (`Pending`). `CommitUnheard` is a commit whose acknowledgement is lost:
the handler cleans up an identity whose workspace exists. `SyncUser` inserts the user of a
token on its first request, whether or not a registration made it. Codes, hashes, passwords and rate limits
are left out; expiry may come at any time.

### ResearchDesk

`ScanRuns`: `runs[r]` is a row of `connected_scan_runs`, `stored[r]` the number of opportunities that name it,
`job[j]` a scan: a manual call or the worker's task. The symbols of a watchlist are
interchangeable, so a list is a number. `AnalyzeNext` is one turn of either loop: stored and counted, failed
and counted, or stored with nobody hearing of it and counted as failed. `Die` is the end of either
process, `CompletionFails` the close that raises, `StartFails` the opening that raises, with the run's row stored or not;
a run left behind is remembered in `interrupted`. `AIReview`: `review[v]` is one
`POST /opportunities/{id}/ai`, `Generate` a provider call with its outcome, `Repair` the second attempt,
`SaveReview`/`SaveFails` the record. `ApiCrash` ends manual scans and reviews together.

### Decisions

`TradeAnalysis` runs `analyze` as `ReadMarket`, `ReadChain`, `ReadAccount`, `Decide`, each with every answer the world
may give: headlines and prices, any subset of a pool of contracts as the chain, an account row or none, the gate
and the number of positions. Whether the Greeks are within their caps is a free choice. `now` is taken before the chain is read, so a quote can be from the future.
Numbers are integers: cents, hundredths, seconds; `Score80` is eighty times the score, exactly. The choice of
the legs, with its fallback to the other side of the nearest strike, is translated as it is.

`Decisions` adds a variable `sample`: in an initial state it holds one input of one rule, and the
properties judge the rule there. It turns pure functions into something TLC explores by the same run and
the same mutants. Reference definitions do not iterate: payoffs instead of the formulas for
loss and profit, the set of all falls instead of the running peak, what is available instead of a
sorted list.

## The runs

| Run | Specification and bounds | Shows |
|---|---|---|
| `exec_ledger` | 2 intents, 2 handlers, no operators, reconciler present | `AtMostOnceSubmission`, `LedgerIsHonest`, and the refinement `ImplementsLedger` |
| `exec_guardian` | 1 intent, 2 handlers, 2 operators | `TypeOK`, `HaltStopsOrders`, `ResumeNeedsReconciliation` |
| `exec_uncertain` | 1 intent, 1 handler, `FairSpec`, no reconciler (as wired) | **violated** `UncertainIsReconciled` |
| `exec_cap` | 2 intents, 2 handlers, cap 1 | **violated** `StructureCap` |
| `sync_safety` | 1 order, a page of one, 1 close request, `MaxAge` 0 | `TypeOK`, `StreamFlagHasOwner`, `OpenGateIsRecent`, `ReadmissionNeedsSnapshot`, the refinement `ImplementsProjection` |
| `sync_converges` | 2 orders, one of them old, a page of one, no close, `FairSpec` | `ProjectionConverges` |
| `sync_divergence` | 1 order, a page of one, no close, `MaxAge` 1 | **violated** `DivergenceBlocksExecution` |
| `life_supervision` | 2 workspaces, 1 call in flight, 1 secret, limit 1, `FairSpec` | `TypeOK`, `ConnectionCap`, `DeletedIsDisconnected` |
| `life_status` | 1 workspace, 1 call, 1 secret, `FairSpec` | **violated** `SavingNeedsNoRestart` |
| `registration` | 2 calls, 2 invitations of one use, 2 emails and the administrator's, `FairSpec` | `TypeOK`, `UsesAreRedemptions`, `CreatedCanEnter`, `OrphansExplained`, the refinement `BookSpec`, `Answered` |
| `research` | 1 manual scan slot and the worker's, 2 runs, lists of up to 2 symbols, 1 review, `FairSpec` | `TypeOK`, `RunsAddUp`, `OpenRunsAreWorkedOn`, `ReviewsAreCited`, `RunsAreFinal`, `ReviewEnds` |
| `decisions` | 4 headlines, 12 markets, any chain of 10 contracts, 4 accounts; samples of each rule | `TypeOK`, `ApprovedIsBounded`, `PayoffBounds`, `MirrorImage`, `BetterQuoteStaysEligible`, `WorseningNeverRelaxes`, `DrawdownMatches`, `NoLookAhead` |

Why the bounds are enough. Two handlers and two intents give every race of this protocol: a race
is always between two handlers on one intent or two intents on one limit; slots are reused, so
any number of sequential confirmations happens. Two operators give overlapping halts, and a halt
against a recovery and a deletion. The theorems below remove these bounds for the safety
properties. In `BrokerSync` a second order adds only independent rows: every action treats
an order alone or all of them uniformly, and an order already has a status to go stale, an update
to be lost and a position to appear. What a second order does add is the page: `sync_converges` has one
that fills it before the run begins and one that pushes it off. One close request against the worker's three reconcilers
gives the overlap of two processes. `MaxAge` 0 is the hardest age for `OpenGateIsRecent` (any
tick makes data stale), `MaxAge` 1 leaves the gate open through a tick. The queue is bounded by
the orders' lives (two updates per order), no constraint is needed. Symmetry is used on safety runs
only; the liveness runs use sets of one element.

In `WorkspaceLifecycle` two workspaces and a limit of one are the smallest instance in which a save
evicts somebody else's connection and the limit binds while one runtime stops and another starts. One
secret suffices there: the supervisor only asks whether a fingerprint is the one it started, and
deleting and saving again changes that too. One call slot keeps a route between its transactions
while the worker, the scanner and other routes' single-transaction steps go on; two routes of the
same workspace in flight at once are not covered by the run.

In `Registration` two calls race for one invitation or one email, and two invitations let them miss each
other; one use per invitation is the limit at its tightest, and the proofs cover any number. In
`ResearchDesk` two runs and two symbols let the scans overlap, fail and succeed in one run, and leave one
open while the next goes on; `MaxRuns` is a bound of the model only. In `Decisions` the thresholds of the
code have samples on both of their sides (a spread of 10 percent, ages -1, 0, 120, 121 and a day, gaps of 12
and 13 percent, losses within and beyond half a percent of an account, 2.1 percent of daily loss, 10.7 percent of
drawdown, 7 and 8 positions), and the pool holds a
crossed, a stale and a future quote and both expirations. `Prices` covers every kink of the sampled payoffs and
a distance beyond.

Deadlock is checked in every run but `decisions`, where an analysis ends with its disposition and a
sample takes no step; in the other models some step of the environment or of a handler is always
possible.

### Fairness

`OrderExecution!FairSpec`: a handler that has begun goes on, Alpaca deals with a submission it has
received, a Guardian handler between its transactions finishes, and *if* a caller of
`reconcile_uncertain` exists it keeps calling. No fairness for new requests, for the worker or
against crashes: `UncertainIsReconciled` is violated because no such caller exists, not because
anything stopped.

`BrokerSync!FairSpec`: the periodic task's loop goes round (it is only ended by its cancellation). That
its calls to Alpaca and its transaction do not hang (they have no timeout) and do not fail every time is no
fairness of the code and stands in the property instead, as the hypothesis `PeriodicTaskIsServed` (strong fairness, as a
failure disables the call). Nothing is assumed of the websocket or of the consumer, so convergence rests
on the periodic reconciliation alone. `ProjectionConverges` also has in its hypothesis a runtime that stays up and
rows that are not deleted; broker quiescence comes from the finite lives of orders.

`WorkspaceLifecycle!FairSpec`: the supervisor's loop goes on while the worker is up, a runtime's finally clause
ends, and a route that committed its first transaction reaches its second unless the API dies. Nothing is assumed of
operators, of the scanner, that a dead worker is started again, or that a first reconciliation, whose calls may
hang, ever ends: the supervisor cancels it all the same.

`Registration!FairSpec`: a handler's await returns: `urlopen` has a timeout, PostgreSQL grants a
row to those that wait for it once it is free, and Supabase's side needs no fairness as the call
gives up by itself. `Answered` rests on the lock being released on every path.

`ResearchDesk!FairSpec`: a review goes on while its process lives, since a call to OpenRouter is cut off by
`asyncio.wait_for`. Nothing is assumed of scans: Alpaca is called in a thread without a timeout, and a call that
never returns holds its scan, and in the worker every later one. So no property says that a scan
ends; `ScansRunOut` proves only that it takes finitely many steps. Nothing is assumed of operators, crashes or
outcomes either: a review may fail at each call.

## What is proved

TLAPS checks these for every value of the constants, not for an instance:

| Module | Theorems | For any |
|---|---|---|
| `OrderExecutionProofs` | `TypeCorrect` `[]TypeOK`, `AtMostOnce` `[]AtMostOnceSubmission`, `Honest` `[]LedgerIsHonest`, `Halts` `[]HaltStopsOrders`, `Resume` `ResumeNeedsReconciliation`, `Refinement` `ImplementsLedger`; `KeepsProjection` `Projection!Spec`, `DeskIsCoherent` `[]Projection!Coherent`, `VerdictsStand`, `HaltDrains`, `DoubtsStay`, `WindowsShut` | intents, handlers, operators, cap |
| `BrokerProjection` | `Coherence` `[]Coherent` | orders |
| `BrokerSyncProofs` | `TypeCorrect`, `FlagOwned` `[]StreamFlagHasOwner`, `GateRecent` `[]OpenGateIsRecent`, `SnapshotReadmits` `ReadmissionNeedsSnapshot`; `Refinement` `ImplementsProjection`, `DeskReadsCoherently` `[]Projection!Coherent`, `Lags` `[]NeverAhead`, `CatchesUp` `QuietCatchesUp`, `RuntimeLives` `Life!Spec` | orders, close calls, maximum age |
| `WorkspaceLifecycleProofs` | `TypeCorrect`, `Cap` `[]ConnectionCap`; `RuntimesRunOut`, `DisconnectedStays`, `WantedIsKept`, `ConnectingStays`, `RuntimeLives` `Life(w)!Spec` | workspaces, calls, secrets, limit |
| `RegistrationProofs` | `TypeCorrect`, `UsesCounted` `[]UsesAreRedemptions`, `CreatedEnters` `[]CreatedCanEnter`, `OrphansAccounted` `[]OrphansExplained`, `Refinement` `BookSpec`; `AdmissionsStand`, `CallsRunOut` | finite set of calls, invitations, emails, sizes |
| `ResearchDeskProofs` | `TypeCorrect`, `Accounted` `[]RunsAddUp`, `OpenRunsOwned` `[]OpenRunsAreWorkedOn`, `Citations` `[]ReviewsAreCited`, `RunsStand` `RunsAreFinal`; `ScansRunOut`, `ReviewsRunOut` | runs, manual scans, reviews, limit of the list |
| `LabEvidenceProofs` | of the operators: `DrawdownIsDeepest`, `TestsFollowTraining`, `NearestOfThePast` | curves, samples, windows, candidates |
| `DecisionsProofs` | `TypeCorrect`, `ApprovedBounds` `[]ApprovedIsBounded`, `PayoffsAreBounded` `[]PayoffBounds`, `Impartiality` `[]MirrorImage`, `BetterQuotes` `[]BetterQuoteStaysEligible`, `Monotony` `[]WorseningNeverRelaxes`, `DrawdownIsSound` `[]DrawdownMatches`, `EvidenceLooksBack` `[]NoLookAhead`, `LossAtAnyPrice`; of the operators `LossIsBounded`, `ExtremesAreMet` | markets, chains, accounts, samples |

Every safety property that a passing run checks is a theorem; those named without a property above are
action properties or invariants that only the proofs state.

The assumptions are the named `ASSUME`s of the modules, which TLC evaluates on every run: markers are no
elements of the sets they stand beside, bounds are natural numbers. `TradeAssumption` adds that prices are
natural numbers, that of the underlying positive, and that a contract is identified by its type, strike and
expiration, as an option symbol is. `SampleAssumption` gives the samples their types. `EvidenceAssumption` has what
`compute_metrics` and `walk_forward_windows` refuse to go without, a positive initial equity, a non-empty
curve, positive window sizes, and that an event has one analog. `PriceAssumption` says that the prices at which
a structure is looked at hold zero and its strikes, which is where `PayoffBounds` looks for the extremes.

### OrderExecution

*Types* are split into `ReqOK` (handlers) and `DataOK` (tables): only four of fourteen handler
stages write a table, so each half has one short case analysis.

*The ledger.* `AtMostOnceSubmission` is not inductive: nothing in it stops a handler in stage
`submit` from sending what was sent before. `LedgerInv` adds who may send. `Ownership`: a handler
from its won reservation on has an intent no other such handler has, whose row is still
SUBMISSION_STARTED. `Departures`: nothing has been sent for an ABSENT row or by an owner that has
not submitted, exactly one submission for whatever is on the wire or at the broker.
`Acceptances`: whoever is about to write ACCEPTED, the owner or the reconciler, knows the order is at the
broker, and a found intent is SUBMISSION_UNCERTAIN, hence without an owner. A step that touches
neither ledger nor broker and brings no handler into the submission keeps it (`QuietStep`), so only
six kinds of steps need an argument. The refinement uses the same invariant: the
abstract guards (`sent = 0`, `placed`, state STARTED) are facts about the owner. `VerdictsStand` is read
off it for one intent: a claim is never freed, an acceptance or an order never taken back.

*The projection.* `SyncApplies` and `SyncStateChanges` keep the contract because they are its steps. What
`KeepsProjection` adds is that the deletion of the credential removes exactly what the contract's
`Removed` does, whatever handler is between which of its reads, and that nothing else of the API writes there;
`Coherence` then holds of what the handlers read.

*The halt.* `HaltInv` adds that handlers are held only while a halt stands; then the step past the
Guardian check, which has seen no halt, holds nobody. `Resume` needs the fact that whoever is about to clear, is in
`assured`: a recovery that read an unknown state never gets to its second transaction. The state may turn unknown
between the two, and a newer halt is cleared with the others: the code does not look again, and neither
does the property.

`HaltDrains` says what `HaltStopsOrders` leaves open: the halt cannot hold what is past the Guardian's check
(`Late`), but `Late` only shrinks while an incident stands, and each submission takes one handler
out of it. `WindowsShut` is the same for the two-minute window, which is checked in `Begin` only.

*Doubts.* `UncertainIsReconciled` is refuted by TLC on an instance; `DoubtsStay` says why it fails in each. A
row SUBMISSION_STARTED without an owner stays so in any case, and a row SUBMISSION_UNCERTAIN where
`reconcile_uncertain` has no caller; and nothing is sent for either, so that a doubt is never a second order.
It needs `NoneFound`: without a caller nothing was ever found.

### Registration

The use count is right because of the lock, so the invariant `IInv` needs `LockInv`: at most one call holds an
invitation's row, and for it the row still says what it read, is not disabled and has a use left. An
identity is right because of where it is, so it needs `IdentityInv`: it is asked for, held or gone; nothing
was asked for by a call that has not entered, and one that goes to its commit has heard that it is held. An
invitation may *expire* under the lock, and then the commit goes through: `LockInv` leaves `expired`
out, as the book does. The refinement maps a commit, heard or not, to `Admit`. `AdmissionsStand` uses it:
a step of the desk is a step of the book, and no step of the book takes an admission back. `CallsRunOut` numbers
the stages: each step of a handler, and the crash, takes its call to a higher one, and none leaves `done`.

### BrokerSync

`StreamFlagHasOwner` needs `Ownership`: a consumer exists only under a runtime that runs or is closing, and a
reconciler collects only for the task that waits for it. It says that cancellation alone leaves no flag; a
transaction that raises may, and `orphan` remembers it until somebody connects or clears. `OpenGateIsRecent` needs
`Dated`: the age in the sync row is the true age of the order book. Each action is shown to keep the named
parts of `IInv`; those that write only the sync row share the lemmas on `MarkState`, `SetStream` and `Raised`.
`SnapshotReadmits` follows since only `Apply` and `ApplyUnheard` write RECONCILED.

*The contract.* `Refinement` needs `RealPositions`: whatever the broker holds, a row shows or a snapshot is
collecting is a position of an order that arrived; `Sourced` names where a snapshot gets it from. Each action
is then a `Writes`, a `Turns`, a `Removed`, a `Place` or nothing as seen through the gate; `Tick` is a `Turns`
when it makes the data stale. An order's own row is not part of the contract: trade updates change
order rows and leave the gate's row alone.

*The lag.* `NeverAhead` says that an order row never shows what the broker has not come to. It is not inductive:
`LagInv` says the same of the snapshots being collected and of the updates queued, and every status, once
behind, stays behind as the broker's moves on (`StaysBehind`). So an old snapshot written after a newer update can take a
row back (`ProjectionConverges` is what heals that), but none invents an order or an end.

*Catching up.* `CatchesUp` is that healing, step by step, while the broker is quiet (`UNCHANGED truth`). What a
reconciler has read and is true stays true whatever the others do (`Met`), and so does the queue (`QueueMet`);
every snapshot begun now is true, and once written, heard of or not, the tables are the broker's account, positions and
newest page of orders. A stale snapshot still
under way may undo that once; when there is none and the queue is true (`Agreed`), nothing does but the
deletion of the connection. What is left to TLC is that the periodic task gets there.

*The life.* `RuntimeLives` maps each action to a step of `RuntimeLife` or to none.

### WorkspaceLifecycle

The limit is a fact about cardinalities: `CapInv` says that both what is wanted and what runs is finite
and at most `Limit`. `Discover` takes the first entries of `saved`, a sequence without repetition
(`Ordered`, kept by `WithoutProperties`); the first `Limit` of it are no more than `Limit`. `StartMissing`
is enabled only when every entry that is left is wanted, so that what runs afterwards is a subset
of what is wanted.

`RuntimesRunOut` follows one entry of the supervisor's dict: a step takes it further along its stages under
the same secrets, removes it where it holds no connection or has come to its finally clause (or with the
worker), or, where there is none and nothing stale is left, starts it. `DisconnectedStays` is the safety half of
`DeletedIsDisconnected`: what the supervisor disconnects for want of a credential stays so.

`WantedIsKept` is the supervisor's blind side: it compares fingerprints and nothing else, so an entry whose
fingerprint is wanted stays, whether its task runs, ended long ago, or reads another secret. `ConnectingStays`
draws from it why `SavingNeedsNoRestart` fails in every instance: ACTIVE is written by a starting runtime
only, and none starts. `RuntimeLives` is proved for each workspace by itself, from the same case analysis.

### ResearchDesk

`ScanInv`: a job that scans owns one open run, which no other job has, and its counters make up what the run
attempted (`Ownership`); what a row says once nobody works on it is `Accounts`. `ReviewInv`: reports kept
are those of the first agents in order, each accepted; a result about to be saved is degraded or has three.

`ReviewsRunOut` and `ScansRunOut` give a review and a scan a measure that every step of theirs lowers: what is left of
provider calls and a save, and the symbols left. For a review the invariant has to say that a failed one keeps
nothing of its attempts (`Failed`), since the API's crash makes every unfinished review one.

### LabEvidence

`MaxDrawdown` is a walk along the curve, written as a recursive function, and the reference is the set of
all its falls, with the initial equity in the place of the first point, which the loop passes over (`ReadFromInitial`). The library's induction theorem has an operator as parameter and cannot be used, so induction is done
by the least counterexample: were there a prefix for which the walk is wrong, there would be a shortest one (`WFMin`, in
the lemma `AllNumbers`), and one step of the walk refutes it. Fractions are compared by
cross-multiplication, for which the lemmas on products are needed. `TestsFollowTraining`
takes the separation of a kept window from its filter (evidence.py:162), and that no position is tested twice and how
much is left over from division with remainder, two starts being a multiple of the test size apart. `NearestOfThePast` numbers
the candidates by how many come before them: with no two events equal the numbers are 0, 1, 2, ..., and the first
`limit` of them are the chosen ones.

### Decisions

`LossIsBounded` and `ExtremesAreMet` are proved type by type from the payoff, for any strikes, premiums and price.
`ApprovedBounds` follows from the invariant that an analysis past the chain holds a structure that is accepted
(`Built`), the leg choice being an accepted vertical for any chain, and that a decision for TRADE was the Risk
Engine's. `PayoffsAreBounded` is the two lemmas on a sample; `DrawdownIsSound` and `EvidenceLooksBack` those of
`LabEvidenceProofs`. `Impartiality`
compares a feature with its mirror term by term of the score. `BetterQuotes` and `Monotony` are
linear arithmetic on each threshold.

## What is only model-checked, and what is not modelled

Liveness (`ProjectionConverges`, `DeletedIsDisconnected`, `Answered`, `ReviewEnds`, and the
violated `UncertainIsReconciled` and `SavingNeedsNoRestart`) is out of the proof system's reach and stays
with TLC. What is proved towards it is the safety half: `CallsRunOut` and `ReviewsRunOut` (and `ScansRunOut`, of
scans) say that nothing goes on for ever by taking steps, which leaves to TLC that the fair steps are enabled
until the end; `DisconnectedStays` and `CatchesUp` say that what was reached lasts. Of the four violated
properties, `DoubtsStay` and `ConnectingStays` prove for every instance the state from which two of them
cannot recover; `StructureCap` and `DivergenceBlocksExecution` are refuted by TLC's trace alone.

Not modelled, with reasons, in `PROJECT.json`: the web interface, migrations, settings, logging and
the event bus (no protocol state); token verification and encryption (library calls); the field
mappings of the adapter. The recorded replays evaluate the rules on one fixed input per scenario, and three of
their endings are given by the scenario's name, so there is nothing to explore. A demo session is one row that its own cookie reads and writes; it shares nothing with the
connected path. Of the Strategy Lab, the ratios (win rate, profit factor, Sharpe) and costs are formulas without
control; the ranking of candidates orders what nothing in the connected path reads in order.

What the models leave out of what they cover: HTTP latency and the two-minute window as real
time; `generation` and `divergence_count`, which no decision reads; the sums of Greeks behind their caps; OpenRouter credentials beyond
being there or not; market hours and the scanner's timer; the pagination of the option chain.

Hazards without a property keep a note in `PROJECT.json`: the models explore them, but neither code nor docs
promise anything that could be checked. For three of them a theorem says what the code does:
`WindowsShut` for the window checked once, `WantedIsKept` for the failed runtime and the secret put back.

## Findings

1. **Uncertain submissions are never reconciled** (`exec_uncertain`): `reconcile_uncertain` has no caller.
   `docs/architecture.md` says every paper order is "reconciled by stable client-order ID".
2. **The structure cap counts what the projection shows** (`exec_cap`): orders in flight or not yet
   reconciled are not counted at `desk.py:747`.
3. **The gate can be open over a projection that has missed an update** (`sync_divergence`): the stream is
   declared connected before it is subscribed and after the snapshot.
4. **Saving a connected credential again leaves the workspace CONNECTING** (`life_status`): the
   status is written after every save, but only a runtime that starts makes it ACTIVE, and the same
   fingerprint starts none. `docs/LOCAL_DEVELOPMENT.md` says saving requires no restart.

Three things met on the way that are no finding of a run. `docs/SUPABASE.md:43` says that an identity whose workspace
cannot be persisted is deleted at once or logged: `OrphansExplained` names the exceptions, a creation whose reply
never came (the handler holds no subject to delete), an error that `SupabaseAdminAuth` does not translate
(`supabase_admin.py:69-74` catches four types), and a crash. A snapshot holds the newest 50 orders only
(`alpaca_adapter.py:160`), so that an older order, open or not, has no row: `ProjectionConverges` is stated of that page.
And `compute_metrics` takes neither the first point of the curve as a peak nor the fall to it from the
initial equity: `DrawdownMatches` reads the curve with the initial equity in the place of its first point.

## What comes next

1. A run for the sentence of `docs/SUPABASE.md` quoted above; the sums of Greeks and execution costs.
2. Two routes of one workspace in flight in `WorkspaceLifecycle`, and two secrets, at a larger bound.
3. Hearing of a trade update: what `consume_trade_updates` sees against what Alpaca sent, as a contract between
   the adapter and `BrokerSync`, which would let the websocket's reconnection be modelled by itself.
