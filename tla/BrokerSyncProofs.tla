--------------------------- MODULE BrokerSyncProofs ---------------------------
(***************************************************************************)
(* Theorems of BrokerSync for any number of orders and close calls and any *)
(* age the gate accepts.  What the gate reads is sound because the tasks   *)
(* of a worker own each other: a consumer exists only under a runtime that *)
(* runs or is closing, and each reconciler collects for the task that      *)
(* waits for it.                                                           *)
(***************************************************************************)
EXTENDS BrokerSync, SequenceTheorems, TLAPS

Consuming == {"consuming", "dropping", "finally", "marking"}
Consumers == Consuming \cup {"off", "connect", "retry", "reconciling"}
Runtimes  == {"off", "initial", "running", "failing", "closing", "ended"}
Syncs     == [state : States, stream : BOOLEAN, age : Ages]

Broker ==
    /\ book \in [Orders -> Statuses]
    /\ arrivals \in Seq(Orders)
    /\ held \subseteq Orders
    /\ blocked \in BOOLEAN

Tables ==
    /\ orders \in [Orders -> Statuses]
    /\ positions \subseteq Orders
    /\ account \in Accounts
    /\ sync \in Syncs
    /\ sync.state = "RECONCILED" => account # "absent"

(* A snapshot that has read the account has one to write. *)
Snaps ==
    /\ snap \in [Reconcilers -> Snapshots]
    /\ \A r \in Reconcilers :
           snap[r].pc \in {"positions", "orders", "apply"} => snap[r].account # "absent"

Feed == link \in BOOLEAN /\ queue \in Seq(Updates)

(* The consumer lives within its runtime, and a reconciler within the task it
   reconciles for.                                                           *)
Ownership ==
    /\ consumer \in Consumers
    /\ runtime \in Runtimes
    /\ runtime \in {"off", "initial", "failing", "ended"} => consumer = "off"
    /\ snap["runtime"].pc # "idle" => runtime = "initial"
    /\ snap["supervisor"].pc # "idle" => consumer = "reconciling"

(* The tables are as old as the sync row says. *)
Dated ==
    /\ readAge \in Ages
    /\ sync.age = readAge

Flag == orphan \in BOOLEAN /\ StreamFlagHasOwner

IInv == Broker /\ Tables /\ Snaps /\ Feed /\ Ownership /\ Dated /\ Flag

LEMMA IInvImplies == IInv => TypeOK /\ StreamFlagHasOwner /\ OpenGateIsRecent
<1> SUFFICES ASSUME IInv PROVE TypeOK /\ StreamFlagHasOwner /\ OpenGateIsRecent
  OBVIOUS
<1>1. TypeOK
  BY DEF IInv, Broker, Tables, Snaps, Feed, Ownership, Dated, Flag, TypeOK, Syncs,
         Consuming, Consumers, Runtimes
<1>2. StreamFlagHasOwner
  BY DEF IInv, Flag
<1>3. OpenGateIsRecent
  BY DEF IInv, Dated, OpenGateIsRecent, GateOpen
<1> QED
  BY <1>1, <1>2, <1>3

LEMMA Owners == /\ "runtime" \in Reconcilers /\ "supervisor" \in Reconcilers
                /\ "periodic" \in Reconcilers
                /\ \A c \in Closers : c \in Reconcilers /\ c # "runtime" /\ c # "supervisor"
BY ConstantsAssumption DEF Reconcilers, WorkerReconcilers

LEMMA AgesFacts == Stale \in Ages /\ 0 \in Ages /\ \A a \in Ages : Older(a) \in Ages
BY ConstantsAssumption DEF Stale, Ages, Older

LEMMA EmptyTyped == Empty \in Snapshots /\ Empty.pc = "idle"
BY AgesFacts DEF Empty, Snapshots, Accounts, Statuses

LEMMA NoUpdates == <<>> \in Seq(Updates)
OBVIOUS

LEMMA UnconfiguredTyped == Unconfigured \in Syncs
BY AgesFacts DEF Unconfigured, Syncs, States

LEMMA InitInv == Init => IInv
<1> SUFFICES ASSUME Init PROVE IInv
  OBVIOUS
<1>1. Broker /\ Feed
  BY NoUpdates, ConstantsAssumption DEF Init, Broker, Feed, Statuses
<1>2. Tables
  BY UnconfiguredTyped DEF Init, Tables, Statuses, Accounts, Unconfigured
<1>3. Snaps
  BY EmptyTyped DEF Init, Snaps
<1>4. Ownership
  BY EmptyTyped, Owners DEF Init, Ownership, Consumers, Consuming, Runtimes
<1>5. Dated /\ Flag
  BY AgesFacts DEF Init, Dated, Flag, StreamFlagHasOwner, Unconfigured
<1> QED
  BY <1>1, <1>2, <1>3, <1>4, <1>5 DEF IInv

-----------------------------------------------------------------------------
(* What the transactions on the sync row keep.                               *)

LEMMA MarkTyped ==
    ASSUME sync \in Syncs, NEW state \in States
    PROVE  /\ MarkState(state) \in Syncs
           /\ MarkState(state).state = state
           /\ MarkState(state).stream = sync.stream
           /\ MarkState(state).age = sync.age
BY DEF MarkState, Syncs

LEMMA StreamTyped ==
    ASSUME sync \in Syncs, NEW connected \in BOOLEAN
    PROVE  /\ SetStream(connected) \in Syncs
           /\ SetStream(connected).stream = connected
           /\ SetStream(connected).age = sync.age
           /\ SetStream(connected).state = "RECONCILED" => sync.state = "RECONCILED" /\ connected
<1> DEFINE next == IF ~connected /\ sync.state = "RECONCILED" THEN "UNKNOWN" ELSE sync.state
<1>1. next \in States /\ (next = "RECONCILED" => sync.state = "RECONCILED" /\ connected)
  BY DEF Syncs, States
<1>2. SetStream(connected) = [[sync EXCEPT !.stream = connected] EXCEPT !.state = next]
  BY DEF SetStream, Syncs
<1>3. [[sync EXCEPT !.stream = connected] EXCEPT !.state = next]
         = [state |-> next, stream |-> connected, age |-> sync.age]
  <2> DEFINE told == [state |-> sync.state, stream |-> connected, age |-> sync.age]
             result == [state |-> next, stream |-> connected, age |-> sync.age]
  <2>1. [sync EXCEPT !.stream = connected] = told
    BY DEF Syncs
  <2>2. [told EXCEPT !.state = next] = result
    OBVIOUS
  <2> HIDE DEF told, result, next
  <2>3. [[sync EXCEPT !.stream = connected] EXCEPT !.state = next] = result
    BY <2>1, <2>2, Zenon
  <2> QED
    BY <2>3 DEF result
<1> HIDE DEF next
<1> QED
  BY <1>1, <1>2, <1>3 DEF Syncs

(* Marking a state other than RECONCILED keeps the tables typed. *)
LEMMA MarkTables ==
    ASSUME Tables, Dated, NEW state \in States \ {"RECONCILED"}, sync' = MarkState(state),
           UNCHANGED <<rows, readAge>>
    PROVE  Tables' /\ Dated'
BY MarkTyped DEF Tables, Dated, rows

LEMMA StreamTables ==
    ASSUME Tables, Dated, NEW connected \in BOOLEAN, sync' = SetStream(connected),
           UNCHANGED <<rows, readAge>>
    PROVE  Tables' /\ Dated'
BY StreamTyped DEF Tables, Dated, rows

LEMMA SameTables ==
    ASSUME Tables, Dated, UNCHANGED <<rows, sync, readAge>>
    PROVE  Tables' /\ Dated'
BY DEF Tables, Dated, rows

(* A transaction that raised has written what it was to write, or nothing. *)
LEMMA MarkRaised ==
    ASSUME Tables, Dated, NEW state \in States \ {"RECONCILED"}, Raised(MarkState(state)),
           UNCHANGED <<rows, readAge>>
    PROVE  Tables' /\ Dated' /\ sync'.stream = sync.stream
<1>1. CASE UNCHANGED sync
  BY <1>1, SameTables
<1>2. CASE sync' = MarkState(state)
  BY <1>2, MarkTables, MarkTyped DEF Tables
<1> QED
  BY <1>1, <1>2 DEF Raised

LEMMA StreamRaised ==
    ASSUME Tables, Dated, NEW connected \in BOOLEAN, Raised(SetStream(connected)),
           UNCHANGED <<rows, readAge>>
    PROVE  Tables' /\ Dated' /\ sync'.stream \in BOOLEAN
<1>1. Tables' /\ Dated'
  BY SameTables, StreamTables DEF Raised
<1> QED
  BY <1>1 DEF Tables, Syncs

LEMMA SameRest ==
    ASSUME Broker, Feed
    PROVE  /\ UNCHANGED truth => Broker'
           /\ UNCHANGED feed => Feed'
BY DEF Broker, Feed, truth, feed

LEMMA ShownTyped == ASSUME Broker PROVE Shown \in [Orders -> Statuses]
BY DEF Broker, Shown, Statuses

(* Collecting begins, and a snapshot is forgotten. *)
LEMMA StartSnapTyped ==
    ASSUME Snaps, NEW r \in Reconcilers, StartSnap(r)
    PROVE  /\ Snaps'
           /\ \A q \in Reconcilers : q # r => snap'[q] = snap[q]
<1> DEFINE begun == [Empty EXCEPT !.pc = "account"]
<1>1. begun \in Snapshots /\ begun.pc = "account"
  BY EmptyTyped DEF Snapshots, Empty
<1>2. snap' = [snap EXCEPT ![r] = begun]
  BY DEF StartSnap
<1> HIDE DEF begun
<1> QED
  BY <1>1, <1>2 DEF Snaps

LEMMA EndSnapTyped ==
    ASSUME Snaps, NEW r \in Reconcilers, snap' = [snap EXCEPT ![r] = Empty]
    PROVE  /\ Snaps'
           /\ snap'[r].pc = "idle"
           /\ \A q \in Reconcilers : q # r => snap'[q] = snap[q]
BY EmptyTyped DEF Snaps

LEMMA CancelledTyped ==
    ASSUME Snaps, snap' = Cancelled
    PROVE  /\ Snaps'
           /\ snap'["runtime"].pc = "idle" /\ snap'["supervisor"].pc = "idle"
BY EmptyTyped, Owners DEF Snaps, Cancelled

-----------------------------------------------------------------------------
(* Reconciliation.                                                           *)

(* A reconciler's next read leaves everything else, and its own task, alone. *)
LEMMA ReadStep ==
    ASSUME IInv, NEW r \in Reconcilers, ReadAccount(r) \/ ReadPositions(r) \/ ReadOrders(r)
    PROVE  IInv'
<1>1. UNCHANGED <<truth, rows, sync, feed, tasks, hist>>
  BY DEF ReadAccount, ReadPositions, ReadOrders
<1>2. PICK s \in Snapshots :
         /\ snap' = [snap EXCEPT ![r] = s]
         /\ s.pc \in {"positions", "orders", "apply"} => s.account # "absent"
         /\ snap[r].pc # "idle"
  <2>1. /\ snap \in [Reconcilers -> Snapshots] /\ snap[r] \in Snapshots
        /\ snap[r].pc \in {"positions", "orders", "apply"} => snap[r].account # "absent"
    BY DEF IInv, Snaps
  <2>2. CASE ReadAccount(r)
    <3> DEFINE read == IF blocked THEN "blocked" ELSE "usable"
               s == [pc |-> "positions", account |-> read, positions |-> snap[r].positions,
                     orders |-> snap[r].orders, age |-> snap[r].age]
    <3>1. read \in Accounts /\ read # "absent"
      BY DEF Accounts
    <3>2. s \in Snapshots /\ s.account = read
      BY <2>1, <3>1 DEF Snapshots
    <3>3. [[snap[r] EXCEPT !.pc = "positions"] EXCEPT !.account = read] = s
      <4> DEFINE moved == [pc |-> "positions", account |-> snap[r].account, positions |-> snap[r].positions,
                           orders |-> snap[r].orders, age |-> snap[r].age]
      <4>1. [snap[r] EXCEPT !.pc = "positions"] = moved
        BY <2>1 DEF Snapshots
      <4>2. [moved EXCEPT !.account = read] = s
        OBVIOUS
      <4> HIDE DEF moved, s
      <4> QED
        BY <4>1, <4>2, Zenon
    <3>4. snap' = [snap EXCEPT ![r] = [[snap[r] EXCEPT !.pc = "positions"] EXCEPT !.account = read]]
      BY <2>1, <2>2 DEF ReadAccount
    <3>5. snap' = [snap EXCEPT ![r] = s]
      BY <3>3, <3>4
    <3>6. snap[r].pc # "idle"
      BY <2>2 DEF ReadAccount
    <3> HIDE DEF s
    <3> QED
      BY <3>1, <3>2, <3>5, <3>6
  <2>3. CASE ReadPositions(r)
    <3> DEFINE s == [pc |-> "orders", account |-> snap[r].account, positions |-> held,
                     orders |-> snap[r].orders, age |-> snap[r].age]
    <3>1. snap[r].pc = "positions" /\ held \in SUBSET Orders
      BY <2>3 DEF ReadPositions, IInv, Broker
    <3>2. s \in Snapshots /\ s.account # "absent"
      BY <2>1, <3>1 DEF Snapshots
    <3>3. [[snap[r] EXCEPT !.pc = "orders"] EXCEPT !.positions = held] = s
      <4> DEFINE moved == [pc |-> "orders", account |-> snap[r].account, positions |-> snap[r].positions,
                           orders |-> snap[r].orders, age |-> snap[r].age]
      <4>1. [snap[r] EXCEPT !.pc = "orders"] = moved
        BY <2>1 DEF Snapshots
      <4>2. [moved EXCEPT !.positions = held] = s
        OBVIOUS
      <4> HIDE DEF moved, s
      <4> QED
        BY <4>1, <4>2, Zenon
    <3>4. snap' = [snap EXCEPT ![r] = [[snap[r] EXCEPT !.pc = "orders"] EXCEPT !.positions = held]]
      BY <2>1, <2>3 DEF ReadPositions
    <3>5. snap' = [snap EXCEPT ![r] = s]
      BY <3>3, <3>4
    <3> HIDE DEF s
    <3> QED
      BY <3>1, <3>2, <3>5
  <2>4. CASE ReadOrders(r)
    <3> DEFINE now == Shown
               s == [pc |-> "apply", account |-> snap[r].account,
                     positions |-> snap[r].positions, orders |-> now, age |-> 0]
    <3>1. snap[r].pc = "orders" /\ now \in [Orders -> Statuses]
      BY <2>4, ShownTyped DEF ReadOrders, IInv
    <3>2. snap' = [snap EXCEPT ![r] =
                      [[[snap[r] EXCEPT !.pc = "apply"] EXCEPT !.orders = now] EXCEPT !.age = 0]]
      BY <2>1, <2>4 DEF ReadOrders
    <3> HIDE DEF now
    <3>3. s \in Snapshots /\ s.account # "absent"
      BY <2>1, <3>1, AgesFacts DEF Snapshots
    <3>4. [[[snap[r] EXCEPT !.pc = "apply"] EXCEPT !.orders = now] EXCEPT !.age = 0] = s
      <4> DEFINE moved == [pc |-> "apply", account |-> snap[r].account, positions |-> snap[r].positions,
                           orders |-> snap[r].orders, age |-> snap[r].age]
                 read  == [pc |-> "apply", account |-> snap[r].account, positions |-> snap[r].positions,
                           orders |-> now, age |-> snap[r].age]
      <4>1. [snap[r] EXCEPT !.pc = "apply"] = moved
        BY <2>1 DEF Snapshots
      <4>2. [moved EXCEPT !.orders = now] = read
        OBVIOUS
      <4>3. [read EXCEPT !.age = 0] = s
        OBVIOUS
      <4> HIDE DEF moved, read, s
      <4> QED
        BY <4>1, <4>2, <4>3, Zenon
    <3>5. snap' = [snap EXCEPT ![r] = s]
      BY <3>2, <3>4
    <3> HIDE DEF s
    <3> QED
      BY <3>1, <3>3, <3>5
  <2> QED
    BY <2>2, <2>3, <2>4
<1>3. Snaps'
  BY <1>2 DEF IInv, Snaps
<1>4. Ownership'
  BY <1>1, <1>2, Owners DEF IInv, Ownership, Snaps, tasks
<1>5. Flag'
  BY <1>1 DEF IInv, Flag, StreamFlagHasOwner, tasks, hist
<1> QED
  BY <1>1, <1>3, <1>4, <1>5, SameRest, SameTables DEF IInv, hist

(* A snapshot that is written keeps the tables typed and dates them. *)
LEMMA WrittenTables ==
    ASSUME IInv, NEW r \in Reconcilers, NEW state \in States, snap[r].pc = "apply",
           account' = snap[r].account, Replace(r), readAge' = snap[r].age,
           sync' = [state |-> state, stream |-> sync.stream, age |-> snap[r].age]
    PROVE  Tables' /\ Dated' /\ sync'.stream = sync.stream
<1>1. /\ snap[r] \in Snapshots /\ snap[r].account # "absent"
  BY DEF IInv, Snaps
<1>2. sync' \in Syncs
  BY <1>1 DEF IInv, Tables, Syncs, Snapshots
<1>3. orders' \in [Orders -> Statuses] /\ positions' \subseteq Orders
  BY <1>1 DEF Replace, Snapshots
<1>4. account' \in Accounts /\ account' # "absent"
  BY <1>1 DEF Snapshots
<1>5. readAge' = snap[r].age /\ snap[r].age \in Ages
  BY <1>1 DEF Snapshots
<1>6. sync'.stream = sync.stream /\ sync'.age = snap[r].age
  OBVIOUS
<1>7. Tables'
  BY <1>2, <1>3, <1>4 DEF Tables
<1>8. Dated'
  BY <1>5, <1>6 DEF Dated
<1> QED
  BY <1>6, <1>7, <1>8

(* Where a task goes after its reconciler keeps to its owner, and no consumer
   that may have set the flag and no runtime that closes is touched.          *)
LEMMA AfterStep ==
    ASSUME IInv, NEW r \in Reconcilers, snap[r].pc # "idle", AfterSuccess(r) \/ AfterFailure(r),
           snap' = [snap EXCEPT ![r] = Empty]
    PROVE  /\ Snaps' /\ Ownership'
           /\ consumer \in Consuming => consumer' = consumer
           /\ runtime = "closing" => runtime' = "closing"
<1>1. /\ Snaps' /\ snap'[r].pc = "idle"
      /\ \A q \in Reconcilers : q # r => snap'[q] = snap[q]
  BY EndSnapTyped DEF IInv
<1>2. CASE AfterSuccess(r)
  <2>1. CASE r = "runtime"
    <3>1. runtime = "initial" /\ consumer = "off" /\ snap["supervisor"].pc = "idle"
      BY <2>1, Owners DEF IInv, Ownership
    <3>2. snap'["supervisor"].pc = "idle" /\ snap'["runtime"].pc = "idle"
      BY <1>1, <2>1, <3>1, Owners
    <3> QED
      BY <1>1, <1>2, <2>1, <3>1, <3>2 DEF Ownership, AfterSuccess, Consumers, Consuming, Runtimes
  <2>2. CASE r = "supervisor"
    <3>1. consumer = "reconciling"
      BY <2>2, Owners DEF IInv, Ownership
    <3>2. snap'["supervisor"].pc = "idle" /\ snap'["runtime"] = snap["runtime"]
      BY <1>1, <2>2, Owners
    <3> QED
      BY <1>1, <1>2, <2>2, <3>1, <3>2
         DEF IInv, Ownership, AfterSuccess, Consumers, Consuming, Runtimes
  <2>3. CASE r \notin {"runtime", "supervisor"}
    <3>1. snap'["supervisor"] = snap["supervisor"] /\ snap'["runtime"] = snap["runtime"]
      BY <1>1, <2>3, Owners
    <3> QED
      BY <1>1, <1>2, <2>3, <3>1 DEF IInv, Ownership, AfterSuccess, tasks
  <2> QED
    BY <2>1, <2>2, <2>3
<1>3. CASE AfterFailure(r)
  BY <1>1, <1>3, Owners DEF IInv, Ownership, AfterFailure, Consumers, Consuming, Runtimes
<1> QED
  BY <1>1, <1>2, <1>3

(* The flag keeps its owner while it stays as it is and so does the owner. *)
LEMMA SameFlag ==
    ASSUME Flag, sync'.stream = sync.stream, UNCHANGED orphan,
           consumer \in Consuming => consumer' = consumer,
           runtime = "closing" => runtime' = "closing"
    PROVE  Flag'
BY DEF Flag, StreamFlagHasOwner, Consuming

LEMMA ApplyStep ==
    ASSUME IInv, NEW r \in Reconcilers, Apply(r) \/ ApplyUnheard(r)
    PROVE  IInv'
<1>1. /\ snap[r].pc = "apply"
      /\ account' = snap[r].account
      /\ Replace(r)
      /\ readAge' = snap[r].age
      /\ snap' = [snap EXCEPT ![r] = Empty]
      /\ AfterSuccess(r) \/ AfterFailure(r)
      /\ UNCHANGED <<truth, feed, orphan>>
  BY DEF Apply, ApplyUnheard
<1>2. PICK state \in States :
          sync' = [state |-> state, stream |-> sync.stream, age |-> snap[r].age]
  BY DEF IInv, Tables, Syncs, Apply, ApplyUnheard, Stamp, States
<1>3. Tables' /\ Dated' /\ sync'.stream = sync.stream
  BY <1>1, <1>2, WrittenTables
<1>4. /\ Snaps' /\ Ownership'
      /\ consumer \in Consuming => consumer' = consumer
      /\ runtime = "closing" => runtime' = "closing"
  BY <1>1, AfterStep
<1>5. Flag'
  BY <1>1, <1>3, <1>4, SameFlag DEF IInv
<1> QED
  BY <1>1, <1>3, <1>4, <1>5, SameRest DEF IInv

LEMMA FailStep ==
    ASSUME IInv, NEW r \in Reconcilers, Fail(r)
    PROVE  IInv'
<1>1. Tables' /\ Dated' /\ sync'.stream = sync.stream
  <2>1. CASE r \in Closers
    BY <2>1, SameTables DEF IInv, Fail, hist
  <2>2. CASE r \notin Closers
    <3>1. Raised(MarkState("UNKNOWN")) /\ "UNKNOWN" \in States \ {"RECONCILED"}
      BY <2>2 DEF Fail, States
    <3> QED
      BY <3>1, MarkRaised DEF IInv, Fail, hist
  <2> QED
    BY <2>1, <2>2
<1>2. /\ Snaps' /\ Ownership'
      /\ consumer \in Consuming => consumer' = consumer
      /\ runtime = "closing" => runtime' = "closing"
  BY AfterStep DEF Fail
<1>3. Flag'
  BY <1>1, <1>2, SameFlag DEF IInv, Fail, hist
<1> QED
  BY <1>1, <1>2, <1>3, SameRest DEF IInv, Fail

(* A reconciliation begins; the worker's mark the state first. *)
LEMMA BeginStep ==
    ASSUME IInv, StartRuntime \/ PeriodicMarks \/ SupervisorMarks
    PROVE  IInv'
<1>1. sync' = MarkState("RECONCILING") /\ "RECONCILING" \in States \ {"RECONCILED"}
  BY DEF StartRuntime, PeriodicMarks, SupervisorMarks, States
<1>2. UNCHANGED <<truth, rows, feed, hist>>
  BY DEF StartRuntime, PeriodicMarks, SupervisorMarks
<1>3. Tables' /\ Dated' /\ sync'.stream = sync.stream
  BY <1>1, <1>2, MarkTables, MarkTyped DEF IInv, Tables, hist
<1>4. CASE StartRuntime
  <2>1. Snaps' /\ \A q \in Reconcilers : q # "runtime" => snap'[q] = snap[q]
    BY <1>4, StartSnapTyped, Owners DEF IInv, StartRuntime
  <2>2. Ownership'
    BY <1>4, <2>1, Owners DEF IInv, Ownership, StartRuntime, Runtimes
  <2>3. Flag'
    BY <1>2, <1>3, <1>4 DEF IInv, Flag, StreamFlagHasOwner, StartRuntime, hist
  <2> QED
    BY <1>2, <1>3, <2>1, <2>2, <2>3, SameRest DEF IInv
<1>5. CASE PeriodicMarks
  <2>1. Snaps' /\ \A q \in Reconcilers : q # "periodic" => snap'[q] = snap[q]
    BY <1>5, StartSnapTyped, Owners DEF IInv, PeriodicMarks
  <2>2. Ownership' /\ Flag'
    BY <1>2, <1>3, <1>5, <2>1, Owners
       DEF IInv, Ownership, Flag, StreamFlagHasOwner, PeriodicMarks, tasks, hist
  <2> QED
    BY <1>2, <1>3, <2>1, <2>2, SameRest DEF IInv
<1>6. CASE SupervisorMarks
  <2>1. Snaps' /\ \A q \in Reconcilers : q # "supervisor" => snap'[q] = snap[q]
    BY <1>6, StartSnapTyped, Owners DEF IInv, SupervisorMarks
  <2>2. Ownership'
    BY <1>6, <2>1, Owners DEF IInv, Ownership, SupervisorMarks, Consumers
  <2>3. Flag'
    BY <1>2, <1>3, <1>6 DEF IInv, Flag, StreamFlagHasOwner, SupervisorMarks, hist
  <2> QED
    BY <1>2, <1>3, <2>1, <2>2, <2>3, SameRest DEF IInv
<1> QED
  BY <1>4, <1>5, <1>6

(* The first transaction of a reconciliation raises. *)
LEMMA MarkRaisesStep ==
    ASSUME IInv, MarkRaises
    PROVE  IInv'
<1>1. Raised(MarkState("RECONCILING")) /\ "RECONCILING" \in States \ {"RECONCILED"}
  BY DEF MarkRaises, States
<1>2. UNCHANGED <<truth, rows, snap, feed, hist>>
  BY DEF MarkRaises
<1>3. Tables' /\ Dated' /\ sync'.stream = sync.stream
  BY <1>1, <1>2, MarkRaised DEF IInv, hist
<1>4. Snaps' /\ Ownership'
  BY <1>2 DEF IInv, Snaps, Ownership, MarkRaises, tasks, Consumers, Runtimes
<1>5. Flag'
  BY <1>2, <1>3, SameFlag DEF IInv, MarkRaises, tasks, hist, Consuming
<1> QED
  BY <1>2, <1>3, <1>4, <1>5, SameRest DEF IInv

LEMMA CloseStep ==
    ASSUME IInv, NEW c \in Closers, CloseBegins(c)
    PROVE  IInv'
<1>1. Snaps' /\ \A q \in Reconcilers : q # c => snap'[q] = snap[q]
  BY StartSnapTyped, Owners DEF IInv, CloseBegins
<1>2. Ownership' /\ Flag'
  BY <1>1, Owners DEF IInv, Ownership, Flag, StreamFlagHasOwner, CloseBegins, tasks, hist
<1> QED
  BY <1>1, <1>2, SameRest, SameTables DEF IInv, CloseBegins, hist

-----------------------------------------------------------------------------
(* The trade-update stream.                                                  *)

(* The consumer moves within a runtime that stays. *)
LEMMA ConsumerMoves ==
    ASSUME Ownership, Snaps, UNCHANGED <<snap, runtime>>, consumer' \in Consumers,
           consumer \notin {"off", "reconciling"}
    PROVE  Ownership' /\ Snaps'
BY DEF Ownership, Snaps

(* A trade update keeps the tables typed. *)
LEMMA UpsertTables ==
    ASSUME IInv, queue # <<>>, Upsert(Head(queue)), UNCHANGED <<positions, account, readAge>>
    PROVE  Tables' /\ Dated'
<1>1. Head(queue) \in Updates
  BY HeadTailProperties DEF IInv, Feed
<1>2. orders' \in [Orders -> Statuses]
  BY <1>1 DEF IInv, Tables, Updates, Upsert
<1> QED
  BY <1>2, StreamTyped DEF IInv, Tables, Dated, Upsert

LEMMA ConsumerStep ==
    ASSUME IInv, Consumer
    PROVE  IInv'
<1> USE DEF Consumers, Consuming
<1>1. CASE Connect
  <2>1. Tables' /\ Dated' /\ sync'.stream
    BY <1>1, StreamTables, StreamTyped DEF IInv, Tables, Connect
  <2>2. Ownership' /\ Snaps'
    BY <1>1, ConsumerMoves DEF IInv, Connect
  <2>3. Feed'
    BY <1>1, NoUpdates DEF IInv, Feed, Connect
  <2>4. Flag'
    BY <1>1 DEF Flag, StreamFlagHasOwner, Connect
  <2> QED
    BY <1>1, <2>1, <2>2, <2>3, <2>4, SameRest DEF IInv, Connect
<1>2. CASE ConnectFails
  <2>1. Tables' /\ Dated' /\ sync'.stream \in BOOLEAN
    BY <1>2, StreamRaised DEF IInv, ConnectFails
  <2>2. Ownership' /\ Snaps'
    BY <1>2, ConsumerMoves DEF IInv, ConnectFails
  <2>3. Flag'
    BY <1>2, <2>1 DEF Flag, StreamFlagHasOwner, ConnectFails
  <2> QED
    BY <1>2, <2>1, <2>2, <2>3, SameRest DEF IInv, ConnectFails
<1>3. CASE ApplyUpdate
  <2>1. Tail(queue) \in Seq(Updates)
    BY <1>3, HeadTailProperties DEF IInv, Feed, ApplyUpdate
  <2>2. Tables' /\ Dated'
    BY <1>3, UpsertTables DEF IInv, ApplyUpdate, hist
  <2>3. Ownership' /\ Snaps'
    BY <1>3 DEF IInv, Ownership, Snaps, ApplyUpdate, tasks
  <2>4. Feed'
    BY <1>3, <2>1 DEF IInv, Feed, ApplyUpdate
  <2>5. Flag'
    BY <1>3 DEF IInv, Flag, StreamFlagHasOwner, ApplyUpdate, tasks, hist
  <2> QED
    BY <1>3, <2>2, <2>3, <2>4, <2>5, SameRest DEF IInv, ApplyUpdate
<1>4. CASE UpdateFails
  <2>1. Tables' /\ Dated'
    <3>1. CASE Upsert(Head(queue))
      BY <1>4, <3>1, UpsertTables DEF IInv, UpdateFails, hist
    <3>2. CASE UNCHANGED <<orders, sync>>
      BY <1>4, <3>2, SameTables DEF IInv, UpdateFails, rows, hist
    <3> QED
      BY <1>4, <3>1, <3>2 DEF UpdateFails
  <2>2. Ownership' /\ Snaps'
    BY <1>4, ConsumerMoves DEF IInv, UpdateFails
  <2>3. Flag'
    BY <1>4 DEF IInv, Flag, StreamFlagHasOwner, UpdateFails, hist
  <2>4. Feed'
    BY <1>4, NoUpdates DEF Feed, UpdateFails
  <2> QED
    BY <1>4, <2>1, <2>2, <2>3, <2>4, SameRest DEF IInv, UpdateFails
<1>5. CASE Disconnects
  <2>1. Tables' /\ Dated'
    BY <1>5, StreamTables, StreamRaised DEF IInv, Disconnects, hist
  <2>2. Ownership' /\ Snaps'
    BY <1>5, ConsumerMoves DEF IInv, Disconnects
  <2>3. Flag'
    <3>1. CASE sync' = SetStream(FALSE)
      BY <1>5, <3>1, StreamTyped DEF IInv, Tables, Flag, StreamFlagHasOwner, Disconnects, hist
    <3>2. CASE consumer' = "finally"
      BY <1>5, <3>2 DEF IInv, Flag, StreamFlagHasOwner, Disconnects, hist
    <3> QED
      BY <1>5, <3>1, <3>2 DEF Disconnects
  <2> QED
    BY <1>5, <2>1, <2>2, <2>3, SameRest DEF IInv, Disconnects
<1>6. CASE MarksUnknown
  <2>1. Tables' /\ Dated' /\ sync'.stream = sync.stream
    BY <1>6, MarkRaised DEF IInv, MarksUnknown, States, hist
  <2>2. Ownership' /\ Snaps'
    BY <1>6, ConsumerMoves DEF IInv, MarksUnknown
  <2>3. Flag'
    BY <1>6, <2>1 DEF IInv, Flag, StreamFlagHasOwner, MarksUnknown, hist
  <2> QED
    BY <1>6, <2>1, <2>2, <2>3, SameRest DEF IInv, MarksUnknown
<1>7. CASE ConsumerFinally
  <2>1. Tables' /\ Dated' /\ sync'.stream \in BOOLEAN
    BY <1>7, StreamRaised DEF IInv, ConsumerFinally
  <2>2. Ownership' /\ Snaps'
    BY <1>7, ConsumerMoves DEF IInv, ConsumerFinally
  <2>3. Flag'
    BY <1>7, <2>1 DEF Flag, StreamFlagHasOwner, ConsumerFinally
  <2> QED
    BY <1>7, <2>1, <2>2, <2>3, SameRest DEF IInv, ConsumerFinally
<1> QED
  BY <1>1, <1>2, <1>3, <1>4, <1>5, <1>6, <1>7, BeginStep DEF Consumer

-----------------------------------------------------------------------------
(* The runtime's end, the crashes and the purge.                             *)

LEMMA StopStep ==
    ASSUME IInv, Stop
    PROVE  IInv'
<1>1. Snaps' /\ snap'["runtime"].pc = "idle" /\ snap'["supervisor"].pc = "idle"
  BY CancelledTyped DEF IInv, Stop
<1>2. Ownership'
  BY <1>1 DEF IInv, Ownership, Stop, Consumers, Consuming, Runtimes
<1>3. Tables' /\ Dated'
  <2>1. CASE UNCHANGED sync
    BY <2>1, SameTables DEF IInv, Stop
  <2>2. CASE sync' = SetStream(TRUE)
    BY <2>2, StreamTables DEF IInv, Stop
  <2> QED
    BY <2>1, <2>2 DEF Stop
<1>4. Feed'
  BY NoUpdates DEF Feed, Stop
<1>5. Flag'
  BY DEF IInv, Flag, StreamFlagHasOwner, Stop
<1> QED
  BY <1>1, <1>2, <1>3, <1>4, <1>5, SameRest DEF IInv, Stop

LEMMA RuntimeEnds ==
    ASSUME IInv, StopFailing \/ RuntimeFinally \/ Forget
    PROVE  IInv'
<1>1. /\ Ownership' /\ Snaps'
  BY DEF IInv, Ownership, Snaps, StopFailing, RuntimeFinally, Forget, Runtimes
<1>2. CASE UNCHANGED <<sync, rows, hist>>
  <2>1. Flag'
    BY <1>2 DEF IInv, Ownership, Flag, StreamFlagHasOwner, StopFailing, RuntimeFinally, Forget, hist
  <2> QED
    BY <1>1, <1>2, <2>1, SameRest, SameTables DEF IInv, StopFailing, RuntimeFinally, Forget, hist
<1>3. CASE Raised(SetStream(FALSE)) /\ UNCHANGED <<rows, readAge>> /\ orphan' = sync'.stream
  <2>1. Tables' /\ Dated' /\ sync'.stream \in BOOLEAN
    BY <1>3, StreamRaised DEF IInv
  <2>2. Flag'
    BY <1>3, <2>1 DEF Flag, StreamFlagHasOwner
  <2> QED
    BY <1>1, <2>1, <2>2, SameRest DEF IInv, StopFailing, RuntimeFinally, Forget
<1> QED
  BY <1>2, <1>3 DEF StopFailing, RuntimeFinally, Forget, hist

LEMMA CrashStep ==
    ASSUME IInv, WorkerCrash
    PROVE  IInv'
<1>1. Snaps' /\ snap'["runtime"].pc = "idle" /\ snap'["supervisor"].pc = "idle"
  BY CancelledTyped DEF IInv, WorkerCrash
<1>2. Ownership'
  BY <1>1 DEF Ownership, WorkerCrash, Consumers, Runtimes
<1>3. Feed'
  BY NoUpdates DEF Feed, WorkerCrash
<1>4. sync.stream \in BOOLEAN /\ orphan \in BOOLEAN
  BY DEF IInv, Tables, Syncs, Flag
<1>5. Flag'
  BY <1>4 DEF Flag, StreamFlagHasOwner, WorkerCrash
<1> QED
  BY <1>1, <1>2, <1>3, <1>5, SameRest, SameTables DEF IInv, WorkerCrash

LEMMA ApiCrashStep ==
    ASSUME IInv, ApiCrash
    PROVE  IInv'
<1>1. Snaps' /\ snap'["runtime"] = snap["runtime"] /\ snap'["supervisor"] = snap["supervisor"]
  BY EmptyTyped, Owners DEF IInv, Snaps, ApiCrash
<1>2. Ownership' /\ Flag'
  BY <1>1 DEF IInv, Ownership, Flag, StreamFlagHasOwner, ApiCrash, tasks, hist
<1> QED
  BY <1>1, <1>2, SameRest, SameTables DEF IInv, ApiCrash, hist

(* A workspace without a sync row. *)
LEMMA NoSyncRowTables ==
    ASSUME NoSyncRow, orders' \in [Orders -> Statuses], positions' \subseteq Orders,
           account' \in Accounts
    PROVE  Tables' /\ Dated' /\ Flag'
BY UnconfiguredTyped, AgesFacts
   DEF Tables, Dated, Flag, StreamFlagHasOwner, NoSyncRow, Unconfigured

LEMMA PurgeStep ==
    ASSUME IInv, Purge
    PROVE  IInv'
<1>1. Tables' /\ Dated' /\ Flag'
  BY NoSyncRowTables DEF Purge, Statuses, Accounts
<1>2. Ownership' /\ Snaps'
  BY DEF IInv, Ownership, Snaps, Purge, tasks
<1> QED
  BY <1>1, <1>2, SameRest DEF IInv, Purge

LEMMA PurgeMissesStep ==
    ASSUME IInv, NEW r \in Reconcilers, PurgeMisses(r)
    PROVE  IInv'
<1>1. snap[r] \in Snapshots
  BY DEF IInv, Snaps
<1>2. Tables' /\ Dated' /\ Flag'
  <2>1. orders' \in [Orders -> Statuses] /\ positions' \subseteq Orders /\ account' \in Accounts
    BY <1>1 DEF PurgeMisses, Snapshots, Accounts
  <2> QED
    BY <2>1, NoSyncRowTables DEF PurgeMisses
<1>3. Snaps' /\ Ownership'
  BY AfterStep DEF PurgeMisses
<1> QED
  BY <1>2, <1>3, SameRest DEF IInv, PurgeMisses

LEMMA PurgeMissesUpdateStep ==
    ASSUME IInv, PurgeMissesUpdate
    PROVE  IInv'
<1>1. Head(queue) \in Updates /\ Tail(queue) \in Seq(Updates)
  BY HeadTailProperties DEF IInv, Feed, PurgeMissesUpdate
<1>2. Tables' /\ Dated' /\ Flag'
  <2>1. orders' \in [Orders -> Statuses] /\ positions' \subseteq Orders /\ account' \in Accounts
    BY <1>1 DEF PurgeMissesUpdate, Updates, Statuses, Accounts
  <2> QED
    BY <2>1, NoSyncRowTables DEF PurgeMissesUpdate
<1>3. Feed'
  BY <1>1 DEF IInv, Feed, PurgeMissesUpdate
<1>4. Snaps' /\ Ownership'
  BY DEF IInv, Ownership, Snaps, PurgeMissesUpdate, tasks
<1> QED
  BY <1>2, <1>3, <1>4, SameRest DEF IInv, PurgeMissesUpdate

-----------------------------------------------------------------------------
(* Alpaca and the clock.                                                     *)

LEMMA AlpacaStep ==
    ASSUME IInv, Alpaca
    PROVE  IInv'
<1>1. UNCHANGED <<rows, sync, snap, tasks, hist>>
  BY DEF Alpaca, OrderArrives, OrderEnds, PositionCloses, AccountBlocked, LinkUp, LinkDrops
<1>2. Broker'
  <2>1. book' \in [Orders -> Statuses] /\ held' \subseteq Orders /\ blocked' \in BOOLEAN
    BY DEF IInv, Broker, Statuses, truth,
           Alpaca, OrderArrives, OrderEnds, PositionCloses, AccountBlocked, LinkUp, LinkDrops
  <2>2. arrivals' = arrivals \/ \E o \in Orders : arrivals' = Append(arrivals, o)
    BY DEF truth,
           Alpaca, OrderArrives, OrderEnds, PositionCloses, AccountBlocked, LinkUp, LinkDrops
  <2>3. arrivals' \in Seq(Orders)
    BY <2>2, AppendProperties DEF IInv, Broker
  <2> QED
    BY <2>1, <2>3 DEF Broker
<1>3. Feed'
  <2>1. ASSUME NEW o \in Orders, NEW status \in {"OPEN", "DONE"}, Deliver(o, status), UNCHANGED link
        PROVE  Feed'
    <3>1. [order |-> o, status |-> status] \in Updates
      BY DEF Updates, Statuses
    <3> QED
      BY <2>1, <3>1, AppendProperties DEF IInv, Feed, Deliver
  <2>2. CASE UNCHANGED queue /\ link' \in BOOLEAN
    BY <2>2 DEF IInv, Feed
  <2>3. link \in BOOLEAN
    BY DEF IInv, Feed
  <2> QED
    BY <2>1, <2>2, <2>3
       DEF Alpaca, OrderArrives, OrderEnds, PositionCloses, AccountBlocked, LinkUp, LinkDrops, feed
<1>4. Ownership' /\ Snaps' /\ Flag'
  BY <1>1 DEF IInv, Ownership, Snaps, Flag, StreamFlagHasOwner, tasks, hist
<1> QED
  BY <1>1, <1>2, <1>3, <1>4, SameTables DEF IInv, hist

LEMMA TickStep ==
    ASSUME IInv, Tick
    PROVE  IInv'
<1>1. sync' = [state |-> sync.state, stream |-> sync.stream, age |-> Older(sync.age)]
  BY DEF IInv, Tables, Syncs, Tick
<1>2. Tables' /\ Dated'
  BY <1>1, AgesFacts DEF IInv, Tables, Dated, Syncs, Tick, rows
<1>3. ASSUME NEW r \in Reconcilers
      PROVE  /\ snap'[r] \in Snapshots
             /\ snap'[r].pc = snap[r].pc /\ snap'[r].account = snap[r].account
  <2>1. snap[r] \in Snapshots /\ Older(snap[r].age) \in Ages
    BY AgesFacts DEF IInv, Snaps, Snapshots
  <2>2. snap'[r] = [pc |-> snap[r].pc, account |-> snap[r].account,
                    positions |-> snap[r].positions, orders |-> snap[r].orders,
                    age |-> Older(snap[r].age)]
    BY <2>1 DEF Tick, Snapshots
  <2> QED
    BY <2>1, <2>2 DEF Snapshots
<1>4. Snaps'
  <2>1. snap' = [r \in Reconcilers |-> [snap[r] EXCEPT !.age = Older(@)]]
    BY DEF Tick
  <2>2. snap' \in [Reconcilers -> Snapshots]
    BY <1>3, <2>1
  <2> QED
    BY <1>3, <2>2 DEF IInv, Snaps
<1>5. Ownership'
  BY <1>3, Owners DEF IInv, Ownership, Tick, tasks
<1>6. Flag'
  BY <1>1 DEF IInv, Flag, StreamFlagHasOwner, Tick, tasks
<1> QED
  BY <1>2, <1>4, <1>5, <1>6, SameRest DEF IInv, Tick

LEMMA StepInv == IInv /\ [Next]_vars => IInv'
<1> SUFFICES ASSUME IInv, [Next]_vars PROVE IInv'
  OBVIOUS
<1>1. CASE UNCHANGED vars
  <2>1. Ownership' /\ Snaps' /\ Flag'
    BY <1>1 DEF IInv, Ownership, Snaps, Flag, StreamFlagHasOwner, vars
  <2> QED
    BY <1>1, <2>1, SameRest, SameTables DEF IInv, vars, truth, rows, feed
<1>2. CASE Runtime
  BY <1>2, BeginStep, MarkRaisesStep, StopStep, RuntimeEnds, CrashStep DEF Runtime
<1>3. ASSUME NEW r \in Reconcilers, Collect(r) \/ ApplyUnheard(r) \/ Fail(r) PROVE IInv'
  BY <1>3, ReadStep, ApplyStep, FailStep DEF Collect
<1>4. CASE Purge \/ PurgeMissesUpdate \/ \E r \in Reconcilers : PurgeMisses(r)
  BY <1>4, PurgeStep, PurgeMissesStep, PurgeMissesUpdateStep
<1> QED
  BY <1>1, <1>2, <1>3, <1>4, ConsumerStep, CloseStep, ApiCrashStep, AlpacaStep, TickStep
     DEF Next

-----------------------------------------------------------------------------

LEMMA Invariance == Spec => []IInv
<1> QED
  BY InitInv, StepInv, PTL DEF Spec

(* The projection's rows keep their types, and a reconciled workspace has an
   account row.                                                              *)
THEOREM TypeCorrect == Spec => []TypeOK
<1>1. IInv => TypeOK
  BY IInvImplies
<1> QED
  BY <1>1, Invariance, PTL

(* The stream flag is set only while a consumer that may have set it or a
   closing runtime that will clear it is there, or after a worker that died or
   a transaction on the flag that raised.                                     *)
THEOREM FlagOwned == Spec => []StreamFlagHasOwner
<1>1. IInv => StreamFlagHasOwner
  BY IInvImplies
<1> QED
  BY <1>1, Invariance, PTL

(* An open gate stands on an order book no older than the gate accepts. *)
THEOREM GateRecent == Spec => []OpenGateIsRecent
<1>1. IInv => OpenGateIsRecent
  BY IInvImplies
<1> QED
  BY <1>1, Invariance, PTL

(* What a step does to the sync row. *)
Readmission ==
    /\ sync.stream /\ ~sync'.stream => sync'.state # "RECONCILED"
    /\ sync.state # "RECONCILED" /\ sync'.state = "RECONCILED" =>
           \E r \in Reconcilers : snap[r].pc = "apply" /\ snap'[r].pc = "idle"

LEMMA MarkReadmits ==
    ASSUME IInv, NEW state \in States \ {"RECONCILED"}, sync' = MarkState(state)
    PROVE  Readmission
BY MarkTyped DEF IInv, Tables, Readmission

LEMMA StreamReadmits ==
    ASSUME IInv, NEW connected \in BOOLEAN, sync' = SetStream(connected)
    PROVE  Readmission
BY StreamTyped DEF IInv, Tables, Readmission

LEMMA SameReadmits ==
    ASSUME UNCHANGED sync
    PROVE  Readmission
BY DEF Readmission

LEMMA RaisedReadmits ==
    ASSUME IInv,
           \/ \E state \in States \ {"RECONCILED"} : Raised(MarkState(state))
           \/ \E connected \in BOOLEAN : Raised(SetStream(connected))
    PROVE  Readmission
BY MarkReadmits, StreamReadmits, SameReadmits DEF Raised

LEMMA StepReadmits == IInv /\ [Next]_vars => [Readmission]_vars
<1> SUFFICES ASSUME IInv, Next PROVE Readmission
  OBVIOUS
<1>1. ASSUME NEW r \in Reconcilers, Collect(r) \/ ApplyUnheard(r) PROVE Readmission
  <2>1. CASE Apply(r) \/ ApplyUnheard(r)
    <3>1. sync'.stream = sync.stream
      BY <2>1 DEF IInv, Tables, Syncs, Apply, ApplyUnheard, Stamp
    <3>2. snap[r].pc = "apply" /\ snap'[r].pc = "idle"
      BY <2>1, EndSnapTyped DEF IInv, Apply, ApplyUnheard
    <3> QED
      BY <3>1, <3>2 DEF Readmission
  <2>2. CASE ReadAccount(r) \/ ReadPositions(r) \/ ReadOrders(r)
    BY <2>2, SameReadmits DEF ReadAccount, ReadPositions, ReadOrders
  <2> QED
    BY <1>1, <2>1, <2>2 DEF Collect
<1>2. ASSUME NEW r \in Reconcilers, Fail(r) PROVE Readmission
  BY <1>2, RaisedReadmits, SameReadmits DEF Fail, States
<1>3. CASE StartRuntime \/ PeriodicMarks \/ SupervisorMarks \/ MarkRaises
  <2>1. Raised(MarkState("RECONCILING")) /\ "RECONCILING" \in States \ {"RECONCILED"}
    BY <1>3 DEF StartRuntime, PeriodicMarks, SupervisorMarks, MarkRaises, Raised, States
  <2> QED
    BY <2>1, RaisedReadmits
<1>4. CASE Consumer
  <2>1. CASE Connect \/ ApplyUpdate
    BY <2>1, StreamReadmits DEF Connect, ApplyUpdate, Upsert
  <2>2. CASE UpdateFails
    BY <2>2, StreamReadmits, SameReadmits DEF UpdateFails, Upsert
  <2>3. CASE ConnectFails \/ ConsumerFinally
    BY <2>3, RaisedReadmits DEF ConnectFails, ConsumerFinally
  <2>4. CASE Disconnects
    BY <2>4, StreamReadmits, RaisedReadmits DEF Disconnects
  <2>5. CASE MarksUnknown
    BY <2>5, RaisedReadmits DEF MarksUnknown, States
  <2> QED
    BY <1>3, <1>4, <2>1, <2>2, <2>3, <2>4, <2>5 DEF Consumer
<1>5. CASE Runtime
  <2>1. CASE Stop
    BY <2>1, StreamReadmits, SameReadmits DEF Stop
  <2>2. CASE StopFailing \/ RuntimeFinally
    BY <2>2, RaisedReadmits, SameReadmits DEF StopFailing, RuntimeFinally
  <2>3. CASE Forget \/ WorkerCrash
    BY <2>3, SameReadmits DEF Forget, WorkerCrash
  <2> QED
    BY <1>3, <1>5, <2>1, <2>2, <2>3 DEF Runtime
<1>6. CASE Purge \/ PurgeMissesUpdate \/ \E r \in Reconcilers : PurgeMisses(r)
  BY <1>6 DEF Purge, PurgeMissesUpdate, PurgeMisses, NoSyncRow, Unconfigured, Readmission
<1>7. CASE Tick
  BY <1>7 DEF IInv, Tables, Syncs, Tick, Readmission
<1>8. CASE Alpaca \/ ApiCrash \/ \E c \in Closers : CloseBegins(c)
  BY <1>8, SameReadmits DEF Alpaca, OrderArrives, OrderEnds, PositionCloses, AccountBlocked,
                            LinkUp, LinkDrops, ApiCrash, CloseBegins
<1> QED
  BY <1>1, <1>2, <1>4, <1>5, <1>6, <1>7, <1>8 DEF Next

(* Losing the stream costs the reconciled state, and only a snapshot that is
   written gives it back.                                                    *)
THEOREM SnapshotReadmits == Spec => ReadmissionNeedsSnapshot
<1>1. IInv /\ [Next]_vars => [Readmission]_vars
  BY StepReadmits
<1>2. Spec => [][Readmission]_vars
  BY <1>1, Invariance, PTL DEF Spec
<1> QED
  BY <1>2 DEF ReadmissionNeedsSnapshot, Readmission

-----------------------------------------------------------------------------
(* Refinement: the gate and the desk read what BrokerProjection promises.    *)

(* A snapshot reaches the tables, whether its reconciler hears of it or not. *)
Written(r) == Apply(r) \/ ApplyUnheard(r)

(* The connection is deleted. *)
Deletes == Purge \/ PurgeMissesUpdate \/ \E r \in Reconcilers : PurgeMisses(r)

(* Whatever is held, shown or being collected is a position of an order that
   the broker has had.                                                       *)
RealPositions ==
    /\ held \subseteq Arrived
    /\ positions \subseteq Arrived
    /\ \A r \in Reconcilers : snap[r].positions \subseteq Arrived

(* A snapshot gets positions and orders from the broker, keeps or drops them. *)
Sourced(r) ==
    /\ snap'[r].positions \in {snap[r].positions, {}, held}
    /\ snap'[r].orders \in {snap[r].orders, Empty.orders, Shown}

LEMMA ReadSourced ==
    ASSUME IInv, NEW r \in Reconcilers, ReadAccount(r) \/ ReadPositions(r) \/ ReadOrders(r)
    PROVE  \A q \in Reconcilers : Sourced(q)
<1>1. snap \in [Reconcilers -> Snapshots] /\ snap[r] \in Snapshots
  BY DEF IInv, Snaps
<1>2. CASE ReadAccount(r)
  <2> DEFINE read == IF blocked THEN "blocked" ELSE "usable"
  <2>1. snap' = [snap EXCEPT ![r] = [[snap[r] EXCEPT !.pc = "positions"] EXCEPT !.account = read]]
    BY <1>1, <1>2 DEF ReadAccount
  <2>2. [[snap[r] EXCEPT !.pc = "positions"] EXCEPT !.account = read].positions = snap[r].positions
    BY <1>1 DEF Snapshots
  <2>3. [[snap[r] EXCEPT !.pc = "positions"] EXCEPT !.account = read].orders = snap[r].orders
    BY <1>1 DEF Snapshots
  <2> QED
    BY <1>1, <2>1, <2>2, <2>3 DEF Sourced
<1>3. CASE ReadPositions(r)
  <2>1. snap' = [snap EXCEPT ![r] = [[snap[r] EXCEPT !.pc = "orders"] EXCEPT !.positions = held]]
    BY <1>1, <1>3 DEF ReadPositions
  <2>2. [[snap[r] EXCEPT !.pc = "orders"] EXCEPT !.positions = held].positions = held
    BY <1>1 DEF Snapshots
  <2>3. [[snap[r] EXCEPT !.pc = "orders"] EXCEPT !.positions = held].orders = snap[r].orders
    BY <1>1 DEF Snapshots
  <2> QED
    BY <1>1, <2>1, <2>2, <2>3 DEF Sourced
<1>4. CASE ReadOrders(r)
  <2> DEFINE now == Shown
  <2>1. snap' = [snap EXCEPT ![r] =
                    [[[snap[r] EXCEPT !.pc = "apply"] EXCEPT !.orders = now] EXCEPT !.age = 0]]
    BY <1>1, <1>4 DEF ReadOrders
  <2>2. now = Shown
    OBVIOUS
  <2> HIDE DEF now
  <2>3. [[[snap[r] EXCEPT !.pc = "apply"] EXCEPT !.orders = now] EXCEPT !.age = 0].positions
            = snap[r].positions
    BY <1>1 DEF Snapshots
  <2>4. [[[snap[r] EXCEPT !.pc = "apply"] EXCEPT !.orders = now] EXCEPT !.age = 0].orders = now
    BY <1>1 DEF Snapshots
  <2> QED
    BY <1>1, <2>1, <2>2, <2>3, <2>4 DEF Sourced
<1> QED
  BY <1>2, <1>3, <1>4

LEMMA StartSourced ==
    ASSUME IInv, NEW r \in Reconcilers, StartSnap(r)
    PROVE  \A q \in Reconcilers : Sourced(q)
<1>1. [Empty EXCEPT !.pc = "account"].positions = {}
  BY DEF Empty
<1>2. [Empty EXCEPT !.pc = "account"].orders = Empty.orders
  BY DEF Empty
<1> QED
  BY <1>1, <1>2 DEF IInv, Snaps, StartSnap, Sourced

LEMMA StepSourced ==
    ASSUME IInv, [Next]_vars
    PROVE  \A q \in Reconcilers : Sourced(q)
<1>1. Empty.positions = {}
  BY DEF Empty
<1>2. CASE UNCHANGED snap
  BY <1>2 DEF Sourced
<1>3. ASSUME NEW r \in Reconcilers, Collect(r) \/ ApplyUnheard(r) \/ PurgeMisses(r) \/ Fail(r)
      PROVE  \A q \in Reconcilers : Sourced(q)
  <2>1. CASE Apply(r) \/ ApplyUnheard(r) \/ PurgeMisses(r) \/ Fail(r)
    BY <1>1, <2>1 DEF IInv, Snaps, Apply, ApplyUnheard, PurgeMisses, Fail, Sourced
  <2> QED
    BY <1>3, <2>1, ReadSourced DEF Collect
<1>4. CASE Consumer
  BY <1>2, <1>4, StartSourced, Owners
     DEF Consumer, Connect, ConnectFails, ApplyUpdate, UpdateFails, Disconnects, MarksUnknown,
         ConsumerFinally, SupervisorMarks
<1>5. CASE Runtime
  <2>1. CASE Stop \/ WorkerCrash
    BY <1>1, <2>1 DEF Stop, WorkerCrash, Cancelled, Sourced
  <2>2. CASE StartRuntime \/ PeriodicMarks
    BY <2>2, StartSourced, Owners DEF StartRuntime, PeriodicMarks
  <2> QED
    BY <1>2, <1>5, <2>1, <2>2 DEF Runtime, MarkRaises, StopFailing, RuntimeFinally, Forget
<1>6. ASSUME NEW c \in Closers, CloseBegins(c) PROVE \A q \in Reconcilers : Sourced(q)
  BY <1>6, StartSourced, Owners DEF CloseBegins
<1>7. CASE ApiCrash
  BY <1>1, <1>7 DEF ApiCrash, Sourced
<1>8. CASE Tick
  <2>1. ASSUME NEW q \in Reconcilers
        PROVE  snap'[q].positions = snap[q].positions /\ snap'[q].orders = snap[q].orders
    BY <1>8 DEF IInv, Snaps, Snapshots, Tick
  <2> QED
    BY <2>1 DEF Sourced
<1>9. CASE Purge \/ PurgeMissesUpdate \/ Alpaca \/ UNCHANGED vars
  BY <1>2, <1>9 DEF Purge, PurgeMissesUpdate, vars, Alpaca, OrderArrives, OrderEnds, PositionCloses,
                    AccountBlocked, LinkUp, LinkDrops
<1> QED
  BY <1>3, <1>4, <1>5, <1>6, <1>7, <1>8, <1>9 DEF Next

(* Only a written snapshot, the purge and the broker touch what is at the
   broker or shown of it.                                                    *)
LEMMA QuietStep ==
    ASSUME [Next]_vars, ~Alpaca, ~Deletes, \A r \in Reconcilers : ~Written(r)
    PROVE  UNCHANGED <<book, held, positions, account>>
<1> USE DEF truth, rows, Written, Deletes
<1>1. ASSUME NEW r \in Reconcilers, Collect(r) \/ Fail(r)
      PROVE  UNCHANGED <<book, held, positions, account>>
  BY <1>1 DEF Collect, ReadAccount, ReadPositions, ReadOrders, Fail
<1>2. CASE Consumer
  BY <1>2 DEF Consumer, Connect, ConnectFails, ApplyUpdate, UpdateFails, Disconnects,
              MarksUnknown, ConsumerFinally, SupervisorMarks
<1>3. CASE Runtime
  BY <1>3 DEF Runtime, StartRuntime, PeriodicMarks, MarkRaises, Stop, StopFailing, RuntimeFinally, Forget,
              WorkerCrash
<1>4. ASSUME NEW c \in Closers, CloseBegins(c)
      PROVE  UNCHANGED <<book, held, positions, account>>
  BY <1>4 DEF CloseBegins
<1>5. CASE ApiCrash \/ Tick \/ UNCHANGED vars
  BY <1>5 DEF ApiCrash, Tick, vars
<1> QED
  BY <1>1, <1>2, <1>3, <1>4, <1>5 DEF Next

(* A step of the broker creates one order at most; a position is of one. *)
LEMMA BrokerStep ==
    ASSUME IInv, Alpaca
    PROVE  /\ UNCHANGED <<positions, account, sync>>
           /\ Arrived' = Arrived \/ \E o \in Orders : Arrived' = Arrived \cup {o}
           /\ held \subseteq Arrived => held' \subseteq Arrived'
<1>1. UNCHANGED <<positions, account, sync>>
  BY DEF rows, Alpaca, OrderArrives, OrderEnds, PositionCloses, AccountBlocked, LinkUp, LinkDrops
<1>2. book \in [Orders -> Statuses]
  BY DEF IInv, Broker
<1>3. ASSUME NEW o \in Orders, OrderArrives(o)
      PROVE  Arrived' = Arrived \cup {o} /\ held' = held
  BY <1>2, <1>3 DEF OrderArrives, Arrived
<1>4. ASSUME NEW o \in Orders, OrderEnds(o)
      PROVE  Arrived' = Arrived /\ o \in Arrived /\ held' \subseteq held \cup {o}
  BY <1>2, <1>4 DEF OrderEnds, Arrived
<1>5. ASSUME NEW o \in Orders, PositionCloses(o)
      PROVE  Arrived' = Arrived /\ held' \subseteq held
  BY <1>5 DEF PositionCloses, Arrived
<1>6. ASSUME AccountBlocked \/ LinkUp \/ LinkDrops
      PROVE  Arrived' = Arrived /\ held' = held
  BY <1>6 DEF AccountBlocked, LinkUp, LinkDrops, truth, Arrived
<1> QED
  BY <1>1, <1>3, <1>4, <1>5, <1>6 DEF Alpaca

LEMMA RealStep == IInv /\ RealPositions /\ [Next]_vars => RealPositions'
<1> SUFFICES ASSUME IInv, RealPositions, [Next]_vars PROVE RealPositions'
  OBVIOUS
<1>1. \A q \in Reconcilers : Sourced(q)
  BY StepSourced
<1>2. ASSUME Arrived \subseteq Arrived', held' \subseteq Arrived', positions' \subseteq Arrived'
      PROVE  RealPositions'
  <2>1. ASSUME NEW q \in Reconcilers PROVE snap'[q].positions \subseteq Arrived'
    BY <1>1, <1>2 DEF RealPositions, Sourced
  <2> QED
    BY <1>2, <2>1 DEF RealPositions
<1>3. CASE Alpaca
  <2>1. UNCHANGED positions /\ Arrived \subseteq Arrived' /\ held' \subseteq Arrived'
    BY <1>3, BrokerStep DEF RealPositions
  <2> QED
    BY <1>2, <2>1 DEF RealPositions
<1>4. CASE Deletes
  <2>1. Arrived' = Arrived /\ held' = held
    BY <1>4 DEF Deletes, Purge, PurgeMisses, PurgeMissesUpdate, truth, Arrived
  <2>2. positions' \subseteq Arrived
    BY <1>4 DEF Deletes, Purge, PurgeMisses, PurgeMissesUpdate, RealPositions
  <2> QED
    BY <1>2, <2>1, <2>2 DEF RealPositions
<1>5. ASSUME NEW r \in Reconcilers, Written(r) PROVE RealPositions'
  <2>1. positions' = snap[r].positions /\ Arrived' = Arrived /\ held' = held
    BY <1>5 DEF Written, Apply, ApplyUnheard, Replace, truth, Arrived
  <2> QED
    BY <1>2, <2>1 DEF RealPositions
<1>6. CASE UNCHANGED <<book, held, positions, account>>
  <2>1. Arrived' = Arrived
    BY <1>6 DEF Arrived
  <2> QED
    BY <1>2, <1>6, <2>1 DEF RealPositions
<1> QED
  BY <1>3, <1>4, <1>5, <1>6, QuietStep

(* What the sync row says of the state turns only beside an account. *)
LEMMA TurnStep ==
    ASSUME IInv, IInv', UNCHANGED <<book, positions, account>>
    PROVE  Projection!Turns \/ UNCHANGED <<Row, positions, Arrived>>
<1>1. Row.known \in BOOLEAN /\ Row'.known \in BOOLEAN /\ Row.account = account
  BY DEF Row
<1>2. Arrived' = Arrived
  BY DEF Arrived
<1>3. (Row.known => account # "absent") /\ (Row'.known => account' # "absent")
  BY DEF Row, IInv, Tables
<1>4. CASE Row'.known = Row.known
  <2>1. Row' = Row
    BY <1>4 DEF Row
  <2> QED
    BY <1>2, <2>1
<1>5. CASE Row'.known # Row.known
  <2>1. Row.account # "absent"
    BY <1>1, <1>3, <1>5
  <2>2. Row' = [Row EXCEPT !.known = ~@]
    <3> DEFINE turned == ~Row.known
               row2   == [known |-> turned, account |-> account]
    <3>1. [Row EXCEPT !.known = turned] = row2
      BY DEF Row
    <3>2. Row'.known = turned
      BY <1>1, <1>5
    <3>3. Row' = [known |-> Row'.known, account |-> account]
      BY DEF Row
    <3> HIDE DEF turned
    <3>4. [Row EXCEPT !.known = turned] = Row'
      BY <3>1, <3>2, <3>3
    <3> QED
      BY <3>4 DEF turned
  <2> QED
    BY <1>2, <2>1, <2>2 DEF Projection!Turns
<1> QED
  BY <1>4, <1>5

LEMMA ProjectionImplStep ==
    ASSUME IInv, IInv', RealPositions, [Next]_vars
    PROVE  [Projection!Next]_(Projection!vars)
<1> USE DEF Projection!vars
<1>1. CASE Alpaca
  <2>1. Row' = Row /\ positions' = positions
    BY <1>1, BrokerStep DEF Row
  <2>2. Arrived' = Arrived \/ \E o \in Orders : Arrived' = Arrived \cup {o}
    BY <1>1, BrokerStep
  <2> QED
    BY <2>1, <2>2 DEF Projection!Next, Projection!Place
<1>2. CASE Deletes
  <2>1. Arrived' = Arrived
    BY <1>2 DEF Deletes, Purge, PurgeMisses, PurgeMissesUpdate, truth, Arrived
  <2>2. positions' \in SUBSET Arrived
    BY <1>2 DEF Deletes, Purge, PurgeMisses, PurgeMissesUpdate, RealPositions
  <2>3. account' \in {"absent", "usable", "blocked"}
    BY DEF IInv, Tables, Accounts
  <2>4. NoSyncRow
    BY <1>2 DEF Deletes, Purge, PurgeMisses, PurgeMissesUpdate
  <2>5. Row' = [known |-> FALSE, account |-> account']
    BY <2>4 DEF NoSyncRow, Unconfigured, Row
  <2> QED
    BY <2>1, <2>2, <2>3, <2>5 DEF Projection!Next, Projection!Removed
<1>3. ASSUME NEW r \in Reconcilers, Written(r) PROVE Projection!Writes
  <2>1. snap[r].account \in {"usable", "blocked"}
    BY <1>3 DEF IInv, Snaps, Snapshots, Accounts, Written, Apply, ApplyUnheard
  <2>2. Row'.known \in BOOLEAN /\ Row' = [known |-> Row'.known, account |-> snap[r].account]
    BY <1>3 DEF Row, Written, Apply, ApplyUnheard
  <2>3. positions' \in SUBSET Arrived /\ Arrived' = Arrived
    BY <1>3 DEF RealPositions, Written, Apply, ApplyUnheard, Replace, truth, Arrived
  <2> QED
    BY <2>1, <2>2, <2>3 DEF Projection!Writes
<1>4. CASE UNCHANGED <<book, held, positions, account>>
  BY <1>4, TurnStep DEF Projection!Next
<1> QED
  BY <1>1, <1>2, <1>3, <1>4, QuietStep DEF Projection!Next

(* BrokerSync implements the projection the desk relies on. *)
THEOREM Refinement == Spec => ImplementsProjection
<1>1. Init => Projection!Init /\ RealPositions
  <2> SUFFICES ASSUME Init PROVE Projection!Init /\ RealPositions
    OBVIOUS
  <2>1. Row = [known |-> FALSE, account |-> "absent"]
    BY DEF Init, Row, Unconfigured
  <2>2. Arrived \subseteq Orders /\ positions = {} /\ held = {}
    BY DEF Init, Arrived
  <2>3. \A r \in Reconcilers : snap[r].positions = {}
    BY DEF Init, Empty
  <2> QED
    BY <2>1, <2>2, <2>3 DEF Projection!Init, Projection!NoRow, RealPositions
<1>2. Spec => [](IInv /\ RealPositions)
  BY <1>1, InitInv, StepInv, RealStep, PTL DEF Spec
<1>3. IInv /\ IInv' /\ RealPositions /\ [Next]_vars => [Projection!Next]_(Projection!vars)
  BY ProjectionImplStep
<1> QED
  BY <1>1, <1>2, <1>3, PTL DEF Spec, ImplementsProjection, Projection!Spec

(* Whatever fails, overlaps or is deleted, the desk never finds a known state
   without an account nor a position of no order: the promise of
   BrokerProjection, carried over by the refinement.                          *)
THEOREM DeskReadsCoherently == Spec => []Projection!Coherent
<1>1. Projection!Spec => []Projection!Coherent
  BY Projection!Coherence
<1> QED
  BY <1>1, Refinement, PTL DEF ImplementsProjection

-----------------------------------------------------------------------------
(* No table, snapshot or update runs ahead of the broker.                    *)

(* A status that the broker has, or had before it came to b. *)
Behind(a, b) == a = "NONE" \/ a = b \/ b = "DONE"

(* However late, lost, repeated or undone updates and snapshots are, an order
   row never shows what the broker has not come to yet: no row for an order
   that never arrived, and none that ended while it is open.                 *)
NeverAhead == \A o \in Orders : Behind(orders[o], book[o])

QueueBehind == \A n \in 1 .. Len(queue) : Behind(queue[n].status, book[queue[n].order])

LagInv ==
    /\ NeverAhead
    /\ \A r \in Reconcilers : \A o \in Orders : Behind(snap[r].orders[o], book[o])
    /\ QueueBehind

(* The broker's statuses only move on. *)
LEMMA BookMoves ==
    ASSUME IInv, [Next]_vars, NEW o \in Orders
    PROVE  Behind(book[o], book'[o])
<1>1. book \in [Orders -> Statuses]
  BY DEF IInv, Broker
<1>2. CASE UNCHANGED book
  BY <1>2 DEF Behind
<1>3. ASSUME NEW q \in Orders, OrderArrives(q) \/ OrderEnds(q) PROVE Behind(book[o], book'[o])
  BY <1>1, <1>3 DEF OrderArrives, OrderEnds, Behind
<1>4. CASE Alpaca
  BY <1>2, <1>3, <1>4 DEF Alpaca, PositionCloses, AccountBlocked, LinkUp, LinkDrops, truth
<1>5. CASE Deletes
  BY <1>2, <1>5 DEF Deletes, Purge, PurgeMisses, PurgeMissesUpdate, truth
<1>6. ASSUME NEW r \in Reconcilers, Written(r) PROVE Behind(book[o], book'[o])
  BY <1>2, <1>6 DEF Written, Apply, ApplyUnheard, truth
<1> QED
  BY <1>2, <1>4, <1>5, <1>6, QuietStep

LEMMA StaysBehind ==
    ASSUME IInv, [Next]_vars, NEW o \in Orders, NEW a, Behind(a, book[o])
    PROVE  Behind(a, book'[o])
BY BookMoves DEF Behind, IInv, Broker, Statuses

(* An update tells what the broker has come to when it is sent. *)
LEMMA QueueStep ==
    ASSUME IInv, [Next]_vars, QueueBehind
    PROVE  QueueBehind'
<1>1. queue \in Seq(Updates) /\ book \in [Orders -> Statuses]
  BY DEF IInv, Feed, Broker
<1>2. ASSUME NEW n \in 1 .. Len(queue)
      PROVE  queue[n].order \in Orders /\ Behind(queue[n].status, book'[queue[n].order])
  <2>1. queue[n] \in Updates
    BY <1>1
  <2> QED
    BY <2>1, StaysBehind DEF QueueBehind, Updates
<1>3. CASE UNCHANGED queue
  BY <1>2, <1>3 DEF QueueBehind
<1>4. CASE queue' = <<>>
  BY <1>4 DEF QueueBehind
<1>5. CASE queue # <<>> /\ queue' = Tail(queue)
  <2>1. /\ Len(queue') = Len(queue) - 1
        /\ \A n \in 1 .. Len(queue') : queue'[n] = queue[n + 1] /\ n + 1 \in 1 .. Len(queue)
    BY <1>1, <1>5
  <2> QED
    BY <1>2, <2>1 DEF QueueBehind
<1>6. ASSUME NEW o \in Orders, OrderArrives(o) \/ OrderEnds(o) PROVE QueueBehind'
  <2>1. PICK status : Deliver(o, status) /\ book'[o] = status
    BY <1>1, <1>6 DEF OrderArrives, OrderEnds
  <2> DEFINE update == [order |-> o, status |-> status]
  <2>2. CASE queue' = Append(queue, update)
    <3>1. /\ Len(queue') = Len(queue) + 1
          /\ \A n \in 1 .. Len(queue) : queue'[n] = queue[n]
          /\ queue'[Len(queue) + 1] = update
      BY <1>1, <2>2
    <3>2. Behind(update.status, book'[update.order])
      BY <2>1 DEF Behind
    <3> QED
      BY <1>1, <1>2, <3>1, <3>2 DEF QueueBehind
  <2> QED
    BY <1>3, <2>1, <2>2 DEF Deliver
<1>7. queue' = queue \/ queue' = <<>> \/ (queue # <<>> /\ queue' = Tail(queue))
         \/ \E o \in Orders : OrderArrives(o) \/ OrderEnds(o)
  <2>1. CASE Consumer
    BY <2>1 DEF Consumer, Connect, ConnectFails, ApplyUpdate, UpdateFails, Disconnects,
                MarksUnknown, ConsumerFinally, SupervisorMarks, feed
  <2>2. CASE Runtime
    BY <2>2 DEF Runtime, StartRuntime, PeriodicMarks, MarkRaises, Stop, StopFailing, RuntimeFinally,
                Forget, WorkerCrash, feed
  <2>3. ASSUME NEW r \in Reconcilers, Collect(r) \/ ApplyUnheard(r) \/ Fail(r) PROVE queue' = queue
    BY <2>3 DEF Collect, ReadAccount, ReadPositions, ReadOrders, Apply, ApplyUnheard, Fail, feed
  <2>4. CASE ApiCrash \/ Deletes \/ Tick \/ UNCHANGED vars \/ \E c \in Closers : CloseBegins(c)
    BY <2>4 DEF ApiCrash, Deletes, Purge, PurgeMisses, PurgeMissesUpdate, Tick, vars, CloseBegins, feed
  <2>5. CASE Alpaca
    BY <2>5 DEF Alpaca, PositionCloses, AccountBlocked, LinkUp, LinkDrops, feed
  <2> QED
    BY <2>1, <2>2, <2>3, <2>4, <2>5 DEF Next, Deletes
<1> QED
  BY <1>3, <1>4, <1>5, <1>6, <1>7

(* A row changes by a snapshot, an update or a deletion. *)
LEMMA RowsStep ==
    ASSUME IInv, LagInv, [Next]_vars
    PROVE  NeverAhead'
<1>1. orders \in [Orders -> Statuses]
  BY DEF IInv, Tables
<1>2. CASE UNCHANGED orders
  BY <1>2, StaysBehind DEF LagInv, NeverAhead
<1>3. CASE Purge
  BY <1>3 DEF Purge, NeverAhead, Behind
<1>4. ASSUME NEW r \in Reconcilers, Written(r) \/ PurgeMisses(r) PROVE NeverAhead'
  <2>1. orders' = snap[r].orders
    BY <1>4 DEF Written, Apply, ApplyUnheard, PurgeMisses, Replace
  <2> QED
    BY <2>1, StaysBehind DEF LagInv, NeverAhead
<1>5. ASSUME queue # <<>>, UNCHANGED book
      PROVE  /\ Head(queue) \in Updates
             /\ Behind(Head(queue).status, book'[Head(queue).order])
  <2>1. queue \in Seq(Updates)
    BY DEF IInv, Feed
  <2>2. Head(queue) = queue[1] /\ 1 \in 1 .. Len(queue) /\ queue[1] \in Updates
    BY <1>5, <2>1
  <2> QED
    BY <1>5, <2>2 DEF LagInv, QueueBehind
<1>6. ASSUME queue # <<>>, Upsert(Head(queue)), UNCHANGED book PROVE NeverAhead'
  <2>1. orders' = [orders EXCEPT ![Head(queue).order] = Head(queue).status]
    BY <1>6 DEF Upsert
  <2> QED
    BY <1>1, <1>5, <1>6, <2>1 DEF LagInv, NeverAhead, Updates
<1>7. CASE PurgeMissesUpdate
  <2>1. queue # <<>> /\ UNCHANGED book
    BY <1>7 DEF PurgeMissesUpdate, truth
  <2>2. orders' = [o \in Orders |-> IF o = Head(queue).order THEN Head(queue).status ELSE "NONE"]
    BY <1>7 DEF PurgeMissesUpdate
  <2> QED
    BY <1>5, <2>1, <2>2 DEF NeverAhead, Behind
<1>8. CASE Consumer
  <2>1. CASE ApplyUpdate \/ UpdateFails
    BY <1>2, <1>6, <2>1 DEF ApplyUpdate, UpdateFails, truth
  <2> QED
    BY <1>2, <1>8, <2>1 DEF Consumer, Connect, ConnectFails, Disconnects, MarksUnknown,
                            ConsumerFinally, SupervisorMarks, rows
<1>9. CASE Runtime
  BY <1>2, <1>9 DEF Runtime, StartRuntime, PeriodicMarks, MarkRaises, Stop, StopFailing,
                    RuntimeFinally, Forget, WorkerCrash, rows
<1>10. ASSUME NEW r \in Reconcilers, Collect(r) \/ Fail(r) PROVE NeverAhead'
  BY <1>2, <1>4, <1>10 DEF Collect, Written, ReadAccount, ReadPositions, ReadOrders, Fail, rows
<1>11. CASE ApiCrash \/ Tick \/ UNCHANGED vars \/ \E c \in Closers : CloseBegins(c)
  BY <1>2, <1>11 DEF ApiCrash, Tick, vars, CloseBegins, rows
<1>12. CASE Alpaca
  BY <1>2, <1>12 DEF Alpaca, OrderArrives, OrderEnds, PositionCloses, AccountBlocked, LinkUp,
                     LinkDrops, rows
<1> QED
  BY <1>3, <1>4, <1>7, <1>8, <1>9, <1>10, <1>11, <1>12 DEF Next, Written

LEMMA LagStep == IInv /\ LagInv /\ [Next]_vars => LagInv'
<1> SUFFICES ASSUME IInv, LagInv, [Next]_vars PROVE LagInv'
  OBVIOUS
<1>1. NeverAhead' /\ QueueBehind'
  BY RowsStep, QueueStep DEF LagInv
<1>2. ASSUME NEW r \in Reconcilers, NEW o \in Orders PROVE Behind(snap'[r].orders[o], book'[o])
  <2>1. snap'[r].orders \in {snap[r].orders, Empty.orders, Shown}
    BY StepSourced DEF Sourced
  <2>2. Behind(snap[r].orders[o], book[o]) /\ Behind(Shown[o], book[o])
    BY DEF LagInv, Behind, Shown
  <2>3. Behind(Empty.orders[o], book[o])
    BY DEF Empty, Behind
  <2> QED
    BY <2>1, <2>2, <2>3, StaysBehind
<1> QED
  BY <1>1, <1>2 DEF LagInv

(* The projection lags behind the broker and never runs ahead of it. *)
THEOREM Lags == Spec => []NeverAhead
<1>1. Init => LagInv
  BY DEF Init, LagInv, NeverAhead, QueueBehind, Behind, Empty
<1>2. LagInv => NeverAhead
  BY DEF LagInv
<1> QED
  BY <1>1, <1>2, LagStep, Invariance, PTL DEF Spec

-----------------------------------------------------------------------------
(* Once the broker is quiet, what is stale is used up and none of it is made
   anew: the step-by-step half of ProjectionConverges, without fairness.      *)

Reading == IF blocked THEN "blocked" ELSE "usable"

(* Whatever reconciler r has read so far is what the broker has now. *)
Met(r) ==
    /\ snap[r].pc \in {"positions", "orders", "apply"} => snap[r].account = Reading
    /\ snap[r].pc \in {"orders", "apply"} => snap[r].positions = held
    /\ snap[r].pc = "apply" => snap[r].orders = Shown

QueueMet == \A n \in 1 .. Len(queue) : queue[n].status = Shown[queue[n].order]

(* The tables show the broker, and nothing under way can undo it. *)
Agreed == Converged /\ QueueMet /\ \A r \in Reconcilers : Met(r)

Catching ==
    UNCHANGED truth =>
        /\ \A r \in Reconcilers : Met(r) => Met(r)'
        /\ QueueMet => QueueMet'
        /\ \A r \in Reconcilers : Met(r) /\ Written(r) => Converged'
        /\ Agreed /\ account' # "absent" => Agreed'

(* While the broker is quiet, a reading that is true stays true whatever the
   tasks, the stream, a close call or a crash do, as does the queue; a true
   snapshot, once written, heard of or not, gives the tables the broker's
   account, positions and newest page of orders; and once nothing stale is under
   way they stay so until the connection is deleted.                          *)
QuietCatchesUp == [][Catching]_vars

(* What a step makes of a snapshot: it keeps it, drops it, or reads on. *)
Moved(q) ==
    \/ /\ snap'[q].pc = snap[q].pc
       /\ snap'[q].account = snap[q].account
       /\ snap'[q].positions = snap[q].positions
       /\ snap'[q].orders = snap[q].orders
    \/ snap'[q].pc \in {"idle", "account"}
    \/ /\ snap'[q].pc = "positions"
       /\ snap'[q].account = Reading
    \/ /\ snap[q].pc = "positions" /\ snap'[q].pc = "orders"
       /\ snap'[q].account = snap[q].account
       /\ snap'[q].positions = held
    \/ /\ snap[q].pc = "orders" /\ snap'[q].pc = "apply"
       /\ snap'[q].account = snap[q].account
       /\ snap'[q].positions = snap[q].positions
       /\ snap'[q].orders = Shown

LEMMA ReadMoves ==
    ASSUME IInv, NEW r \in Reconcilers, ReadAccount(r) \/ ReadPositions(r) \/ ReadOrders(r)
    PROVE  \A q \in Reconcilers : Moved(q)
<1>1. snap \in [Reconcilers -> Snapshots] /\ snap[r] \in Snapshots
  BY DEF IInv, Snaps
<1>2. \A q \in Reconcilers : q # r => snap'[q] = snap[q]
  BY <1>1 DEF ReadAccount, ReadPositions, ReadOrders
<1>3. CASE ReadAccount(r)
  <2>1. snap'[r] = [[snap[r] EXCEPT !.pc = "positions"] EXCEPT !.account = Reading]
    BY <1>1, <1>3 DEF ReadAccount, Reading
  <2>2. snap'[r].pc = "positions" /\ snap'[r].account = Reading
    BY <1>1, <2>1 DEF Snapshots
  <2> QED
    BY <1>2, <2>2 DEF Moved
<1>4. CASE ReadPositions(r)
  <2>1. snap'[r] = [[snap[r] EXCEPT !.pc = "orders"] EXCEPT !.positions = held]
    BY <1>1, <1>4 DEF ReadPositions
  <2>2. /\ snap'[r].pc = "orders" /\ snap'[r].account = snap[r].account
        /\ snap'[r].positions = held
    BY <1>1, <2>1 DEF Snapshots
  <2>3. snap[r].pc = "positions"
    BY <1>4 DEF ReadPositions
  <2> QED
    BY <1>2, <2>2, <2>3 DEF Moved
<1>5. CASE ReadOrders(r)
  <2> DEFINE now  == Shown
             read == [[snap[r] EXCEPT !.pc = "apply"] EXCEPT !.orders = now]
  <2>1. snap'[r] = [read EXCEPT !.age = 0]
    BY <1>1, <1>5 DEF ReadOrders
  <2>2. now = Shown
    OBVIOUS
  <2> HIDE DEF now
  <2>3. /\ read.pc = "apply" /\ read.account = snap[r].account
        /\ read.positions = snap[r].positions /\ read.orders = now
    BY <1>1 DEF Snapshots
  <2>4. /\ snap'[r].pc = "apply" /\ snap'[r].account = snap[r].account
        /\ snap'[r].positions = snap[r].positions /\ snap'[r].orders = now
    BY <1>1, <2>1, <2>3 DEF Snapshots
  <2>5. snap[r].pc = "orders"
    BY <1>5 DEF ReadOrders
  <2> HIDE DEF read
  <2> QED
    BY <1>2, <2>2, <2>4, <2>5 DEF Moved
<1> QED
  BY <1>3, <1>4, <1>5

LEMMA StartMoves ==
    ASSUME IInv, NEW r \in Reconcilers, StartSnap(r)
    PROVE  \A q \in Reconcilers : Moved(q)
<1>1. [Empty EXCEPT !.pc = "account"].pc = "account"
  BY DEF Empty
<1> QED
  BY <1>1 DEF IInv, Snaps, StartSnap, Moved

LEMMA StepMoves ==
    ASSUME IInv, [Next]_vars
    PROVE  \A q \in Reconcilers : Moved(q)
<1>1. Empty.pc = "idle"
  BY DEF Empty
<1>2. CASE UNCHANGED snap
  BY <1>2 DEF Moved
<1>3. ASSUME NEW r \in Reconcilers, Collect(r) \/ ApplyUnheard(r) \/ PurgeMisses(r) \/ Fail(r)
      PROVE  \A q \in Reconcilers : Moved(q)
  <2>1. CASE Apply(r) \/ ApplyUnheard(r) \/ PurgeMisses(r) \/ Fail(r)
    BY <1>1, <2>1 DEF IInv, Snaps, Apply, ApplyUnheard, PurgeMisses, Fail, Moved
  <2> QED
    BY <1>3, <2>1, ReadMoves DEF Collect
<1>4. CASE Consumer
  BY <1>2, <1>4, StartMoves, Owners
     DEF Consumer, Connect, ConnectFails, ApplyUpdate, UpdateFails, Disconnects, MarksUnknown,
         ConsumerFinally, SupervisorMarks
<1>5. CASE Runtime
  <2>1. CASE Stop \/ WorkerCrash
    BY <1>1, <2>1 DEF Stop, WorkerCrash, Cancelled, Moved
  <2>2. CASE StartRuntime \/ PeriodicMarks
    BY <2>2, StartMoves, Owners DEF StartRuntime, PeriodicMarks
  <2> QED
    BY <1>2, <1>5, <2>1, <2>2 DEF Runtime, MarkRaises, StopFailing, RuntimeFinally, Forget
<1>6. ASSUME NEW c \in Closers, CloseBegins(c) PROVE \A q \in Reconcilers : Moved(q)
  BY <1>6, StartMoves, Owners DEF CloseBegins
<1>7. CASE ApiCrash
  BY <1>1, <1>7 DEF ApiCrash, Moved
<1>8. CASE Tick
  <2>1. ASSUME NEW q \in Reconcilers
        PROVE  /\ snap'[q].pc = snap[q].pc /\ snap'[q].account = snap[q].account
               /\ snap'[q].positions = snap[q].positions /\ snap'[q].orders = snap[q].orders
    BY <1>8 DEF IInv, Snaps, Snapshots, Tick
  <2> QED
    BY <2>1 DEF Moved
<1>9. CASE Purge \/ PurgeMissesUpdate \/ Alpaca \/ UNCHANGED vars
  BY <1>2, <1>9 DEF Purge, PurgeMissesUpdate, vars, Alpaca, OrderArrives, OrderEnds, PositionCloses,
                    AccountBlocked, LinkUp, LinkDrops
<1> QED
  BY <1>3, <1>4, <1>5, <1>6, <1>7, <1>8, <1>9 DEF Next

(* A quiet broker shows the same page. *)
LEMMA SameTruth ==
    ASSUME UNCHANGED truth
    PROVE  Shown' = Shown /\ held' = held /\ Reading' = Reading
BY DEF truth, Shown, Page, Reading

LEMMA MetStays ==
    ASSUME IInv, [Next]_vars, UNCHANGED truth, NEW r \in Reconcilers, Met(r)
    PROVE  Met(r)'
<1>1. Moved(r)
  BY StepMoves
<1>2. Shown' = Shown /\ held' = held /\ Reading' = Reading
  BY SameTruth
<1> HIDE DEF Reading
<1> QED
  BY <1>1, <1>2 DEF Moved, Met

(* A quiet broker sends nothing, and the queue is only consumed. *)
LEMMA QueueShrinks ==
    ASSUME IInv, [Next]_vars, UNCHANGED truth
    PROVE  queue' = queue \/ queue' = <<>> \/ (queue # <<>> /\ queue' = Tail(queue))
<1>1. book \in [Orders -> Statuses] /\ book' = book
  BY DEF IInv, Broker, truth
<1>2. CASE Consumer
  BY <1>2 DEF Consumer, Connect, ConnectFails, ApplyUpdate, UpdateFails, Disconnects,
              MarksUnknown, ConsumerFinally, SupervisorMarks, feed
<1>3. CASE Runtime
  BY <1>3 DEF Runtime, StartRuntime, PeriodicMarks, MarkRaises, Stop, StopFailing, RuntimeFinally,
              Forget, WorkerCrash, feed
<1>4. ASSUME NEW r \in Reconcilers, Collect(r) \/ ApplyUnheard(r) \/ Fail(r) PROVE queue' = queue
  BY <1>4 DEF Collect, ReadAccount, ReadPositions, ReadOrders, Apply, ApplyUnheard, Fail, feed
<1>5. CASE ApiCrash \/ Deletes \/ Tick \/ UNCHANGED vars \/ \E c \in Closers : CloseBegins(c)
  BY <1>5 DEF ApiCrash, Deletes, Purge, PurgeMisses, PurgeMissesUpdate, Tick, vars, CloseBegins, feed
<1>6. ASSUME NEW o \in Orders PROVE ~OrderArrives(o) /\ ~OrderEnds(o)
  BY <1>1 DEF OrderArrives, OrderEnds
<1>7. CASE Alpaca
  BY <1>6, <1>7 DEF Alpaca, PositionCloses, AccountBlocked, LinkUp, LinkDrops, feed
<1> QED
  BY <1>2, <1>3, <1>4, <1>5, <1>7 DEF Next, Deletes

LEMMA QueueMetStays ==
    ASSUME IInv, [Next]_vars, UNCHANGED truth, QueueMet
    PROVE  QueueMet'
<1>1. queue \in Seq(Updates) /\ Shown' = Shown
  BY SameTruth DEF IInv, Feed
<1>2. CASE queue' = queue
  BY <1>1, <1>2 DEF QueueMet
<1>3. CASE queue' = <<>>
  BY <1>3 DEF QueueMet
<1>4. CASE queue # <<>> /\ queue' = Tail(queue)
  <2>1. /\ Len(queue') = Len(queue) - 1
        /\ \A n \in 1 .. Len(queue') : queue'[n] = queue[n + 1] /\ n + 1 \in 1 .. Len(queue)
    BY <1>1, <1>4
  <2> QED
    BY <1>1, <2>1 DEF QueueMet
<1> QED
  BY <1>2, <1>3, <1>4, QueueShrinks

LEMMA ApplyMeets ==
    ASSUME UNCHANGED truth, NEW r \in Reconcilers, Met(r), Written(r)
    PROVE  Converged'
<1>1. snap[r].account = Reading /\ snap[r].positions = held /\ snap[r].orders = Shown
  BY DEF Met, Written, Apply, ApplyUnheard
<1>2. orders' = Shown' /\ positions' = held' /\ account' = Reading'
  BY <1>1, SameTruth DEF Written, Apply, ApplyUnheard, Replace
<1> QED
  BY <1>2 DEF Converged, Reading

(* Of what is under way, only a snapshot and an update reach the tables. *)
LEMMA AgreementStays ==
    ASSUME IInv, [Next]_vars, UNCHANGED truth, Agreed, account' # "absent"
    PROVE  Converged'
<1>1. Shown' = Shown /\ held' = held /\ Reading' = Reading
  BY SameTruth
<1>2. Shown \in [Orders -> Statuses]
  BY ShownTyped DEF IInv
<1>3. orders = Shown /\ positions = held /\ account = Reading
  BY DEF Agreed, Converged, Reading
<1>4. ASSUME orders' = orders, positions' = positions, account' = account PROVE Converged'
  BY <1>1, <1>3, <1>4 DEF Converged, Reading
<1>5. CASE UNCHANGED rows
  BY <1>4, <1>5 DEF rows
<1>6. ASSUME NEW r \in Reconcilers, Collect(r) \/ ApplyUnheard(r) \/ Fail(r) PROVE Converged'
  <2>1. CASE Written(r)
    BY <2>1, ApplyMeets DEF Agreed
  <2> QED
    BY <1>5, <1>6, <2>1 DEF Collect, Written, ReadAccount, ReadPositions, ReadOrders, Fail
<1>7. ASSUME queue # <<>>, Upsert(Head(queue)), UNCHANGED <<positions, account>> PROVE Converged'
  <2>1. queue \in Seq(Updates)
    BY DEF IInv, Feed
  <2>2. Head(queue) = queue[1] /\ 1 \in 1 .. Len(queue) /\ queue[1] \in Updates
    BY <1>7, <2>1
  <2>3. orders' = [orders EXCEPT ![queue[1].order] = queue[1].status]
    BY <1>7, <2>2 DEF Upsert
  <2>4. queue[1].status = Shown[queue[1].order]
    BY <2>2 DEF Agreed, QueueMet
  <2>5. orders' = orders
    BY <1>2, <1>3, <2>3, <2>4
  <2> QED
    BY <1>4, <1>7, <2>5
<1>8. CASE Consumer
  <2>1. CASE ApplyUpdate \/ UpdateFails
    BY <1>4, <1>7, <2>1 DEF ApplyUpdate, UpdateFails
  <2> QED
    BY <1>5, <1>8, <2>1 DEF Consumer, Connect, ConnectFails, Disconnects, MarksUnknown,
                            ConsumerFinally, SupervisorMarks
<1>9. CASE Runtime
  BY <1>5, <1>9 DEF Runtime, StartRuntime, PeriodicMarks, MarkRaises, Stop, StopFailing,
                    RuntimeFinally, Forget, WorkerCrash
<1>10. CASE ApiCrash \/ Tick \/ UNCHANGED vars \/ \E c \in Closers : CloseBegins(c)
  BY <1>5, <1>10 DEF ApiCrash, Tick, vars, CloseBegins, rows
<1>11. ~Purge /\ ~PurgeMissesUpdate
  BY DEF Purge, PurgeMissesUpdate
<1>12. ASSUME NEW r \in Reconcilers, PurgeMisses(r) PROVE Converged'
  <2>1. account' = snap[r].account /\ positions' = snap[r].positions /\ orders' = snap[r].orders
    BY <1>12 DEF PurgeMisses
  <2>2. snap[r].account = Reading /\ snap[r].positions = held /\ snap[r].orders = Shown
    BY <1>12 DEF Agreed, Met, PurgeMisses
  <2> QED
    BY <1>3, <1>4, <2>1, <2>2
<1>13. CASE Alpaca
  BY <1>5, <1>13 DEF Alpaca, OrderArrives, OrderEnds, PositionCloses, AccountBlocked, LinkUp,
                     LinkDrops
<1> QED
  BY <1>6, <1>8, <1>9, <1>10, <1>11, <1>12, <1>13 DEF Next

(* A quiet broker is caught up with: staleness is used up, never made anew. *)
THEOREM CatchesUp == Spec => QuietCatchesUp
<1>1. ASSUME IInv, [Next]_vars PROVE Catching
  <2> SUFFICES ASSUME UNCHANGED truth
               PROVE  /\ \A r \in Reconcilers : Met(r) => Met(r)'
                      /\ QueueMet => QueueMet'
                      /\ \A r \in Reconcilers : Met(r) /\ Written(r) => Converged'
                      /\ Agreed /\ account' # "absent" => Agreed'
    BY DEF Catching
  <2>1. \A r \in Reconcilers : Met(r) => Met(r)'
    BY <1>1, MetStays
  <2>2. QueueMet => QueueMet'
    BY <1>1, QueueMetStays
  <2>3. \A r \in Reconcilers : Met(r) /\ Written(r) => Converged'
    BY ApplyMeets
  <2>4. Agreed /\ account' # "absent" => Agreed'
    BY <1>1, <2>1, <2>2, AgreementStays DEF Agreed
  <2> QED
    BY <2>1, <2>2, <2>3, <2>4
<1>2. IInv /\ [Next]_vars => [Catching]_vars
  BY <1>1
<1> QED
  BY <1>2, Invariance, PTL DEF Spec, QuietCatchesUp

-----------------------------------------------------------------------------
(* Refinement: the runtime lives as RuntimeLife says.                        *)

Life == INSTANCE RuntimeLife WITH stage <- runtime

(* A reconciler brings the runtime on only when it is the runtime's own. *)
LEMMA LifeStep == IInv /\ [Next]_vars => [Life!Next]_runtime
<1> SUFFICES ASSUME IInv, [Next]_vars PROVE Life!Next \/ runtime' = runtime
  OBVIOUS
<1> USE DEF Life!Next
<1>1. ASSUME NEW r \in Reconcilers, Written(r) \/ PurgeMisses(r) \/ Fail(r)
      PROVE  Life!Reconciles \/ runtime' = runtime
  <2>1. snap[r].pc # "idle" /\ (AfterSuccess(r) \/ AfterFailure(r))
    BY <1>1 DEF Written, Apply, ApplyUnheard, PurgeMisses, Fail
  <2>2. CASE r = "runtime"
    <3>1. runtime = "initial"
      BY <2>1, <2>2 DEF IInv, Ownership
    <3>2. runtime' \in {"running", "failing"}
      BY <2>1, <2>2 DEF AfterSuccess, AfterFailure
    <3> QED
      BY <3>1, <3>2 DEF Life!Reconciles
  <2>3. CASE r # "runtime"
    BY <2>1, <2>3 DEF AfterSuccess, AfterFailure, tasks
  <2> QED
    BY <2>2, <2>3
<1>2. ASSUME NEW r \in Reconcilers, ReadAccount(r) \/ ReadPositions(r) \/ ReadOrders(r)
      PROVE  runtime' = runtime
  BY <1>2 DEF ReadAccount, ReadPositions, ReadOrders, tasks
<1>3. CASE Consumer
  BY <1>3 DEF Consumer, Connect, ConnectFails, ApplyUpdate, UpdateFails, Disconnects,
              MarksUnknown, ConsumerFinally, SupervisorMarks, tasks
<1>4. CASE Runtime
  <2>1. StartRuntime => Life!Begins
    BY DEF StartRuntime, Life!Begins
  <2>2. Stop => Life!Cancelled
    BY DEF Stop, Life!Cancelled
  <2>3. StopFailing => Life!Cancelled \/ Life!Gone
    BY DEF StopFailing, Life!Cancelled, Life!Gone
  <2>4. RuntimeFinally => Life!FailsForGood \/ Life!Gone
    BY DEF RuntimeFinally, Life!FailsForGood, Life!Gone
  <2>5. Forget \/ WorkerCrash => Life!Gone
    BY DEF Forget, WorkerCrash, Life!Gone
  <2>6. PeriodicMarks => runtime' = runtime
    BY DEF PeriodicMarks, tasks
  <2>7. MarkRaises => Life!Begins \/ runtime' = runtime
    BY DEF MarkRaises, Life!Begins, tasks
  <2> QED
    BY <1>4, <2>1, <2>2, <2>3, <2>4, <2>5, <2>6, <2>7 DEF Runtime
<1>5. CASE ApiCrash \/ Purge \/ PurgeMissesUpdate \/ Tick \/ UNCHANGED vars
              \/ \E c \in Closers : CloseBegins(c)
  BY <1>5 DEF ApiCrash, Purge, PurgeMissesUpdate, Tick, vars, CloseBegins, tasks
<1>6. CASE Alpaca
  BY <1>6 DEF Alpaca, OrderArrives, OrderEnds, PositionCloses, AccountBlocked, LinkUp,
              LinkDrops, tasks
<1> QED
  BY <1>1, <1>2, <1>3, <1>4, <1>5, <1>6 DEF Next, Collect, Written

(* Whatever its tasks, its failures and its cancellation interleave to, the
   runtime that keeps the projection begins, fails and ends as RuntimeLife
   says, the same life that WorkspaceLifecycle gives each workspace.          *)
THEOREM RuntimeLives == Spec => Life!Spec
<1>1. Init => Life!Init
  BY DEF Init, Life!Init
<1> QED
  BY <1>1, LifeStep, Invariance, PTL DEF Spec, Life!Spec

=============================================================================
