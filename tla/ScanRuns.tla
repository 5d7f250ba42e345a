------------------------------ MODULE ScanRuns ------------------------------
(***************************************************************************)
(* Scan runs of one workspace: an operator scans its watchlist by hand     *)
(* (apps/api/routes/desk.py) while the worker scans it on schedule         *)
(* (apps/worker/__main__.py); both open a run, analyse symbol by symbol,   *)
(* each result a transaction of its own, and close the run with its counts *)
(* (packages/connected/opportunities.py).  Processes die and commits stay  *)
(* unheard in between.  What one analysis decides is module TradeAnalysis. *)
(*                                                                         *)
(* The symbols of a list are interchangeable, so that a list is its length *)
(* and the results of a run are their number.                              *)
(***************************************************************************)
EXTENDS Naturals, FiniteSets

CONSTANTS
    MaxRuns,          \* bound: the scan runs ever started
    Manual,           \* POST /scanner/scan calls in flight
    Worker,           \* the worker's scanner task
    WatchlistLimit    \* 25 in the code

ASSUME ScanAssumption ==
    /\ Worker \notin Manual
    /\ MaxRuns \in Nat
    /\ WatchlistLimit \in Nat

Jobs == Manual \cup {Worker}
Runs == 1 .. MaxRuns
NoRun == 0

VARIABLES
    runs,             \* [Runs -> connected_scan_runs row]
    stored,           \* [Runs -> Nat], the opportunities with this scan_run_id
    loose,            \* whether there is an opportunity outside any run
    job,              \* [Jobs -> [pc, run, todo, done, failed]]
    interrupted       \* history: runs whose job died, or was not told that it
                      \* had opened them, or could not close them

scanVars == <<runs, stored, loose, job, interrupted>>

NoRow == [state |-> "none", attempted |-> 0, completed |-> 0, failed |-> 0]
Idle  == [pc |-> "idle", run |-> NoRun, todo |-> 0, done |-> 0, failed |-> 0]

ScanInit ==
    /\ runs = [r \in Runs |-> NoRow]
    /\ stored = [r \in Runs |-> 0]
    /\ loose = FALSE
    /\ job = [j \in Jobs |-> Idle]
    /\ interrupted = {}

At(j, pc) == job[j].pc = pc
-----------------------------------------------------------------------------

(* PUT /watchlist replaces the whole list in one transaction, at any time, so
   that a scan finds any list the route accepts.                             *)
Watchlists == 0 .. WatchlistLimit

(* Both scans read the watchlist and reveal the credential, the worker for an
   ACTIVE workspace with the scanner on, in market hours, when five minutes
   have passed since its last scan.  The timer is left to chance, and a scan
   that finds no credential does not begin.                                  *)
BeginScan(j) ==
    /\ At(j, "idle")
    /\ \E n \in Watchlists : job' = [job EXCEPT ![j].pc = "starting", ![j].todo = n]
    /\ UNCHANGED <<runs, stored, loose, interrupted>>

(* A mistake for StartScanRun: a scan joins the run that is open. *)
JoinScanRun(j) ==
    /\ At(j, "starting")
    /\ \E r \in Runs :
          /\ runs[r].state # "complete"
          /\ \A q \in 1 .. r - 1 : runs[q].state = "complete"
          /\ runs' = [runs EXCEPT ![r] = [NoRow EXCEPT !.state = "open",
                                                       !.attempted = job[j].todo]]
          /\ job' = [job EXCEPT ![j].pc = "scanning", ![j].run = r]
    /\ UNCHANGED <<stored, loose, interrupted>>

(* The row of a new run is committed. *)
Open(j, r) ==
    /\ runs[r].state = "none"
    /\ \A q \in 1 .. r - 1 : runs[q].state # "none"
    /\ runs' = [runs EXCEPT ![r] = [NoRow EXCEPT !.state = "open",
                                                 !.attempted = job[j].todo]]

StartScanRun(j) ==
    /\ At(j, "starting")
    /\ \E r \in Runs :
          Open(j, r) /\ job' = [job EXCEPT ![j].pc = "scanning", ![j].run = r]
    /\ UNCHANGED <<stored, loose, interrupted>>

(* The transaction of start_scan_run fails: nothing is stored, or its commit is
   not heard and leaves a run nobody works on.  The request ends, or the worker
   is started again.                                                         *)
StartFails(j) ==
    /\ At(j, "starting")
    /\ \/ UNCHANGED <<runs, interrupted>>
       \/ \E r \in Runs : Open(j, r) /\ interrupted' = interrupted \cup {r}
    /\ job' = [job EXCEPT ![j] = Idle]
    /\ UNCHANGED <<stored, loose>>

Store(r) == stored' = [stored EXCEPT ![r] = @ + 1]

(* A mistake for AnalyzeNext: every symbol is counted as completed. *)
CountAll(j) ==
    /\ At(j, "scanning")
    /\ job[j].todo > 0
    /\ Store(job[j].run) \/ UNCHANGED stored
    /\ job' = [job EXCEPT ![j].todo = @ - 1, ![j].done = @ + 1]
    /\ UNCHANGED <<runs, loose, interrupted>>

(* The next symbol: its result is stored, or nothing is (no data, no commit),
   or it is stored and nobody hears of it, which counts as a failure.        *)
AnalyzeNext(j) ==
    /\ At(j, "scanning")
    /\ job[j].todo > 0
    /\ \/ /\ Store(job[j].run)
          /\ job' = [job EXCEPT ![j].todo = @ - 1, ![j].done = @ + 1]
       \/ /\ Store(job[j].run) \/ UNCHANGED stored
          /\ job' = [job EXCEPT ![j].todo = @ - 1, ![j].failed = @ + 1]
    /\ UNCHANGED <<runs, loose, interrupted>>

Close(j) ==
    runs' = [runs EXCEPT ![job[j].run].state = "complete",
                         ![job[j].run].completed = job[j].done,
                         ![job[j].run].failed = job[j].failed]

CompleteScanRun(j) ==
    /\ At(j, "scanning")
    /\ job[j].todo = 0
    /\ Close(j)
    /\ job' = [job EXCEPT ![j] = Idle]
    /\ UNCHANGED <<stored, loose, interrupted>>

(* An error of the closing transaction, committed or not, ends the request, and
   the worker, which is started again.                                       *)
CompletionFails(j) ==
    /\ At(j, "scanning")
    /\ job[j].todo = 0
    /\ \/ Close(j) /\ UNCHANGED interrupted
       \/ UNCHANGED runs /\ interrupted' = interrupted \cup {job[j].run}
    /\ job' = [job EXCEPT ![j] = Idle]
    /\ UNCHANGED <<stored, loose>>

(* POST /opportunities/analyze/{symbol} stores a result outside any run. *)
AnalyzeSymbol ==
    /\ loose' = TRUE
    /\ UNCHANGED <<runs, stored, job, interrupted>>

(* A process dies, and starts again; last_scans, a dict of the worker, starts
   empty, so that it may scan again at once.                                 *)
Die(dead) ==
    /\ interrupted' = interrupted \cup {job[j].run : j \in {k \in dead : At(k, "scanning")}}
    /\ job' = [j \in Jobs |-> IF j \in dead THEN Idle ELSE job[j]]
    /\ UNCHANGED <<runs, stored, loose>>
-----------------------------------------------------------------------------

Work(j) ==
    \/ StartScanRun(j) \/ StartFails(j) \/ AnalyzeNext(j)
    \/ CompleteScanRun(j) \/ CompletionFails(j)

ScanNext ==
    \/ AnalyzeSymbol \/ Die({Worker})
    \/ \E j \in Jobs : BeginScan(j) \/ Work(j)

ScanTypeOK ==
    /\ runs \in [Runs -> [state : {"none", "open", "complete"},
                          attempted : Nat, completed : Nat, failed : Nat]]
    /\ stored \in [Runs -> Nat]
    /\ loose \in BOOLEAN
    /\ job \in [Jobs -> [pc : {"idle", "starting", "scanning"}, run : Runs \cup {NoRun},
                         todo : Nat, done : Nat, failed : Nat]]
    /\ interrupted \subseteq Runs

(* A completed run accounts for each symbol it attempted, once, whatever ran
   beside it: what it counts as completed is stored, what is stored beyond that
   was counted as failed.                                                    *)
RunsAddUp ==
    \A r \in Runs :
        /\ stored[r] <= runs[r].attempted
        /\ runs[r].state = "complete" =>
              /\ runs[r].completed + runs[r].failed = runs[r].attempted
              /\ runs[r].completed <= stored[r]

(* A run without completed_at is being worked on by one job, or its job died or
   lost the transaction that opened or should have closed it: nothing else leaves
   a run open, no two jobs share one, and only an open run is worked on.      *)
OpenRunsAreWorkedOn ==
    \A r \in Runs :
        LET working == {j \in Jobs : job[j].run = r}
        IN  /\ runs[r].state = "open" => r \in interrupted \/ working # {}
            /\ working # {} => runs[r].state = "open" /\ Cardinality(working) = 1

(* A run keeps what it attempted and gains results only while it is open; once
   complete it never changes.                                                 *)
RunStands(r) ==
    /\ runs[r].state # "none" =>
           runs'[r].state # "none" /\ runs'[r].attempted = runs[r].attempted
    /\ runs[r].state # "open" => stored'[r] = stored[r]
    /\ runs[r].state = "complete" => runs'[r] = runs[r]

=============================================================================
