------------------------- MODULE ResearchDeskProofs -------------------------
(***************************************************************************)
(* Theorems of ResearchDesk for any number of runs, manual scans, reviews  *)
(* and any limit of the watchlist.  The key of the scans is that a run     *)
(* belongs to the one job that started it, whose counters tell what was    *)
(* attempted and stored; the key of the reviews is that only accepted      *)
(* reports are kept.                                                       *)
(***************************************************************************)
EXTENDS ResearchDesk, FiniteSetTheorems, TLAPS

(* A job that scans owns its run and has counted every symbol of it. *)
Ownership ==
    /\ \A j \in Jobs :
           IF job[j].pc = "scanning"
           THEN LET r == job[j].run
                IN  /\ r \in Runs
                    /\ runs[r].state = "open"
                    /\ runs[r].attempted = job[j].todo + job[j].done + job[j].failed
                    /\ job[j].done <= stored[r]
                    /\ stored[r] <= job[j].done + job[j].failed
           ELSE job[j].run = NoRun /\ job[j].done = 0 /\ job[j].failed = 0
    /\ \A j, k \in Jobs :
           job[j].pc = "scanning" /\ job[k].pc = "scanning" /\ job[j].run = job[k].run => j = k

(* What a row says once nobody works on it. *)
Accounts ==
    \A r \in Runs :
        /\ runs[r].state = "none" => stored[r] = 0
        /\ stored[r] <= runs[r].attempted
        /\ runs[r].state = "complete" =>
               /\ runs[r].completed + runs[r].failed = runs[r].attempted
               /\ runs[r].completed <= stored[r]
        /\ runs[r].state = "open" =>
               r \in interrupted \/ \E j \in Jobs : job[j].pc = "scanning" /\ job[j].run = r

ScanInv == ScanTypeOK /\ Ownership /\ Accounts

-----------------------------------------------------------------------------
(* Scans.                                                                    *)

LEMMA RunsAreNumbers == Runs \subseteq Nat /\ NoRun \notin Runs
BY ScanAssumption DEF Runs, NoRun

LEMMA ScanInitInv == ScanInit => ScanInv
<1> SUFFICES ASSUME ScanInit PROVE ScanInv
  OBVIOUS
<1>1. ScanTypeOK
  BY DEF ScanInit, ScanTypeOK, NoRow, Idle
<1>2. Ownership
  BY DEF ScanInit, Ownership, Idle
<1>3. Accounts
  BY DEF ScanInit, Accounts, NoRow
<1> QED
  BY <1>1, <1>2, <1>3 DEF ScanInv

JobRecord == [pc : {"idle", "starting", "scanning"}, run : Runs \cup {NoRun},
              todo : Nat, done : Nat, failed : Nat]
RunRecord == [state : {"none", "open", "complete"}, attempted : Nat, completed : Nat, failed : Nat]

LEMMA BeginStep == ASSUME NEW j \in Jobs, ScanInv, BeginScan(j) PROVE ScanInv'
<1>1. PICK n \in Watchlists : job' = [job EXCEPT ![j].pc = "starting", ![j].todo = n]
  BY DEF BeginScan
<1>2. /\ job \in [Jobs -> JobRecord]
      /\ job[j].pc = "idle"
      /\ n \in Nat
      /\ UNCHANGED <<runs, stored, loose, interrupted>>
  BY ScanAssumption DEF BeginScan, At, ScanInv, ScanTypeOK, JobRecord, Watchlists
<1>a. job[j] \in JobRecord
  BY <1>2
<1>b. job'[j] = [pc |-> "starting", run |-> job[j].run, todo |-> n,
                 done |-> job[j].done, failed |-> job[j].failed]
  <2>1. [job[j] EXCEPT !.pc = "starting"]
           = [pc |-> "starting", run |-> job[j].run, todo |-> job[j].todo,
              done |-> job[j].done, failed |-> job[j].failed]
    BY <1>a DEF JobRecord
  <2>2. job'[j] = [[job[j] EXCEPT !.pc = "starting"] EXCEPT !.todo = n]
    BY <1>1, <1>2
  <2> QED
    BY <2>1, <2>2
<1>3. /\ job'[j].pc = "starting" /\ job'[j].run = job[j].run
      /\ job'[j].done = job[j].done /\ job'[j].failed = job[j].failed
      /\ \A k \in Jobs \ {j} : job'[k] = job[k]
      /\ job' \in [Jobs -> JobRecord]
  <2>1. \A k \in Jobs \ {j} : job'[k] = job[k]
    BY <1>1, <1>2
  <2>2. job'[j] \in JobRecord
    BY <1>2, <1>a, <1>b DEF JobRecord
  <2>3. job' = [k \in Jobs |-> job'[k]]
    BY <1>1, <1>2
  <2> QED
    BY <1>2, <1>b, <2>1, <2>2, <2>3
<1>4. ScanTypeOK'
  BY <1>2, <1>3 DEF ScanInv, ScanTypeOK, JobRecord
<1>5. Ownership'
  BY <1>2, <1>3 DEF ScanInv, Ownership
<1>6. Accounts'
  BY <1>2, <1>3 DEF ScanInv, Accounts
<1> QED
  BY <1>4, <1>5, <1>6 DEF ScanInv

LEMMA StartStep == ASSUME NEW j \in Jobs, ScanInv, StartScanRun(j) PROVE ScanInv'
<1>1. PICK r \in Runs :
          /\ runs[r].state = "none"
          /\ runs' = [runs EXCEPT ![r] = [NoRow EXCEPT !.state = "open",
                                                       !.attempted = job[j].todo]]
          /\ job' = [job EXCEPT ![j].pc = "scanning", ![j].run = r]
  BY DEF StartScanRun, Open
<1>2. /\ job \in [Jobs -> JobRecord] /\ runs \in [Runs -> RunRecord]
      /\ job[j].pc = "starting" /\ job[j].done = 0 /\ job[j].failed = 0
      /\ UNCHANGED <<stored, loose, interrupted>>
  BY DEF StartScanRun, At, ScanInv, ScanTypeOK, JobRecord, RunRecord, Ownership
<1>3. /\ job'[j].pc = "scanning" /\ job'[j].run = r /\ job'[j].todo = job[j].todo
      /\ job'[j].done = 0 /\ job'[j].failed = 0
      /\ \A k \in Jobs \ {j} : job'[k] = job[k]
      /\ job' \in [Jobs -> JobRecord]
  <2>1. job'[j] = [pc |-> "scanning", run |-> r, todo |-> job[j].todo,
                   done |-> job[j].done, failed |-> job[j].failed]
    <3>1. [job[j] EXCEPT !.pc = "scanning"]
             = [pc |-> "scanning", run |-> job[j].run, todo |-> job[j].todo,
                done |-> job[j].done, failed |-> job[j].failed]
      BY <1>2 DEF JobRecord
    <3>2. job'[j] = [[job[j] EXCEPT !.pc = "scanning"] EXCEPT !.run = r]
      BY <1>1, <1>2
    <3> QED
      BY <3>1, <3>2
  <2>2. \A k \in Jobs \ {j} : job'[k] = job[k]
    BY <1>1, <1>2
  <2>3. job'[j] \in JobRecord
    BY <1>2, <2>1 DEF JobRecord
  <2>4. job' = [k \in Jobs |-> job'[k]]
    BY <1>1, <1>2
  <2> QED
    BY <1>2, <2>1, <2>2, <2>3, <2>4
<1>4. /\ runs'[r].state = "open" /\ runs'[r].attempted = job[j].todo
      /\ \A q \in Runs \ {r} : runs'[q] = runs[q]
      /\ runs' \in [Runs -> RunRecord]
  BY <1>1, <1>2 DEF NoRow, RunRecord, JobRecord
<1>5. stored[r] = 0 /\ job[j].todo \in Nat
  BY <1>1, <1>2 DEF ScanInv, Accounts, JobRecord
<1>6. ScanTypeOK'
  BY <1>2, <1>3, <1>4 DEF ScanInv, ScanTypeOK, JobRecord, RunRecord
<1>7. Ownership'
  <2>1. \A k \in Jobs \ {j} : job[k].pc = "scanning" => job[k].run # r
    BY <1>1 DEF ScanInv, Ownership
  <2> QED
    BY <1>2, <1>3, <1>4, <1>5, <2>1 DEF ScanInv, Ownership
<1>8. Accounts'
  <2>1. ASSUME NEW q \in Runs \ {r}, runs[q].state = "open"
        PROVE  q \in interrupted \/ \E k \in Jobs : job'[k].pc = "scanning" /\ job'[k].run = q
    BY <1>2, <1>3, <2>1 DEF ScanInv, Accounts
  <2> QED
    BY <1>2, <1>3, <1>4, <1>5, <2>1 DEF ScanInv, Accounts
<1> QED
  BY <1>6, <1>7, <1>8 DEF ScanInv

LEMMA AnalyzeStep == ASSUME NEW j \in Jobs, ScanInv, AnalyzeNext(j) PROVE ScanInv'
<1> DEFINE r == job[j].run
<1>1. /\ job \in [Jobs -> JobRecord] /\ stored \in [Runs -> Nat]
      /\ job[j].pc = "scanning" /\ job[j].todo > 0
      /\ r \in Runs /\ runs[r].state = "open"
      /\ runs[r].attempted = job[j].todo + job[j].done + job[j].failed
      /\ job[j].done <= stored[r] /\ stored[r] <= job[j].done + job[j].failed
      /\ job[j].todo \in Nat /\ job[j].done \in Nat /\ job[j].failed \in Nat
      /\ UNCHANGED <<runs, loose, interrupted>>
  BY DEF AnalyzeNext, At, ScanInv, ScanTypeOK, JobRecord, Ownership
<1>2. /\ job'[j].pc = "scanning" /\ job'[j].run = r /\ job'[j].todo = job[j].todo - 1
      /\ \A k \in Jobs \ {j} : job'[k] = job[k]
      /\ job' \in [Jobs -> JobRecord]
      /\ \/ /\ job'[j].done = job[j].done + 1 /\ job'[j].failed = job[j].failed
            /\ Store(r)
         \/ /\ job'[j].done = job[j].done /\ job'[j].failed = job[j].failed + 1
            /\ Store(r) \/ UNCHANGED stored
  BY <1>1 DEF AnalyzeNext, JobRecord
<1> HIDE DEF r
<1>3. /\ stored' \in [Runs -> Nat]
      /\ \A q \in Runs \ {r} : stored'[q] = stored[q]
      /\ stored'[r] = stored[r] \/ stored'[r] = stored[r] + 1
      /\ job'[j].done <= stored'[r] /\ stored'[r] <= job'[j].done + job'[j].failed
  BY <1>1, <1>2 DEF Store
<1>4. ScanTypeOK'
  BY <1>1, <1>2, <1>3 DEF ScanInv, ScanTypeOK, JobRecord
<1>5. Ownership'
  <2>0. r = job[j].run
    BY DEF r
  <2>1. \A k \in Jobs \ {j} : job[k].pc = "scanning" => job[k].run # r
    BY <1>1, <2>0 DEF ScanInv, Ownership
  <2>2. job'[j].todo + job'[j].done + job'[j].failed = runs'[r].attempted
    BY <1>1, <1>2, <2>0
  <2> QED
    BY <1>1, <1>2, <1>3, <2>1, <2>2 DEF ScanInv, Ownership
<1>6. Accounts'
  <2>0. r = job[j].run
    BY DEF r
  <2>1. stored'[r] <= runs[r].attempted
    BY <1>1, <1>2, <1>3, <2>0
  <2>2. ASSUME NEW q \in Runs, runs[q].state = "open"
        PROVE  q \in interrupted \/ \E k \in Jobs : job'[k].pc = "scanning" /\ job'[k].run = q
    BY <1>1, <1>2, <2>0, <2>2 DEF ScanInv, Accounts
  <2> QED
    BY <1>1, <1>3, <2>0, <2>1, <2>2 DEF ScanInv, Accounts
<1> QED
  BY <1>4, <1>5, <1>6 DEF ScanInv

(* What is left when a job has given up its run. *)
LEMMA ReleaseStep ==
    ASSUME ScanInv, NEW dead \in SUBSET Jobs,
           job' = [j \in Jobs |-> IF j \in dead THEN Idle ELSE job[j]],
           runs' \in [Runs -> RunRecord],
           interrupted' \subseteq Runs,
           interrupted \subseteq interrupted',
           UNCHANGED <<stored, loose>>,
           \A q \in Runs :
               \/ /\ runs'[q] = runs[q]
                  /\ \A j \in dead : job[j].pc = "scanning" /\ job[j].run = q => q \in interrupted'
               \/ /\ \E j \in dead : job[j].pc = "scanning" /\ job[j].run = q
                  /\ runs'[q].state = "complete"
                  /\ runs'[q].attempted = runs[q].attempted
                  /\ runs'[q].completed + runs'[q].failed = runs[q].attempted
                  /\ runs'[q].completed <= stored[q]
    PROVE  ScanInv'
<1>1. /\ \A j \in dead : job'[j] = Idle
      /\ \A j \in Jobs \ dead : job'[j] = job[j]
  OBVIOUS
<1>2. Idle.pc = "idle" /\ Idle.run = NoRun /\ Idle.done = 0 /\ Idle.failed = 0 /\ Idle \in JobRecord
  BY DEF Idle, JobRecord
<1>3. ScanTypeOK'
  BY <1>2 DEF ScanInv, ScanTypeOK, JobRecord, RunRecord
<1>4. Ownership'
  <2>1. ASSUME NEW j \in Jobs \ dead, job[j].pc = "scanning"
        PROVE  runs'[job[j].run] = runs[job[j].run]
    BY <2>1 DEF ScanInv, Ownership
  <2> QED
    BY <1>1, <1>2, <2>1 DEF ScanInv, Ownership
<1>5. Accounts'
  <2>1. ASSUME NEW q \in Runs, runs'[q].state = "open"
        PROVE  q \in interrupted' \/ \E j \in Jobs : job'[j].pc = "scanning" /\ job'[j].run = q
    <3>1. runs'[q] = runs[q]
      BY <2>1
    <3>2. q \in interrupted \/ \E j \in Jobs : job[j].pc = "scanning" /\ job[j].run = q
      BY <2>1, <3>1 DEF ScanInv, Accounts
    <3> QED
      BY <1>1, <2>1, <3>2
  <2> QED
    BY <2>1 DEF ScanInv, Accounts
<1> QED
  BY <1>3, <1>4, <1>5 DEF ScanInv

LEMMA CloseStep ==
    ASSUME NEW j \in Jobs, ScanInv, CompleteScanRun(j) \/ CompletionFails(j)
    PROVE  ScanInv'
<1> DEFINE r == job[j].run
<1>0. {j} \in SUBSET Jobs
  OBVIOUS
<1>1. /\ job \in [Jobs -> JobRecord] /\ runs \in [Runs -> RunRecord]
      /\ job[j].pc = "scanning" /\ job[j].todo = 0
      /\ r \in Runs /\ runs[r].state = "open"
      /\ runs[r].attempted = job[j].done + job[j].failed
      /\ job[j].done <= stored[r]
      /\ job[j].done \in Nat /\ job[j].failed \in Nat
      /\ job' = [k \in Jobs |-> IF k \in {j} THEN Idle ELSE job[k]]
      /\ interrupted \subseteq Runs
      /\ UNCHANGED <<stored, loose>>
  BY DEF CompleteScanRun, CompletionFails, At, ScanInv, ScanTypeOK, JobRecord, RunRecord, Ownership
<1>2. CASE Close(j) /\ UNCHANGED interrupted
  <2> DEFINE new == [runs[r] EXCEPT !.state = "complete", !.completed = job[j].done,
                                    !.failed = job[j].failed]
  <2>1. new \in RunRecord /\ new.state = "complete" /\ new.attempted = runs[r].attempted
        /\ new.completed = job[j].done /\ new.failed = job[j].failed
    BY <1>1 DEF RunRecord
  <2>2. runs' = [runs EXCEPT ![r] = new]
    BY <1>1, <1>2 DEF Close, RunRecord
  <2> HIDE DEF new
  <2>3. runs' \in [Runs -> RunRecord] /\ runs'[r] = new /\ \A q \in Runs \ {r} : runs'[q] = runs[q]
    BY <1>1, <2>1, <2>2
  <2>4. /\ runs'[r].completed + runs'[r].failed = runs[r].attempted
        /\ runs'[r].completed <= stored[r]
        /\ runs'[r].state = "complete" /\ runs'[r].attempted = runs[r].attempted
    BY <1>1, <2>1, <2>3
  <2>5. interrupted' \subseteq Runs /\ interrupted \subseteq interrupted'
    BY <1>1, <1>2
  <2> HIDE DEF Close
  <2> QED
    BY <1>0, <1>1, <2>3, <2>4, <2>5, ReleaseStep
<1>3. CASE UNCHANGED runs /\ interrupted' = interrupted \cup {r}
  <2>1. interrupted' \subseteq Runs /\ interrupted \subseteq interrupted'
    BY <1>1, <1>3
  <2>2. \A k \in {j} : job[k].run \in interrupted'
    BY <1>3
  <2> QED
    BY <1>0, <1>1, <1>3, <2>1, <2>2, ReleaseStep
<1> QED
  BY <1>2, <1>3 DEF CompleteScanRun, CompletionFails

LEMMA StartFailsStep == ASSUME NEW j \in Jobs, ScanInv, StartFails(j) PROVE ScanInv'
<1>0. {j} \in SUBSET Jobs
  OBVIOUS
<1>1. /\ job \in [Jobs -> JobRecord] /\ runs \in [Runs -> RunRecord]
      /\ job[j].pc = "starting" /\ job[j].todo \in Nat
      /\ job' = [k \in Jobs |-> IF k \in {j} THEN Idle ELSE job[k]]
      /\ interrupted \subseteq Runs
      /\ UNCHANGED <<stored, loose>>
  BY DEF StartFails, At, ScanInv, ScanTypeOK, JobRecord, RunRecord
<1>2. CASE UNCHANGED <<runs, interrupted>>
  BY <1>0, <1>1, <1>2, ReleaseStep
<1>3. ASSUME NEW r \in Runs, Open(j, r), interrupted' = interrupted \cup {r} PROVE ScanInv'
  <2>1. /\ runs[r].state = "none" /\ stored[r] = 0
        /\ runs'[r].state = "open" /\ runs'[r].attempted = job[j].todo
        /\ \A q \in Runs \ {r} : runs'[q] = runs[q]
        /\ runs' \in [Runs -> RunRecord]
    BY <1>1, <1>3 DEF Open, NoRow, RunRecord, ScanInv, Accounts
  <2>2. /\ Idle.pc = "idle" /\ Idle.run = NoRun /\ Idle.done = 0 /\ Idle.failed = 0
        /\ Idle \in JobRecord
    BY DEF Idle, JobRecord
  <2>3. job'[j] = Idle /\ \A k \in Jobs \ {j} : job'[k] = job[k]
    BY <1>1
  <2>4. ScanTypeOK'
    BY <1>1, <1>3, <2>1, <2>2 DEF ScanInv, ScanTypeOK, JobRecord, RunRecord
  <2>5. Ownership'
    <3>1. \A k \in Jobs : job[k].pc = "scanning" => job[k].run # r
      BY <2>1 DEF ScanInv, Ownership
    <3> QED
      BY <1>1, <2>1, <2>2, <2>3, <3>1 DEF ScanInv, Ownership
  <2>6. Accounts'
    <3>1. ASSUME NEW q \in Runs \ {r}, runs[q].state = "open"
          PROVE  q \in interrupted \/ \E k \in Jobs : job'[k].pc = "scanning" /\ job'[k].run = q
      BY <1>1, <2>3, <3>1 DEF ScanInv, Accounts
    <3> QED
      BY <1>1, <1>3, <2>1, <3>1 DEF ScanInv, Accounts
  <2> QED
    BY <2>4, <2>5, <2>6 DEF ScanInv
<1> QED
  BY <1>2, <1>3 DEF StartFails

LEMMA DieStep == ASSUME NEW dead \in SUBSET Jobs, ScanInv, Die(dead) PROVE ScanInv'
<1>1. /\ interrupted' = interrupted \cup {job[j].run : j \in {k \in dead : job[k].pc = "scanning"}}
      /\ job' = [j \in Jobs |-> IF j \in dead THEN Idle ELSE job[j]]
      /\ UNCHANGED <<runs, stored, loose>>
  BY DEF Die, At
<1>2. interrupted' \subseteq Runs /\ runs \in [Runs -> RunRecord]
  BY <1>1 DEF ScanInv, ScanTypeOK, Ownership, RunRecord
<1> QED
  BY <1>1, <1>2, ReleaseStep

LEMMA ScanStep == ScanInv /\ ScanNext => ScanInv'
<1> SUFFICES ASSUME ScanInv, ScanNext PROVE ScanInv'
  OBVIOUS
<1>1. CASE AnalyzeSymbol
  BY <1>1 DEF AnalyzeSymbol, ScanInv, ScanTypeOK, Ownership, Accounts
<1>2. CASE Die({Worker})
  <2>1. {Worker} \in SUBSET Jobs
    BY DEF Jobs
  <2> QED
    BY <1>2, <2>1, DieStep
<1>3. ASSUME NEW j \in Jobs, BeginScan(j) \/ Work(j) PROVE ScanInv'
  BY <1>3, BeginStep, StartStep, StartFailsStep, AnalyzeStep, CloseStep DEF Work
<1> QED
  BY <1>1, <1>2, <1>3 DEF ScanNext

LEMMA ScanImplies == ScanInv => RunsAddUp /\ OpenRunsAreWorkedOn
<1> SUFFICES ASSUME ScanInv PROVE RunsAddUp /\ OpenRunsAreWorkedOn
  OBVIOUS
<1>1. RunsAddUp
  BY DEF ScanInv, Accounts, RunsAddUp
<1>2. ASSUME NEW r \in Runs, NEW j \in Jobs, job[j].run = r
      PROVE  {k \in Jobs : job[k].run = r} = {j} /\ runs[r].state = "open"
  BY <1>2, RunsAreNumbers DEF ScanInv, Ownership
<1>3. ASSUME NEW r \in Runs
      PROVE  LET working == {j \in Jobs : job[j].run = r}
             IN  /\ runs[r].state = "open" => r \in interrupted \/ working # {}
                 /\ working # {} => runs[r].state = "open" /\ Cardinality(working) = 1
  <2> DEFINE working == {j \in Jobs : job[j].run = r}
  <2>1. runs[r].state = "open" => r \in interrupted \/ working # {}
    BY DEF ScanInv, Accounts
  <2>2. ASSUME working # {} PROVE runs[r].state = "open" /\ Cardinality(working) = 1
    <3>1. PICK j \in Jobs : job[j].run = r
      BY <2>2
    <3>2. working = {j} /\ runs[r].state = "open"
      BY <1>2, <3>1
    <3> QED
      BY <3>2, FS_Singleton
  <2> QED
    BY <2>1, <2>2
<1> QED
  BY <1>1, <1>3 DEF OpenRunsAreWorkedOn

-----------------------------------------------------------------------------
(* Reviews.                                                                  *)

(* The reports that can have been kept after n agents. *)
Cited(n) == [k \in 1 .. n |-> <<Agents[k], "cited">>]

(* What a review may come to: every report cited, or degraded. *)
Sound(x) ==
    \/ x = Degraded
    \/ x.degraded = FALSE /\ x.reports = Cited(3) /\ x.recommendation \in Recommendations

Failed == [NoReview EXCEPT !.pc = "failed"]

ReviewPcs == {"new", "getting", "asking", "saving", "conflict", "answered", "failed"}

ReviewInv ==
    /\ review = [v \in Reviews |-> review[v]]
    /\ onRecord = [v \in Reviews |-> onRecord[v]]
    /\ \A v \in Reviews :
           /\ review[v] = [pc |-> review[v].pc, attempt |-> review[v].attempt,
                           reports |-> review[v].reports, result |-> review[v].result]
           /\ review[v].pc \in ReviewPcs
           /\ review[v].attempt \in 1 .. 2
           /\ \E n \in 0 .. 2 : review[v].reports = Cited(n)
           /\ review[v].result = NoResult \/ Sound(review[v].result)
           /\ review[v].pc = "saving" => Sound(review[v].result)
           /\ review[v].pc = "answered" => onRecord[v] # {}
           /\ review[v].pc = "failed" => review[v] = Failed
           /\ \A x \in onRecord[v] : Sound(x)

(* What ReviewInv says of one review and its record. *)
GoodReview(w, saved) ==
    /\ w = [pc |-> w.pc, attempt |-> w.attempt, reports |-> w.reports, result |-> w.result]
    /\ w.pc \in ReviewPcs
    /\ w.attempt \in 1 .. 2
    /\ \E n \in 0 .. 2 : w.reports = Cited(n)
    /\ w.result = NoResult \/ Sound(w.result)
    /\ w.pc = "saving" => Sound(w.result)
    /\ w.pc = "answered" => saved # {}
    /\ w.pc = "failed" => w = Failed
    /\ \A x \in saved : Sound(x)

LEMMA CitedNothing == Cited(0) = <<>>
BY DEF Cited

LEMMA FreshReview ==
    ASSUME NEW pc \in ReviewPcs \ {"saving"}, NEW saved, pc = "answered" => saved # {},
           \A x \in saved : Sound(x)
    PROVE  GoodReview([NoReview EXCEPT !.pc = pc], saved)
<1>1. [NoReview EXCEPT !.pc = pc] =
          [pc |-> pc, attempt |-> 1, reports |-> <<>>, result |-> NoResult]
  BY DEF NoReview
<1> QED
  BY <1>1, CitedNothing DEF GoodReview, Failed

(* A step that changes one review, and perhaps its record, keeps ReviewInv. *)
LEMMA OneReview ==
    ASSUME ReviewInv, NEW v \in Reviews, NEW w, NEW saved,
           review' = [review EXCEPT ![v] = w],
           onRecord' = [onRecord EXCEPT ![v] = saved],
           GoodReview(w, saved)
    PROVE  ReviewInv'
<1>1. /\ review'[v] = w /\ \A u \in Reviews \ {v} : review'[u] = review[u]
      /\ onRecord'[v] = saved /\ \A u \in Reviews \ {v} : onRecord'[u] = onRecord[u]
      /\ review' = [u \in Reviews |-> review'[u]]
      /\ onRecord' = [u \in Reviews |-> onRecord'[u]]
  BY DEF ReviewInv
<1>2. ASSUME NEW u \in Reviews PROVE GoodReview(review'[u], onRecord'[u])
  <2>1. CASE u = v
    BY <1>1, <2>1
  <2>2. CASE u # v
    BY <1>1, <2>2 DEF ReviewInv, GoodReview
  <2> QED
    BY <2>1, <2>2
<1> QED
  BY <1>1, <1>2 DEF ReviewInv, GoodReview

LEMMA GoodReviews == ASSUME ReviewInv, NEW v \in Reviews PROVE GoodReview(review[v], onRecord[v])
BY DEF ReviewInv, GoodReview

LEMMA SameRecord ==
    ASSUME ReviewInv, NEW v \in Reviews, UNCHANGED onRecord
    PROVE  onRecord' = [onRecord EXCEPT ![v] = onRecord[v]]
BY DEF ReviewInv

LEMMA StepsReview ==
    ASSUME ReviewInv, NEW v \in Reviews, NEW pc \in ReviewPcs \ {"saving", "answered", "failed"}, Step(v, pc),
           UNCHANGED onRecord
    PROVE  ReviewInv'
<1> DEFINE w == [review[v] EXCEPT !.pc = pc]
<1>1. GoodReview(review[v], onRecord[v])
  BY GoodReviews
<1>2. w = [pc |-> pc, attempt |-> review[v].attempt, reports |-> review[v].reports,
           result |-> review[v].result]
  BY <1>1 DEF GoodReview
<1>3. GoodReview(w, onRecord[v])
  BY <1>1, <1>2 DEF GoodReview
<1>4. review' = [review EXCEPT ![v] = w]
  BY DEF Step, ReviewInv
<1> QED
  BY <1>3, <1>4, SameRecord, OneReview

LEMMA GenerateStep ==
    ASSUME ReviewInv, NEW v \in Reviews, NEW reply \in Replies, Generate(v, reply)
    PROVE  ReviewInv'
<1>0. /\ review[v].pc = "asking" /\ UNCHANGED onRecord
      /\ GoodReview(review[v], onRecord[v])
      /\ onRecord' = [onRecord EXCEPT ![v] = onRecord[v]]
  BY GoodReviews, SameRecord DEF Generate, InStage
<1>1. PICK n \in 0 .. 2 : review[v].reports = Cited(n)
  BY <1>0 DEF GoodReview
<1>2. ASSUME NEW x, Sound(x), Finish(v, x) PROVE ReviewInv'
  <2>1. [NoReview EXCEPT !.pc = "saving", !.result = x] =
            [pc |-> "saving", attempt |-> 1, reports |-> <<>>, result |-> x]
    <3> DEFINE saving == [pc |-> "saving", attempt |-> 1, reports |-> <<>>, result |-> NoResult]
    <3>1. [NoReview EXCEPT !.pc = "saving"] = saving
      BY DEF NoReview
    <3>2. [saving EXCEPT !.result = x] =
              [pc |-> "saving", attempt |-> 1, reports |-> <<>>, result |-> x]
      OBVIOUS
    <3> QED
      BY <3>1, <3>2
  <2>2. GoodReview([NoReview EXCEPT !.pc = "saving", !.result = x], onRecord[v])
    <3> DEFINE w == [pc |-> "saving", attempt |-> 1, reports |-> <<>>, result |-> x]
    <3>1. \E k \in 0 .. 2 : w.reports = Cited(k)
      BY CitedNothing
    <3>2. \A y \in onRecord[v] : Sound(y)
      BY <1>0 DEF GoodReview
    <3>3. /\ w = [pc |-> w.pc, attempt |-> w.attempt, reports |-> w.reports, result |-> w.result]
          /\ w.pc = "saving" /\ w.attempt \in 1 .. 2 /\ Sound(w.result)
      BY <1>2
    <3>4. GoodReview(w, onRecord[v])
      BY <3>1, <3>2, <3>3 DEF GoodReview, ReviewPcs
    <3> QED
      BY <2>1, <3>4
  <2> QED
    BY <1>0, <1>2, <2>2, OneReview DEF Finish
<1>3. CASE Accept(v, reply)
  <2> DEFINE kept == Append(review[v].reports, <<Agent(v), reply>>)
  <2>1. reply = "cited" /\ Len(review[v].reports) = n /\ Agent(v) = Agents[n + 1]
    BY <1>1, <1>3 DEF Accept, Accepts, Cited, Agent
  <2>2. kept = Cited(n + 1) /\ Len(kept) = n + 1 /\ Len(Agents) = 3
    BY <1>1, <2>1 DEF Cited, Agents
  <2> HIDE DEF kept
  <2>3. CASE n + 1 < 3 /\ review' = [review EXCEPT ![v].reports = kept, ![v].attempt = 1]
    <3> DEFINE w == [review[v] EXCEPT !.reports = kept, !.attempt = 1]
    <3> DEFINE longer == [pc |-> "asking", attempt |-> review[v].attempt, reports |-> kept,
                          result |-> review[v].result]
    <3>a. [review[v] EXCEPT !.reports = kept] = longer
      BY <1>0 DEF GoodReview
    <3>b. [longer EXCEPT !.attempt = 1] =
              [pc |-> "asking", attempt |-> 1, reports |-> kept, result |-> review[v].result]
      OBVIOUS
    <3>1. w = [pc |-> "asking", attempt |-> 1, reports |-> kept, result |-> review[v].result]
      BY <3>a, <3>b, Zenon
    <3>2. GoodReview(w, onRecord[v])
      BY <1>0, <2>2, <2>3, <3>1 DEF GoodReview
    <3>3. review' = [review EXCEPT ![v] = w]
      <4> DEFINE once == [review EXCEPT ![v] = longer]
      <4>1. once = [review EXCEPT ![v].reports = kept]
        BY <3>a
      <4>2. once[v] = longer
        BY DEF ReviewInv
      <4>3. review' = [once EXCEPT ![v] = [once[v] EXCEPT !.attempt = 1]]
        <5> HIDE DEF longer, once
        <5> QED
          BY <2>3, <4>1
      <4>4. [once[v] EXCEPT !.attempt = 1] = w
        BY <3>b, <3>1, <4>2, Zenon
      <4>5. review' = [once EXCEPT ![v] = w]
        <5> HIDE DEF longer, once, w
        <5> QED
          BY <4>3, <4>4
      <4> HIDE DEF longer, w
      <4> QED
        BY <4>5 DEF ReviewInv
    <3> HIDE DEF longer, w
    <3> QED
      BY <1>0, <3>2, <3>3, OneReview, Zenon
  <2>4. CASE /\ n + 1 = 3
             /\ \E r \in Recommendations :
                   Finish(v, [degraded |-> FALSE, reports |-> kept, recommendation |-> r])
    BY <1>2, <2>2, <2>4 DEF Sound
  <2> QED
    BY <1>3, <2>2, <2>3, <2>4 DEF Accept, kept
<1>4. CASE Repair(v, reply)
  <2>1. CASE review' = [review EXCEPT ![v].attempt = 2]
    <3> DEFINE w == [review[v] EXCEPT !.attempt = 2]
    <3>1. w = [pc |-> "asking", attempt |-> 2, reports |-> review[v].reports,
               result |-> review[v].result]
      BY <1>0 DEF GoodReview
    <3>2. GoodReview(w, onRecord[v])
      BY <1>0, <3>1 DEF GoodReview
    <3>3. review' = [review EXCEPT ![v] = w]
      BY <2>1 DEF ReviewInv
    <3> QED
      BY <1>0, <3>2, <3>3, OneReview
  <2>2. CASE Finish(v, Degraded)
    BY <1>2, <2>2 DEF Sound
  <2> QED
    BY <1>4, <2>1, <2>2 DEF Repair
<1> QED
  BY <1>3, <1>4 DEF Generate

LEMMA SaveStep ==
    ASSUME ReviewInv, NEW v \in Reviews, SaveReview(v) \/ SaveFails(v)
    PROVE  ReviewInv'
<1>1. GoodReview(review[v], onRecord[v]) /\ review[v].pc = "saving"
  BY GoodReviews DEF SaveReview, SaveFails, InStage
<1> DEFINE more == onRecord[v] \cup {review[v].result}
<1>2. more # {} /\ \A x \in more : Sound(x)
  BY <1>1 DEF GoodReview
<1>3. CASE SaveReview(v)
  <2>1. GoodReview([NoReview EXCEPT !.pc = "answered"], more)
    BY <1>2, FreshReview DEF ReviewPcs
  <2>2. /\ review' = [review EXCEPT ![v] = [NoReview EXCEPT !.pc = "answered"]]
        /\ onRecord' = [onRecord EXCEPT ![v] = more]
    BY <1>3 DEF SaveReview, End
  <2> QED
    BY <2>1, <2>2, OneReview
<1>4. CASE SaveFails(v)
  <2>1. PICK saved \in {onRecord[v], more} : onRecord' = [onRecord EXCEPT ![v] = saved]
    BY <1>4, SameRecord DEF SaveFails
  <2>2. GoodReview([NoReview EXCEPT !.pc = "failed"], saved)
    BY <1>1, <1>2, FreshReview DEF ReviewPcs, GoodReview
  <2>3. review' = [review EXCEPT ![v] = [NoReview EXCEPT !.pc = "failed"]]
    BY <1>4 DEF SaveFails, End
  <2> QED
    BY <2>1, <2>2, <2>3, OneReview
<1> QED
  BY <1>3, <1>4

LEMMA ReviewsDieStep == ReviewInv /\ ReviewsDie => ReviewInv'
<1> SUFFICES ASSUME ReviewInv, ReviewsDie PROVE ReviewInv'
  OBVIOUS
<1>1. /\ review' = [v \in Reviews |-> review'[v]]
      /\ onRecord' = onRecord
      /\ \A v \in Reviews : review'[v] \in {review[v], [NoReview EXCEPT !.pc = "failed"]}
  BY DEF ReviewsDie
<1>2. ASSUME NEW v \in Reviews PROVE GoodReview(review'[v], onRecord'[v])
  <2>1. GoodReview(review[v], onRecord[v])
    BY GoodReviews
  <2>2. GoodReview([NoReview EXCEPT !.pc = "failed"], onRecord[v])
    BY <2>1, FreshReview DEF ReviewPcs, GoodReview
  <2> QED
    BY <1>1, <2>1, <2>2
<1> QED
  BY <1>1, <1>2 DEF ReviewInv, GoodReview

LEMMA ProceedStep == ASSUME ReviewInv, NEW v \in Reviews, Proceed(v) PROVE ReviewInv'
<1>1. CASE RevealRouter(v)
  BY <1>1, StepsReview DEF RevealRouter, ReviewPcs
<1> QED
  BY <1>1, GenerateStep, SaveStep DEF Proceed

-----------------------------------------------------------------------------
(* The theorems.                                                             *)

IInv == ScanInv /\ ReviewInv

LEMMA InitInv == Init => IInv
<1>1. ReviewInit => ReviewInv
  <2> SUFFICES ASSUME ReviewInit PROVE ReviewInv
    OBVIOUS
  <2>1. \A v \in Reviews : review[v] = NoReview /\ onRecord[v] = {}
    BY DEF ReviewInit
  <2>2. NoReview.pc = "new" /\ NoReview.attempt = 1 /\ NoReview.reports = <<>>
        /\ NoReview.result = NoResult
    BY DEF NoReview
  <2>3. NoReview = [pc |-> "new", attempt |-> 1, reports |-> <<>>, result |-> NoResult]
    BY DEF NoReview
  <2> QED
    BY <2>1, <2>2, <2>3, CitedNothing DEF ReviewInit, ReviewInv, ReviewPcs
<1> QED
  BY <1>1, ScanInitInv DEF Init, IInv

LEMMA IInvStep == IInv /\ [Next]_researchVars => IInv'
<1> SUFFICES ASSUME IInv, [Next]_researchVars PROVE IInv'
  OBVIOUS
<1>1. UNCHANGED reviewVars => ReviewInv'
  BY DEF IInv, reviewVars, ReviewInv
<1>2. UNCHANGED scanVars => ScanInv'
  BY DEF IInv, scanVars, ScanInv, ScanTypeOK, Ownership, Accounts
<1>3. CASE ScanNext /\ UNCHANGED reviewVars
  BY <1>1, <1>3, ScanStep DEF IInv
<1>4. ASSUME NEW v \in Reviews, ReviewOpportunity(v) \/ (Proceed(v) /\ UNCHANGED scanVars)
      PROVE  IInv'
  <2>1. CASE ReviewOpportunity(v)
    BY <1>2, <2>1, StepsReview DEF ReviewOpportunity, BeginReview, ReviewPcs, IInv
  <2> QED
    BY <1>2, <1>4, <2>1, ProceedStep DEF IInv
<1>5. CASE ApiCrash
  <2>1. Manual \in SUBSET Jobs
    BY DEF Jobs
  <2> QED
    BY <1>5, <2>1, DieStep, ReviewsDieStep DEF ApiCrash, IInv
<1>6. CASE UNCHANGED researchVars
  BY <1>1, <1>2, <1>6 DEF researchVars, scanVars, reviewVars, IInv
<1> QED
  BY <1>3, <1>4, <1>5, <1>6 DEF Next

LEMMA Invariance == Spec => []IInv
BY InitInv, IInvStep, PTL DEF Spec

(* Scan runs, jobs and reviews keep their types. *)
THEOREM TypeCorrect == Spec => []TypeOK
<1>1. IInv => TypeOK
  <2> SUFFICES ASSUME IInv PROVE TypeOK
    OBVIOUS
  <2>1. NoResult.recommendation = "none" /\ Degraded.recommendation \in Recommendations
    BY DEF NoResult, Degraded, Recommendations
  <2>2. ReviewTypeOK
    BY <2>1 DEF IInv, ReviewInv, ReviewTypeOK, ReviewPcs, Sound
  <2> QED
    BY <2>2 DEF IInv, ScanInv, TypeOK
<1> QED
  BY <1>1, Invariance, PTL

(* A completed run accounts for each symbol it attempted, with any number of
   jobs, runs and crashes.                                                   *)
THEOREM Accounted == Spec => []RunsAddUp
<1>1. IInv => RunsAddUp
  BY ScanImplies DEF IInv
<1> QED
  BY <1>1, Invariance, PTL

(* Only a crash, or a failing transaction that opens or closes it, leaves a run
   open that nobody works on, and no two jobs ever work on the same run.      *)
THEOREM OpenRunsOwned == Spec => []OpenRunsAreWorkedOn
<1>1. IInv => OpenRunsAreWorkedOn
  BY ScanImplies DEF IInv
<1> QED
  BY <1>1, Invariance, PTL

(* No saved review rests on a report that cites an unknown source. *)
THEOREM Citations == Spec => []ReviewsAreCited
<1>1. IInv => ReviewsAreCited
  <2> SUFFICES ASSUME IInv, NEW v \in Reviews
               PROVE  /\ InStage(v, "answered") => onRecord[v] # {}
                      /\ \A x \in onRecord[v] :
                            IF x.degraded THEN x = Degraded
                            ELSE x.reports = [n \in 1 .. 3 |-> <<Agents[n], "cited">>]
    BY DEF ReviewsAreCited
  <2>1. Degraded.degraded = TRUE
    BY DEF Degraded
  <2> QED
    BY <2>1 DEF IInv, ReviewInv, Sound, Cited, InStage
<1> QED
  BY <1>1, Invariance, PTL

-----------------------------------------------------------------------------
(* What the steps leave alone, and why scans and reviews run out of steps.   *)

(* The provider calls, and the other steps, a review still has before it. *)
StepsLeft(w) ==
    CASE w.pc = "new"     -> 9
      [] w.pc = "getting" -> 8
      [] w.pc = "asking"  -> 8 - 2 * Len(w.reports) - w.attempt
      [] w.pc = "saving"  -> 1
      [] OTHER            -> 0

Ended == {"conflict", "answered", "failed"}

(* A review that takes a step has fewer before it, and one that ended none. *)
ReviewAdvances(v) ==
    /\ StepsLeft(review[v]) \in 0 .. 9
    /\ review'[v] # review[v] => StepsLeft(review'[v]) < StepsLeft(review[v])

LEMMA StepsLeftOf ==
    ASSUME NEW w, NEW n \in Nat, w.reports = Cited(n), w.pc \in ReviewPcs
    PROVE  /\ w.pc = "new" => StepsLeft(w) = 9
           /\ w.pc = "getting" => StepsLeft(w) = 8
           /\ w.pc = "asking" => StepsLeft(w) = 8 - 2 * n - w.attempt
           /\ w.pc = "saving" => StepsLeft(w) = 1
           /\ w.pc \in Ended => StepsLeft(w) = 0
<1>1. Len(w.reports) = n
  BY DEF Cited
<1> QED
  BY <1>1 DEF StepsLeft, ReviewPcs, Ended

(* A review's steps, by where they begin and where they lead. *)
LEMMA ReviewMoves ==
    ASSUME ReviewInv, NEW v \in Reviews, BeginReview(v) \/ Proceed(v) \/ ReviewsDie
    PROVE  \/ review'[v] = review[v]
           \/ review[v].pc = "new" /\ review'[v].pc = "getting"
           \/ review[v].pc = "getting" /\ review'[v].pc \in {"asking", "conflict"}
                 /\ review'[v].reports = review[v].reports
                 /\ review'[v].attempt = review[v].attempt
           \/ review[v].pc = "asking" /\ review'[v].pc = "asking"
                 /\ \/ /\ Len(review'[v].reports) = Len(review[v].reports) + 1
                       /\ review'[v].attempt = 1
                    \/ /\ review'[v].reports = review[v].reports
                       /\ review[v].attempt = 1 /\ review'[v].attempt = 2
           \/ review[v].pc = "asking" /\ review'[v].pc = "saving"
           \/ review[v].pc \notin Ended \cup {"new"} /\ review'[v].pc \in Ended
<1>1. /\ review[v] = [pc |-> review[v].pc, attempt |-> review[v].attempt,
                      reports |-> review[v].reports, result |-> review[v].result]
      /\ review = [u \in Reviews |-> review[u]]
      /\ review[v].pc \in ReviewPcs
  BY DEF ReviewInv
<1>2. ASSUME NEW pc, Step(v, pc)
      PROVE  /\ review'[v].pc = pc
             /\ review'[v].reports = review[v].reports
             /\ review'[v].attempt = review[v].attempt
  BY <1>1, <1>2 DEF Step
<1>3. ASSUME NEW pc, End(v, pc) PROVE review'[v].pc = pc
  BY <1>1, <1>3 DEF End, NoReview
<1>4. ASSUME NEW x, Finish(v, x) PROVE review'[v].pc = "saving"
  BY <1>1, <1>4 DEF Finish, NoReview
<1>5. CASE BeginReview(v)
  BY <1>2, <1>5 DEF BeginReview, InStage
<1>6. CASE RevealRouter(v)
  BY <1>2, <1>6 DEF RevealRouter, InStage
<1>7. CASE SaveReview(v) \/ SaveFails(v)
  BY <1>3, <1>7 DEF SaveReview, SaveFails, InStage, Ended
<1>8. ASSUME NEW reply \in Replies, Generate(v, reply)
      PROVE  /\ review[v].pc = "asking"
             /\ \/ review'[v].pc = "saving"
                \/ /\ review'[v].pc = "asking"
                   /\ \/ /\ Len(review'[v].reports) = Len(review[v].reports) + 1
                         /\ review'[v].attempt = 1
                      \/ /\ review'[v].reports = review[v].reports
                         /\ review[v].attempt = 1 /\ review'[v].attempt = 2
  <2>1. review[v].pc = "asking"
    BY <1>8 DEF Generate, InStage
  <2>2. CASE Accept(v, reply)
    <3> DEFINE kept == Append(review[v].reports, <<Agent(v), reply>>)
    <3>1. Len(kept) = Len(review[v].reports) + 1
      <4>1. PICK n \in 0 .. 2 : review[v].reports = Cited(n)
        BY DEF ReviewInv
      <4>2. Cited(n) \in Seq({<<Agents[k], "cited">> : k \in 1 .. n})
        BY <4>1 DEF Cited
      <4> QED
        BY <4>1, <4>2 DEF Cited
    <3> HIDE DEF kept
    <3>2. CASE review' = [review EXCEPT ![v].reports = kept, ![v].attempt = 1]
      <4> DEFINE longer == [pc |-> "asking", attempt |-> review[v].attempt, reports |-> kept,
                            result |-> review[v].result]
                 next   == [pc |-> "asking", attempt |-> 1, reports |-> kept,
                            result |-> review[v].result]
      <4>1. [review[v] EXCEPT !.reports = kept] = longer
        BY <1>1, <2>1
      <4>2. [longer EXCEPT !.attempt = 1] = next
        OBVIOUS
      <4>3. next.pc = "asking" /\ next.attempt = 1 /\ next.reports = kept
        OBVIOUS
      <4>4. review'[v] = [[review[v] EXCEPT !.reports = kept] EXCEPT !.attempt = 1]
        BY <1>1, <3>2
      <4> HIDE DEF longer, next
      <4>5. review'[v] = next
        BY <4>1, <4>2, <4>4, Zenon
      <4> QED
        BY <2>1, <3>1, <4>3, <4>5
    <3> QED
      BY <1>4, <2>1, <2>2, <3>2 DEF Accept, kept
  <2>3. CASE Repair(v, reply)
    BY <1>1, <1>4, <2>1, <2>3 DEF Repair
  <2> QED
    BY <1>8, <2>1, <2>2, <2>3 DEF Generate
<1>9. CASE ReviewsDie
  <2>1. Failed.pc = "failed" /\ (review[v].pc = "failed" => review[v] = Failed)
    BY DEF ReviewInv, Failed, NoReview
  <2>2. review'[v] = IF review[v].pc \in {"new", "conflict", "answered"} THEN review[v] ELSE Failed
    BY <1>9 DEF ReviewsDie, Failed
  <2> QED
    BY <1>1, <2>1, <2>2 DEF Ended, ReviewPcs
<1> QED
  BY <1>5, <1>6, <1>7, <1>8, <1>9 DEF Proceed

LEMMA OtherReviews ==
    ASSUME ReviewInv, NEW v \in Reviews, NEW u \in Reviews \ {v}, BeginReview(u) \/ Proceed(u)
    PROVE  review'[v] = review[v]
BY DEF ReviewInv, BeginReview, Proceed, RevealRouter, Generate, Accept, Repair, SaveReview,
       SaveFails, Step, End, Finish

LEMMA AdvanceStep ==
    ASSUME IInv, IInv', [Next]_researchVars, NEW v \in Reviews
    PROVE  ReviewAdvances(v)
<1>1. PICK n \in 0 .. 2 : review[v].reports = Cited(n)
  BY DEF IInv, ReviewInv
<1>2. PICK m \in 0 .. 2 : review'[v].reports = Cited(m)
  BY DEF IInv, ReviewInv
<1>3. Len(review[v].reports) = n /\ Len(review'[v].reports) = m
  BY <1>1, <1>2 DEF Cited
<1>4. /\ review[v].pc \in ReviewPcs /\ review'[v].pc \in ReviewPcs
      /\ review[v].attempt \in 1 .. 2 /\ review'[v].attempt \in 1 .. 2
  BY DEF IInv, ReviewInv
<1>5. \/ review'[v] = review[v]
      \/ BeginReview(v) \/ Proceed(v) \/ ReviewsDie
  <2>1. ReviewInv
    BY DEF IInv
  <2>2. ASSUME NEW u \in Reviews, BeginReview(u) \/ Proceed(u)
        PROVE  review'[v] = review[v] \/ BeginReview(v) \/ Proceed(v)
    BY <2>1, <2>2, OtherReviews
  <2> QED
    BY <2>2 DEF Next, ReviewOpportunity, ApiCrash, reviewVars, researchVars
<1> DEFINE a == StepsLeft(review[v])
           b == StepsLeft(review'[v])
<1>6. /\ review[v].pc = "new" => a = 9
      /\ review[v].pc = "getting" => a = 8
      /\ review[v].pc = "asking" => a = 8 - 2 * n - review[v].attempt
      /\ review[v].pc = "saving" => a = 1
      /\ review[v].pc \in Ended => a = 0
  BY <1>1, <1>4, StepsLeftOf
<1>7. /\ review'[v].pc = "getting" => b = 8
      /\ review'[v].pc = "asking" => b = 8 - 2 * m - review'[v].attempt
      /\ review'[v].pc = "saving" => b = 1
      /\ review'[v].pc \in Ended => b = 0
  BY <1>2, <1>4, StepsLeftOf
<1> HIDE DEF a, b
<1>8. a \in 0 .. 9
  BY <1>4, <1>6 DEF ReviewPcs, Ended
<1>9. review'[v] # review[v] => b < a
  <2> SUFFICES ASSUME review'[v] # review[v] PROVE b < a
    OBVIOUS
  <2>1. review[v].pc \notin Ended \cup {"new"} => a \in 1 .. 8
    BY <1>4, <1>6 DEF ReviewPcs, Ended
  <2>2. CASE review[v].pc \notin Ended \cup {"new"} /\ review'[v].pc \in Ended
    BY <1>7, <2>1, <2>2
  <2>3. CASE review[v].pc = "new" /\ review'[v].pc = "getting"
    BY <1>6, <1>7, <2>3
  <2>4. CASE review[v].pc = "getting" /\ review'[v].pc \in {"asking", "conflict"}
    BY <1>4, <1>6, <1>7, <2>4 DEF Ended
  <2>5. CASE review[v].pc = "asking" /\ review'[v].pc = "saving"
    BY <1>4, <1>6, <1>7, <2>5
  <2>6. CASE /\ review[v].pc = "asking" /\ review'[v].pc = "asking"
             /\ \/ m = n + 1 /\ review'[v].attempt = 1
                \/ m = n /\ review[v].attempt = 1 /\ review'[v].attempt = 2
    BY <1>4, <1>6, <1>7, <2>6
  <2> QED
    BY <1>3, <1>5, <2>2, <2>3, <2>4, <2>5, <2>6, ReviewMoves DEF IInv
<1> QED
  BY <1>8, <1>9 DEF ReviewAdvances, a, b

(* A review takes at most nine steps, whatever the provider answers: each one
   leaves fewer before it, and an ended review never moves again.            *)
THEOREM ReviewsRunOut == Spec => [][\A v \in Reviews : ReviewAdvances(v)]_researchVars
<1>1. IInv /\ IInv' /\ [Next]_researchVars => [\A v \in Reviews : ReviewAdvances(v)]_researchVars
  BY AdvanceStep
<1> QED
  BY <1>1, Invariance, PTL DEF Spec

(* A job that scans has one symbol fewer before it after each of its steps, or
   is idle again, and has given its run up.                                   *)
ScanAdvances(j) ==
    At(j, "scanning") /\ job'[j] # job[j] =>
        \/ job'[j] = Idle
        \/ /\ job'[j].pc = "scanning"
           /\ job'[j].run = job[j].run
           /\ job[j].todo > 0 /\ job'[j].todo = job[j].todo - 1

LEMMA JobStands ==
    ASSUME ScanInv, NEW j \in Jobs, BeginScan(j) \/ Work(j)
    PROVE  /\ \A k \in Jobs : ScanAdvances(k)
           /\ \A r \in Runs : RunStands(r)
<1>1. /\ job \in [Jobs -> JobRecord] /\ runs \in [Runs -> RunRecord] /\ stored \in [Runs -> Nat]
      /\ job[j] \in JobRecord
      /\ job[j].pc = "scanning" => job[j].run \in Runs /\ runs[job[j].run].state = "open"
  BY DEF ScanInv, ScanTypeOK, Ownership, JobRecord, RunRecord
<1>2. \A k \in Jobs \ {j} : job'[k] = job[k]
  BY <1>1 DEF BeginScan, Work, StartScanRun, StartFails, AnalyzeNext, CompleteScanRun,
              CompletionFails
<1>3. ScanAdvances(j)
  <2>1. CASE BeginScan(j) \/ StartScanRun(j) \/ StartFails(j)
    BY <2>1 DEF BeginScan, StartScanRun, StartFails, At, ScanAdvances
  <2>2. CASE AnalyzeNext(j)
    BY <1>1, <2>2 DEF AnalyzeNext, At, JobRecord, ScanAdvances
  <2>3. CASE CompleteScanRun(j) \/ CompletionFails(j)
    BY <1>1, <2>3 DEF CompleteScanRun, CompletionFails, ScanAdvances
  <2> QED
    BY <2>1, <2>2, <2>3 DEF Work
<1>4. ASSUME NEW r \in Runs PROVE RunStands(r)
  <2>1. CASE UNCHANGED <<runs, stored>>
    BY <2>1 DEF RunStands
  <2>2. CASE UNCHANGED stored /\ \E q \in Runs : Open(j, q)
    BY <1>1, <2>2 DEF Open, RunStands
  <2>3. CASE AnalyzeNext(j)
    BY <1>1, <2>3 DEF AnalyzeNext, Store, At, RunStands
  <2>4. CASE Close(j) /\ At(j, "scanning") /\ UNCHANGED stored
    <3>1. \A q \in Runs \ {job[j].run} : runs'[q] = runs[q]
      BY <2>4, <1>1 DEF Close
    <3>2. /\ runs'[job[j].run].state = "complete"
          /\ runs'[job[j].run].attempted = runs[job[j].run].attempted
      <4> DEFINE new == [runs[job[j].run] EXCEPT !.state = "complete", !.completed = job[j].done,
                                                 !.failed = job[j].failed]
      <4>1. runs' = [runs EXCEPT ![job[j].run] = new]
        BY <1>1, <2>4 DEF Close, RunRecord
      <4>2. new.state = "complete" /\ new.attempted = runs[job[j].run].attempted
        BY <1>1, <2>4 DEF RunRecord, At
      <4> HIDE DEF new
      <4> QED
        BY <1>1, <2>4, <4>1, <4>2 DEF At
    <3> QED
      BY <1>1, <2>4, <3>1, <3>2 DEF At, RunStands
  <2> QED
    BY <2>1, <2>2, <2>3, <2>4
       DEF BeginScan, Work, StartScanRun, StartFails, CompleteScanRun, CompletionFails
<1>5. ASSUME NEW k \in Jobs PROVE ScanAdvances(k)
  <2>1. CASE k = j
    BY <1>3, <2>1
  <2>2. CASE k # j
    BY <1>2, <2>2 DEF ScanAdvances
  <2> QED
    BY <2>1, <2>2
<1> QED
  BY <1>4, <1>5

LEMMA StandStep ==
    ASSUME IInv, [Next]_researchVars
    PROVE  /\ \A k \in Jobs : ScanAdvances(k)
           /\ \A r \in Runs : RunStands(r)
<1>1. CASE UNCHANGED <<runs, stored>> /\ \A k \in Jobs : job'[k] \in {job[k], Idle}
  BY <1>1 DEF ScanAdvances, RunStands
<1>2. CASE AnalyzeSymbol \/ UNCHANGED scanVars
  BY <1>1, <1>2 DEF AnalyzeSymbol, scanVars
<1>3. ASSUME NEW dead \in SUBSET Jobs, Die(dead)
      PROVE  /\ \A k \in Jobs : ScanAdvances(k)
             /\ \A r \in Runs : RunStands(r)
  BY <1>1, <1>3 DEF Die
<1>4. Manual \in SUBSET Jobs /\ {Worker} \in SUBSET Jobs
  BY DEF Jobs
<1> QED
  BY <1>2, <1>3, <1>4, JobStands
     DEF IInv, Next, ScanNext, ReviewOpportunity, ApiCrash, researchVars

(* Each step of a scan leaves it one symbol fewer or ends it, whatever fails: a
   scan takes as many steps as it has symbols, and one to close its run.  That
   the steps come is not claimed, as a call to Alpaca may hang.               *)
THEOREM ScansRunOut == Spec => [][\A j \in Jobs : ScanAdvances(j)]_researchVars
<1>1. IInv /\ [Next]_researchVars => [\A j \in Jobs : ScanAdvances(j)]_researchVars
  BY StandStep
<1> QED
  BY <1>1, Invariance, PTL DEF Spec

(* A completed run is final, and a run's results come while it is open: a scan
   beside it, a crash or a late step of another job never touches it.         *)
THEOREM RunsStand == Spec => RunsAreFinal
<1>1. IInv /\ [Next]_researchVars => [\A r \in Runs : RunStands(r)]_researchVars
  BY StandStep
<1> QED
  BY <1>1, Invariance, PTL DEF Spec, RunsAreFinal

=============================================================================
