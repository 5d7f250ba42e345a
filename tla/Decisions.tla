----------------------------- MODULE Decisions -----------------------------
(***************************************************************************)
(* The decisions of the desk on bounded inputs: the analysis of a symbol   *)
(* runs as the state machine of TradeAnalysis, and beside it each rule is  *)
(* evaluated on one sample of its inputs, chosen in the initial state.     *)
(***************************************************************************)
EXTENDS TradeAnalysis, LabEvidence

CONSTANTS
    SomeStructures, Prices,
    SomeFeatures,
    SomeContracts,
    SomeObservations,
    SomeVolatilities,
    SomeProtections,
    SomeCurves,       \* sequences of amounts, the initial one first
    SomeEvents,       \* [event, feature, observed, available]
    SomeWindows       \* [stamps, train, test]

(* compute_metrics refuses an initial equity that is not positive, and an empty
   curve; walk_forward_windows refuses sizes that are not positive.  An event has
   one analog.                                                               *)
ASSUME EvidenceAssumption ==
    /\ \A curve \in SomeCurves : curve \in Seq(Nat) /\ Len(curve) > 1 /\ Head(curve) > 0
    /\ SomeEvents \subseteq [event : Int, feature : Int, observed : Int, available : Int]
    /\ IsFiniteSet(SomeEvents)
    /\ \A c, d \in SomeEvents : c.event = d.event => c = d
    /\ SomeWindows \subseteq [stamps : Seq(Nat), train : Nat \ {0}, test : Nat \ {0}]

(* The prices at which a structure is looked at hold its strikes and zero. *)
ASSUME PriceAssumption ==
    /\ SomeStructures \subseteq Structures
    /\ Prices \subseteq Nat
    /\ \A s \in SomeStructures : {0, s.long.strike, s.short.strike} \subseteq Prices

ASSUME SampleAssumption ==
    /\ SomeFeatures \subseteq
           [confidence : Int, sentiment : Int, volume : Int, momentum : Int, gap : Int,
            market : Int, sector : Int, liquidity : Int]
    /\ SomeContracts \subseteq
           [call : BOOLEAN, strike : Int, dte : Int, bid : Int, ask : Int, stamp : Int,
            tradable : BOOLEAN, size : Int, interest : Int, greeks : BOOLEAN]
    /\ SomeObservations \subseteq
           [age : Int, stream : BOOLEAN, reconciled : BOOLEAN, divergences : Nat,
            duplicates : Nat, breach : BOOLEAN, rejections : Nat, orders : Nat, uncovered : Nat]
    /\ SomeVolatilities \subseteq
           [implied : Int, realized : Int, event : BOOLEAN, tail : Int, trend : Int]
    /\ SomeProtections \subseteq
           [drawdown : Int, volatility : Int, trend : Int, concentration : Int,
            correlation : Int]

VARIABLE sample       \* [kind, of]

vars == <<tradeVars, sample>>

NoSample == [kind |-> "none", of |-> 0]

SamplesOf(kind, inputs) == {[kind |-> kind, of |-> input] : input \in inputs}

(* The analyses run with no sample, a sample stands for itself. *)
Init ==
    /\ TradeInit
    /\ \/ sample = NoSample
       \/ sample \in SamplesOf("structure", {s \in SomeStructures : Accepted(s)})
       \/ sample \in SamplesOf("features", SomeFeatures)
       \/ sample \in SamplesOf("contract", SomeContracts)
       \/ sample \in SamplesOf("observation", SomeObservations)
       \/ sample \in SamplesOf("volatility", SomeVolatilities)
       \/ sample \in SamplesOf("protection", SomeProtections)
       \/ sample \in SamplesOf("curve", SomeCurves)
       \/ sample \in SamplesOf("events", SUBSET SomeEvents)
       \/ sample \in SamplesOf("windows", SomeWindows)

Next == sample = NoSample /\ TradeNext /\ UNCHANGED sample

Spec == Init /\ [][Next]_vars

Sampled(kind) == sample.kind = kind
-----------------------------------------------------------------------------

(* The analysis keeps its bookkeeping: an intent exists only with the
   disposition TRADE, and a structure is one the engine accepts.             *)
TypeOK == TradeTypeOK

(* The loss, the profit and the break-even that build_structure computes are
   those of the payoff at expiration, for every accepted structure.          *)
PayoffBounds ==
    Sampled("structure") =>
        /\ \A p \in Prices : WithinBounds(sample.of, p)
        /\ ExtremesMet(sample.of, Prices)

(* The catalyst strategy turns round with its input. *)
MirrorImage == Sampled("features") => Impartial(sample.of)

(* A quote as good or better: no wider, larger, and as fresh, though none from
   the future.                                                               *)
Better(d, c) ==
    /\ \A field \in {"call", "strike", "dte", "tradable", "greeks"} : d[field] = c[field]
    /\ c.bid <= d.bid /\ d.bid <= d.ask /\ d.ask <= c.ask
    /\ c.size <= d.size /\ c.interest <= d.interest
    /\ c.stamp <= d.stamp /\ d.stamp <= Now

(* evaluate_contract never refuses a contract whose quote is better than one it
   accepts, whatever the mixture of improvements.                            *)
BetterQuoteStaysEligible ==
    Sampled("contract") /\ Eligible(sample.of, 10000, Now) =>
        \A d \in SomeContracts : Better(d, sample.of) => Eligible(d, 10000, Now)

(* One thing gets worse. *)
Worse(o) ==
    {[o EXCEPT !.rejections = @ + 1], [o EXCEPT !.orders = @ + 1],
     [o EXCEPT !.divergences = @ + 1], [o EXCEPT !.duplicates = @ + 1],
     [o EXCEPT !.uncovered = @ + 1], [o EXCEPT !.stream = FALSE],
     [o EXCEPT !.reconciled = FALSE], [o EXCEPT !.breach = TRUE], [o EXCEPT !.age = Never]}
    \cup (IF o.age >= 0 THEN {[o EXCEPT !.age = @ + 1]} ELSE {})

WorseVolatility(v) ==
    {[v EXCEPT !.implied = @ - 1], [v EXCEPT !.realized = @ + 1],
     [v EXCEPT !.event = TRUE], [v EXCEPT !.tail = @ + 1]}

WorsePortfolio(p) ==
    {[p EXCEPT !.drawdown = @ + 1], [p EXCEPT !.volatility = @ + 1],
     [p EXCEPT !.trend = @ - 1], [p EXCEPT !.concentration = @ + 1],
     [p EXCEPT !.correlation = @ + 1]}

(* When something gets worse the Guardian drops none of its triggers, premium is
   not sold where it was not, and protection is not switched off.            *)
WorseningNeverRelaxes ==
    /\ Sampled("observation") =>
          \A o \in Worse(sample.of) : Triggers(sample.of) \subseteq Triggers(o)
    /\ Sampled("volatility") =>
          \A v \in WorseVolatility(sample.of) :
              PreferredCredit(v) \in {"none", PreferredCredit(sample.of)}
    /\ Sampled("protection") /\ Activated(sample.of) =>
          \A p \in WorsePortfolio(sample.of) : Activated(p)

(* compute_metrics reports the deepest fall of the curve, read from the initial
   equity on.                                                                *)
DrawdownMatches == Sampled("curve") => DrawdownAgrees(Head(sample.of), Tail(sample.of))

(* The evidence of the lab knows nothing of the future: neither the analogs of
   one day nor the training of a window.                                     *)
NoLookAhead ==
    /\ Sampled("events") =>
          \A now, target \in 0 .. 3, limit \in 1 .. 2 :
              AnalogsLookBack(target, sample.of, now, limit)
    /\ Sampled("windows") =>
          WindowsWalkForward(sample.of.stamps, sample.of.train, sample.of.test)

=============================================================================
