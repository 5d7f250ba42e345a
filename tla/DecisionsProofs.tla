-------------------------- MODULE DecisionsProofs --------------------------
(***************************************************************************)
(* Theorems of Decisions, for every market, chain, account and sample: the *)
(* arithmetic of the option structures, the symmetry and monotony of the   *)
(* rules, and the bound on what an approved intent can lose.               *)
(***************************************************************************)
EXTENDS Decisions, LabEvidenceProofs, FiniteSetTheorems, WellFoundedInduction, TLAPS

-----------------------------------------------------------------------------
(* Option structures.                                                        *)

(* The fields of a structure. *)
LEMMA StructureFields ==
    ASSUME NEW s \in Structures
    PROVE  /\ s.type \in StructureTypes
           /\ s.stock \in Nat
           /\ s.long.call \in BOOLEAN /\ s.long.strike \in Nat /\ s.long.price \in Nat
           /\ s.short.call \in BOOLEAN /\ s.short.strike \in Nat /\ s.short.price \in Nat
BY DEF Structures, Legs

LEMMA SingleBounds ==
    ASSUME NEW s \in Structures, s.type \in Singles, SingleAccepted(s), NEW p \in Nat
    PROVE  WithinBounds(s, p)
<1>1. Intrinsic(s.short, p) = 0 /\ s.short.price = 0
  BY DEF SingleAccepted, NoLeg, Intrinsic, Pos
<1>2. s.stock = 0 /\ s.long.price > 0
  BY <1>1, StructureFields DEF SingleAccepted, Premium
<1>3. CASE s.type = "long_call"
  BY <1>1, <1>2, <1>3, StructureFields DEF SingleAccepted, Calls, Premium, Pos, WithinBounds,
       Payoff, Intrinsic, MaxLoss, Bounded, BreakEven, Spreads, DebitSpreads, CreditSpreads,
       Protective
<1>4. CASE s.type = "long_put"
  <2>1. /\ Intrinsic(s.long, p) = Pos(s.long.strike - p)
        /\ Payoff(s, p) = Pos(s.long.strike - p) - s.long.price
    BY <1>1, <1>2, <1>4, StructureFields DEF SingleAccepted, Calls, Intrinsic, Payoff, Premium, Pos
  <2>2. /\ MaxLoss(s) = s.long.price
        /\ MaxProfit(s) = Pos(s.long.strike - s.long.price)
        /\ BreakEven(s) = s.long.strike - s.long.price
    BY <1>1, <1>4, StructureFields DEF MaxLoss, MaxProfit, BreakEven, Premium, Spreads,
         DebitSpreads, CreditSpreads, Protective
  <2> QED
    BY <1>2, <1>4, <2>1, <2>2, StructureFields DEF WithinBounds, Pos, Protective
<1> QED
  BY <1>3, <1>4 DEF Singles

LEMMA SpreadBounds ==
    ASSUME NEW s \in Structures, s.type \in Spreads, SpreadAccepted(s), NEW p \in Nat
    PROVE  WithinBounds(s, p)
<1>1. CASE s.type = "bull_call_debit_spread"
  BY <1>1, StructureFields DEF SpreadAccepted, Calls, Bullish, Premium, Width, Pos,
       WithinBounds, Payoff, Intrinsic, MaxLoss, MaxProfit, Bounded, BreakEven, Spreads,
       DebitSpreads, CreditSpreads, Protective
<1>2. CASE s.type = "bear_put_debit_spread"
  BY <1>2, StructureFields DEF SpreadAccepted, Calls, Bullish, Premium, Width, Pos,
       WithinBounds, Payoff, Intrinsic, MaxLoss, MaxProfit, Bounded, BreakEven, Spreads,
       DebitSpreads, CreditSpreads, Protective
<1>3. CASE s.type = "bull_put_credit_spread"
  BY <1>3, StructureFields DEF SpreadAccepted, Calls, Bullish, Premium, Width, Pos,
       WithinBounds, Payoff, Intrinsic, MaxLoss, MaxProfit, Bounded, BreakEven, Spreads,
       DebitSpreads, CreditSpreads, Protective
<1>4. CASE s.type = "bear_call_credit_spread"
  BY <1>4, StructureFields DEF SpreadAccepted, Calls, Bullish, Premium, Width, Pos,
       WithinBounds, Payoff, Intrinsic, MaxLoss, MaxProfit, Bounded, BreakEven, Spreads,
       DebitSpreads, CreditSpreads, Protective
<1> QED
  BY <1>1, <1>2, <1>3, <1>4 DEF Spreads, DebitSpreads, CreditSpreads

LEMMA ProtectiveBounds ==
    ASSUME NEW s \in Structures, s.type \in Protective, ProtectiveAccepted(s), NEW p \in Nat
    PROVE  WithinBounds(s, p)
<1>1. CASE s.type = "protective_put"
  <2>1. Intrinsic(s.short, p) = 0 /\ s.short.price = 0 /\ s.short.strike = 0
    BY <1>1 DEF ProtectiveAccepted, NoLeg, Intrinsic, Pos
  <2> QED
    BY <1>1, <2>1, StructureFields DEF ProtectiveAccepted, Premium, Pos, WithinBounds,
       Payoff, Intrinsic, MaxLoss, Bounded, BreakEven, Spreads, DebitSpreads, CreditSpreads,
       Protective
<1>2. CASE s.type = "protective_put_spread"
  BY <1>2, StructureFields DEF ProtectiveAccepted, Premium, Present, Pos, WithinBounds,
       Payoff, Intrinsic, MaxLoss, Bounded, BreakEven, Spreads, DebitSpreads, CreditSpreads,
       Protective
<1> QED
  BY <1>1, <1>2 DEF Protective

(* No p at expiration makes an accepted structure lose more, or win more,
   than build_structure computes, and it breaks even where that says.        *)
THEOREM LossIsBounded ==
    ASSUME NEW s \in Structures, Accepted(s), NEW p \in Nat
    PROVE  WithinBounds(s, p)
BY SingleBounds, SpreadBounds, ProtectiveBounds DEF Accepted

(* ... and at zero or a strike it meets both extremes, so that they are not too
   wide.                                                                     *)
THEOREM ExtremesAreMet ==
    ASSUME NEW s \in Structures, Accepted(s),
           NEW prices, {0, s.long.strike, s.short.strike} \subseteq prices
    PROVE  ExtremesMet(s, prices)
<1>1. CASE s.type \in Singles
  <2>0. /\ s.short.call = FALSE /\ s.short.strike = 0 /\ s.short.price = 0
        /\ s.stock = 0 /\ s.long.price > 0 /\ s.long.call = (s.type \in Calls)
    BY <1>1, StructureFields DEF Accepted, Singles, SingleAccepted, NoLeg, Premium, Spreads,
         DebitSpreads, CreditSpreads, Protective
  <2>1. Payoff(s, IF s.type = "long_call" THEN 0 ELSE s.long.strike) = -MaxLoss(s)
    BY <1>1, <2>0, StructureFields DEF Singles, Payoff, Intrinsic, MaxLoss, Premium, Pos, Calls,
         Spreads, DebitSpreads, CreditSpreads, Protective
  <2>2. Bounded(s) /\ MaxProfit(s) > 0 => Payoff(s, 0) = MaxProfit(s)
    BY <1>1, <2>0, StructureFields DEF Singles, Bounded, Payoff, Intrinsic, MaxProfit, Premium,
         Pos, Calls, Spreads, DebitSpreads, CreditSpreads, Protective
  <2>3. 0 \in prices /\ s.long.strike \in prices
    OBVIOUS
  <2> QED
    BY <2>1, <2>2, <2>3 DEF ExtremesMet
<1>2. CASE s.type \in Spreads
  <2> DEFINE worst == IF s.type \in Bullish THEN 0 ELSE s.long.strike
             best == IF s.type = "bear_call_credit_spread" THEN 0 ELSE s.short.strike
  <2>0. SpreadAccepted(s)
    BY <1>2 DEF Accepted, Singles, Protective, Spreads, DebitSpreads, CreditSpreads
  <2>1. Payoff(s, worst) = -MaxLoss(s)
    BY <1>2, <2>0, StructureFields DEF SpreadAccepted, Payoff, Intrinsic, MaxLoss, Premium,
         Width, Pos, Calls, Bullish, Spreads, DebitSpreads, CreditSpreads, Protective
  <2>2. Payoff(s, best) = MaxProfit(s)
    BY <1>2, <2>0, StructureFields DEF SpreadAccepted, Payoff, Intrinsic, MaxProfit, Premium,
         Width, Pos, Calls, Bullish, Spreads, DebitSpreads, CreditSpreads, Protective
  <2>3. worst \in prices /\ best \in prices
    OBVIOUS
  <2> QED
    BY <2>1, <2>2, <2>3 DEF ExtremesMet
<1>3. CASE s.type \in Protective
  <2>0. ProtectiveAccepted(s) /\ ~Bounded(s)
    BY <1>3 DEF Accepted, Singles, Protective, Bounded, Spreads, DebitSpreads, CreditSpreads
  <2>1. s.short.strike = 0 => s.short.price = 0 \/ s.type = "protective_put_spread"
    BY <1>3, <2>0 DEF ProtectiveAccepted, Protective, NoLeg
  <2>2. MaxLoss(s) > 0 => Payoff(s, 0) = -MaxLoss(s)
    BY <1>3, <2>0, <2>1, StructureFields DEF ProtectiveAccepted, Present, Payoff, Intrinsic,
         MaxLoss, Premium, Pos, Protective, Spreads, DebitSpreads, CreditSpreads
  <2> QED
    BY <2>0, <2>2 DEF ExtremesMet
<1> QED
  BY <1>1, <1>2, <1>3 DEF Accepted

(* What is computed for a structure is what its payoff says, for any sample of
   accepted structures and of prices.                                        *)
THEOREM PayoffsAreBounded == Spec => []PayoffBounds
<1>1. Init => PayoffBounds
  <2> SUFFICES ASSUME Init, Sampled("structure") PROVE PayoffBounds
    BY DEF PayoffBounds
  <2>1. sample.of \in SomeStructures /\ Accepted(sample.of)
    BY DEF Init, Sampled, SamplesOf, NoSample
  <2>2. sample.of \in Structures /\ Prices \subseteq Nat
    BY <2>1, PriceAssumption
  <2>3. ExtremesMet(sample.of, Prices)
    BY <2>1, <2>2, ExtremesAreMet, PriceAssumption
  <2>4. \A p \in Prices : WithinBounds(sample.of, p)
    BY <2>1, <2>2, LossIsBounded
  <2> QED
    BY <2>3, <2>4 DEF PayoffBounds
<1>2. PayoffBounds /\ [Next]_vars => PayoffBounds'
  BY DEF PayoffBounds, Sampled, Next, vars
<1> QED
  BY <1>1, <1>2, PTL DEF Spec

-----------------------------------------------------------------------------
(* The rules.                                                                *)

LEMMA MirrorFields ==
    ASSUME NEW f \in SomeFeatures
    PROVE  LET g == Mirror(f)
           IN  /\ g.sentiment = -f.sentiment /\ g.momentum = -f.momentum /\ g.gap = -f.gap
               /\ g.market = -f.market /\ g.sector = -f.sector
               /\ g.confidence = f.confidence /\ g.volume = f.volume /\ g.liquidity = f.liquidity
BY SampleAssumption DEF Mirror

(* News, momentum and indices turned round give the opposite idea. *)
LEMMA StrategyIsImpartial == ASSUME NEW f \in SomeFeatures PROVE Impartial(f)
<1> DEFINE g == Mirror(f)
<1> SUFFICES ASSUME f.sentiment # 0 PROVE Idea(g) = Opposite(Idea(f))
  BY DEF Impartial
<1>0. /\ f.confidence \in Int /\ f.sentiment \in Int /\ f.volume \in Int
      /\ f.momentum \in Int /\ f.gap \in Int /\ f.market \in Int
      /\ f.sector \in Int /\ f.liquidity \in Int
  BY SampleAssumption
<1>1. \A v \in Int : Agreement(g, -v) = Agreement(f, v)
  BY <1>0, MirrorFields DEF Agreement
<1>2. Abs(g.sentiment) = Abs(f.sentiment) /\ Abs(g.gap) = Abs(f.gap)
  BY <1>0, MirrorFields DEF Abs
<1>3. Score80(g) = Score80(f)
  BY <1>0, <1>1, <1>2, MirrorFields DEF Score80
<1>4. Direction(g) = Opposite(Direction(f)) /\ Direction(f) \in {"BULLISH", "BEARISH"}
  BY <1>0, MirrorFields DEF Direction, Opposite
<1>5. (IF Direction(g) = "BULLISH" THEN g.momentum ELSE -g.momentum)
          = (IF Direction(f) = "BULLISH" THEN f.momentum ELSE -f.momentum)
  BY <1>0, <1>4, MirrorFields DEF Opposite
<1>6. g.confidence = f.confidence
  BY MirrorFields
<1> HIDE DEF g
<1> QED
  BY <1>2, <1>3, <1>4, <1>5, <1>6 DEF Idea, NoIdea, Opposite

(* The catalyst strategy has no view of its own, for any features. *)
THEOREM Impartiality == Spec => []MirrorImage
<1>1. Init => MirrorImage
  BY StrategyIsImpartial DEF Init, MirrorImage, Sampled, SamplesOf, NoSample
<1>2. MirrorImage /\ [Next]_vars => MirrorImage'
  BY DEF MirrorImage, Sampled, Next, vars
<1> QED
  BY <1>1, <1>2, PTL DEF Spec

(* A better quote has the contract of the other, and passes each rule for quotes. *)
LEMMA BetterStaysEligible ==
    ASSUME NEW c \in SomeContracts, NEW d \in SomeContracts, Better(d, c),
           Eligible(c, 10000, Now)
    PROVE  Eligible(d, 10000, Now)
<1>1. /\ {c.bid, c.ask, c.size, c.interest, c.stamp} \subseteq Int
      /\ {d.bid, d.ask, d.size, d.interest, d.stamp} \subseteq Int
  BY SampleAssumption
<1>2. /\ c.bid <= d.bid /\ d.bid <= d.ask /\ d.ask <= c.ask
      /\ c.size <= d.size /\ c.interest <= d.interest
      /\ c.stamp <= d.stamp /\ d.stamp <= Now
  BY DEF Better
<1>3. d.tradable = c.tradable /\ d.dte = c.dte /\ d.strike = c.strike /\ d.greeks = c.greeks
  BY DEF Better
<1>4. TightSpread(c) => TightSpread(d)
  BY <1>1, <1>2 DEF TightSpread
<1>5. Fresh(c, Now) => Fresh(d, Now)
  BY <1>1, <1>2 DEF Fresh, Now
<1>6. c.bid > 0 /\ c.size >= 1 /\ c.interest >= 25
          => d.bid > 0 /\ d.ask > 0 /\ d.size >= 1 /\ d.interest >= 25
  BY <1>1, <1>2
<1> QED
  BY <1>3, <1>4, <1>5, <1>6 DEF Eligible

(* No improvement of a quote costs a contract its eligibility. *)
THEOREM BetterQuotes == Spec => []BetterQuoteStaysEligible
<1>1. Init => BetterQuoteStaysEligible
  BY BetterStaysEligible DEF Init, BetterQuoteStaysEligible, Sampled, SamplesOf, NoSample
<1>2. BetterQuoteStaysEligible /\ [Next]_vars => BetterQuoteStaysEligible'
  BY DEF BetterQuoteStaysEligible, Sampled, Next, vars
<1> QED
  BY <1>1, <1>2, PTL DEF Spec

Observations ==
    [age : Int, stream : BOOLEAN, reconciled : BOOLEAN, divergences : Nat, duplicates : Nat,
     breach : BOOLEAN, rejections : Nat, orders : Nat, uncovered : Nat]

(* What may differ between an observation and a worse one. *)
LEMMA WorseFields ==
    ASSUME NEW o \in Observations, NEW w \in Worse(o)
    PROVE  /\ o.age \notin 0 .. 15 => w.age \notin 0 .. 15
           /\ w.stream => o.stream
           /\ w.reconciled => o.reconciled
           /\ o.breach => w.breach
           /\ o.divergences <= w.divergences
           /\ o.duplicates <= w.duplicates
           /\ o.rejections <= w.rejections
           /\ o.orders <= w.orders
           /\ o.uncovered <= w.uncovered
           /\ w.divergences \in Nat /\ w.duplicates \in Nat /\ w.rejections \in Nat
           /\ w.orders \in Nat /\ w.uncovered \in Nat
BY DEF Observations, Worse, Never

LEMMA TriggersAreKept ==
    ASSUME NEW o \in Observations, NEW w \in Worse(o)
    PROVE  Triggers(o) \subseteq Triggers(w)
<1>1. /\ o.divergences \in Nat /\ o.duplicates \in Nat /\ o.rejections \in Nat
      /\ o.orders \in Nat /\ o.uncovered \in Nat
  BY DEF Observations
<1>2. ASSUME NEW t \in Triggers(o) PROVE t \in Triggers(w)
  <2>1. CASE t = "STALE_MARKET_DATA"
    BY <1>1, <1>2, <2>1, WorseFields DEF Triggers
  <2>2. CASE t = "STREAM_DISCONNECTED"
    BY <1>1, <1>2, <2>2, WorseFields DEF Triggers
  <2>3. CASE t = "STATE_DIVERGENCE"
    BY <1>1, <1>2, <2>3, WorseFields DEF Triggers
  <2>4. CASE t = "DUPLICATE_ORDER_PATTERN"
    BY <1>1, <1>2, <2>4, WorseFields DEF Triggers
  <2>5. CASE t = "RISK_POLICY_BREACH"
    BY <1>1, <1>2, <2>5, WorseFields DEF Triggers
  <2>6. CASE t = "REPEATED_ORDER_REJECTIONS"
    BY <1>1, <1>2, <2>6, WorseFields DEF Triggers
  <2>7. CASE t = "ABNORMAL_ORDER_RATE"
    BY <1>1, <1>2, <2>7, WorseFields DEF Triggers
  <2>8. CASE t = "UNCOVERED_OPTION_EXPOSURE"
    BY <1>1, <1>2, <2>8, WorseFields DEF Triggers
  <2> QED
    BY <1>2, <2>1, <2>2, <2>3, <2>4, <2>5, <2>6, <2>7, <2>8 DEF Triggers
<1> QED
  BY <1>2

LEMMA CreditIsKept ==
    ASSUME NEW v \in [implied : Int, realized : Int, event : BOOLEAN, tail : Int, trend : Int],
           NEW w \in WorseVolatility(v)
    PROVE  PreferredCredit(w) \in {"none", PreferredCredit(v)}
<1>1. w.trend = v.trend /\ (SellsPremium(w) => SellsPremium(v))
  BY DEF WorseVolatility, SellsPremium
<1> QED
  BY <1>1 DEF PreferredCredit

LEMMA ProtectionIsKept ==
    ASSUME NEW p \in [drawdown : Int, volatility : Int, trend : Int, concentration : Int,
                      correlation : Int],
           NEW w \in WorsePortfolio(p), Activated(p)
    PROVE  Activated(w)
<1>1. /\ p.drawdown <= w.drawdown /\ p.volatility <= w.volatility /\ w.trend <= p.trend
      /\ p.concentration <= w.concentration /\ p.correlation <= w.correlation
      /\ w.drawdown \in Int /\ w.volatility \in Int /\ w.trend \in Int
      /\ w.concentration \in Int /\ w.correlation \in Int
  BY DEF WorsePortfolio
<1>2. /\ Least(p.drawdown, 10) <= Least(w.drawdown, 10)
      /\ Least(p.concentration, 20) <= Least(w.concentration, 20)
      /\ Greatest(-p.trend, 0) <= Greatest(-w.trend, 0)
      /\ {Least(p.drawdown, 10), Least(w.drawdown, 10), Least(p.concentration, 20),
          Least(w.concentration, 20), Greatest(-p.trend, 0), Greatest(-w.trend, 0)} \subseteq Int
  BY <1>1 DEF Least, Greatest
<1>3. p.volatility \in Int /\ p.correlation \in Int
  OBVIOUS
<1> QED
  BY <1>1, <1>2, <1>3 DEF Activated, Protection20

(* When something gets worse no rule relaxes, for any observation, volatility
   and portfolio.                                                            *)
THEOREM Monotony == Spec => []WorseningNeverRelaxes
<1>1. Init => WorseningNeverRelaxes
  <2> SUFFICES ASSUME Init PROVE WorseningNeverRelaxes
    OBVIOUS
  <2>1. ASSUME Sampled("observation")
        PROVE  \A o \in Worse(sample.of) : Triggers(sample.of) \subseteq Triggers(o)
    <3>1. sample.of \in Observations
      BY <2>1, SampleAssumption DEF Init, Sampled, SamplesOf, NoSample, Observations
    <3> QED
      BY <3>1, TriggersAreKept
  <2>2. ASSUME Sampled("volatility")
        PROVE  \A v \in WorseVolatility(sample.of) :
                   PreferredCredit(v) \in {"none", PreferredCredit(sample.of)}
    <3>1. sample.of \in SomeVolatilities
      BY <2>2 DEF Init, Sampled, SamplesOf, NoSample
    <3> QED
      BY <3>1, CreditIsKept, SampleAssumption
  <2>3. ASSUME Sampled("protection"), Activated(sample.of)
        PROVE  \A p \in WorsePortfolio(sample.of) : Activated(p)
    <3>1. sample.of \in SomeProtections
      BY <2>3 DEF Init, Sampled, SamplesOf, NoSample
    <3> QED
      BY <2>3, <3>1, ProtectionIsKept, SampleAssumption
  <2> QED
    BY <2>1, <2>2, <2>3 DEF WorseningNeverRelaxes
<1>2. WorseningNeverRelaxes /\ [Next]_vars => WorseningNeverRelaxes'
  BY DEF WorseningNeverRelaxes, Sampled, Next, vars
<1> QED
  BY <1>1, <1>2, PTL DEF Spec

(* The evidence of the lab is sound for any sample: the drawdown is the deepest
   fall of the curve read from the initial equity on,                        *)
THEOREM DrawdownIsSound == Spec => []DrawdownMatches
<1>1. Init => DrawdownMatches
  <2> SUFFICES ASSUME Init, Sampled("curve") PROVE DrawdownAgrees(Head(sample.of), Tail(sample.of))
    BY DEF DrawdownMatches
  <2>1. sample.of \in SomeCurves
    BY DEF Init, Sampled, SamplesOf, NoSample
  <2>2. sample.of \in Seq(Nat) /\ Len(sample.of) > 1 /\ Head(sample.of) > 0
    BY <2>1, EvidenceAssumption
  <2>3. /\ Head(sample.of) \in Nat \ {0} /\ Tail(sample.of) \in Seq(Nat)
        /\ Len(Tail(sample.of)) > 0
    BY <2>2
  <2> QED
    BY <2>3, DrawdownIsDeepest
<1>2. DrawdownMatches /\ [Next]_vars => DrawdownMatches'
  BY DEF DrawdownMatches, Sampled, Next, vars
<1> QED
  BY <1>1, <1>2, PTL DEF Spec

(* ... and neither analogs nor windows look ahead. *)
THEOREM EvidenceLooksBack == Spec => []NoLookAhead
<1>1. Init => NoLookAhead
  <2> SUFFICES ASSUME Init PROVE NoLookAhead
    OBVIOUS
  <2>1. ASSUME Sampled("events"), NEW now \in 0 .. 3, NEW target \in 0 .. 3, NEW limit \in 1 .. 2
        PROVE  AnalogsLookBack(target, sample.of, now, limit)
    <3>1. sample.of \in SUBSET SomeEvents
      BY <2>1 DEF Init, Sampled, SamplesOf, NoSample
    <3>2. /\ sample.of \in SUBSET Analog /\ IsFiniteSet(sample.of)
          /\ \A c, d \in sample.of : c.event = d.event => c = d
      BY <3>1, EvidenceAssumption, FS_Subset DEF Analog
    <3>3. now \in Int /\ target \in Int /\ limit \in Nat
      OBVIOUS
    <3> QED
      BY <3>2, <3>3, NearestOfThePast
  <2>2. ASSUME Sampled("windows")
        PROVE  WindowsWalkForward(sample.of.stamps, sample.of.train, sample.of.test)
    <3>1. sample.of \in SomeWindows
      BY <2>2 DEF Init, Sampled, SamplesOf, NoSample
    <3>2. sample.of.stamps \in Seq(Nat) /\ sample.of.train \in Nat \ {0} /\ sample.of.test \in Nat \ {0}
      BY <3>1, EvidenceAssumption
    <3> QED
      BY <3>2, TestsFollowTraining
  <2> QED
    BY <2>1, <2>2 DEF NoLookAhead
<1>2. NoLookAhead /\ [Next]_vars => NoLookAhead'
  BY DEF NoLookAhead, Sampled, Next, vars
<1> QED
  BY <1>1, <1>2, PTL DEF Spec

-----------------------------------------------------------------------------
(* The choice of the legs.                                                   *)

LEMMA LeastNumber ==
    ASSUME NEW T, T \subseteq Nat, T # {}
    PROVE  \E x \in T : \A y \in T : x <= y
<1> DEFINE less == {pair \in Nat \X Nat : pair[1] < pair[2]}
<1>1. IsWellFoundedOn(less, Nat)
  BY NatLessThanWellFounded DEF OpToRel
<1> HIDE DEF less
<1>2. PICK x \in T : \A y \in T : ~(<<y, x>> \in less)
  BY <1>1, WFMin
<1>3. ASSUME NEW y \in T PROVE x <= y
  <2>1. x \in Nat /\ y \in Nat /\ ~(<<y, x>> \in less)
    BY <1>2
  <2>2. y < x => <<y, x>> \in less
    BY <2>1 DEF less
  <2> QED
    BY <2>1, <2>2
<1> QED
  BY <1>3

LEMMA LowestExists ==
    ASSUME NEW S, S # {}, \A c \in S : c.strike \in Nat
    PROVE  Lowest(S) \in S
<1>1. PICK x \in {c.strike : c \in S} : \A y \in {c.strike : c \in S} : x <= y
  <2> HIDE DEF Lowest
  <2>1. {c.strike : c \in S} \subseteq Nat /\ {c.strike : c \in S} # {}
    OBVIOUS
  <2> QED
    BY <2>1, LeastNumber
<1>2. \E c \in S : \A d \in S : c.strike <= d.strike
  BY <1>1
<1> QED
  BY <1>2 DEF Lowest

LEMMA HighestExists ==
    ASSUME NEW S, S # {}, NEW bound \in Nat,
           \A c \in S : c.strike \in Nat /\ c.strike <= bound
    PROVE  Highest(S) \in S
<1>1. PICK x \in {bound - c.strike : c \in S} : \A y \in {bound - c.strike : c \in S} : x <= y
  <2>1. {bound - c.strike : c \in S} \subseteq Nat /\ {bound - c.strike : c \in S} # {}
    OBVIOUS
  <2> QED
    BY <2>1, LeastNumber
<1>2. PICK c \in S : x = bound - c.strike
  OBVIOUS
<1>3. ASSUME NEW d \in S PROVE d.strike <= c.strike
  <2>1. x <= bound - d.strike
    BY <1>1
  <2> QED
    BY <1>2, <2>1
<1> QED
  BY <1>3 DEF Highest

(* What Candidates returns for a chain of the pool, at a known price. *)
Chosen(contracts) ==
    /\ contracts \subseteq Pool
    /\ \A c \in contracts : 10 * c.strike <= 13 * price
    /\ \A c, d \in contracts : c.call = d.call /\ c.dte = d.dte

LEMMA CandidatesAreChosen ==
    ASSUME price \in Nat, NEW chain \in SUBSET Pool
    PROVE  Chosen(Candidates(chain))
<1>1. ASSUME NEW c \in Candidates(chain)
      PROVE  /\ c \in Pool
             /\ 10 * c.strike <= 13 * price
             /\ c.call = (idea = "BULLISH")
             /\ c.dte \in 14 .. 45
             /\ \A d \in Candidates(chain) : d.dte <= c.dte
  <2>1. c \in Pool /\ Eligible(c, price, Now) /\ c.call = (idea = "BULLISH")
    BY DEF Candidates
  <2>2. c.strike \in Nat /\ 10 * Abs(c.strike - price) <= 3 * price /\ c.dte \in 14 .. 45
    BY <2>1, TradeAssumption DEF Eligible
  <2> QED
    BY <2>1, <2>2 DEF Abs, Candidates
<1>2. ASSUME NEW c \in Candidates(chain), NEW d \in Candidates(chain)
      PROVE  c.call = d.call /\ c.dte = d.dte
  <2>1. c.call = (idea = "BULLISH") /\ d.call = (idea = "BULLISH")
    BY <1>1
  <2>2. c.dte \in Int /\ d.dte \in Int /\ c.dte <= d.dte /\ d.dte <= c.dte
    BY <1>1
  <2>3. c.dte = d.dte
    BY <2>2
  <2> QED
    BY <2>1, <2>3, Zenon
<1>3. Candidates(chain) \subseteq Pool
  BY <1>1
<1>4. \A c \in Candidates(chain) : 10 * c.strike <= 13 * price
  BY <1>1
<1> QED
  BY <1>2, <1>3, <1>4 DEF Chosen

LEMMA LegsAreChosen ==
    ASSUME price \in Nat, NEW C, Chosen(C), Cardinality(C) >= 2
    PROVE  LongLeg(C) \in C /\ ShortLeg(C) \in C
<1>1. \A c \in C : c.strike \in Nat /\ c.strike <= 2 * price
  BY TradeAssumption DEF Chosen
<1>2. C # {} /\ \A c \in C : C # {c}
  BY FS_EmptySet, FS_Singleton
<1>3. Nearest(C) \in C
  <2> DEFINE near == {c \in C : \A d \in C : Abs(c.strike - price) <= Abs(d.strike - price)}
  <2>1. {Abs(c.strike - price) : c \in C} \subseteq Nat /\ {Abs(c.strike - price) : c \in C} # {}
    BY <1>1, <1>2 DEF Abs
  <2>2. PICK x \in {Abs(c.strike - price) : c \in C} :
            \A y \in {Abs(c.strike - price) : c \in C} : x <= y
    BY <2>1, LeastNumber
  <2>3. near # {}
    BY <2>2
  <2>4. Lowest(near) \in near
    BY <1>1, <2>3, LowestExists
  <2> QED
    BY <2>4 DEF Nearest
<1>4. ASSUME NEW c \in C PROVE Above(C, c) # {} \/ Below(C, c) # {}
  <2>1. PICK d \in C : d # c
    BY <1>2
  <2>2. d.strike # c.strike
    BY <2>1, TradeAssumption DEF Chosen
  <2> QED
    BY <1>1, <2>2 DEF Above, Below
<1>5. ASSUME NEW c \in C, Above(C, c) # {} PROVE Lowest(Above(C, c)) \in Above(C, c)
  BY <1>1, <1>5, LowestExists DEF Above
<1>6. ASSUME NEW c \in C, Below(C, c) # {} PROVE Highest(Below(C, c)) \in Below(C, c)
  <2>1. \A d \in Below(C, c) : d.strike \in Nat /\ d.strike <= 2 * price
    BY <1>1 DEF Below
  <2>2. 2 * price \in Nat
    OBVIOUS
  <2> QED
    BY <1>6, <2>1, <2>2, HighestExists
<1>7. \A c \in C : Above(C, c) \subseteq C /\ Below(C, c) \subseteq C
  BY DEF Above, Below
<1>8. LongLeg(C) \in C /\ (IF idea = "BULLISH" THEN Above(C, LongLeg(C)) # {}
                                             ELSE Below(C, LongLeg(C)) # {})
  <2> DEFINE c == Nearest(C)
  <2>1. ASSUME Above(C, c) = {} PROVE c \in Above(C, Highest(Below(C, c)))
    BY <1>1, <1>3, <1>4, <1>6, <2>1 DEF Above, Below
  <2>2. ASSUME Below(C, c) = {} PROVE c \in Below(C, Lowest(Above(C, c)))
    BY <1>1, <1>3, <1>4, <1>5, <2>2 DEF Above, Below
  <2> QED
    BY <1>3, <1>4, <1>5, <1>6, <1>7, <2>1, <2>2 DEF LongLeg
<1> QED
  BY <1>5, <1>6, <1>7, <1>8 DEF ShortLeg

-----------------------------------------------------------------------------
(* The analysis.                                                             *)

Approved == disposition = "TRADE"

(* The structure the analysis has built: a debit spread in the direction of the
   idea, whose strikes are near the price.                                   *)
Built ==
    /\ structure \in Structures
    /\ Accepted(structure)
    /\ structure.type = (IF idea = "BULLISH" THEN "bull_call_debit_spread"
                                            ELSE "bear_put_debit_spread")
    /\ 10 * structure.long.strike <= 13 * price
    /\ 10 * structure.short.strike <= 13 * price

(* What the analysis knows by its stage, and what an approval rests on. *)
IInv ==
    /\ TradeTypeOK
    /\ stage = "new" => idea = NoIdea /\ structure = NoStructure
    /\ stage \in {"chain", "account", "risk"} \/ Approved =>
           price \in Nat \ {0} /\ idea \in {"BULLISH", "BEARISH"}
    /\ stage = "chain" => structure = NoStructure
    /\ stage \in {"account", "risk"} \/ Approved => Built
    /\ Approved =>
           /\ intent = Intent(structure)
           /\ 200 * MaxLoss(structure) <= account.equity

LEMMA InitInv == Init => IInv
BY DEF Init, TradeInit, IInv, TradeTypeOK, Approved, NoIdea, NoStructure, NoAccount, NoIntent, Accepted,
       Singles, Spreads, Protective, DebitSpreads, CreditSpreads

LEMMA ReadMarketStep == IInv /\ ReadMarket => IInv'
<1> SUFFICES ASSUME IInv, ReadMarket PROVE IInv'
  OBVIOUS
<1>1. PICK h \in Headlines, m \in Markets :
          LET found == Idea(Features(h, m))
          IN  /\ price' = m.price
              /\ idea' = found
              /\ IF found = NoIdea THEN End("NO_TRADE")
                 ELSE stage' = "chain" /\ UNCHANGED disposition
  BY DEF ReadMarket
<1>2. Idea(Features(h, m)) \in {NoIdea, "BULLISH", "BEARISH"}
  BY DEF Idea, Direction
<1>3. price' \in Nat \ {0}
  BY <1>1, TradeAssumption
<1>4. /\ stage = "new" /\ disposition = "none" /\ structure = NoStructure /\ intent = NoIntent
      /\ UNCHANGED <<structure, account, intent>>
  BY DEF ReadMarket, IInv, TradeTypeOK
<1> QED
  BY <1>1, <1>2, <1>3, <1>4 DEF IInv, TradeTypeOK, Approved, End, NoIdea

LEMMA VerticalIsBuilt ==
    ASSUME NEW C, Chosen(C), Cardinality(C) >= 2, Accepted(Vertical(C)), price \in Nat
    PROVE  /\ Vertical(C) \in Structures
           /\ 10 * Vertical(C).long.strike <= 13 * price
           /\ 10 * Vertical(C).short.strike <= 13 * price
<1>1. \A c \in C : c.strike \in Nat /\ c.bid \in Nat /\ c.ask \in Nat
  BY TradeAssumption DEF Chosen
<1>2. LongLeg(C) \in C /\ ShortLeg(C) \in C
  BY LegsAreChosen
<1>3. /\ Vertical(C).long = Entry(LongLeg(C), TRUE)
      /\ Vertical(C).short = Entry(ShortLeg(C), FALSE)
      /\ Vertical(C).stock = 0
      /\ Vertical(C).type \in StructureTypes
  BY DEF Vertical, StructureTypes, Spreads, DebitSpreads
<1>4. /\ Vertical(C).type \in Spreads
      /\ SpreadAccepted(Vertical(C))
  BY DEF Vertical, Accepted, Singles, Protective, Spreads, DebitSpreads, CreditSpreads
<1>5. Vertical(C).long.call \in BOOLEAN /\ Vertical(C).short.call \in BOOLEAN
  BY <1>4 DEF SpreadAccepted
<1>6. Vertical(C).long \in Legs /\ Vertical(C).short \in Legs
  BY <1>1, <1>2, <1>3, <1>5 DEF Entry, Legs
<1>7. Vertical(C) \in Structures
  BY <1>3, <1>6 DEF Vertical, Structures
<1>8. /\ Vertical(C).long.strike = LongLeg(C).strike
      /\ Vertical(C).short.strike = ShortLeg(C).strike
  BY <1>3 DEF Entry
<1> QED
  BY <1>2, <1>7, <1>8 DEF Chosen

LEMMA ReadChainStep == ASSUME NEW chain \in SUBSET Pool, IInv, ReadChain(chain) PROVE IInv'
<1> DEFINE C == Candidates(chain)
<1>1. /\ stage = "chain" /\ disposition = "none" /\ intent = NoIntent
      /\ structure = NoStructure
      /\ price \in Nat \ {0} /\ idea \in {"BULLISH", "BEARISH"}
      /\ account \in Accounts \cup {NoAccount}
      /\ UNCHANGED <<price, idea, account, intent>>
  BY DEF ReadChain, IInv, TradeTypeOK
<1>2. CASE UNCHANGED structure /\ (End("raised") \/ End("UNAVAILABLE"))
  BY <1>1, <1>2 DEF IInv, TradeTypeOK, Approved, End
<1>3. CASE /\ Cardinality(C) >= 2
           /\ Accepted(Vertical(C))
           /\ structure' = Vertical(C)
           /\ stage' = "account"
           /\ UNCHANGED disposition
  <2>1. Chosen(C)
    BY <1>1, CandidatesAreChosen
  <2>2. /\ structure' \in Structures
        /\ 10 * structure'.long.strike <= 13 * price'
        /\ 10 * structure'.short.strike <= 13 * price'
    BY <1>1, <1>3, <2>1, VerticalIsBuilt
  <2>3. structure'.type = IF idea' = "BULLISH" THEN "bull_call_debit_spread"
                                               ELSE "bear_put_debit_spread"
    BY <1>1, <1>3 DEF Vertical
  <2>4. Built'
    BY <1>3, <2>2, <2>3 DEF Built, Accepted, SpreadAccepted, SingleAccepted, ProtectiveAccepted,
         Present, Premium, Width
  <2>5. structure'.type \in DebitSpreads
    BY <2>3 DEF DebitSpreads
  <2> QED
    BY <1>1, <1>3, <2>4, <2>5 DEF IInv, TradeTypeOK, Approved, Built
<1> QED
  BY <1>2, <1>3 DEF ReadChain

LEMMA DecideStep ==
    ASSUME NEW gate \in BOOLEAN, NEW within \in BOOLEAN, NEW positions \in Counts,
           IInv, Decide(gate, positions, within)
    PROVE  IInv'
<1>1. /\ stage = "risk" /\ disposition = "none" /\ intent = NoIntent
      /\ Built
      /\ price \in Nat \ {0} /\ idea \in {"BULLISH", "BEARISH"}
      /\ account \in Accounts \cup {NoAccount}
      /\ UNCHANGED <<price, idea, structure, account>>
  BY DEF Decide, IInv, TradeTypeOK
<1>2. CASE End("RISK_REJECTED") /\ UNCHANGED intent
  BY <1>1, <1>2 DEF IInv, TradeTypeOK, Approved, End, Built
<1>3. CASE /\ RiskApproves(MaxLoss(structure), Context(gate, positions, within))
           /\ End("TRADE")
           /\ intent' = Intent(structure)
  <2>1. 200 * MaxLoss(structure) <= account.equity
    BY <1>3 DEF RiskApproves, LossWithinShare, Context
  <2>2. structure.long.strike > 0
    BY <1>1 DEF Built, Accepted, SpreadAccepted, Present, Singles, Protective
  <2>3. intent' # NoIntent
    BY <1>3, <2>2 DEF Intent, NoIntent, NoLeg
  <2>4. Built'
    BY <1>1 DEF Built
  <2>5. intent' = Intent(structure') /\ 200 * MaxLoss(structure') <= account'.equity
    BY <1>1, <1>3, <2>1
  <2>6. structure'.type \in DebitSpreads /\ Accepted(structure')
    BY <1>1 DEF Built, DebitSpreads
  <2> QED
    BY <1>1, <1>3, <2>3, <2>4, <2>5, <2>6 DEF IInv, TradeTypeOK, Approved, End
<1> QED
  BY <1>2, <1>3 DEF Decide

LEMMA IInvStep == IInv /\ [Next]_vars => IInv'
<1> SUFFICES ASSUME IInv, [Next]_vars PROVE IInv'
  OBVIOUS
<1>1. CASE ReadMarket
  BY <1>1, ReadMarketStep
<1>2. CASE Raise
  BY <1>2 DEF Raise, IInv, TradeTypeOK, Approved, End
<1>3. ASSUME NEW chain \in SUBSET Pool, ReadChain(chain) PROVE IInv'
  BY <1>3, ReadChainStep
<1>4. ASSUME NEW a \in Accounts \cup {NoAccount}, ReadAccount(a) PROVE IInv'
  BY <1>4 DEF ReadAccount, IInv, TradeTypeOK, Approved, End, Built
<1>5. ASSUME NEW gate \in BOOLEAN, NEW within \in BOOLEAN, NEW positions \in Counts,
             Decide(gate, positions, within)
      PROVE  IInv'
  BY <1>5, DecideStep
<1>6. CASE UNCHANGED vars
  BY <1>6 DEF vars, tradeVars, IInv, TradeTypeOK, Approved, Built
<1> QED
  BY <1>1, <1>2, <1>3, <1>4, <1>5, <1>6 DEF Next, TradeNext

LEMMA Invariance == Spec => []IInv
BY InitInv, IInvStep, PTL DEF Spec

(* The analysis keeps its bookkeeping, for every market, chain and account. *)
THEOREM TypeCorrect == Spec => []TypeOK
<1>1. IInv => TypeOK
  BY DEF IInv, TypeOK
<1> QED
  BY <1>1, Invariance, PTL

(* The outcome of an intent is the payoff of its structure. *)
Outcome(p) == Intrinsic(intent.buy, p) - Intrinsic(intent.sell, p) - intent.limit

(* At every price an approved intent loses at most what the Risk Engine allowed. *)
LEMMA LossIsCovered ==
    ASSUME IInv, Approved, NEW p \in Nat
    PROVE  200 * Outcome(p) >= -account.equity
<1>1. /\ intent = Intent(structure)
      /\ 200 * MaxLoss(structure) <= account.equity
      /\ structure \in Structures /\ Accepted(structure)
      /\ account.equity \in Int
  BY TradeAssumption DEF IInv, Built, TradeTypeOK, NoAccount
<1>2. structure.stock = 0
  BY DEF IInv, Built, Accepted, SpreadAccepted, Singles, Protective
<1>3. Payoff(structure, p) >= -MaxLoss(structure)
  BY <1>1, LossIsBounded DEF WithinBounds
<1>4. Outcome(p) = Payoff(structure, p)
  BY <1>1, <1>2, StructureFields DEF Outcome, Intent, Payoff, Intrinsic, Premium, Pos
<1>5. Payoff(structure, p) \in Int /\ MaxLoss(structure) \in Int
  BY <1>1, <1>2, StructureFields DEF Payoff, Intrinsic, Premium, MaxLoss, Width, Pos
<1> QED
  BY <1>1, <1>3, <1>4, <1>5

(* Far enough in the direction of the idea an approved intent wins. *)
LEMMA DirectionWins ==
    ASSUME IInv, Approved
    PROVE  Outcome(IF idea = "BULLISH" THEN 2 * price ELSE 0) > 0
<1>1. /\ intent = Intent(structure)
      /\ structure \in Structures /\ SpreadAccepted(structure)
      /\ price \in Nat \ {0} /\ idea \in {"BULLISH", "BEARISH"}
      /\ 10 * structure.long.strike <= 13 * price
      /\ 10 * structure.short.strike <= 13 * price
      /\ structure.type = IF idea = "BULLISH" THEN "bull_call_debit_spread"
                                             ELSE "bear_put_debit_spread"
  BY DEF IInv, Built, Accepted, Singles, Protective
<1>2. CASE idea = "BULLISH"
  BY <1>1, <1>2, StructureFields DEF Outcome, Intent, Intrinsic, Premium, Pos, SpreadAccepted,
       Width, Calls, Bullish, DebitSpreads
<1>3. CASE idea = "BEARISH"
  BY <1>1, <1>3, StructureFields DEF Outcome, Intent, Intrinsic, Premium, Pos, SpreadAccepted,
       Width, Calls, Bullish, DebitSpreads
<1> QED
  BY <1>1, <1>2, <1>3

(* An intent the analysis approves cannot lose more than half a percent of the
   equity, at any price of the underlying.                                   *)
THEOREM LossAtAnyPrice ==
    Spec => [](Approved => \A p \in Nat : 200 * Outcome(p) >= -account.equity)
<1>1. IInv => (Approved => \A p \in Nat : 200 * Outcome(p) >= -account.equity)
  BY LossIsCovered
<1> QED
  BY <1>1, Invariance, PTL

(* The bound and the direction of approved intents, as the runs check them. *)
THEOREM ApprovedBounds == Spec => []ApprovedIsBounded
<1>1. IInv => ApprovedIsBounded
  <2> SUFFICES ASSUME IInv, Approved PROVE ApprovedIsBounded
    BY DEF ApprovedIsBounded, Approved
  <2>1. /\ price \in Nat /\ 2 * price \in Nat
        /\ intent.buy.strike \in Nat /\ intent.sell.strike \in Nat
    BY StructureFields DEF IInv, Built, Intent
  <2> QED
    BY <2>1, LossIsCovered, DirectionWins DEF ApprovedIsBounded, Outcome
<1> QED
  BY <1>1, Invariance, PTL

=============================================================================
