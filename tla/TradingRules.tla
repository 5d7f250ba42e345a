---------------------------- MODULE TradingRules ----------------------------
(***************************************************************************)
(* The deterministic rules a trade has to pass: the liquidity of a         *)
(* contract (packages/options/liquidity.py), the strategies                *)
(* (packages/strategy), the Risk Engine (packages/risk/engine.py), and the *)
(* triggers of the Guardian (packages/guardian/engine.py).                 *)
(*                                                                         *)
(* Decimals are integers: ratios and scores in hundredths, prices in cents *)
(* per share.  A contract is 100 shares, so that a price in cents per      *)
(* share is an amount in dollars per contract.                             *)
(***************************************************************************)
EXTENDS Integers, FiniteSets

Least(x, y) == IF x < y THEN x ELSE y
Greatest(x, y) == IF x < y THEN y ELSE x
Clamp(x, low, high) == Least(Greatest(x, low), high)
Abs(x) == IF x < 0 THEN -x ELSE x
-----------------------------------------------------------------------------
(* Liquidity, under the policy of packages/connected/opportunities.py.     *)

(* A mistake for Fresh: the seconds of the age without its days. *)
FreshOfSeconds(c, now) == (now - c.stamp) % 86400 <= 120

Fresh(c, now) == now - c.stamp \in 0 .. 120

TightSpread(c) == c.bid + c.ask > 0 /\ 10 * (c.ask - c.bid) <= c.bid + c.ask

Eligible(c, price, now) ==
    /\ c.tradable
    /\ c.dte \in 14 .. 45
    /\ c.bid > 0 /\ c.ask > 0
    /\ TightSpread(c)
    /\ c.size >= 1
    /\ c.interest >= 25
    /\ Fresh(c, now)
    /\ price > 0 /\ 10 * Abs(c.strike - price) <= 3 * price
    /\ c.greeks
-----------------------------------------------------------------------------
(* Catalyst momentum.                                                      *)

(* A mistake for Agreement: the index speaks for itself. *)
AgreementAlone(f, value) == Clamp(value, -100, 100) + 100

(* A signed confirmation counts for the direction of the news. *)
Agreement(f, value) ==
    Clamp(IF f.sentiment >= 0 THEN value ELSE -value, -100, 100) + 100

(* Eighty times the score of score_signal: an integer. *)
Score80(f) ==
    24 * f.confidence + 12 * Abs(f.sentiment)
        + 8 * Agreement(f, f.momentum) + 8 * Clamp((f.volume - 100) \div 2, 0, 100)
        + 3 * Agreement(f, f.market) + 3 * Agreement(f, f.sector) + 8 * f.liquidity

Direction(f) == IF f.sentiment > 0 THEN "BULLISH" ELSE "BEARISH"

NoIdea == "none"

(* evaluate_signal: the direction of the idea, or none. *)
Idea(f) ==
    IF /\ Score80(f) >= 80 * 65
       /\ Abs(f.gap) <= 1200
       /\ (IF Direction(f) = "BULLISH" THEN f.momentum ELSE -f.momentum) > 0
       /\ f.confidence >= 60
    THEN Direction(f) ELSE NoIdea

(* The same market the other way up. *)
Mirror(f) ==
    [f EXCEPT !.sentiment = -@, !.momentum = -@, !.gap = -@, !.market = -@, !.sector = -@]

Opposite(idea) ==
    CASE idea = "BULLISH" -> "BEARISH" [] idea = "BEARISH" -> "BULLISH" [] OTHER -> idea

(* The strategy has no view of its own: news, momentum and indices turned round
   give the opposite idea.  Neutral news is an exception: it is scored as good
   news and traded as bad news.                                              *)
Impartial(f) == f.sentiment # 0 => Idea(Mirror(f)) = Opposite(Idea(f))
-----------------------------------------------------------------------------
(* Volatility premium and portfolio protection.                            *)

SellsPremium(v) ==
    v.implied - v.realized >= 20 /\ ~v.event /\ v.tail <= 70

PreferredCredit(v) ==
    IF ~SellsPremium(v) THEN "none"
    ELSE IF v.trend >= 0 THEN "bull_put_credit_spread" ELSE "bear_call_credit_spread"

(* Twenty times the protection score. *)
Protection20(p) ==
    60 * Least(p.drawdown, 10) + 4 * p.volatility + 4 * Greatest(-p.trend, 0)
        + 15 * Least(p.concentration, 20) + 3 * p.correlation

Activated(p) == Protection20(p) >= 20 * 55
-----------------------------------------------------------------------------
(* The Risk Engine, under its default policy.                              *)

(* A mistake for LossWithinShare: half a percent of equity as five. *)
LossWithinFivePercent(loss, equity) == 20 * loss <= equity

LossWithinShare(loss, equity) == 200 * loss <= equity

RiskApproves(loss, r) ==
    /\ r.gate
    /\ ~r.duplicate
    /\ LossWithinShare(loss, r.equity)
    /\ 25 * (r.open + loss) <= r.equity
    /\ 10 * (r.underlying + loss) <= r.equity
    /\ 50 * r.daily < r.equity
    /\ 10 * Greatest(r.last - r.equity, 0) < Greatest(r.last, 1)
    /\ r.positions < 8
    /\ r.greeksWithinCaps
-----------------------------------------------------------------------------
(* The Guardian.                                                           *)

(* No market data at all. *)
Never == -1000

(* A mistake for Triggers: the third rejection, and no other, is looked at. *)
TriggersAtLimit(o) ==
    {t \in {"STALE_MARKET_DATA", "REPEATED_ORDER_REJECTIONS", "ABNORMAL_ORDER_RATE"} :
        CASE t = "STALE_MARKET_DATA" -> o.age \notin 0 .. 15
          [] t = "REPEATED_ORDER_REJECTIONS" -> o.rejections = 3
          [] t = "ABNORMAL_ORDER_RATE" -> o.orders > 5}

Triggers(o) ==
    {t \in {"STALE_MARKET_DATA", "STREAM_DISCONNECTED", "STATE_DIVERGENCE",
            "DUPLICATE_ORDER_PATTERN", "RISK_POLICY_BREACH", "REPEATED_ORDER_REJECTIONS",
            "ABNORMAL_ORDER_RATE", "UNCOVERED_OPTION_EXPOSURE"} :
        CASE t = "STALE_MARKET_DATA" -> o.age \notin 0 .. 15
          [] t = "STREAM_DISCONNECTED" -> ~o.stream
          [] t = "STATE_DIVERGENCE" -> ~o.reconciled \/ o.divergences > 0
          [] t = "DUPLICATE_ORDER_PATTERN" -> o.duplicates > 0
          [] t = "RISK_POLICY_BREACH" -> o.breach
          [] t = "REPEATED_ORDER_REJECTIONS" -> o.rejections >= 3
          [] t = "ABNORMAL_ORDER_RATE" -> o.orders > 5
          [] t = "UNCOVERED_OPTION_EXPOSURE" -> o.uncovered > 0}

=============================================================================
