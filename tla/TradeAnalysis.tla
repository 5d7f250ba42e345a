--------------------------- MODULE TradeAnalysis ---------------------------
(***************************************************************************)
(* One analysis of a symbol (ConnectedOpportunityService.analyze in        *)
(* packages/connected/opportunities.py): from market features over the     *)
(* option chain and the broker projection to a disposition, and an order   *)
(* intent where the Risk Engine approves.  Each step awaits what the world *)
(* answers; `now' is taken before the first.                               *)
(***************************************************************************)
EXTENDS TradingRules, OptionStructures, Sequences

CONSTANTS
    Headlines,        \* [news, good, bad, hits]: counts of news and of words
    Markets,          \* [price, open, previous, volume, market, sector]
    Pool,             \* option contracts a chain may have
    Accounts,         \* [equity, last] of the broker projection
    Counts            \* numbers of open positions

ASSUME TradeAssumption ==
    /\ \A m \in Markets : m.price \in Nat \ {0}
    /\ \A c \in Pool : c.strike \in Nat /\ c.bid \in Nat /\ c.ask \in Nat
    /\ \A c, d \in Pool :          \* as the symbol of an option says
           c.call = d.call /\ c.strike = d.strike /\ c.dte = d.dte => c = d
    /\ \A a \in Accounts : a.equity \in Int

VARIABLES
    stage,            \* "new", "chain", "account", "risk", "done"
    price,            \* of the underlying
    idea,
    structure,
    account,
    disposition,
    intent

tradeVars == <<stage, price, idea, structure, account, disposition, intent>>

Now == 100000         \* seconds

NoStructure == [type |-> "none", long |-> NoLeg, short |-> NoLeg, stock |-> 0]
NoAccount == [equity |-> 0, last |-> 0]
NoIntent == [buy |-> NoLeg, sell |-> NoLeg, quantity |-> 0, limit |-> 0]

TradeInit ==
    /\ stage = "new"
    /\ price = 0
    /\ idea = NoIdea
    /\ structure = NoStructure
    /\ account = NoAccount
    /\ disposition = "none"
    /\ intent = NoIntent

(* Twenty times the change since `from', in hundredths; the counts and prices of
   the constants are such that no division leaves a rest.                    *)
Move(from, to) == Clamp(((to - from) * 2000) \div from, -100, 100)

(* _features *)
Features(h, m) ==
    [confidence |-> Least(100, 15 + 6 * h.news + 8 * h.hits),
     sentiment  |-> (100 * (h.good - h.bad)) \div Greatest(h.good + h.bad, 1),
     volume     |-> m.volume,
     momentum   |-> Move(m.open, m.price),
     gap        |-> ((m.open - m.previous) * 10000) \div m.previous,
     market     |-> m.market,
     sector     |-> m.sector,
     liquidity  |-> 75]

End(result) == stage' = "done" /\ disposition' = result

ReadMarket ==
    /\ stage = "new"
    /\ \E h \in Headlines, m \in Markets :
          LET found == Idea(Features(h, m))
          IN  /\ price' = m.price
              /\ idea' = found
              /\ IF found = NoIdea THEN End("NO_TRADE") ELSE stage' = "chain" /\ UNCHANGED disposition
    /\ UNCHANGED <<structure, account, intent>>

(* Alpaca, the projections or the record of the result fail: the analysis raises
   and leaves nothing behind.                                                *)
Raise ==
    /\ stage # "done"
    /\ End("raised")
    /\ UNCHANGED <<price, idea, structure, account, intent>>

(* A quote with the ask below the bid is not a quote: one of them makes the whole
   chain raise.                                                              *)
Crossed(chain) == \E c \in chain : c.ask < c.bid

Lowest(contracts) == CHOOSE c \in contracts : \A d \in contracts : c.strike <= d.strike
Highest(contracts) == CHOOSE c \in contracts : \A d \in contracts : d.strike <= c.strike
Above(contracts, c) == {d \in contracts : d.strike > c.strike}
Below(contracts, c) == {d \in contracts : d.strike < c.strike}

(* The lower of the nearest strikes. *)
Nearest(contracts) ==
    Lowest({c \in contracts :
              \A d \in contracts : Abs(c.strike - price) <= Abs(d.strike - price)})

(* The eligible contracts of the wanted type, at the nearest expiration only. *)
Candidates(chain) ==
    LET eligible == {c \in chain : c.call = (idea = "BULLISH") /\ Eligible(c, price, Now)}
    IN  {c \in eligible : \A d \in eligible : c.dte <= d.dte}

(* The long leg is the nearest strike that has a neighbour on the side of the
   short leg.                                                                *)
LongLeg(contracts) ==
    LET c == Nearest(contracts)
    IN  IF idea = "BULLISH"
        THEN IF Above(contracts, c) = {} THEN Highest(Below(contracts, c)) ELSE c
        ELSE IF Below(contracts, c) = {} THEN Lowest(Above(contracts, c)) ELSE c

ShortLeg(contracts) ==
    LET c == LongLeg(contracts)
    IN  IF idea = "BULLISH" THEN Lowest(Above(contracts, c)) ELSE Highest(Below(contracts, c))

(* One buys at the ask and sells at the bid. *)
Entry(c, long) ==
    [call |-> c.call, strike |-> c.strike, price |-> IF long THEN c.ask ELSE c.bid]

Vertical(contracts) ==
    [type  |-> IF idea = "BULLISH" THEN "bull_call_debit_spread" ELSE "bear_put_debit_spread",
     long  |-> Entry(LongLeg(contracts), TRUE),
     short |-> Entry(ShortLeg(contracts), FALSE),
     stock |-> 0]

ReadChain(chain) ==
    LET contracts == Candidates(chain)
    IN  /\ stage = "chain"
        /\ \/ Crossed(chain) /\ End("raised") /\ UNCHANGED structure
           \/ ~Crossed(chain) /\ Cardinality(contracts) < 2
              /\ End("UNAVAILABLE") /\ UNCHANGED structure
           \/ /\ ~Crossed(chain) /\ Cardinality(contracts) >= 2
              /\ IF Accepted(Vertical(contracts))
                 THEN /\ structure' = Vertical(contracts)
                      /\ stage' = "account"
                      /\ UNCHANGED disposition
                 ELSE End("raised") /\ UNCHANGED structure
        /\ UNCHANGED <<price, idea, account, intent>>

ReadAccount(a) ==
    /\ stage = "account"
    /\ account' = a
    /\ IF a = NoAccount THEN End("UNAVAILABLE") ELSE stage' = "risk" /\ UNCHANGED disposition
    /\ UNCHANGED <<price, idea, structure, intent>>

(* What the analysis tells the Risk Engine: the loss of open orders and positions
   is not among it, only how many positions there are.  The Greeks of the legs are
   what Alpaca says of them, so that those of the structure may pass the caps of
   the policy or not.                                                        *)
Context(gate, positions, within) ==
    [gate |-> gate, duplicate |-> FALSE, equity |-> account.equity, open |-> 0,
     underlying |-> 0, daily |-> Greatest(account.last - account.equity, 0),
     last |-> account.last, positions |-> positions, greeksWithinCaps |-> within]

(* create_order_intent: buy and sell legs at the net premium of the structure.
   Its client order id is a hash of exactly this and the risk decision.      *)
Intent(s) == [buy |-> s.long, sell |-> s.short, quantity |-> 1, limit |-> Premium(s)]

(* A mistake for Decide: the intent is made before the decision is looked at. *)
DecideLate(gate, positions, within) ==
    /\ stage = "risk"
    /\ intent' = Intent(structure)
    /\ End(IF RiskApproves(MaxLoss(structure), Context(gate, positions, within))
           THEN "TRADE" ELSE "RISK_REJECTED")
    /\ UNCHANGED <<price, idea, structure, account>>

Decide(gate, positions, within) ==
    /\ stage = "risk"
    /\ IF RiskApproves(MaxLoss(structure), Context(gate, positions, within))
       THEN End("TRADE") /\ intent' = Intent(structure)
       ELSE End("RISK_REJECTED") /\ UNCHANGED intent
    /\ UNCHANGED <<price, idea, structure, account>>

TradeNext ==
    \/ ReadMarket
    \/ Raise
    \/ \E chain \in SUBSET Pool : ReadChain(chain)
    \/ \E a \in Accounts \cup {NoAccount} : ReadAccount(a)
    \/ \E gate, within \in BOOLEAN, positions \in Counts : Decide(gate, positions, within)
-----------------------------------------------------------------------------

TradeTypeOK ==
    /\ stage \in {"new", "chain", "account", "risk", "done"}
    /\ idea \in {NoIdea, "BULLISH", "BEARISH"}
    /\ structure # NoStructure => Accepted(structure) /\ structure.type \in DebitSpreads
    /\ account \in Accounts \cup {NoAccount}
    /\ disposition \in {"none", "NO_TRADE", "UNAVAILABLE", "RISK_REJECTED", "TRADE", "raised"}
    /\ stage = "done" <=> disposition # "none"
    /\ disposition = "TRADE" <=> intent # NoIntent

(* At no price of the underlying does an approved intent, filled at its limit,
   lose more than half a percent of the equity the decision was taken on, and
   it wins when the underlying moves far enough where the idea said it would. *)
ApprovedIsBounded ==
    disposition = "TRADE" =>
        LET outcome(p) == Intrinsic(intent.buy, p) - Intrinsic(intent.sell, p) - intent.limit
        IN  /\ \A p \in {0, price, 2 * price, intent.buy.strike, intent.sell.strike} :
                  200 * outcome(p) >= -account.equity
            /\ outcome(IF idea = "BULLISH" THEN 2 * price ELSE 0) > 0
=============================================================================
