-------------------------- MODULE OptionStructures --------------------------
(***************************************************************************)
(* Option structures (packages/options/engine.py, packages/domain/         *)
(* options.py): which combinations of legs are accepted, and the loss,     *)
(* profit and break-even that are computed for them, beside their payoff   *)
(* at expiration.                                                          *)
(*                                                                         *)
(* Amounts are integers, per share and for one contract.  A structure has  *)
(* at most one long and one short leg, and a leg that is missing is NoLeg: *)
(* a put at strike 0, which pays nothing.  A structure without underlying  *)
(* shares has stock = 0.                                                   *)
(***************************************************************************)
EXTENDS Integers

Pos(x) == IF x > 0 THEN x ELSE 0

NoLeg == [call |-> FALSE, strike |-> 0, price |-> 0]

Legs == [call : BOOLEAN, strike : Nat, price : Nat]

DebitSpreads == {"bull_call_debit_spread", "bear_put_debit_spread"}
CreditSpreads == {"bull_put_credit_spread", "bear_call_credit_spread"}
Spreads == DebitSpreads \cup CreditSpreads
Singles == {"long_call", "long_put"}
Protective == {"protective_put", "protective_put_spread"}
StructureTypes == Spreads \cup Singles \cup Protective

Calls == {"long_call", "bull_call_debit_spread", "bear_call_credit_spread"}
Bullish == {"bull_call_debit_spread", "bull_put_credit_spread"}

Structures == [type : StructureTypes, long : Legs, short : Legs, stock : Nat]

Present(leg) == leg.strike > 0

Premium(s) == s.long.price - s.short.price

Width(s) == IF s.long.strike > s.short.strike THEN s.long.strike - s.short.strike
            ELSE s.short.strike - s.long.strike

SingleAccepted(s) ==
    /\ Present(s.long) /\ s.short = NoLeg
    /\ s.long.call = (s.type \in Calls)
    /\ s.stock = 0
    /\ Premium(s) > 0

(* A debit, or a credit, below the distance of the strikes. *)
SpreadAccepted(s) ==
    /\ Present(s.long) /\ Present(s.short)
    /\ s.long.call = (s.type \in Calls) /\ s.short.call = (s.type \in Calls)
    /\ s.stock = 0
    /\ IF s.type \in DebitSpreads
       THEN Premium(s) > 0 /\ Premium(s) < Width(s)
       ELSE -Premium(s) > 0 /\ -Premium(s) < Width(s)
    /\ IF s.type \in Bullish
       THEN s.long.strike < s.short.strike
       ELSE s.long.strike > s.short.strike

ProtectiveAccepted(s) ==
    /\ s.stock > 0
    /\ Present(s.long) /\ ~s.long.call /\ ~s.short.call
    /\ Premium(s) > 0
    /\ IF s.type = "protective_put"
       THEN s.short = NoLeg
       ELSE Present(s.short) /\ s.long.strike > s.short.strike

Accepted(s) ==
    \/ s.type \in Singles /\ SingleAccepted(s)
    \/ s.type \in Spreads /\ SpreadAccepted(s)
    \/ s.type \in Protective /\ ProtectiveAccepted(s)

(* A mistake for MaxLoss: a credit spread loses the whole distance. *)
MaxLossOfWidth(s) ==
    IF s.type \in CreditSpreads THEN Width(s)
    ELSE IF s.type \in Protective
         THEN Pos(s.stock + Premium(s) - (s.long.strike - s.short.strike))
         ELSE Premium(s)

MaxLoss(s) ==
    IF s.type \in CreditSpreads THEN Width(s) + Premium(s)
    ELSE IF s.type \in Protective
         THEN Pos(s.stock + Premium(s) - (s.long.strike - s.short.strike))
         ELSE Premium(s)

Bounded(s) == s.type \in Spreads \cup {"long_put"}

MaxProfit(s) ==
    CASE s.type \in DebitSpreads -> Width(s) - Premium(s)
      [] s.type \in CreditSpreads -> -Premium(s)
      [] s.type = "long_put" -> Pos(s.long.strike - Premium(s))

BreakEven(s) ==
    CASE s.type \in {"long_call", "bull_call_debit_spread"} -> s.long.strike + Premium(s)
      [] s.type \in {"long_put", "bear_put_debit_spread"} -> s.long.strike - Premium(s)
      [] s.type = "bull_put_credit_spread" -> s.short.strike + Premium(s)
      [] s.type = "bear_call_credit_spread" -> s.short.strike - Premium(s)
      [] s.type \in Protective -> s.stock + Premium(s)

Intrinsic(leg, price) ==
    IF leg.call THEN Pos(price - leg.strike) ELSE Pos(leg.strike - price)

Payoff(s, price) ==
    Intrinsic(s.long, price) - Intrinsic(s.short, price) - Premium(s)
        + (IF s.stock = 0 THEN 0 ELSE price - s.stock)
-----------------------------------------------------------------------------

(* No price at expiration makes the structure lose more, or win more, than was
   computed for it, and it breaks even where it was said to.  The break-even of
   a protective structure holds only above its long strike.                  *)
WithinBounds(s, price) ==
    /\ Payoff(s, price) >= -MaxLoss(s)
    /\ Bounded(s) => Payoff(s, price) <= MaxProfit(s)
    /\ price = BreakEven(s) /\ (s.type \in Protective => price >= s.long.strike)
          => Payoff(s, price) = 0

(* ... and both extremes are met at one of the prices. *)
ExtremesMet(s, prices) ==
    /\ MaxLoss(s) > 0 => \E p \in prices : Payoff(s, p) = -MaxLoss(s)
    /\ Bounded(s) /\ MaxProfit(s) > 0 => \E p \in prices : Payoff(s, p) = MaxProfit(s)

=============================================================================
