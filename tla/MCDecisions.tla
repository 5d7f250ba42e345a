---------------------------- MODULE MCDecisions ----------------------------
(***************************************************************************)
(* Small instances of Decisions for TLC.  Prices are in cents; the words   *)
(* of headlines and the moves of prices are such that ratios are exact,    *)
(* and each bound of the code has a sample on both of its sides.           *)
(***************************************************************************)
EXTENDS Decisions, TLC

FewHeadlines ==
    {[news |-> 5, good |-> 1, bad |-> 0, hits |-> 6], [news |-> 5, good |-> 0, bad |-> 2, hits |-> 7],
     [news |-> 6, good |-> 1, bad |-> 1, hits |-> 9], [news |-> 0, good |-> 0, bad |-> 0, hits |-> 0]}

FewMarkets ==
    {[price |-> p, open |-> 10000, previous |-> q, volume |-> 320, market |-> x, sector |-> x] :
        p \in {9600, 10000, 10400}, q \in {8000, 10000}, x \in {-60, 60}}

Contract(call, strike, dte, bid, ask, stamp) ==
    [call |-> call, strike |-> strike, dte |-> dte, bid |-> bid, ask |-> ask, stamp |-> stamp,
     tradable |-> TRUE, size |-> 5, interest |-> 100, greeks |-> TRUE]

FewContracts ==
    {Contract(TRUE, 10000, 20, 400, 410, Now - 5), Contract(TRUE, 10500, 20, 100, 104, Now - 5),
     Contract(TRUE, 10400, 20, 90, 95, Now - 90), Contract(TRUE, 10700, 20, 60, 64, Now - 60),
     Contract(TRUE, 10200, 27, 300, 308, Now - 5),
     Contract(TRUE, 10900, 20, 50, 40, Now - 5),  Contract(TRUE, 10500, 27, 120, 122, Now + 1),
     Contract(FALSE, 9500, 20, 150, 155, Now - 5), Contract(FALSE, 10000, 20, 390, 400, Now - 5),
     Contract(FALSE, 9900, 20, 340, 345, Now - 5)}

FewAccounts ==
    {[equity |-> 100000, last |-> 100000], [equity |-> 50000, last |-> 50000],
     [equity |-> 97900, last |-> 100000], [equity |-> 100000, last |-> 112000]}

SampleLegs(strikes) ==
    {NoLeg} \cup [call : BOOLEAN, strike : strikes, price : {0, 1, 3, 4, 8}]

FewStructures ==
    [type : StructureTypes, long : SampleLegs({4, 8, 14}), short : SampleLegs({4, 8, 14}),
     stock : {0, 5, 12}]

FewFeatures ==
    [confidence : {50, 60, 91}, sentiment : {-100, -30, 0, 30, 100}, volume : {100, 200, 320},
     momentum : {-100, -20, 0, 20, 100}, gap : {-1300, -1200, 0, 1200, 1300},
     market : {-100, 0, 100}, sector : {-50, 0, 50}, liquidity : {75}]

QuotedContracts ==
    {[Contract(TRUE, 10500, 20, bid, bid + spread, Now - age)
        EXCEPT !.size = size, !.interest = interest] :
        bid \in {0, 90, 95, 100}, spread \in {0, 5, 10, 20, 21}, size \in {0, 1},
        interest \in {24, 25}, age \in {-1, 0, 120, 121, 86400 + 60}}

FewObservations ==
    [age : {Never, -1, 0, 15, 16}, stream : BOOLEAN, reconciled : BOOLEAN, divergences : 0 .. 1,
     duplicates : 0 .. 1, breach : BOOLEAN, rejections : {0, 2, 3}, orders : 4 .. 6,
     uncovered : 0 .. 1]

FewVolatilities ==
    [implied : {20, 70, 90}, realized : {0, 50, 70}, event : BOOLEAN, tail : {0, 70, 71},
     trend : {-100, -1, 0, 100}]

FewProtections ==
    [drawdown : {0, 5, 9, 10, 20}, volatility : {0, 50, 100}, trend : {-100, -40, 0, 100},
     concentration : {0, 15, 19, 20, 30}, correlation : {0, 50, 100}]

FewCurves == UNION {[1 .. n -> {4, 6, 8, 10}] : n \in 2 .. 5}

FewEvents ==
    {[event |-> 1, feature |-> 1, observed |-> 0, available |-> 0],
     [event |-> 2, feature |-> 2, observed |-> 0, available |-> 2],
     [event |-> 3, feature |-> 1, observed |-> 1, available |-> 1],
     [event |-> 4, feature |-> 3, observed |-> 1, available |-> 3]}

(* Stamps in order, and with repetitions or out of order. *)
FewStamps == UNION {[1 .. n -> 1 .. 4] : n \in 0 .. 4} \cup {[k \in 1 .. n |-> k] : n \in 5 .. 8}

FewWindows == [stamps : FewStamps, train : 1 .. 3, test : 1 .. 3]

=============================================================================
