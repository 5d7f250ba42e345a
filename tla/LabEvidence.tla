---------------------------- MODULE LabEvidence ----------------------------
(***************************************************************************)
(* The evidence of the Strategy Lab (packages/lab/evidence.py): the        *)
(* drawdown of an equity curve, the analogs of a market, and walk-forward  *)
(* windows, each beside a definition that does not iterate.  Fractions are *)
(* pairs of integers.                                                      *)
(***************************************************************************)
EXTENDS Integers, Sequences, FiniteSets, SequencesExt, FiniteSetsExt

Smaller(p, q) == p[1] * q[2] < q[1] * p[2]
Same(p, q) == p[1] * q[2] = q[1] * p[2]

(* A mistake for Dip: the peak is never raised. *)
DipFromStart(d, equity) ==
    LET fall == <<d.peak - equity, d.peak>>
    IN  [d EXCEPT !.deepest = IF Smaller(@, fall) THEN fall ELSE @]

(* One turn of the loop of compute_metrics. *)
Dip(d, equity) ==
    LET peak == IF equity > d.peak THEN equity ELSE d.peak
        fall == <<peak - equity, peak>>
    IN  [peak |-> peak, deepest |-> IF Smaller(d.deepest, fall) THEN fall ELSE d.deepest]

(* The loop runs over pairs of neighbours, so that the first point of the curve
   is neither a peak nor a dip: what it knows after each point.              *)
Walk(initial, curve) ==
    LET walk[k \in 1 .. Len(curve)] ==
            IF k = 1 THEN [peak |-> initial, deepest |-> <<0, 1>>]
            ELSE Dip(walk[k - 1], curve[k])
    IN  walk

MaxDrawdown(initial, curve) == Walk(initial, curve)[Len(curve)].deepest

Falls(points) ==
    {<<points[x[1]] - points[x[2]], points[x[1]]>> :
        x \in {y \in (DOMAIN points) \X (DOMAIN points) : y[1] < y[2]}}

(* The drawdown reported is a fall of the curve, and none is deeper, when the
   initial equity is read in the place of the curve's own first point, which the
   loop passes over.                                                         *)
DrawdownAgrees(initial, curve) ==
    LET points == <<initial>> \o Tail(curve)
        found == MaxDrawdown(initial, curve)
    IN  /\ found[1] = 0 \/ \E fall \in Falls(points) : Same(found, fall)
        /\ \A fall \in Falls(points) : ~Smaller(found, fall)
-----------------------------------------------------------------------------
(* Analogs.                                                                *)

Distance(c, target) == (c.feature - target) * (c.feature - target)

(* The order of the ranking: by distance, then by event. *)
Before(c, d, target) ==
    \/ Distance(c, target) < Distance(d, target)
    \/ Distance(c, target) = Distance(d, target) /\ c.event < d.event

(* A mistake for Known: what was observed is known. *)
ObservedOnly(c, now) == c.observed <= now

Known(c, now) == c.available <= now

Analogs(target, candidates, now, limit) ==
    LET known == {c \in candidates : Known(c, now)}
    IN  {c \in known : Cardinality({d \in known : Before(d, c, target)}) < limit}

(* What becomes available later changes nothing, and nothing known is left out
   for something that is further away.                                       *)
AnalogsLookBack(target, candidates, now, limit) ==
    LET chosen == Analogs(target, candidates, now, limit)
        past == {c \in candidates : c.available <= now}
    IN  /\ chosen = Analogs(target, past, now, limit)
        /\ Cardinality(chosen) = Min({limit, Cardinality(past)})
        /\ \A c \in chosen, d \in past \ chosen :
              Distance(c, target) <= Distance(d, target)
-----------------------------------------------------------------------------
(* Walk-forward windows over timestamps, as positions of the sequence.     *)

Starts(n, train, test) == {s \in 0 .. n : s % test = 0 /\ s <= n - train - test}

WindowAt(s, train, test) ==
    [train |-> s + 1 .. s + train, test |-> s + train + 1 .. s + train + test]

(* A window is kept when its last training stamp is before its first test. *)
WalksForward(w, stamps) == \A a \in w.train, b \in w.test : stamps[a] < stamps[b]

Windows(stamps, train, test) ==
    {w \in {WindowAt(s, train, test) : s \in Starts(Len(stamps), train, test)} :
        WalksForward(w, stamps)}

Increases(stamps) == \A a, b \in DOMAIN stamps : a < b => stamps[a] < stamps[b]

(* No observation is tested twice, and no stamp that is tested in a window is one
   it was trained on, nor before one.  Where the stamps increase, the windows are
   not thinned out: what is left untested at the end does not fill one.        *)
WindowsWalkForward(stamps, train, test) ==
    LET windows == Windows(stamps, train, test)
        tested == UNION {w.test : w \in windows}
    IN  /\ \A w \in windows : \A a \in w.train, b \in w.test :
              b \in DOMAIN stamps /\ stamps[a] < stamps[b]
        /\ \A v, w \in windows : v # w => v.test \cap w.test = {}
        /\ Increases(stamps) => Len(stamps) - train - Cardinality(tested) < test

=============================================================================
