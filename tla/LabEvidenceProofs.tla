------------------------- MODULE LabEvidenceProofs -------------------------
(***************************************************************************)
(* What the evidence of the Strategy Lab computes, for every curve, every  *)
(* set of candidates and every size of the windows.  Where a proof needs   *)
(* induction over a number or a set it takes a least counterexample.       *)
(***************************************************************************)
EXTENDS LabEvidence, FiniteSetTheorems, FunctionTheorems, WellFoundedInduction,
        TLAPS

(* A set of numbers that holds the first and each next one holds all. *)
LEMMA AllNumbers ==
    ASSUME NEW T \in SUBSET Nat, 0 \in T, \A n \in T : n + 1 \in T
    PROVE  T = Nat
<1> DEFINE less == {pair \in Nat \X Nat : pair[1] < pair[2]}
<1>1. IsWellFoundedOn(less, Nat)
  BY NatLessThanWellFounded DEF OpToRel
<1> SUFFICES ASSUME Nat \ T # {} PROVE FALSE
  OBVIOUS
<1> HIDE DEF less
<1>2. PICK x \in Nat \ T : \A y \in Nat \ T : ~(<<y, x>> \in less)
  BY <1>1, WFMin
<1>3. x # 0 /\ x - 1 \in Nat /\ <<x - 1, x>> \in less
  BY <1>2 DEF less
<1>4. x - 1 \in T
  BY <1>2, <1>3
<1>5. (x - 1) + 1 \in T /\ (x - 1) + 1 = x
  BY <1>3, <1>4
<1> QED
  BY <1>2, <1>5

-----------------------------------------------------------------------------
(* The drawdown.                                                             *)

(* Products of numbers keep their order, and have it from their factors. *)
LEMMA ProductsKeepOrder ==
    ASSUME NEW a \in Int, NEW b \in Int, a <= b, NEW n \in Nat
    PROVE  a * n <= b * n /\ n * a <= n * b
<1>1. (b - a) * n >= 0
  OBVIOUS
<1> QED
  BY <1>1

LEMMA ProductsHaveOrder ==
    ASSUME NEW a \in Int, NEW b \in Int, NEW n \in Nat \ {0}, n * a <= n * b
    PROVE  a <= b
<1> SUFFICES ASSUME b + 1 <= a PROVE FALSE
  OBVIOUS
<1>1. n * (b + 1) <= n * a
  BY ProductsKeepOrder
<1>2. n * (b + 1) = n * b + n
  OBVIOUS
<1>3. n * a \in Int /\ n * b \in Int
  OBVIOUS
<1> QED
  BY <1>1, <1>2, <1>3

(* A fall to the same amount is deeper from a higher peak. *)
LEMMA HigherFallsDeeper ==
    ASSUME NEW p \in Nat, NEW q \in Nat, p <= q, NEW e \in Nat
    PROVE  ~Smaller(<<q - e, q>>, <<p - e, p>>)
<1>1. p * e <= q * e
  BY ProductsKeepOrder
<1>2. (p - e) * q = p * q - q * e /\ (q - e) * p = p * q - p * e
  OBVIOUS
<1>3. p * q \in Int /\ q * e \in Int /\ p * e \in Int
  OBVIOUS
<1>4. ~((q - e) * p < (p - e) * q)
  BY <1>1, <1>2, <1>3
<1> QED
  BY <1>4 DEF Smaller

(* x/y is at most a/b, which is at most c/d. *)
LEMMA SmallerIsTransitive ==
    ASSUME NEW a \in Int, NEW b \in Nat \ {0}, NEW c \in Int, NEW d \in Nat \ {0},
           NEW x \in Int, NEW y \in Nat,
           x * b <= a * y, a * d <= c * b
    PROVE  x * d <= c * y
<1>1. (x * b) * d <= (a * y) * d
  BY ProductsKeepOrder
<1>2. (a * d) * y <= (c * b) * y
  BY ProductsKeepOrder
<1>3. (x * b) * d = b * (x * d) /\ (a * y) * d = (a * d) * y /\ (c * b) * y = b * (c * y)
  OBVIOUS
<1>4. b * (x * d) <= b * (c * y)
  <2>1. b * (x * d) \in Int /\ (a * d) * y \in Int /\ b * (c * y) \in Int
    OBVIOUS
  <2> QED
    BY <1>1, <1>2, <1>3, <2>1
<1>5. x * d \in Int /\ c * y \in Int
  OBVIOUS
<1> QED
  BY <1>4, <1>5, ProductsHaveOrder

Start(initial) == [peak |-> initial, deepest |-> <<0, 1>>]

(* The loop of compute_metrics is well defined for every curve. *)
LEMMA WalkExists ==
    ASSUME NEW initial, NEW curve, Len(curve) \in Nat
    PROVE  \E w : w = [k \in 1 .. Len(curve) |->
                         IF k = 1 THEN Start(initial) ELSE Dip(w[k - 1], curve[k])]
<1> DEFINE Turn(w, k) == IF k = 1 THEN Start(initial) ELSE Dip(w[k - 1], curve[k])
           T == {m \in Nat : \E w : w = [k \in 1 .. m |-> Turn(w, k)]}
<1>1. 0 \in T
  <2> DEFINE w == [k \in 1 .. 0 |-> Start(initial)]
  <2>1. w = [k \in 1 .. 0 |-> Turn(w, k)]
    OBVIOUS
  <2> QED
    BY <2>1
<1>2. ASSUME NEW m \in T PROVE m + 1 \in T
  <2>1. PICK w : w = [k \in 1 .. m |-> Turn(w, k)]
    BY <1>2
  <2> DEFINE v == [k \in 1 .. m + 1 |-> IF k = m + 1 THEN Turn(w, m + 1) ELSE w[k]]
  <2>2. ASSUME NEW k \in 1 .. m + 1 PROVE v[k] = Turn(v, k)
    <3>1. CASE k = m + 1
      <4>1. m = 0 \/ v[m] = w[m]
        OBVIOUS
      <4>2. v[k] = Turn(w, m + 1)
        BY <3>1
      <4> HIDE DEF v
      <4> QED
        BY <3>1, <4>1, <4>2
    <3>2. CASE k # m + 1
      <4>1. k \in 1 .. m /\ v[k] = w[k] /\ (k # 1 => v[k - 1] = w[k - 1])
        BY <3>2
      <4>2. w[k] = Turn(w, k)
        BY <2>1, <4>1
      <4> HIDE DEF v
      <4> QED
        BY <4>1, <4>2
    <3> QED
      BY <3>1, <3>2
  <2>3. v = [k \in 1 .. m + 1 |-> Turn(v, k)]
    <3>1. DOMAIN v = 1 .. m + 1 /\ v = [k \in 1 .. m + 1 |-> v[k]]
      OBVIOUS
    <3> HIDE DEF v, Turn
    <3> QED
      BY <2>2, <3>1
  <2>4. \E u : u = [k \in 1 .. m + 1 |-> Turn(u, k)]
    BY <2>3
  <2> QED
    BY <1>2, <2>4
<1>3. T \in SUBSET Nat
  OBVIOUS
<1> HIDE DEF T
<1>4. Len(curve) \in T
  BY <1>1, <1>2, <1>3, AllNumbers
<1> QED
  BY <1>4 DEF T

LEMMA WalkTurns ==
    ASSUME NEW initial, NEW curve, Len(curve) \in Nat
    PROVE  \A k \in 1 .. Len(curve) :
              Walk(initial, curve)[k] =
                  IF k = 1 THEN Start(initial) ELSE Dip(Walk(initial, curve)[k - 1], curve[k])
<1> DEFINE w == Walk(initial, curve)
<1>1. w = CHOOSE u : u = [k \in 1 .. Len(curve) |->
                             IF k = 1 THEN Start(initial) ELSE Dip(u[k - 1], curve[k])]
  BY DEF Walk, Start
<1>2. w = [k \in 1 .. Len(curve) |->
                             IF k = 1 THEN Start(initial) ELSE Dip(w[k - 1], curve[k])]
  <2>1. \E u : u = [k \in 1 .. Len(curve) |->
                       IF k = 1 THEN Start(initial) ELSE Dip(u[k - 1], curve[k])]
    BY WalkExists
  <2> HIDE DEF w
  <2> QED
    BY <1>1, <2>1, Zenon
<1> HIDE DEF w
<1>3. \A k \in 1 .. Len(curve) : w[k] = IF k = 1 THEN Start(initial) ELSE Dip(w[k - 1], curve[k])
  BY <1>2
<1> QED
  BY <1>3 DEF w

(* The first k of the points: the initial equity, and then the curve without its
   first point.                                                              *)
Seen(k) == 1 .. k

(* What the loop knows: the highest point so far, and a fall of the curve that
   no fall so far is deeper than.                                            *)
Watched(d, points, k) ==
    /\ d.peak \in Nat \ {0}
    /\ d.deepest[1] \in Nat /\ d.deepest[2] \in Nat \ {0}
    /\ \E i \in Seen(k) : points[i] = d.peak
    /\ \A i \in Seen(k) : points[i] <= d.peak
    /\ d.deepest[1] = 0 \/ \E fall \in Falls(points) : Same(d.deepest, fall)
    /\ \A i, j \in Seen(k) :
          i < j => ~Smaller(d.deepest, <<points[i] - points[j], points[i]>>)

(* A fall, and one from an amount that is not zero. *)
Fall(f) == f[1] \in Int /\ f[2] \in Nat
Proper(f) == Fall(f) /\ f[2] # 0

(* What is not deeper than a fall is not deeper than a deeper one. *)
LEMMA StaysDeepest ==
    ASSUME NEW deepest, NEW old, NEW fall, Fall(fall), Proper(old), Proper(deepest),
           ~Smaller(old, fall), ~Smaller(deepest, old)
    PROVE  ~Smaller(deepest, fall)
<1> DEFINE a == old[1]
           b == old[2]
           c == deepest[1]
           d == deepest[2]
           fallen == fall[1]
           p == fall[2]
<1>1. /\ fallen \in Int /\ p \in Nat
      /\ a \in Int /\ b \in Nat \ {0} /\ c \in Int /\ d \in Nat \ {0}
      /\ ~(a * p < fallen * b) /\ ~(c * b < a * d)
  BY DEF Smaller, Fall, Proper
<1>2. Smaller(deepest, fall) <=> c * p < fallen * d
  BY DEF Smaller
<1> HIDE DEF a, b, c, d, fallen, p
<1>3. fallen * d <= c * p
  <2>1. fallen * b <= a * p /\ a * d <= c * b
    BY <1>1
  <2> QED
    BY <1>1, <2>1, SmallerIsTransitive
<1>4. fallen * d \in Int /\ c * p \in Int
  BY <1>1
<1> QED
  BY <1>2, <1>3, <1>4

(* The deeper of two falls is at least as deep as both. *)
LEMMA DeeperOfBoth ==
    ASSUME NEW old, NEW fall, NEW deepest,
           deepest = IF Smaller(old, fall) THEN fall ELSE old,
           Fall(old), Fall(fall)
    PROVE  ~Smaller(deepest, old) /\ ~Smaller(deepest, fall)
<1> DEFINE a == old[1]
           b == old[2]
           c == fall[1]
           d == fall[2]
<1>1. /\ a \in Int /\ b \in Int /\ c \in Int /\ d \in Int
      /\ Smaller(old, fall) <=> a * d < c * b
      /\ Smaller(fall, old) <=> c * b < a * d
      /\ Smaller(fall, fall) <=> c * d < c * d
      /\ Smaller(old, old) <=> a * b < a * b
  BY DEF Smaller, Fall
<1> HIDE DEF a, b, c, d
<1>2. a * d \in Int /\ c * b \in Int /\ a * b \in Int /\ c * d \in Int
  BY <1>1
<1>3. ~Smaller(fall, fall) /\ ~Smaller(old, old) /\ (Smaller(old, fall) => ~Smaller(fall, old))
  BY <1>1, <1>2
<1> QED
  BY <1>3

LEMMA FallsAre ==
    ASSUME NEW points \in Seq(Nat), NEW i \in 1 .. Len(points), NEW j \in 1 .. Len(points), i < j
    PROVE  <<points[i] - points[j], points[i]>> \in Falls(points)
<1>1. <<i, j>> \in {y \in (DOMAIN points) \X (DOMAIN points) : y[1] < y[2]}
  OBVIOUS
<1> QED
  BY <1>1 DEF Falls

(* One turn of the loop sees one more point. *)
LEMMA DipWatches ==
    ASSUME NEW points \in Seq(Nat), NEW k \in Nat \ {0}, k + 1 <= Len(points),
           NEW d, Watched(d, points, k)
    PROVE  Watched(Dip(d, points[k + 1]), points, k + 1)
<1> DEFINE e == points[k + 1]
           peak == IF e > d.peak THEN e ELSE d.peak
           fall == <<peak - e, peak>>
           deepest == IF Smaller(d.deepest, fall) THEN fall ELSE d.deepest
           after == Dip(d, e)
<1>0. /\ e \in Nat
      /\ after.peak = peak /\ after.deepest = deepest
      /\ Seen(k + 1) = Seen(k) \cup {k + 1} /\ Seen(k) \subseteq 1 .. k
      /\ \A i \in Seen(k + 1) : i \in 1 .. Len(points) /\ points[i] \in Nat
  BY DEF Dip, Seen
<1>1. /\ d.peak \in Nat \ {0} /\ d.deepest[1] \in Nat /\ d.deepest[2] \in Nat \ {0}
      /\ \A i \in Seen(k) : points[i] <= d.peak
  BY DEF Watched
<1>2. /\ peak \in Nat \ {0} /\ e <= peak /\ d.peak <= peak
      /\ fall[1] = peak - e /\ fall[2] = peak /\ fall[1] \in Nat
  BY <1>0, <1>1
<1>3. \E i \in Seen(k + 1) : points[i] = peak
  <2>1. CASE e > d.peak
    BY <1>0, <2>1
  <2>2. CASE ~(e > d.peak)
    BY <1>0, <2>2 DEF Watched
  <2> QED
    BY <2>1, <2>2
<1>4. \A i \in Seen(k + 1) : points[i] <= peak
  <2> SUFFICES ASSUME NEW i \in Seen(k + 1) PROVE points[i] <= peak
    OBVIOUS
  <2>1. CASE i \in Seen(k)
    <3>1. points[i] <= d.peak /\ points[i] \in Nat
      BY <1>0, <1>1, <2>1
    <3> HIDE DEF peak
    <3> QED
      BY <1>1, <1>2, <3>1
  <2>2. CASE i = k + 1
    BY <1>2, <2>2
  <2> HIDE DEF e, peak, after, deepest
  <2> QED
    BY <1>0, <2>1, <2>2
<1>5. deepest[1] \in Nat /\ deepest[2] \in Nat \ {0}
  BY <1>1, <1>2
<1>6. deepest[1] = 0 \/ \E f \in Falls(points) : Same(deepest, f)
  <2>1. CASE Smaller(d.deepest, fall)
    <3>1. deepest = fall
      BY <2>1
    <3>2. PICK i \in Seen(k + 1) : points[i] = peak
      BY <1>3
    <3>3. CASE i = k + 1
      <4>1. peak - e = 0
        BY <1>0, <1>2, <3>2, <3>3
      <4> HIDE DEF e, peak, deepest
      <4> QED
        BY <3>1, <4>1
    <3>4. CASE i # k + 1
      <4>1. i < k + 1 /\ i \in 1 .. Len(points) /\ k + 1 \in 1 .. Len(points)
        BY <1>0, <3>2, <3>4
      <4>2. fall \in Falls(points)
        BY <3>2, <4>1, FallsAre
      <4>3. Same(fall, fall)
        BY <1>2 DEF Same
      <4> QED
        BY <3>1, <4>2, <4>3
    <3> QED
      BY <3>3, <3>4
  <2>2. CASE ~Smaller(d.deepest, fall)
    BY <2>2 DEF Watched
  <2> QED
    BY <2>1, <2>2
<1>7. ~Smaller(deepest, d.deepest) /\ ~Smaller(deepest, fall)
  <2>1. Fall(fall)
    BY <1>2 DEF Fall
  <2>a. Fall(d.deepest)
    <3> HIDE DEF fall, deepest, peak, e
    <3> QED
      BY <1>1 DEF Fall
  <2>2. deepest = IF Smaller(d.deepest, fall) THEN fall ELSE d.deepest
    OBVIOUS
  <2> HIDE DEF fall, deepest
  <2> QED
    BY <2>1, <2>a, <2>2, DeeperOfBoth
<1>12. Proper(d.deepest) /\ Proper(fall) /\ Proper(deepest)
  BY <1>1, <1>2, <1>5 DEF Proper, Fall
<1>9. after = Dip(d, points[k + 1]) /\ e = points[k + 1]
  OBVIOUS
<1>10. \A i \in Seen(k + 1) : points[i] \in Nat /\ (i \in Seen(k) \/ i = k + 1)
  BY <1>0
<1>11. \A i \in Seen(k) : i < k + 1
  BY <1>0
<1> HIDE DEF e, peak, fall, deepest, after
<1>8. ASSUME NEW i \in Seen(k + 1), NEW j \in Seen(k + 1), i < j
      PROVE  ~Smaller(deepest, <<points[i] - points[j], points[i]>>)
  <2> DEFINE given == <<points[i] - points[j], points[i]>>
  <2>0. points[i] \in Nat /\ points[j] \in Nat /\ Fall(given)
    BY <1>10 DEF Fall
  <2>1. CASE j = k + 1
    <3>1. points[i] <= peak /\ points[j] = e /\ e \in Nat /\ peak \in Nat
      BY <1>0, <1>2, <1>4, <1>9, <2>1
    <3>2. ~Smaller(fall, given)
      BY <2>0, <3>1, HigherFallsDeeper DEF fall
    <3> HIDE DEF given
    <3>3. ~Smaller(deepest, given)
      BY <1>7, <1>12, <2>0, <3>2, StaysDeepest
    <3> QED
      BY <3>3 DEF given
  <2>2. CASE j # k + 1
    <3>1. i \in Seen(k) /\ j \in Seen(k)
      BY <1>0, <1>8, <1>10, <1>11, <2>2
    <3>2. ~Smaller(d.deepest, given)
      BY <1>8, <3>1 DEF Watched
    <3> HIDE DEF given
    <3>3. ~Smaller(deepest, given)
      BY <1>7, <1>12, <2>0, <3>2, StaysDeepest
    <3> QED
      BY <3>3 DEF given
  <2> QED
    BY <2>1, <2>2
<1> QED
  BY <1>0, <1>2, <1>3, <1>4, <1>5, <1>6, <1>8, <1>9 DEF Watched

LEMMA ReadFromInitial ==
    ASSUME NEW initial \in Nat, NEW curve \in Seq(Nat), Len(curve) > 0
    PROVE  LET points == <<initial>> \o Tail(curve)
           IN  /\ points \in Seq(Nat) /\ Len(points) = Len(curve) /\ points[1] = initial
               /\ \A k \in 2 .. Len(curve) : points[k] = curve[k]
               /\ Len(curve) \in Nat
<1> DEFINE rest == Tail(curve)
           points == <<initial>> \o rest
<1>1. /\ rest \in Seq(Nat) /\ Len(rest) = Len(curve) - 1 /\ Len(curve) \in Nat
      /\ \A k \in 1 .. Len(curve) - 1 : rest[k] = curve[k + 1]
  OBVIOUS
<1> HIDE DEF rest
<1>2. /\ points \in Seq(Nat) /\ Len(points) = Len(rest) + 1 /\ points[1] = initial
      /\ \A k \in 2 .. Len(rest) + 1 : points[k] = rest[k - 1]
  BY <1>1
<1> HIDE DEF points
<1>3. ASSUME NEW k \in 2 .. Len(curve) PROVE points[k] = curve[k]
  <2>1. k - 1 \in 1 .. Len(curve) - 1 /\ (k - 1) + 1 = k /\ k \in 2 .. Len(rest) + 1
    BY <1>1
  <2>2. rest[k - 1] = curve[(k - 1) + 1]
    BY <1>1, <2>1
  <2>3. points[k] = rest[k - 1]
    BY <1>2, <2>1
  <2> QED
    BY <2>1, <2>2, <2>3
<1>4. points \in Seq(Nat) /\ Len(points) = Len(curve) /\ points[1] = initial
  BY <1>1, <1>2
<1> QED
  BY <1>1, <1>3, <1>4 DEF points, rest

(* After every point of the curve the loop knows the deepest fall so far. *)
LEMMA WalkWatches ==
    ASSUME NEW initial \in Nat \ {0}, NEW curve \in Seq(Nat), Len(curve) > 0
    PROVE  Watched(Walk(initial, curve)[Len(curve)], <<initial>> \o Tail(curve), Len(curve))
<1> DEFINE points == <<initial>> \o Tail(curve)
           w == Walk(initial, curve)
           T == {n \in Nat : n + 1 \in 1 .. Len(curve) => Watched(w[n + 1], points, n + 1)}
<1>1. /\ points \in Seq(Nat) /\ Len(points) = Len(curve) /\ points[1] = initial
      /\ \A k \in 2 .. Len(curve) : points[k] = curve[k]
      /\ Len(curve) \in Nat
  BY ReadFromInitial
<1>2. \A k \in 1 .. Len(curve) :
         w[k] = IF k = 1 THEN Start(initial) ELSE Dip(w[k - 1], curve[k])
  BY <1>1, WalkTurns
<1> HIDE DEF points, w
<1>3. 0 \in T
  <2>1. w[1] = Start(initial) /\ Seen(1) = {1}
    BY <1>1, <1>2 DEF Seen
  <2> DEFINE d == Start(initial)
  <2>2. /\ d.peak = initial /\ d.deepest[1] = 0
        /\ d.deepest[1] \in Nat /\ d.deepest[2] \in Nat \ {0}
    BY DEF Start
  <2>3. \A i, j \in Seen(1) : ~(i < j)
    BY <2>1
  <2>4. points[1] <= d.peak /\ 1 \in Seen(1) /\ \A i \in Seen(1) : i = 1
    BY <1>1, <2>1, <2>2
  <2> HIDE DEF d
  <2>5. /\ d.peak \in Nat \ {0}
        /\ \E i \in Seen(1) : points[i] = d.peak
        /\ \A i \in Seen(1) : points[i] <= d.peak
    BY <1>1, <2>2, <2>4
  <2>6. Watched(d, points, 1)
    BY <2>2, <2>3, <2>5, Zenon DEF Watched
  <2>7. w[0 + 1] = d
    <3>1. 0 + 1 = 1
      OBVIOUS
    <3> QED
      BY <2>1, <3>1, Zenon DEF d
  <2>8. Watched(w[0 + 1], points, 0 + 1)
    <3>1. 0 + 1 = 1
      OBVIOUS
    <3> QED
      BY <2>6, <2>7, <3>1, Zenon
  <2>9. 0 \in Nat
    OBVIOUS
  <2> QED
    BY <2>8, <2>9, Zenon
<1>4. ASSUME NEW n \in T PROVE n + 1 \in T
  <2> SUFFICES ASSUME n + 2 \in 1 .. Len(curve) PROVE Watched(w[n + 2], points, n + 2)
    OBVIOUS
  <2>1. n + 1 \in 1 .. Len(curve) /\ n + 1 \in Nat \ {0} /\ (n + 1) + 1 <= Len(points)
    BY <1>1
  <2>2. Watched(w[n + 1], points, n + 1)
    BY <1>4, <2>1
  <2>3. w[n + 2] = Dip(w[n + 1], points[(n + 1) + 1])
    <3>1. w[n + 2] = Dip(w[(n + 2) - 1], curve[n + 2])
      BY <1>2, <2>1
    <3>2. (n + 2) - 1 = n + 1 /\ points[n + 2] = curve[n + 2] /\ n + 2 = (n + 1) + 1
      BY <1>1, <2>1
    <3> QED
      BY <3>1, <3>2
  <2>4. Watched(Dip(w[n + 1], points[(n + 1) + 1]), points, (n + 1) + 1)
    BY <1>1, <2>1, <2>2, DipWatches
  <2>5. (n + 1) + 1 = n + 2
    OBVIOUS
  <2> QED
    BY <2>3, <2>4, <2>5
<1>5. T \in SUBSET Nat
  OBVIOUS
<1> HIDE DEF T
<1>6. T = Nat
  BY <1>3, <1>4, <1>5, AllNumbers
<1>7. Len(curve) - 1 \in T /\ (Len(curve) - 1) + 1 = Len(curve)
  BY <1>1, <1>6
<1> QED
  BY <1>1, <1>7 DEF T, w, points

(* The drawdown that compute_metrics reports is the deepest fall of the curve read
   from the initial equity on, its own first point passed over: for a curve that
   starts at the initial equity, the deepest fall of the curve.               *)
THEOREM DrawdownIsDeepest ==
    ASSUME NEW initial \in Nat \ {0}, NEW curve \in Seq(Nat), Len(curve) > 0
    PROVE  DrawdownAgrees(initial, curve)
<1> DEFINE points == <<initial>> \o Tail(curve)
           found == MaxDrawdown(initial, curve)
           n == Len(curve)
<1>1. points \in Seq(Nat) /\ Len(points) = n
  BY ReadFromInitial
<1>2. /\ found[1] = 0 \/ \E fall \in Falls(points) : Same(found, fall)
      /\ \A i, j \in Seen(n) :
            i < j => ~Smaller(found, <<points[i] - points[j], points[i]>>)
  BY WalkWatches DEF Watched, MaxDrawdown
<1> HIDE DEF points, found, n
<1>3. ASSUME NEW fall \in Falls(points) PROVE ~Smaller(found, fall)
  <2>1. PICK i \in 1 .. n, j \in 1 .. n :
            i < j /\ fall = <<points[i] - points[j], points[i]>>
    BY <1>1 DEF Falls
  <2> QED
    BY <1>2, <2>1 DEF Seen
<1>4. /\ found[1] = 0 \/ \E fall \in Falls(points) : Same(found, fall)
      /\ \A fall \in Falls(points) : ~Smaller(found, fall)
  BY <1>2, <1>3
<1> QED
  BY <1>4 DEF DrawdownAgrees, points, found

-----------------------------------------------------------------------------
(* Walk-forward windows.                                                     *)

(* A number divided by another: the quotient and what is left. *)
LEMMA Divided ==
    ASSUME NEW m \in Nat, NEW test \in Nat \ {0}
    PROVE  \E q \in Nat, r \in 0 .. test - 1 : m = test * q + r
<1>1. /\ m \div test \in Nat /\ m % test \in 0 .. test - 1
      /\ m = test * (m \div test) + (m % test)
  OBVIOUS
<1> QED
  BY <1>1

LEMMA MultipleOf ==
    ASSUME NEW test \in Nat \ {0}, NEW s \in Nat, s % test = 0
    PROVE  \E q \in Nat : s = test * q
<1>1. s \div test \in Nat /\ s = test * (s \div test)
  OBVIOUS
<1> QED
  BY <1>1

LEMMA MultipleLeavesNothing ==
    ASSUME NEW test \in Nat \ {0}, NEW i \in Nat
    PROVE  test * i \in Nat /\ (test * i) % test = 0
OBVIOUS

(* Two multiples are apart by at least what they are multiples of. *)
LEMMA MultiplesAreApart ==
    ASSUME NEW test \in Nat \ {0}, NEW s \in Nat, NEW t \in Nat,
           s % test = 0, t % test = 0, s < t
    PROVE  s + test <= t
<1>1. PICK a \in Nat, b \in Nat : s = test * a /\ t = test * b
  BY MultipleOf
<1>2. a + 1 <= b
  <2> SUFFICES ASSUME b <= a PROVE FALSE
    BY <1>1
  <2>1. test * b <= test * a
    BY <1>1, ProductsKeepOrder
  <2> QED
    BY <1>1, <2>1
<1>3. test * (a + 1) <= test * b
  BY <1>1, <1>2, ProductsKeepOrder
<1>4. test * (a + 1) = test * a + test
  BY <1>1
<1> QED
  BY <1>1, <1>3, <1>4

(* The windows of walk_forward_windows test nothing twice, and nothing at or before
   a stamp they were trained on, in whatever order the stamps come; of stamps that
   increase fewer than one test window is left over at the end.               *)
THEOREM TestsFollowTraining ==
    ASSUME NEW stamps \in Seq(Nat), NEW train \in Nat \ {0}, NEW test \in Nat \ {0}
    PROVE  WindowsWalkForward(stamps, train, test)
<1> DEFINE n == Len(stamps)
           windows == Windows(stamps, train, test)
           tested == UNION {w.test : w \in windows}
           TestOf(s) == s + train + 1 .. s + train + test
<1>0. n \in Nat /\ DOMAIN stamps = 1 .. n
  OBVIOUS
<1>1. ASSUME NEW w \in windows
      PROVE  \E s \in Starts(n, train, test) :
                w = [train |-> s + 1 .. s + train, test |-> TestOf(s)]
  BY DEF Windows, WindowAt
<1>2. \A w \in windows : \A a \in w.train, b \in w.test :
          b \in DOMAIN stamps /\ stamps[a] < stamps[b]
  <2> SUFFICES ASSUME NEW w \in windows, NEW a \in w.train, NEW b \in w.test
               PROVE  b \in DOMAIN stamps /\ stamps[a] < stamps[b]
    OBVIOUS
  <2>1. PICK s \in Starts(n, train, test) :
             w = [train |-> s + 1 .. s + train, test |-> TestOf(s)]
    BY <1>1
  <2>2. s \in Nat /\ s <= n - train - test
    BY <1>0 DEF Starts
  <2>3. b \in TestOf(s)
    BY <2>1
  <2>4. b \in 1 .. n
    BY <1>0, <2>2, <2>3
  <2>5. stamps[a] < stamps[b]
    <3>1. WalksForward(w, stamps)
      BY DEF Windows
    <3> QED
      BY <3>1 DEF WalksForward
  <2> QED
    BY <1>0, <2>4, <2>5
<1>3. \A v, w \in windows : v # w => v.test \cap w.test = {}
  <2> SUFFICES ASSUME NEW v \in windows, NEW w \in windows, v # w
               PROVE  v.test \cap w.test = {}
    OBVIOUS
  <2>1. PICK s \in Starts(n, train, test) :
             v = [train |-> s + 1 .. s + train, test |-> TestOf(s)]
    BY <1>1
  <2>2. PICK t \in Starts(n, train, test) :
             w = [train |-> t + 1 .. t + train, test |-> TestOf(t)]
    BY <1>1
  <2>a. s # t
    BY <2>1, <2>2
  <2>3. s \in Nat /\ t \in Nat /\ s # t /\ s % test = 0 /\ t % test = 0
    <3> HIDE DEF n, windows
    <3> QED
      BY <1>0, <2>a DEF Starts
  <2>4. s + test <= t \/ t + test <= s
    BY <2>3, MultiplesAreApart
  <2>5. TestOf(s) \cap TestOf(t) = {}
    BY <2>3, <2>4
  <2> QED
    BY <2>1, <2>2, <2>5
<1>5. ASSUME Increases(stamps), NEW x
      PROVE  x \in tested <=> \E s \in Starts(n, train, test) : x \in TestOf(s)
  <2>1. ASSUME x \in tested PROVE \E s \in Starts(n, train, test) : x \in TestOf(s)
    <3>1. PICK w \in windows : x \in w.test
      BY <2>1
    <3>2. PICK s \in Starts(n, train, test) :
               w = [train |-> s + 1 .. s + train, test |-> TestOf(s)]
      BY <1>1
    <3> QED
      BY <3>1, <3>2
  <2>2. ASSUME NEW s \in Starts(n, train, test), x \in TestOf(s) PROVE x \in tested
    <3> DEFINE w == WindowAt(s, train, test)
    <3>1. w.train = s + 1 .. s + train /\ w.test = TestOf(s)
      BY DEF WindowAt
    <3>2. WalksForward(w, stamps)
      <4> SUFFICES ASSUME NEW a \in w.train, NEW b \in w.test PROVE stamps[a] < stamps[b]
        BY DEF WalksForward
      <4>1. s \in Nat /\ s <= n - train - test
        BY <1>0 DEF Starts
      <4>2. a \in s + 1 .. s + train /\ b \in TestOf(s)
        BY <3>1
      <4> HIDE DEF w, n
      <4>3. a \in 1 .. n /\ b \in 1 .. n /\ a < b
        BY <1>0, <4>1, <4>2
      <4> QED
        BY <1>0, <1>5, <4>3 DEF Increases
    <3> HIDE DEF w
    <3>3. w \in windows
      BY <3>2 DEF Windows, w
    <3> HIDE DEF windows
    <3> QED
      BY <2>2, <3>1, <3>3
  <2> QED
    BY <2>1, <2>2
<1>4. ASSUME Increases(stamps) PROVE n - train - Cardinality(tested) < test
  <2> HIDE DEF windows, tested, n
  <2>1. CASE n < train + test
    <3>1. Starts(n, train, test) = {}
      BY <1>0, <2>1 DEF Starts
    <3>2. tested = {}
      BY <1>4, <1>5, <3>1
    <3> QED
      BY <1>0, <2>1, <3>2, FS_EmptySet
  <2>2. CASE train + test <= n
    <3> DEFINE m == n - train - test
    <3>0. m \in Nat
      BY <1>0, <2>2
    <3>1. PICK last \in Nat, left \in 0 .. test - 1 : m = test * last + left
      <4> HIDE DEF m
      <4> QED
        BY <3>0, Divided
    <3>2. test * (last + 1) \in Nat /\ test * (last + 1) = test * last + test
      BY <3>1
    <3>3. ASSUME NEW x \in tested PROVE x \in train + 1 .. train + test * (last + 1)
      <4>1. PICK s \in Starts(n, train, test) : x \in TestOf(s)
        BY <1>4, <1>5, <3>3
      <4>2. s \in Nat /\ s % test = 0 /\ s <= m
        BY <1>0 DEF Starts
      <4>3. s <= test * last
        <5>1. PICK i \in Nat : s = test * i
          BY <4>2, MultipleOf
        <5>2. i <= last
          <6> SUFFICES ASSUME last + 1 <= i PROVE FALSE
            BY <3>1, <5>1
          <6>1. test * (last + 1) <= test * i
            BY <3>1, <5>1, ProductsKeepOrder
          <6> QED
            BY <3>1, <3>2, <4>2, <5>1, <6>1
        <5> QED
          BY <3>1, <5>1, <5>2, ProductsKeepOrder
      <4> QED
        BY <3>1, <3>2, <4>1, <4>2, <4>3
    <3>4. ASSUME NEW x \in train + 1 .. train + test * (last + 1) PROVE x \in tested
      <4> DEFINE y == x - train - 1
      <4>0. y \in Nat /\ y < test * (last + 1)
        BY <3>2
      <4>1. PICK i \in Nat, r \in 0 .. test - 1 : y = test * i + r
        <5>1. y \in Nat
          BY <4>0
        <5> HIDE DEF y
        <5> QED
          BY <5>1, Divided
      <4>2. i <= last
        <5> SUFFICES ASSUME last + 1 <= i PROVE FALSE
          BY <3>1, <4>1
        <5>1. test * (last + 1) <= test * i
          BY <3>1, <4>1, ProductsKeepOrder
        <5> QED
          BY <3>2, <4>0, <4>1, <5>1
      <4>3. test * i \in Nat /\ (test * i) % test = 0 /\ test * i <= test * last
        BY <3>1, <4>1, <4>2, MultipleLeavesNothing, ProductsKeepOrder
      <4>4. test * i \in Starts(n, train, test)
        BY <1>0, <3>1, <4>3 DEF Starts
      <4>5. x \in TestOf(test * i)
        BY <4>1, <4>3
      <4> QED
        BY <1>4, <1>5, <4>4, <4>5
    <3>5. tested = train + 1 .. train + test * (last + 1)
      BY <3>3, <3>4
    <3>6. Cardinality(tested) = test * (last + 1)
      <4>1. train + 1 \in Int /\ train + test * (last + 1) \in Int
            /\ train + 1 <= train + test * (last + 1)
        BY <3>1, <3>2
      <4> HIDE DEF tested
      <4> QED
        BY <3>2, <3>5, <4>1, FS_Interval
    <3> QED
      BY <1>0, <3>1, <3>2, <3>6
  <2> QED
    BY <1>0, <2>1, <2>2
<1> QED
  BY <1>2, <1>3, <1>4 DEF WindowsWalkForward

-----------------------------------------------------------------------------
(* Analogs.                                                                  *)

LEMMA FirstNumbers ==
    ASSUME NEW n \in Nat
    PROVE  IsFiniteSet(0 .. n - 1) /\ Cardinality(0 .. n - 1) = n
<1>1. 0 \in Int /\ n - 1 \in Int /\ (0 > n - 1 <=> n = 0) /\ (n - 1) - 0 + 1 = n
  OBVIOUS
<1>2. /\ IsFiniteSet(0 .. n - 1)
      /\ Cardinality(0 .. n - 1) = IF 0 > n - 1 THEN 0 ELSE (n - 1) - 0 + 1
  BY <1>1, FS_Interval
<1> QED
  BY <1>1, <1>2

(* Different ranks below the size of a set are all the numbers below it, so that
   as many have a rank below a limit as the limit says, if there are so many. *)
LEMMA RanksFill ==
    ASSUME NEW K, IsFiniteSet(K), NEW r \in [K -> 0 .. Cardinality(K) - 1],
           \A a, b \in K : r[a] = r[b] => a = b, NEW limit \in Nat
    PROVE  Cardinality({x \in K : r[x] < limit}) =
               IF limit <= Cardinality(K) THEN limit ELSE Cardinality(K)
<1> DEFINE n == Cardinality(K)
           size == IF limit <= n THEN limit ELSE n
           low == {x \in K : r[x] < limit}
           s == [x \in low |-> r[x]]
<1>1. n \in Nat /\ size \in Nat /\ size <= n /\ size <= limit
  BY FS_CardinalityType
<1>2. \A i \in 0 .. n - 1 : \E x \in K : r[x] = i
  <2>1. r \in Injection(K, 0 .. n - 1)
    BY Fun_IsInj
  <2>2. IsFiniteSet(0 .. n - 1) /\ Cardinality(0 .. n - 1) = n
    BY <1>1, FirstNumbers
  <2>3. r \in Surjection(K, 0 .. n - 1)
    BY <2>1, <2>2, FS_Injection
  <2> QED
    BY <2>3 DEF Surjection
<1>3. s \in [low -> 0 .. size - 1]
  BY <1>1
<1>4. \A a, b \in low : s[a] = s[b] => a = b
  OBVIOUS
<1>5. \A i \in 0 .. size - 1 : \E x \in low : s[x] = i
  <2> SUFFICES ASSUME NEW i \in 0 .. size - 1 PROVE \E x \in low : s[x] = i
    OBVIOUS
  <2>1. PICK x \in K : r[x] = i
    BY <1>1, <1>2
  <2>2. x \in low
    BY <1>1, <2>1
  <2> QED
    BY <2>1, <2>2
<1> HIDE DEF s, low, size
<1>6. s \in Injection(low, 0 .. size - 1)
  BY <1>3, <1>4, Fun_IsInj
<1>7. s \in Surjection(low, 0 .. size - 1)
  BY <1>3, <1>5, Fun_IsSurj
<1>8. IsFiniteSet(0 .. size - 1) /\ Cardinality(0 .. size - 1) = size
  BY <1>1, FirstNumbers
<1>9. Cardinality(low) = size
  BY <1>6, <1>7, <1>8, FS_Injection
<1> QED
  BY <1>9 DEF low, size

Analog == [event : Int, feature : Int, observed : Int, available : Int]

(* The order of the ranking is total, and an event before another has fewer
   before it.                                                                *)
LEMMA RanksAreOrdered ==
    ASSUME NEW target \in Int, NEW K, IsFiniteSet(K), K \subseteq Analog,
           NEW c \in K, NEW d \in K, Before(c, d, target)
    PROVE  Cardinality({e \in K : Before(e, c, target)})
               < Cardinality({e \in K : Before(e, d, target)})
<1> DEFINE B(x) == {e \in K : Before(e, x, target)}
<1>1. \A x \in K : Distance(x, target) \in Int /\ x.event \in Int
  BY DEF Analog, Distance
<1>2. \A e \in K : Before(e, c, target) => Before(e, d, target)
  BY <1>1 DEF Before
<1>3. ~Before(c, c, target)
  BY <1>1 DEF Before
<1>4. B(c) \subseteq B(d) /\ c \in B(d) /\ c \notin B(c) /\ B(d) \subseteq K
  BY <1>2, <1>3
<1> HIDE DEF B
<1>5. IsFiniteSet(B(d)) /\ Cardinality(B(d)) \in Nat
  BY <1>4, FS_Subset, FS_CardinalityType
<1>6. IsFiniteSet(B(c)) /\ Cardinality(B(c)) \in Nat /\ Cardinality(B(c)) <= Cardinality(B(d))
      /\ (Cardinality(B(d)) = Cardinality(B(c)) => B(d) = B(c))
  BY <1>4, <1>5, FS_Subset, FS_CardinalityType
<1>7. Cardinality(B(c)) < Cardinality(B(d))
  BY <1>4, <1>5, <1>6
<1> QED
  BY <1>7 DEF B

(* The analogs of a day are the nearest of what was available by then, as many
   as were asked for or there are.                                           *)
THEOREM NearestOfThePast ==
    ASSUME NEW target \in Int, NEW now \in Int, NEW limit \in Nat,
           NEW candidates \in SUBSET Analog, IsFiniteSet(candidates),
           \A c, d \in candidates : c.event = d.event => c = d
    PROVE  AnalogsLookBack(target, candidates, now, limit)
<1> DEFINE past == {c \in candidates : c.available <= now}
           B(x) == {e \in past : Before(e, x, target)}
           rank == [x \in past |-> Cardinality(B(x))]
           chosen == {x \in past : rank[x] < limit}
           n == Cardinality(past)
<1>1. /\ past \subseteq Analog /\ past \in SUBSET candidates
      /\ IsFiniteSet(past) /\ n \in Nat
  BY FS_Subset, FS_CardinalityType
<1>2. Analogs(target, candidates, now, limit) = chosen
  <2>1. {c \in candidates : Known(c, now)} = past
    BY DEF Known
  <2> QED
    BY <2>1 DEF Analogs
<1>3. Analogs(target, past, now, limit) = chosen
  <2>1. {c \in past : Known(c, now)} = past
    BY DEF Known
  <2> QED
    BY <2>1 DEF Analogs
<1>4. \A x \in past : rank[x] = Cardinality(B(x))
  OBVIOUS
<1>5. \A c, d \in past : Before(c, d, target) => rank[c] < rank[d]
  <2> SUFFICES ASSUME NEW c \in past, NEW d \in past, Before(c, d, target)
               PROVE  rank[c] < rank[d]
    OBVIOUS
  <2> HIDE DEF past
  <2>1. Cardinality(B(c)) < Cardinality(B(d))
    BY <1>1, RanksAreOrdered
  <2> QED
    BY <1>4, <2>1
<1>6. \A c, d \in past : c # d => Before(c, d, target) \/ Before(d, c, target)
  <2>1. \A x \in past : Distance(x, target) \in Int /\ x.event \in Int
    BY <1>1 DEF Analog, Distance
  <2>2. \A c, d \in past : c.event = d.event => c = d
    OBVIOUS
  <2> HIDE DEF past
  <2> QED
    BY <2>1, <2>2 DEF Before
<1>7. rank \in [past -> 0 .. n - 1]
  <2> SUFFICES ASSUME NEW x \in past PROVE Cardinality(B(x)) \in 0 .. n - 1
    OBVIOUS
  <2>1. ~Before(x, x, target)
    <3>1. Distance(x, target) \in Int /\ x.event \in Int
      BY <1>1 DEF Analog, Distance
    <3> QED
      BY <3>1 DEF Before
  <2>2. B(x) \in SUBSET past /\ x \notin B(x)
    BY <2>1
  <2> HIDE DEF past, B
  <2>3. /\ Cardinality(B(x)) \in Nat /\ Cardinality(B(x)) <= n
        /\ n = Cardinality(B(x)) => past = B(x)
    BY <1>1, <2>2, FS_Subset, FS_CardinalityType
  <2> QED
    BY <1>1, <2>2, <2>3
<1> HIDE DEF past, B, rank
<1>8. \A c, d \in past : rank[c] \in Int /\ (rank[c] = rank[d] => c = d)
  <2>1. \A c \in past : rank[c] \in Int
    BY <1>1, <1>7
  <2> QED
    BY <2>1, <1>5, <1>6
<1>9. Cardinality(chosen) = Min({limit, n})
  <2>1. Cardinality(chosen) = IF limit <= n THEN limit ELSE n
    BY <1>1, <1>7, <1>8, RanksFill
  <2>2. Min({limit, n}) = IF limit <= n THEN limit ELSE n
    BY <1>1 DEF Min
  <2> QED
    BY <2>1, <2>2
<1>10. ASSUME NEW c \in chosen, NEW d \in past \ chosen
       PROVE  Distance(c, target) <= Distance(d, target)
  <2>1. rank[c] \in Int /\ rank[d] \in Int /\ rank[c] < limit /\ ~(rank[d] < limit)
    BY <1>8
  <2>2. ~Before(d, c, target)
    BY <1>5, <2>1
  <2>3. Distance(c, target) \in Int /\ Distance(d, target) \in Int
    BY <1>1 DEF Analog, Distance
  <2> QED
    BY <2>2, <2>3 DEF Before
<1> QED
  BY <1>2, <1>3, <1>9, <1>10 DEF AnalogsLookBack, past

=============================================================================
