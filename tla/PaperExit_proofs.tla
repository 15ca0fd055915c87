--------------------------- MODULE PaperExit_proofs ---------------------------
(***************************************************************************)
(* Theorems about the exits of an intraday paper position: the walk over   *)
(* the bars books only what a bar reached, agrees with the backtest until  *)
(* T1, and the stop only tightens, for sessions of any length and any      *)
(* number of overlapping callers.                                          *)
(***************************************************************************)
EXTENDS PaperExit, WellFoundedInduction, TLAPS

-----------------------------------------------------------------------------
(* Folds over the bars.  FoldLeft is a recursive function on the sets        *)
(* of indices; that the recursion has a solution is shown for the intervals  *)
(* 1..n one after the other.                                                 *)

\* A set of naturals has a least member.
LEMMA LeastNat ==
    ASSUME NEW F, F \subseteq Nat, F # {}
    PROVE  \E n \in F : \A k \in F : n <= k
<1>1. PICK n \in F : \A k \in F : ~(<<k, n>> \in OpToRel(<, Nat))
  BY NatLessThanWellFounded, WFMin
<1>2. \A k \in F : ~(k < n)
  BY <1>1 DEF OpToRel
<1>. QED BY <1>2

LEMMA MaxOfIndices ==
    ASSUME NEW n \in Nat, NEW T \in SUBSET (1..n), T # {}
    PROVE  Max(T) \in T /\ \A y \in T : y <= Max(T)
<1>. DEFINE F == {n - x : x \in T}
<1>1. F \subseteq Nat /\ F # {}
  <2>1. \A x \in T : n - x \in Nat
    OBVIOUS
  <2>2. PICK x \in T : TRUE
    OBVIOUS
  <2>3. n - x \in F
    BY <2>2
  <2>. QED BY <2>1, <2>3
<1>2. PICK d \in F : \A k \in F : d <= k
  <2>. HIDE DEF F
  <2>. QED BY <1>1, LeastNat
<1>3. PICK x \in T : d = n - x
  BY <1>2
<1>4. \A y \in T : x >= y
  <2>. TAKE y \in T
  <2>1. n - x <= n - y
    BY <1>2, <1>3
  <2>. QED BY <2>1
<1>. QED BY <1>3, <1>4 DEF Max

\* it folds step over the sets of indices up to n, the greatest index last.
Folds(it, W, step, base, n) ==
    /\ it \in [SUBSET (1..n) -> W]
    /\ \A T \in SUBSET (1..n) :
          it[T] = IF T = {} THEN base ELSE step[<<it[T \ {Max(T)}], Max(T)>>]

LEMMA FoldExists ==
    ASSUME NEW W, NEW base \in W, NEW step \in [W \X Nat -> W], NEW n \in Nat
    PROVE  \E it : Folds(it, W, step, base, n)
<1>. DEFINE F == {k \in Nat : ~ \E it : Folds(it, W, step, base, k)}
<1>1. SUFFICES ASSUME F # {} PROVE FALSE
  OBVIOUS
<1>2. PICK m \in F : \A k \in F : m <= k
  <2>1. F \subseteq Nat
    OBVIOUS
  <2>. HIDE DEF F
  <2>. QED BY <1>1, <2>1, LeastNat
<1>3. m \in Nat /\ ~ \E it : Folds(it, W, step, base, m)
  BY <1>2
<1>4. CASE m = 0
  <2>. DEFINE it == [T \in SUBSET (1..m) |-> base]
  <2>1. 1..m = {}
    BY <1>4
  <2>2. Folds(it, W, step, base, m)
    BY <2>1 DEF Folds
  <2>. QED BY <1>3, <2>2
<1>5. CASE m # 0
  <2>1. PICK f : Folds(f, W, step, base, m - 1)
    <3>1. m - 1 \in Nat /\ m - 1 \notin F
      BY <1>2, <1>3, <1>5
    <3>. QED BY <3>1
  <2>. DEFINE it == [T \in SUBSET (1..m) |->
                       IF m \in T THEN step[<<f[T \ {m}], m>>] ELSE f[T]]
  <2>2. \A T \in SUBSET (1..m) : /\ T \ {m} \in SUBSET (1..(m - 1))
                                /\ m \notin T => T \in SUBSET (1..(m - 1))
    BY <1>3
  <2>3. f \in [SUBSET (1..(m - 1)) -> W]
    BY <2>1 DEF Folds
  <2>4. it \in [SUBSET (1..m) -> W]
    BY <1>3, <2>2, <2>3
  <2>5. ASSUME NEW T \in SUBSET (1..m)
        PROVE  it[T] = IF T = {} THEN base ELSE step[<<it[T \ {Max(T)}], Max(T)>>]
    <3>1. CASE T = {}
      BY <2>1, <2>2, <3>1 DEF Folds
    <3>2. CASE m \in T
      <4>1. Max(T) = m
        <5>1. Max(T) \in T /\ \A y \in T : y <= Max(T)
          BY <1>3, <3>2, MaxOfIndices
        <5>2. Max(T) \in 1..m /\ m <= Max(T)
          BY <5>1, <3>2
        <5>. QED BY <5>2, <1>3
      <4>2. it[T \ {m}] = f[T \ {m}]
        BY <2>2
      <4>. QED BY <3>2, <4>1, <4>2
    <3>3. CASE T # {} /\ m \notin T
      <4>1. Max(T) \in T
        BY <1>3, <3>3, MaxOfIndices
      <4>2. f[T] = step[<<f[T \ {Max(T)}], Max(T)>>]
        <5>1. T \in SUBSET (1..(m - 1))
          BY <2>2, <3>3
        <5>2. \A U \in SUBSET (1..(m - 1)) :
                 f[U] = IF U = {} THEN base ELSE step[<<f[U \ {Max(U)}], Max(U)>>]
          BY <2>1 DEF Folds
        <5>. QED BY <5>1, <5>2, <3>3
      <4>3. it[T] = f[T]
        BY <3>3
      <4>4. it[T \ {Max(T)}] = f[T \ {Max(T)}]
        BY <3>3
      <4>. QED BY <3>3, <4>2, <4>3, <4>4
    <3>. QED BY <3>1, <3>2, <3>3
  <2>6. Folds(it, W, step, base, m)
    BY <2>4, <2>5 DEF Folds
  <2>. QED BY <1>3, <2>6
<1>. QED BY <1>4, <1>5

\* Along the intervals 1..k the fold takes one index after the other.
LEMMA IntervalSplits ==
    ASSUME NEW k \in Nat, k # 0
    PROVE  1..k # {} /\ Max(1..k) = k /\ (1..k) \ {k} = 1..(k - 1)
<1>1. 1..k # {} /\ (1..k) \ {k} = 1..(k - 1)
  OBVIOUS
<1>2. Max(1..k) \in 1..k /\ \A y \in 1..k : y <= Max(1..k)
  BY <1>1, MaxOfIndices
<1>. QED BY <1>1, <1>2

-----------------------------------------------------------------------------
(* The walk and the backtest as chains of states, one per bar.             *)

Walks == [act : Actions, stop : Levels, t1 : BOOLEAN, t2 : BOOLEAN]
Sims  == [exit : {"none", "X_TIME", "X1", "X1_BE", "T3"}, t1 : BOOLEAN, t2 : BOOLEAN,
          stop : Levels]

WalkChain(g, r, fwd) ==
    /\ g \in [0..Len(fwd) -> Walks]
    /\ g[0] = [act |-> "HOLD", stop |-> r.stop, t1 |-> r.t1, t2 |-> r.t2]
    /\ \A i \in 1..Len(fwd) : g[i] = WalkBar(r, g[i - 1], fwd[i])

SimChain(g, side, fwd) ==
    /\ g \in [0..Len(fwd) -> Sims]
    /\ g[0] = [exit |-> "none", t1 |-> FALSE, t2 |-> FALSE, stop |-> Stop(side)]
    /\ \A i \in 1..Len(fwd) : g[i] = SimBar(side, g[i - 1], fwd[i])

LEMMA LevelsType ==
    ASSUME NEW side \in {"long", "short"}
    PROVE  /\ Stop(side) \in Levels /\ Entry(side) \in Levels
           /\ \A k \in 1..3 : Target(side, k) \in Levels
BY DEF Stop, Entry, Target, Level, Levels

LEMMA WalkBarType ==
    ASSUME NEW r \in Row, NEW w \in Walks, NEW bar
    PROVE  WalkBar(r, w, bar) \in Walks
<1>. DEFINE touched(k) == HitTarget(bar, Target(r.side, k), r.side)
            t1 == w.t1 \/ touched(1)
            t2 == w.t2 \/ (t1 /\ touched(2))
<1>1. t1 \in BOOLEAN /\ t2 \in BOOLEAN
  OBVIOUS
<1>2. /\ \A a \in Actions : [w EXCEPT !.act = a] \in Walks
      /\ [w EXCEPT !.t1 = t1, !.t2 = t2] \in Walks
  <2>. HIDE DEF t1, t2
  <2>. QED BY <1>1 DEF Walks
<1>3. {"EXIT_NOW", "PARTIAL_T1", "PARTIAL_T2", "EXIT_TARGET", "EXIT_TIME"} \subseteq Actions
  BY DEF Actions
<1>. DEFINE R == WalkBar(r, w, bar)
<1>4. \/ R = w \/ R = [w EXCEPT !.t1 = t1, !.t2 = t2]
      \/ \E a \in {"EXIT_NOW", "PARTIAL_T1", "PARTIAL_T2", "EXIT_TARGET", "EXIT_TIME"} :
            R = [w EXCEPT !.act = a]
  BY DEF WalkBar
<1>. HIDE DEF R, t1, t2
<1>5. R \in Walks
  BY <1>2, <1>3, <1>4
<1>. QED BY <1>5 DEF R

LEMMA WalkIsChain ==
    ASSUME NEW r \in Row, NEW bs \in Seq(Bar), NEW fwd, fwd = Forward(r, bs), fwd \in Seq(Bar)
    PROVE  \E g : /\ WalkChain(g, r, fwd)
                  /\ Walk(r, bs) = g[Len(fwd)].act
<1>. DEFINE n     == Len(fwd)
            base  == [act |-> "HOLD", stop |-> r.stop, t1 |-> r.t1, t2 |-> r.t2]
            step  == [p \in Walks \X Nat |->
                        IF p[2] \in 1..n
                        THEN WalkBar(r, p[1], fwd[p[2]]) ELSE p[1]]
            eq(it) == it = [T \in SUBSET (DOMAIN fwd) |->
                              IF T = {} THEN base
                              ELSE WalkBar(r, it[T \ {Max(T)}], fwd[Max(T)])]
            iter  == CHOOSE it : eq(it)
<1>1. Walk(r, bs) = iter[DOMAIN fwd].act
  BY DEF Walk, FoldLeft, MapThenFoldSet
<1>2. n \in Nat /\ DOMAIN fwd = 1..n
  OBVIOUS
<1>3. base \in Walks
  BY DEF Row, Walks, Actions
<1>4. step \in [Walks \X Nat -> Walks]
  BY WalkBarType
<1>5. PICK f : Folds(f, Walks, step, base, n)
  <2>. HIDE DEF step, base, n
  <2>. QED BY <1>2, <1>3, <1>4, FoldExists
<1>6. eq(f)
  <2>1. f = [T \in SUBSET (1..n) |-> f[T]]
    BY <1>5 DEF Folds
  <2>2. ASSUME NEW T \in SUBSET (1..n), T # {}
        PROVE  f[T] = WalkBar(r, f[T \ {Max(T)}], fwd[Max(T)])
    <3>1. Max(T) \in 1..n
      BY <1>2, <2>2, MaxOfIndices
    <3>2. T \ {Max(T)} \in SUBSET (1..n) /\ f[T \ {Max(T)}] \in Walks
      BY <1>5 DEF Folds
    <3>3. f[T] = step[<<f[T \ {Max(T)}], Max(T)>>]
      BY <1>5, <2>2 DEF Folds
    <3>. HIDE DEF n
    <3>4. Max(T) \in Nat
      BY <3>1, <1>2
    <3>. QED BY <1>2, <3>1, <3>2, <3>3, <3>4
  <2>3. \A T \in SUBSET (1..n) : T = {} => f[T] = base
    BY <1>5 DEF Folds
  <2>4. f = [T \in SUBSET (1..n) |->
               IF T = {} THEN base
               ELSE WalkBar(r, f[T \ {Max(T)}], fwd[Max(T)])]
    <3>. HIDE DEF n, base
    <3>. QED BY <2>1, <2>2, <2>3
  <2>. QED BY <1>2, <2>4
<1>7. eq(iter)
  BY <1>6
<1>. HIDE DEF iter
<1>. DEFINE g == [k \in 0..n |-> iter[1..k]]
<1>8. g[0] = base
  <2>1. 1..0 = {} /\ 1..0 \in SUBSET (1..n) /\ 0 \in 0..n
    OBVIOUS
  <2>2. iter[{}] = base
    BY <1>2, <1>7, <2>1
  <2>. QED BY <2>1, <2>2
<1>9. ASSUME NEW k \in 1..n
      PROVE  g[k] = WalkBar(r, g[k - 1], fwd[k])
  <2>1. k \in Nat /\ k # 0 /\ k - 1 \in 0..n /\ k \in 0..n /\ 1..k \in SUBSET (1..n)
    OBVIOUS
  <2>2. 1..k # {} /\ Max(1..k) = k /\ (1..k) \ {k} = 1..(k - 1)
    BY <2>1, IntervalSplits
  <2>. HIDE DEF n
  <2>3. iter[1..k] = IF 1..k = {} THEN base
                     ELSE WalkBar(r, iter[(1..k) \ {Max(1..k)}], fwd[Max(1..k)])
    BY <1>2, <1>7, <2>1
  <2>. QED BY <1>2, <2>1, <2>2, <2>3
<1>10. \A k \in 0..n : g[k] \in Walks
  <2>. DEFINE F == {k \in 0..n : g[k] \notin Walks}
  <2>1. SUFFICES ASSUME F # {} PROVE FALSE
    OBVIOUS
  <2>2. PICK k \in F : \A j \in F : k <= j
    <3>1. F \subseteq Nat
      OBVIOUS
    <3>. HIDE DEF F
    <3>. QED BY <2>1, <3>1, LeastNat
  <2>3. k # 0
    BY <1>3, <1>8, <2>2
  <2>. HIDE DEF g
  <2>4. k \in 1..n /\ k - 1 \in 0..n /\ k - 1 \notin F
    BY <2>2, <2>3, <1>2
  <2>5. g[k - 1] \in Walks
    BY <2>4
  <2>. QED BY <1>9, <2>2, <2>4, <2>5, WalkBarType
<1>11. WalkChain(g, r, fwd)
  <2>1. g \in [0..n -> Walks]
    <3>1. g = [k \in 0..n |-> g[k]]
      OBVIOUS
    <3>. HIDE DEF g
    <3>. QED BY <1>10, <3>1
  <2>. HIDE DEF g
  <2>. QED BY <1>8, <1>9, <2>1 DEF WalkChain
<1>12. Walk(r, bs) = g[n].act
  BY <1>1, <1>2
<1>. QED BY <1>11, <1>12

\* The bars of the backtest.
AfterEntry(bs, e) == SubSeq(bs, e + 1, Len(bs))

LEMMA SimBarType ==
    ASSUME NEW side \in {"long", "short"}, NEW s \in Sims, NEW bar
    PROVE  SimBar(side, s, bar) \in Sims
<1>. DEFINE touched(k) == HitTarget(bar, Target(side, k), side)
            t1 == s.t1 \/ touched(1)
            t2 == s.t2 \/ (t1 /\ touched(2))
            R  == SimBar(side, s, bar)
<1>1. t1 \in BOOLEAN /\ t2 \in BOOLEAN /\ Entry(side) \in Levels
  BY LevelsType
<1>2. \/ R = s
      \/ R = [s EXCEPT !.exit = "X_TIME"]
      \/ R = [s EXCEPT !.exit = IF s.t1 THEN "X1_BE" ELSE "X1"]
      \/ R = [s EXCEPT !.t1 = TRUE, !.t2 = TRUE, !.exit = "T3"]
      \/ R = [s EXCEPT !.t1 = t1, !.t2 = t2, !.stop = IF t1 THEN Entry(side) ELSE @]
  BY DEF SimBar
<1>. HIDE DEF t1, t2, R
<1>3. R \in Sims
  BY <1>1, <1>2 DEF Sims
<1>. QED BY <1>3 DEF R

LEMMA SimIsChain ==
    ASSUME NEW side \in {"long", "short"}, NEW e \in Nat, NEW bs \in Seq(Bar),
           NEW fwd, fwd = AfterEntry(bs, e), fwd \in Seq(Bar)
    PROVE  \E g : SimChain(g, side, fwd) /\ Sim(side, e, bs) = g[Len(fwd)]
<1>. DEFINE n     == Len(fwd)
            base  == [exit |-> "none", t1 |-> FALSE, t2 |-> FALSE, stop |-> Stop(side)]
            step  == [p \in Sims \X Nat |->
                        IF p[2] \in 1..n
                        THEN SimBar(side, p[1], fwd[p[2]]) ELSE p[1]]
            eq(it) == it = [T \in SUBSET (DOMAIN fwd) |->
                              IF T = {} THEN base
                              ELSE SimBar(side, it[T \ {Max(T)}], fwd[Max(T)])]
            iter  == CHOOSE it : eq(it)
<1>1. Sim(side, e, bs) = iter[DOMAIN fwd]
  BY DEF Sim, AfterEntry, FoldLeft, MapThenFoldSet
<1>2. n \in Nat /\ DOMAIN fwd = 1..n
  OBVIOUS
<1>3. base \in Sims
  BY LevelsType DEF Sims
<1>4. step \in [Sims \X Nat -> Sims]
  BY SimBarType
<1>5. PICK f : Folds(f, Sims, step, base, n)
  <2>. HIDE DEF step, base, n
  <2>. QED BY <1>2, <1>3, <1>4, FoldExists
<1>6. eq(f)
  <2>1. f = [T \in SUBSET (1..n) |-> f[T]]
    BY <1>5 DEF Folds
  <2>2. ASSUME NEW T \in SUBSET (1..n), T # {}
        PROVE  f[T] = SimBar(side, f[T \ {Max(T)}], fwd[Max(T)])
    <3>1. Max(T) \in 1..n
      BY <1>2, <2>2, MaxOfIndices
    <3>2. T \ {Max(T)} \in SUBSET (1..n) /\ f[T \ {Max(T)}] \in Sims
      BY <1>5 DEF Folds
    <3>3. f[T] = step[<<f[T \ {Max(T)}], Max(T)>>]
      BY <1>5, <2>2 DEF Folds
    <3>. HIDE DEF n
    <3>4. Max(T) \in Nat
      BY <3>1, <1>2
    <3>. QED BY <1>2, <3>1, <3>2, <3>3, <3>4
  <2>3. \A T \in SUBSET (1..n) : T = {} => f[T] = base
    BY <1>5 DEF Folds
  <2>4. f = [T \in SUBSET (1..n) |->
               IF T = {} THEN base
               ELSE SimBar(side, f[T \ {Max(T)}], fwd[Max(T)])]
    <3>. HIDE DEF n, base
    <3>. QED BY <2>1, <2>2, <2>3
  <2>. QED BY <1>2, <2>4
<1>7. eq(iter)
  BY <1>6
<1>. HIDE DEF iter
<1>. DEFINE g == [k \in 0..n |-> iter[1..k]]
<1>8. g[0] = base
  <2>1. 1..0 = {} /\ 1..0 \in SUBSET (1..n) /\ 0 \in 0..n
    OBVIOUS
  <2>2. iter[{}] = base
    BY <1>2, <1>7, <2>1
  <2>. QED BY <2>1, <2>2
<1>9. ASSUME NEW k \in 1..n
      PROVE  g[k] = SimBar(side, g[k - 1], fwd[k])
  <2>1. k \in Nat /\ k # 0 /\ k - 1 \in 0..n /\ k \in 0..n /\ 1..k \in SUBSET (1..n)
    OBVIOUS
  <2>2. 1..k # {} /\ Max(1..k) = k /\ (1..k) \ {k} = 1..(k - 1)
    BY <2>1, IntervalSplits
  <2>. HIDE DEF n
  <2>3. iter[1..k] = IF 1..k = {} THEN base
                     ELSE SimBar(side, iter[(1..k) \ {Max(1..k)}], fwd[Max(1..k)])
    BY <1>2, <1>7, <2>1
  <2>. QED BY <1>2, <2>1, <2>2, <2>3
<1>10. \A k \in 0..n : g[k] \in Sims
  <2>. DEFINE F == {k \in 0..n : g[k] \notin Sims}
  <2>1. SUFFICES ASSUME F # {} PROVE FALSE
    OBVIOUS
  <2>2. PICK k \in F : \A j \in F : k <= j
    <3>1. F \subseteq Nat
      OBVIOUS
    <3>. HIDE DEF F
    <3>. QED BY <2>1, <3>1, LeastNat
  <2>3. k # 0
    BY <1>3, <1>8, <2>2
  <2>. HIDE DEF g
  <2>4. k \in 1..n /\ k - 1 \in 0..n /\ k - 1 \notin F
    BY <2>2, <2>3, <1>2
  <2>5. g[k - 1] \in Sims
    BY <2>4
  <2>. QED BY <1>9, <2>2, <2>4, <2>5, SimBarType
<1>11. SimChain(g, side, fwd)
  <2>1. g \in [0..n -> Sims]
    <3>1. g = [k \in 0..n |-> g[k]]
      OBVIOUS
    <3>. HIDE DEF g
    <3>. QED BY <1>10, <3>1
  <2>. HIDE DEF g
  <2>. QED BY <1>8, <1>9, <2>1 DEF SimChain
<1>12. Sim(side, e, bs) = g[n]
  BY <1>1, <1>2
<1>. QED BY <1>11, <1>12


\* The bars of the walk are those of the chart from r.from on, or all of them.
LEMMA ForwardIs ==
    ASSUME NEW r \in Row, r.from # 0, NEW bs \in Seq(Bar)
    PROVE  LET fwd   == Forward(r, bs)
               first == IF r.from > Len(bs) THEN 0 ELSE r.from - 1
           IN  /\ fwd \in Seq(Bar) /\ Len(bs) - Len(fwd) = first
               /\ Len(fwd) = Len(bs) - first
               /\ \A i \in 1..Len(fwd) : fwd[i] = bs[first + i]
<1>. DEFINE m == r.from
<1>1. m \in Nat \ {0} /\ Len(bs) \in Nat
  BY DEF Row
<1>2. CASE m > Len(bs)
  BY <1>1, <1>2 DEF Forward
<1>3. CASE ~(m > Len(bs))
  <2>1. Forward(r, bs) = SubSeq(bs, m, Len(bs))
    BY <1>3 DEF Forward
  <2>. HIDE DEF m
  <2>2. /\ SubSeq(bs, m, Len(bs)) \in Seq(Bar)
        /\ Len(SubSeq(bs, m, Len(bs))) = Len(bs) - (m - 1)
        /\ \A i \in 1..Len(bs) - (m - 1) : SubSeq(bs, m, Len(bs))[i] = bs[m - 1 + i]
    BY <1>1, <1>3
  <2>. DEFINE fwd == SubSeq(bs, m, Len(bs))
              k   == m - 1
  <2>3. k \in Nat /\ (IF m > Len(bs) THEN 0 ELSE m - 1) = k
    BY <1>1, <1>3
  <2>4. /\ fwd \in Seq(Bar) /\ Len(fwd) = Len(bs) - k
        /\ \A i \in 1..Len(fwd) : fwd[i] = bs[k + i]
    BY <2>2
  <2>. HIDE DEF fwd, k
  <2>5. Len(bs) - Len(fwd) = k
    BY <1>1, <2>3, <2>4
  <2>. QED BY <2>1, <2>3, <2>4, <2>5 DEF m, fwd
<1>. QED BY <1>2, <1>3

-----------------------------------------------------------------------------
(* What the walk asks for.                                                 *)

Booked(r, k)  == IF k = 1 THEN r.t1 ELSE r.t2
TargetOf(act) == IF act = "PARTIAL_T1" THEN 1 ELSE 2

\* A bar that counts for r touched its target k.
Reached(r, bs, k) ==
    \E i \in 1..Len(bs) : /\ i >= r.from \/ r.from > r.entered
                          /\ HitTarget(bs[i], Target(r.side, k), r.side)

\* A state of the walk over bars 1..n has only what the row or a bar has.
Seen(r, fwd, n, w) ==
    /\ w.t1 => r.t1 \/ \E i \in 1..n : HitTarget(fwd[i], Target(r.side, 1), r.side)
    /\ w.t2 => r.t2 \/ \E i \in 1..n : HitTarget(fwd[i], Target(r.side, 2), r.side)
    /\ w.act = "PARTIAL_T1" => \E i \in 1..n : HitTarget(fwd[i], Target(r.side, 1), r.side)
    /\ w.act = "PARTIAL_T2" => \E i \in 1..n : HitTarget(fwd[i], Target(r.side, 2), r.side)

LEMMA WalkBarSees ==
    ASSUME NEW r \in Row, NEW fwd, NEW n \in Nat, n # 0, NEW w \in Walks,
           Seen(r, fwd, n - 1, w)
    PROVE  Seen(r, fwd, n, WalkBar(r, w, fwd[n]))
<1>. DEFINE hit(i, k) == HitTarget(fwd[i], Target(r.side, k), r.side)
            some(m, k) == \E i \in 1..m : hit(i, k)
            t1 == w.t1 \/ hit(n, 1)
            t2 == w.t2 \/ (t1 /\ hit(n, 2))
            R  == WalkBar(r, w, fwd[n])
<1>1. \A k : (some(n - 1, k) \/ hit(n, k)) => some(n, k)
  <2>1. n \in 1..n /\ 1..(n - 1) \subseteq 1..n
    OBVIOUS
  <2>. HIDE DEF hit
  <2>. QED BY <2>1
<1>2. /\ w.t1 => r.t1 \/ some(n - 1, 1)
      /\ w.t2 => r.t2 \/ some(n - 1, 2)
      /\ w.act = "PARTIAL_T1" => some(n - 1, 1)
      /\ w.act = "PARTIAL_T2" => some(n - 1, 2)
  BY DEF Seen
<1>3. SUFFICES Seen(r, fwd, n, R)
  OBVIOUS
<1>. SUFFICES /\ R.t1 => r.t1 \/ some(n, 1)
              /\ R.t2 => r.t2 \/ some(n, 2)
              /\ R.act = "PARTIAL_T1" => some(n, 1)
              /\ R.act = "PARTIAL_T2" => some(n, 2)
  <2>. HIDE DEF R
  <2>. QED BY DEF Seen
<1>4. /\ t1 => r.t1 \/ some(n, 1)
      /\ t2 => r.t2 \/ some(n, 2)
  <2>. HIDE DEF hit, some
  <2>. QED BY <1>1, <1>2
<1>5. t1 \in BOOLEAN /\ t2 \in BOOLEAN
  OBVIOUS
<1>6. \/ R = w
      \/ R = [w EXCEPT !.t1 = t1, !.t2 = t2]
      \/ R = [w EXCEPT !.act = "PARTIAL_T1"] /\ t1 /\ ~r.t1
      \/ R = [w EXCEPT !.act = "PARTIAL_T2"] /\ t2 /\ ~r.t2
      \/ \E a \in {"EXIT_NOW", "EXIT_TARGET", "EXIT_TIME"} : R = [w EXCEPT !.act = a]
  BY DEF WalkBar
<1>7. (R = w \/ \E a \in {"EXIT_NOW", "EXIT_TARGET", "EXIT_TIME"} : R = [w EXCEPT !.act = a])
      => /\ R.t1 = w.t1 /\ R.t2 = w.t2
         /\ R.act \in {"PARTIAL_T1", "PARTIAL_T2"} => R.act = w.act
  <2>. HIDE DEF R
  <2>. QED BY DEF Walks
<1>8. /\ R = [w EXCEPT !.t1 = t1, !.t2 = t2] => R.t1 = t1 /\ R.t2 = t2 /\ R.act = w.act
      /\ R = [w EXCEPT !.act = "PARTIAL_T1"] => R.t1 = w.t1 /\ R.t2 = w.t2 /\ R.act = "PARTIAL_T1"
      /\ R = [w EXCEPT !.act = "PARTIAL_T2"] => R.t1 = w.t1 /\ R.t2 = w.t2 /\ R.act = "PARTIAL_T2"
  <2>. HIDE DEF R, t1, t2
  <2>. QED BY DEF Walks
<1>. HIDE DEF R, t1, t2, some, hit
<1>. QED BY <1>1, <1>2, <1>4, <1>6, <1>7, <1>8

\* A partial the walk asks for is of a target that a bar of the walk reached.
LEMMA WalkReaches ==
    ASSUME NEW r \in Row, r.from # 0, NEW bs \in Seq(Bar),
           r.entered <= Len(bs), Walk(r, bs) \in {"PARTIAL_T1", "PARTIAL_T2"}
    PROVE  Reached(r, bs, TargetOf(Walk(r, bs)))
<1>. DEFINE fwd   == Forward(r, bs)
            first == IF r.from > Len(bs) THEN 0 ELSE r.from - 1
            n     == Len(fwd)
<1>1. /\ fwd \in Seq(Bar) /\ Len(bs) - n = first /\ n = Len(bs) - first
      /\ \A i \in 1..n : fwd[i] = bs[first + i]
  BY ForwardIs
<1>2. PICK g : WalkChain(g, r, fwd) /\ Walk(r, bs) = g[n].act
  <2>. HIDE DEF fwd
  <2>. QED BY <1>1, WalkIsChain DEF fwd
<1>. DEFINE F == {k \in 0..n : ~Seen(r, fwd, k, g[k])}
<1>. HIDE DEF fwd
<1>3. n \in Nat
  BY <1>1
<1>4. F = {}
  <2>1. SUFFICES ASSUME F # {} PROVE FALSE
    OBVIOUS
  <2>2. PICK k \in F : \A j \in F : k <= j
    <3>1. F \subseteq Nat
      BY <1>3
    <3>. HIDE DEF F
    <3>. QED BY <2>1, <3>1, LeastNat
  <2>3. k # 0
    <3>1. g[0].act = "HOLD" /\ g[0].t1 = r.t1 /\ g[0].t2 = r.t2
      BY <1>2 DEF WalkChain
    <3>2. Seen(r, fwd, 0, g[0])
      BY <3>1 DEF Seen
    <3>. QED BY <2>2, <3>2
  <2>4. k \in 1..n /\ k - 1 \in 0..n /\ k \in Nat
    BY <1>3, <2>2, <2>3
  <2>5. Seen(r, fwd, k - 1, g[k - 1])
    <3>1. k - 1 \notin F
      BY <1>3, <2>2, <2>4
    <3>. QED BY <2>4, <3>1
  <2>6. g[k - 1] \in Walks /\ g[k] = WalkBar(r, g[k - 1], fwd[k])
    BY <1>2, <2>4 DEF WalkChain
  <2>7. Seen(r, fwd, k, g[k])
    BY <2>3, <2>4, <2>5, <2>6, WalkBarSees
  <2>. QED BY <2>2, <2>7
<1>5. Seen(r, fwd, n, g[n])
  BY <1>3, <1>4
<1>6. PICK i \in 1..n : HitTarget(fwd[i], Target(r.side, TargetOf(Walk(r, bs))), r.side)
  BY <1>2, <1>5 DEF Seen, TargetOf
<1>7. first + i \in 1..Len(bs) /\ (first + i >= r.from \/ r.from > r.entered)
  <2>1. Len(bs) \in Nat /\ r.from \in Nat /\ r.entered \in Nat
    BY DEF Row
  <2>2. first \in Nat /\ (first = r.from - 1 \/ r.from > r.entered)
    BY <2>1
  <2>3. n = Len(bs) - first
    BY <1>1
  <2>. HIDE DEF n, first
  <2>4. first + i \in 1..Len(bs)
    BY <1>3, <2>1, <2>2, <2>3
  <2>5. first + i >= r.from \/ r.from > r.entered
    BY <1>3, <2>1, <2>2
  <2>. QED BY <2>4, <2>5
<1>. QED BY <1>1, <1>6, <1>7 DEF Reached

\* Until T1 the two chains go hand in hand.
Agree(r, w, s) ==
    \/ /\ w = [act |-> "HOLD", stop |-> Stop(r.side), t1 |-> FALSE, t2 |-> FALSE]
       /\ s = [exit |-> "none", t1 |-> FALSE, t2 |-> FALSE, stop |-> Stop(r.side)]
    \/ w.act = "EXIT_NOW" /\ s.exit = "X1" /\ ~s.t1
    \/ w.act = "PARTIAL_T1" /\ s.exit # "X1" /\ s.t1

LEMMA BarsAgree ==
    ASSUME NEW r \in Row, ~r.t1, ~r.t2, NEW w \in Walks, NEW s \in Sims, Agree(r, w, s),
           NEW bar, bar.late = FALSE
    PROVE  Agree(r, WalkBar(r, w, bar), SimBar(r.side, s, bar))
<1>. DEFINE R == WalkBar(r, w, bar)
            S == SimBar(r.side, s, bar)
<1>1. CASE w.act = "EXIT_NOW" /\ s.exit = "X1" /\ ~s.t1
  <2>1. R = w /\ S = s
    BY <1>1 DEF WalkBar, SimBar
  <2>. QED BY <1>1, <2>1 DEF Agree
<1>2. CASE w.act = "PARTIAL_T1" /\ s.exit # "X1" /\ s.t1
  <2>1. R = w
    BY <1>2 DEF WalkBar
  <2>2. S.exit # "X1" /\ S.t1
    BY <1>2 DEF SimBar, Sims
  <2>. HIDE DEF R, S
  <2>3. Agree(r, R, S)
    BY <1>2, <2>1, <2>2 DEF Agree
  <2>. QED BY <2>3 DEF R, S
<1>3. CASE /\ w = [act |-> "HOLD", stop |-> Stop(r.side), t1 |-> FALSE, t2 |-> FALSE]
           /\ s = [exit |-> "none", t1 |-> FALSE, t2 |-> FALSE, stop |-> Stop(r.side)]
  <2>. DEFINE hit(k) == HitTarget(bar, Target(r.side, k), r.side)
              stopped == HitStop(bar, Stop(r.side), r.side)
  <2>1. CASE stopped
    <3>1. R.act = "EXIT_NOW"
      BY <1>3, <2>1 DEF WalkBar
    <3>2. S.exit = "X1" /\ ~S.t1
      BY <1>3, <2>1 DEF SimBar
    <3>. HIDE DEF R, S
    <3>3. Agree(r, R, S)
      BY <3>1, <3>2 DEF Agree
    <3>. QED BY <3>3 DEF R, S
  <2>2. CASE ~stopped /\ hit(1)
    <3>1. R.act = "PARTIAL_T1"
      BY <1>3, <2>2 DEF WalkBar
    <3>2. S.exit # "X1" /\ S.t1
      BY <1>3, <2>2 DEF SimBar
    <3>. HIDE DEF R, S
    <3>3. Agree(r, R, S)
      BY <3>1, <3>2 DEF Agree
    <3>. QED BY <3>3 DEF R, S
  <2>3. CASE ~stopped /\ ~hit(1)
    <3>. DEFINE t1 == FALSE \/ hit(1)
                t2 == FALSE \/ (t1 /\ hit(2))
    <3>1. t1 = FALSE /\ t2 = FALSE
      BY <2>3
    <3>2. R = [w EXCEPT !.t1 = t1, !.t2 = t2]
      BY <1>3, <2>3 DEF WalkBar
    <3>3. R = w
      <4>1. [w EXCEPT !.t1 = FALSE, !.t2 = FALSE] = w
        <5>1. w.t1 = FALSE /\ w.t2 = FALSE
          BY <1>3
        <5>. QED BY <5>1 DEF Walks
      <4>. HIDE DEF R, t1, t2
      <4>2. R = [w EXCEPT !.t1 = FALSE, !.t2 = FALSE]
        BY <3>1, <3>2, Zenon
      <4>. QED BY <4>1, <4>2
    <3>4. S = [s EXCEPT !.t1 = t1, !.t2 = t2, !.stop = IF t1 THEN Entry(r.side) ELSE @]
      BY <1>3, <2>3 DEF SimBar
    <3>5. S = s
      <4>1. [s EXCEPT !.t1 = FALSE, !.t2 = FALSE,
                      !.stop = IF FALSE THEN Entry(r.side) ELSE @] = s
        <5>1. s.t1 = FALSE /\ s.t2 = FALSE
          BY <1>3
        <5>. QED BY <5>1 DEF Sims
      <4>. HIDE DEF S, t1, t2
      <4>2. S = [s EXCEPT !.t1 = FALSE, !.t2 = FALSE,
                          !.stop = IF FALSE THEN Entry(r.side) ELSE @]
        BY <3>1, <3>4, Zenon
      <4>. QED BY <4>1, <4>2
    <3>. QED BY <1>3, <3>3, <3>5 DEF Agree
  <2>. QED BY <2>1, <2>2, <2>3
<1>. QED BY <1>1, <1>2, <1>3 DEF Agree

\* On the bars after the entry bar, before the time stop, a walk of a row with
\* nothing booked and the backtest meet the same first event.
LEMMA WalkAgreesWithSim ==
    ASSUME NEW r \in Row, NEW bs \in Seq(Bar),
           ~r.t1, ~r.t2, r.stop = Stop(r.side), r.from = r.entered + 1,
           r.from <= Len(bs), \A i \in r.from..Len(bs) : ~bs[i].late
    PROVE  LET act == Walk(r, bs)
               s   == Sim(r.side, r.entered, bs)
           IN  /\ act = "HOLD"       <=> s.exit = "none" /\ ~s.t1
               /\ act = "EXIT_NOW"   <=> s.exit = "X1"
               /\ act = "PARTIAL_T1" <=> s.t1
<1>. DEFINE fwd == Forward(r, bs)
            n   == Len(fwd)
            e   == r.entered
<1>1. /\ r.side \in {"long", "short"} /\ e \in Nat /\ Len(bs) \in Nat
      /\ r.from # 0 /\ e < Len(bs) /\ ~(r.from > Len(bs))
  BY DEF Row
<1>2. /\ fwd \in Seq(Bar) /\ Len(bs) - n = e /\ n = Len(bs) - e
      /\ \A i \in 1..n : fwd[i] = bs[e + i]
  <2>. DEFINE first == IF r.from > Len(bs) THEN 0 ELSE r.from - 1
  <2>1. first = e
    BY <1>1
  <2>2. /\ fwd \in Seq(Bar) /\ Len(bs) - n = first /\ n = Len(bs) - first
        /\ \A i \in 1..n : fwd[i] = bs[first + i]
    BY <1>1, ForwardIs
  <2>. HIDE DEF first, n, fwd
  <2>. QED BY <2>1, <2>2
<1>3. fwd = SubSeq(bs, e + 1, Len(bs))
  BY <1>1 DEF Forward
<1>4. PICK g : WalkChain(g, r, fwd) /\ Walk(r, bs) = g[n].act
  <2>. HIDE DEF fwd
  <2>. QED BY <1>2, WalkIsChain DEF fwd
<1>. HIDE DEF fwd
<1>5. PICK h : SimChain(h, r.side, fwd) /\ Sim(r.side, e, bs) = h[n]
  <2>1. \E h : SimChain(h, r.side, fwd) /\ Sim(r.side, e, bs) = h[Len(fwd)]
    <3>. DEFINE side == r.side
    <3>1. e \in Nat /\ side \in {"long", "short"} /\ fwd \in Seq(Bar)
      BY <1>1, <1>2
    <3>. HIDE DEF e, side
    <3>2. fwd = AfterEntry(bs, e)
      BY <1>3 DEF AfterEntry
    <3>3. \E h : SimChain(h, side, fwd) /\ Sim(side, e, bs) = h[Len(fwd)]
      BY <3>1, <3>2, SimIsChain
    <3>. QED BY <3>3 DEF side
  <2>. QED BY <2>1
<1>6. n \in Nat
  BY <1>2
<1>. DEFINE F == {k \in 0..n : ~Agree(r, g[k], h[k])}
<1>7. F = {}
  <2>1. SUFFICES ASSUME F # {} PROVE FALSE
    OBVIOUS
  <2>2. PICK k \in F : \A j \in F : k <= j
    <3>1. F \subseteq Nat
      BY <1>6
    <3>. HIDE DEF F
    <3>. QED BY <2>1, <3>1, LeastNat
  <2>3. k # 0
    <3>1. /\ g[0] = [act |-> "HOLD", stop |-> Stop(r.side), t1 |-> FALSE, t2 |-> FALSE]
          /\ h[0] = [exit |-> "none", t1 |-> FALSE, t2 |-> FALSE, stop |-> Stop(r.side)]
      <4>1. r.t1 = FALSE /\ r.t2 = FALSE
        BY DEF Row
      <4>. QED BY <1>4, <1>5, <4>1 DEF WalkChain, SimChain
    <3>2. Agree(r, g[0], h[0])
      BY <3>1 DEF Agree
    <3>. QED BY <2>2, <3>2
  <2>4. k \in 1..n /\ k - 1 \in 0..n /\ k \in Nat
    BY <1>6, <2>2, <2>3
  <2>5. Agree(r, g[k - 1], h[k - 1])
    <3>1. k - 1 \notin F
      BY <1>6, <2>2, <2>4
    <3>. QED BY <2>4, <3>1
  <2>6. fwd[k].late = FALSE
    <3>1. e + k \in r.from..Len(bs) /\ fwd[k] = bs[e + k] /\ fwd[k] \in Bar
      <4>1. r.from = e + 1 /\ e \in Nat /\ Len(bs) \in Nat /\ n = Len(bs) - e
        BY <1>1, <1>2
      <4>2. fwd[k] = bs[e + k]
        BY <1>2, <2>4
      <4>. HIDE DEF e, n
      <4>3. e + k \in r.from..Len(bs)
        BY <2>4, <4>1
      <4>4. bs[e + k] \in Bar
        <5>1. e + k \in 1..Len(bs)
          BY <2>4, <4>1
        <5>. QED BY <5>1
      <4>. QED BY <4>2, <4>3, <4>4
    <3>2. ~fwd[k].late /\ fwd[k].late \in BOOLEAN
      BY <3>1 DEF Bar
    <3>. QED BY <3>2
  <2>7. /\ g[k - 1] \in Walks /\ h[k - 1] \in Sims
        /\ g[k] = WalkBar(r, g[k - 1], fwd[k])
        /\ h[k] = SimBar(r.side, h[k - 1], fwd[k])
    BY <1>4, <1>5, <2>4 DEF WalkChain, SimChain
  <2>8. Agree(r, g[k], h[k])
    BY <2>5, <2>6, <2>7, BarsAgree
  <2>. QED BY <2>2, <2>8
<1>8. Agree(r, g[n], h[n])
  BY <1>6, <1>7
<1>. QED BY <1>4, <1>5, <1>8 DEF Agree

-----------------------------------------------------------------------------
(* The invariant.  A caller that is about to book a target holds a reading   *)
(* of the row that other callers have overtaken; what it writes is sound      *)
(* because everything it relies on only grows: the bars, and the bookings.    *)

\* The stop of a row follows from what it has booked.
StopFollows(r) ==
    /\ r.t2 => r.t1
    /\ r.stop = IF r.t1 THEN Entry(r.side) ELSE Stop(r.side)

RowInv ==
    row = NoRow \/
    /\ row.status # "none"
    /\ row.entered \in 1..Len(bars) /\ row.from \in 1..(row.entered + 1)
    /\ StopFollows(row)
    /\ \A k \in {1, 2} : Booked(row, k) => Reached(row, bars, k)

SameTrade(r) ==
    r.side = row.side /\ r.entered = row.entered /\ r.from = row.from /\ r.orig = row.orig

ManageInv(c) ==
    loc[c].at = "manage" => row.status # "none" /\ SameTrade(loc[c].row)

PartialInv(c) ==
    loc[c].at \in {"partial", "partialTx"} =>
        /\ row.status # "none" /\ loc[c].act \in {"PARTIAL_T1", "PARTIAL_T2"}
        /\ Reached(row, bars, TargetOf(loc[c].act))

PartialTxInv(c) ==
    loc[c].at = "partialTx" =>
        LET r == loc[c].row IN
        /\ SameTrade(r) /\ StopFollows(r)
        /\ \A k \in {1, 2} : Booked(r, k) => Reached(row, bars, k)
        /\ Bookable(r, loc[c].act) /\ Sell(r, loc[c].act) < r.qty /\ r.qty <= r.orig

CloseInv(c) == loc[c].at = "closeTx" => row.status # "none"

CallerInv(c) == ManageInv(c) /\ PartialInv(c) /\ PartialTxInv(c) /\ CloseInv(c)

ExitInv == TypeOK /\ RowInv /\ \A c \in Callers : CallerInv(c)

LEMMA InitInv == Init => ExitInv
<1>. SUFFICES ASSUME Init PROVE ExitInv
  OBVIOUS
<1>1. NoRow \in Row
  BY DEF NoRow, Row, Levels, Actions
<1>2. Idle \in Loc
  BY <1>1 DEF Idle, Loc, Actions
<1>3. TypeOK
  <2>1. bars \in Seq(Bar) /\ row \in Row /\ loc \in [Callers -> Loc]
    BY <1>1, <1>2, ChartsAreCharts DEF Init
  <2>2. prints \in 0..MaxPrints /\ late \in BOOLEAN /\ run \in {"before", "reached", "back"}
    <3>1. prints \in 0..MaxPrints
      BY BoundsAreNumbers DEF Init
    <3>. QED BY <3>1 DEF Init
  <2>3. row.status = "none"
    BY DEF Init, NoRow
  <2>. QED BY <2>1, <2>2, <2>3 DEF TypeOK
<1>4. \A c \in Callers : CallerInv(c)
  BY DEF Init, Idle, CallerInv, ManageInv, PartialInv, PartialTxInv, CloseInv
<1>. QED BY <1>3, <1>4 DEF ExitInv, RowInv, Init

\* Bars are only added, or widened.
Grown(bs, cs) ==
    /\ Len(bs) <= Len(cs)
    /\ \A i \in 1..Len(bs) : cs[i].low <= bs[i].low /\ bs[i].high <= cs[i].high

LEMMA ReachedGrows ==
    ASSUME NEW r \in Row, NEW bs \in Seq(Bar), NEW cs \in Seq(Bar), Grown(bs, cs),
           NEW k \in 1..3, Reached(r, bs, k)
    PROVE  Reached(r, cs, k)
<1>1. PICK i \in 1..Len(bs) : /\ i >= r.from \/ r.from > r.entered
                              /\ HitTarget(bs[i], Target(r.side, k), r.side)
  BY DEF Reached
<1>2. i \in 1..Len(cs) /\ cs[i].low <= bs[i].low /\ bs[i].high <= cs[i].high
  BY DEF Grown
<1>3. bs[i] \in Bar /\ cs[i] \in Bar /\ r.side \in {"long", "short"}
  BY <1>2 DEF Row
<1>4. Target(r.side, k) \in Levels
  BY <1>3, LevelsType
<1>5. HitTarget(cs[i], Target(r.side, k), r.side)
  BY <1>1, <1>2, <1>3, <1>4 DEF HitTarget, Bar, Levels
<1>. QED BY <1>1, <1>2, <1>5 DEF Reached

\* Reached looks at what a row keeps.
LEMMA ReachedIsOfTrade ==
    ASSUME NEW r, NEW q, r.side = q.side, r.from = q.from, r.entered = q.entered, NEW bs, NEW k
    PROVE  Reached(r, bs, k) = Reached(q, bs, k)
BY DEF Reached

LEMMA MarketGrows ==
    ASSUME TypeOK, NEW p \in Levels, Quote(p) \/ NextBar(p)
    PROVE  /\ bars' \in Seq(Bar) /\ Grown(bars, bars') /\ Len(bars') >= Len(bars)
           /\ prints' \in 0..MaxPrints /\ run' \in {"before", "reached", "back"}
           /\ row' = row /\ loc' = loc /\ late' = late
<1>1. prints' \in 0..MaxPrints /\ row' = row /\ loc' = loc /\ late' = late
  BY BoundsAreNumbers DEF TypeOK, Quote, NextBar
<1>2. run' \in {"before", "reached", "back"}
  <2>1. Reach(p)
    BY DEF Quote, NextBar
  <2>. QED BY <2>1 DEF Reach, TypeOK
<1>3. CASE Quote(p)
  <2>. DEFINE n == Len(bars)
              b == bars[n]
              d == [b EXCEPT !.low  = IF p < b.low THEN p ELSE b.low,
                             !.high = IF p > b.high THEN p ELSE b.high]
  <2>1. bars \in Seq(Bar) /\ n \in Nat /\ n # 0 /\ n \in 1..n
    BY <1>3 DEF TypeOK, Quote, Opened
  <2>2. b \in Bar
    BY <2>1
  <2>3. d \in Bar /\ d.low <= b.low /\ b.high <= d.high
    <3>. DEFINE lo == IF p < b.low THEN p ELSE b.low
                hi == IF p > b.high THEN p ELSE b.high
    <3>1. /\ lo \in Levels /\ hi \in Levels /\ lo <= b.low /\ b.high <= hi
      <4>. HIDE DEF b
      <4>. QED BY <2>2 DEF Bar, Levels
    <3>. HIDE DEF lo, hi, b
    <3>2. [b EXCEPT !.low = lo, !.high = hi] \in Bar
      BY <2>2, <3>1 DEF Bar
    <3>3. [b EXCEPT !.low = lo, !.high = hi].low = lo
      BY <2>2 DEF Bar
    <3>4. [b EXCEPT !.low = lo, !.high = hi].high = hi
      BY <2>2 DEF Bar
    <3>. QED BY <3>1, <3>2, <3>3, <3>4 DEF lo, hi
  <2>4. bars' = [bars EXCEPT ![n] = d]
    BY <1>3 DEF Quote
  <2>. HIDE DEF d
  <2>5. bars' \in Seq(Bar) /\ Len(bars') = n
    BY <2>1, <2>3, <2>4
  <2>6. \A i \in 1..n : bars'[i].low <= bars[i].low /\ bars[i].high <= bars'[i].high
    <3>. TAKE i \in 1..n
    <3>1. bars[i] \in Bar
      BY <2>1
    <3>2. CASE i = n
      BY <2>1, <2>3, <2>4, <3>2
    <3>3. CASE i # n
      <4>1. bars'[i] = bars[i]
        BY <2>1, <2>4, <3>3
      <4>. QED BY <3>1, <4>1 DEF Bar, Levels
    <3>. QED BY <3>2, <3>3
  <2>. QED BY <1>1, <1>2, <2>1, <2>5, <2>6 DEF Grown
<1>4. CASE NextBar(p)
  <2>. DEFINE d == [low |-> p, high |-> p, late |-> late, today |-> TRUE]
  <2>1. bars \in Seq(Bar) /\ d \in Bar /\ bars' = Append(bars, d)
    BY <1>4 DEF TypeOK, NextBar, Bar
  <2>. HIDE DEF d
  <2>2. /\ bars' \in Seq(Bar) /\ Len(bars') = Len(bars) + 1 /\ Len(bars) \in Nat
        /\ \A i \in 1..Len(bars) : bars'[i] = bars[i]
    BY <2>1
  <2>3. \A i \in 1..Len(bars) : bars'[i].low <= bars[i].low /\ bars[i].high <= bars'[i].high
    <3>. TAKE i \in 1..Len(bars)
    <3>1. bars[i] \in Bar
      BY <2>1
    <3>. QED BY <2>2, <3>1 DEF Bar, Levels
  <2>. QED BY <1>1, <1>2, <2>2, <2>3 DEF Grown
<1>. QED BY <1>3, <1>4

\* What a step does to the trade as long as there is one.
Keeps ==
    /\ row.status # "none" =>
          /\ row'.status # "none" /\ row'.side = row.side /\ row'.entered = row.entered
          /\ row'.from = row.from /\ row'.orig = row.orig
    /\ Grown(bars, bars')

\* The others' readings stay good.
LEMMA CallerKeeps ==
    ASSUME TypeOK, TypeOK', Keeps, NEW c, CallerInv(c), loc'[c] = loc[c]
    PROVE  CallerInv(c)'
<1>1. /\ row \in Row /\ row' \in Row /\ bars \in Seq(Bar) /\ bars' \in Seq(Bar)
  BY DEF TypeOK
<1>2. ASSUME row.status # "none", NEW k \in 1..3, Reached(row, bars, k)
      PROVE  Reached(row', bars', k)
  <2>1. Reached(row, bars', k)
    BY <1>1, <1>2, ReachedGrows DEF Keeps
  <2>2. row'.side = row.side /\ row'.entered = row.entered /\ row'.from = row.from
    BY <1>2 DEF Keeps
  <2>. QED BY <2>1, <2>2, ReachedIsOfTrade
<1>3. ManageInv(c)'
  BY DEF CallerInv, ManageInv, Keeps, SameTrade
<1>4. PartialInv(c)'
  <2>1. TargetOf(loc[c].act) \in 1..3
    BY DEF TargetOf
  <2>. QED BY <1>2, <2>1 DEF CallerInv, PartialInv, Keeps
<1>5. PartialTxInv(c)'
  <2>. SUFFICES ASSUME loc[c].at = "partialTx" PROVE PartialTxInv(c)'
    BY DEF PartialTxInv
  <2>. DEFINE r == loc[c].row
  <2>1. /\ SameTrade(r) /\ StopFollows(r) /\ row.status # "none"
        /\ \A k \in {1, 2} : Booked(r, k) => Reached(row, bars, k)
        /\ Bookable(r, loc[c].act) /\ Sell(r, loc[c].act) < r.qty /\ r.qty <= r.orig
    BY DEF CallerInv, PartialTxInv, PartialInv
  <2>2. SameTrade(r)'
    BY <2>1 DEF SameTrade, Keeps
  <2>3. \A k \in {1, 2} : Booked(r, k) => Reached(row', bars', k)
    BY <1>2, <2>1
  <2>. QED BY <2>1, <2>2, <2>3 DEF PartialTxInv
<1>6. CloseInv(c)'
  BY DEF CallerInv, CloseInv, Keeps
<1>. QED BY <1>3, <1>4, <1>5, <1>6 DEF CallerInv

LEMMA RowKeeps ==
    ASSUME TypeOK, TypeOK', RowInv, row' = row, Grown(bars, bars')
    PROVE  RowInv'
<1>1. CASE row = NoRow
  BY <1>1 DEF RowInv
<1>2. CASE row # NoRow
  <2>1. row \in Row /\ bars \in Seq(Bar) /\ bars' \in Seq(Bar)
    BY DEF TypeOK
  <2>2. \A k \in {1, 2} : Booked(row, k) => Reached(row, bars', k)
    <3>. TAKE k \in {1, 2}
    <3>1. k \in 1..3
      OBVIOUS
    <3>. QED BY <1>2, <2>1, <3>1, ReachedGrows DEF RowInv
  <2>3. row.entered \in 1..Len(bars') /\ row.from \in 1..(row.entered + 1)
    BY <1>2, <2>1 DEF RowInv, Grown
  <2>. QED BY <1>2, <2>2, <2>3 DEF RowInv
<1>. QED BY <1>1, <1>2

-----------------------------------------------------------------------------
(* One lemma per kind of step.                                             *)

LEMMA NothingGrows ==
    ASSUME TypeOK
    PROVE  Grown(bars, bars)
<1>1. \A i \in 1..Len(bars) : bars[i].low \in Int /\ bars[i].high \in Int
  <2>. TAKE i \in 1..Len(bars)
  <2>1. bars[i] \in Bar
    BY DEF TypeOK
  <2>. QED BY <2>1 DEF Bar, Levels
<1>2. Len(bars) \in Nat
  BY DEF TypeOK
<1>. QED BY <1>1, <1>2 DEF Grown

\* A step of c that leaves the row and the bars alone: what is left to show
\* is that c's new reading is good.
LEMMA CallerOnly ==
    ASSUME ExitInv, NEW c \in Callers, UNCHANGED <<bars, prints, late, row, run>>,
           NEW l \in Loc, loc' = [loc EXCEPT ![c] = l],
           TypeOK' => CallerInv(c)'
    PROVE  ExitInv'
<1>1. TypeOK'
  <2>1. loc' \in [Callers -> Loc]
    BY DEF ExitInv, TypeOK
  <2>. QED BY <2>1 DEF ExitInv, TypeOK
<1>2. Grown(bars, bars') /\ Keeps
  BY NothingGrows DEF ExitInv, Keeps
<1>3. RowInv'
  BY <1>1, <1>2, RowKeeps DEF ExitInv
<1>4. ASSUME NEW d \in Callers PROVE CallerInv(d)'
  <2>1. CASE d = c
    BY <1>1, <2>1
  <2>2. CASE d # c
    <3>1. loc'[d] = loc[d]
      BY <2>2 DEF ExitInv, TypeOK
    <3>. QED BY <1>1, <1>2, <3>1, CallerKeeps DEF ExitInv
  <2>. QED BY <2>1, <2>2
<1>. QED BY <1>1, <1>3, <1>4 DEF ExitInv

\* A place where nothing is remembered needs nothing.
LEMMA FreePlace ==
    ASSUME NEW c, loc[c].at \notin {"manage", "partial", "partialTx", "closeTx"}
    PROVE  CallerInv(c)
BY DEF CallerInv, ManageInv, PartialInv, PartialTxInv, CloseInv

LEMMA IdleType == Idle \in Loc
<1>1. NoRow \in Row
  BY DEF NoRow, Row, Levels, Actions
<1>. QED BY <1>1 DEF Idle, Loc, Actions

\* A step of c to a place where nothing is remembered.
LEMMA Leaves ==
    ASSUME ExitInv, NEW c \in Callers, UNCHANGED <<bars, prints, late, row, run>>,
           NEW l \in Loc, loc' = [loc EXCEPT ![c] = l],
           l.at \notin {"manage", "partial", "partialTx", "closeTx"}
    PROVE  ExitInv'
<1>1. loc'[c] = l
  BY DEF ExitInv, TypeOK
<1>2. CallerInv(c)'
  <2>1. (loc[c].at \notin {"manage", "partial", "partialTx", "closeTx"})'
    BY <1>1
  <2>. QED BY <2>1 DEF CallerInv, ManageInv, PartialInv, PartialTxInv, CloseInv
<1>. QED BY <1>2, CallerOnly

LEMMA TickBeginStep ==
    ASSUME ExitInv, NEW c \in Callers, TickBegin(c) PROVE ExitInv'
<1>1. row \in Row /\ Idle \in Loc
  BY IdleType DEF ExitInv, TypeOK
<1>2. CASE late
  <2>. DEFINE l == [Idle EXCEPT !.at = "flatten"]
  <2>1. l \in Loc /\ l.at = "flatten"
    BY <1>1 DEF Idle, Loc
  <2>2. loc' = [loc EXCEPT ![c] = l] /\ UNCHANGED <<bars, prints, late, row, run>>
    BY <1>2 DEF TickBegin
  <2>. HIDE DEF l
  <2>. QED BY <2>1, <2>2, Leaves
<1>3. CASE ~late /\ row.status # "open"
  <2>. DEFINE l == [Idle EXCEPT !.at = "enter"]
  <2>1. l \in Loc /\ l.at = "enter"
    BY <1>1 DEF Idle, Loc
  <2>2. loc' = [loc EXCEPT ![c] = l] /\ UNCHANGED <<bars, prints, late, row, run>>
    BY <1>3 DEF TickBegin
  <2>. HIDE DEF l
  <2>. QED BY <2>1, <2>2, Leaves
<1>4. CASE ~late /\ row.status = "open"
  <2>. DEFINE l == [Idle EXCEPT !.at = "manage", !.row = row]
  <2>1. l \in Loc /\ l.at = "manage" /\ l.row = row
    BY <1>1 DEF Idle, Loc
  <2>2. loc' = [loc EXCEPT ![c] = l] /\ UNCHANGED <<bars, prints, late, row, run>>
    BY <1>4 DEF TickBegin
  <2>. HIDE DEF l
  <2>3. loc'[c] = l
    BY <2>2 DEF ExitInv, TypeOK
  <2>4. CallerInv(c)'
    BY <1>4, <2>1, <2>2, <2>3 DEF CallerInv, ManageInv, PartialInv, PartialTxInv, CloseInv, SameTrade
  <2>. QED BY <2>1, <2>2, <2>4, CallerOnly
<1>. QED BY <1>2, <1>3, <1>4

LEMMA ManageStep ==
    ASSUME ExitInv, NEW c \in Callers, Manage(c) PROVE ExitInv'
<1>1. PICK chart \in {bars, <<>>} :
        loc' = [loc EXCEPT ![c] =
                  [Idle EXCEPT !.act = Evaluate(loc[c].row, chart),
                               !.at  = CASE Evaluate(loc[c].row, chart) = "HOLD" -> "idle"
                                         [] Evaluate(loc[c].row, chart)
                                              \in {"PARTIAL_T1", "PARTIAL_T2"} -> "partial"
                                         [] OTHER -> "close"]]
  BY DEF Manage
<1>. DEFINE r   == loc[c].row
            act == Evaluate(r, chart)
            l   == [Idle EXCEPT !.act = act,
                                !.at  = CASE act = "HOLD" -> "idle"
                                          [] act \in {"PARTIAL_T1", "PARTIAL_T2"} -> "partial"
                                          [] OTHER -> "close"]
<1>2. /\ r \in Row /\ row \in Row /\ bars \in Seq(Bar) /\ chart \in Seq(Bar)
      /\ row.status # "none" /\ SameTrade(r) /\ RowInv
  <2>1. row.status # "none" /\ SameTrade(r) /\ RowInv
    BY DEF ExitInv, CallerInv, ManageInv, Manage
  <2>2. r \in Row /\ row \in Row /\ bars \in Seq(Bar)
    BY DEF ExitInv, TypeOK, Loc
  <2>3. chart \in Seq(Bar)
    <3>1. <<>> \in Seq(Bar)
      OBVIOUS
    <3>. QED BY <2>2, <3>1
  <2>. QED BY <2>1, <2>2, <2>3
<1>3. r.from # 0 /\ r.entered <= Len(bars)
  <2>1. row # NoRow
    BY <1>2 DEF NoRow
  <2>2. row.from \in 1..(row.entered + 1) /\ row.entered \in 1..Len(bars)
    BY <1>2, <2>1 DEF RowInv
  <2>. QED BY <1>2, <2>2 DEF SameTrade
<1>4. act \in Actions
  <2>1. CASE chart = <<>>
    BY <2>1 DEF Evaluate, Actions
  <2>2. CASE chart # <<>>
    <3>. DEFINE fwd == Forward(r, chart)
    <3>1. fwd \in Seq(Bar)
      BY <1>2, <1>3, ForwardIs
    <3>2. PICK g : WalkChain(g, r, fwd) /\ Walk(r, chart) = g[Len(fwd)].act
      <4>. HIDE DEF fwd, r
      <4>. QED BY <1>2, <3>1, WalkIsChain DEF fwd
    <3>. HIDE DEF fwd
    <3>3. g[Len(fwd)] \in Walks
      BY <3>1, <3>2 DEF WalkChain
    <3>. QED BY <2>2, <3>2, <3>3 DEF Evaluate, Walks
  <2>. QED BY <2>1, <2>2
<1>5. loc' = [loc EXCEPT ![c] = l] /\ UNCHANGED <<bars, prints, late, row, run>>
  BY <1>1 DEF Manage
<1>6. /\ l \in Loc /\ l.act = act /\ l.at \in {"idle", "partial", "close"}
      /\ l.at = "partial" => act \in {"PARTIAL_T1", "PARTIAL_T2"}
  <2>. HIDE DEF act
  <2>. QED BY <1>4, IdleType DEF Idle, Loc
<1>. HIDE DEF l
<1>7. CASE l.at # "partial"
  BY <1>5, <1>6, <1>7, Leaves
<1>8. CASE l.at = "partial"
  <2>1. chart = bars /\ act = Walk(r, bars) /\ act \in {"PARTIAL_T1", "PARTIAL_T2"}
    <3>1. Evaluate(r, <<>>) = "HOLD"
      BY DEF Evaluate
    <3>2. chart = bars /\ bars # <<>>
      BY <1>6, <1>8, <3>1
    <3>. QED BY <1>6, <1>8, <3>2 DEF Evaluate
  <2>2. Reached(r, bars, TargetOf(act))
    <3>. HIDE DEF r, act
    <3>. QED BY <1>2, <1>3, <2>1, WalkReaches
  <2>3. Reached(row, bars, TargetOf(act))
    <3>. HIDE DEF r, act
    <3>. QED BY <1>2, <2>2, ReachedIsOfTrade DEF SameTrade
  <2>4. loc'[c] = l
    BY <1>5 DEF ExitInv, TypeOK
  <2>. HIDE DEF act
  <2>5. CallerInv(c)'
    BY <1>2, <1>5, <1>6, <1>8, <2>1, <2>3, <2>4
    DEF CallerInv, ManageInv, PartialInv, PartialTxInv, CloseInv
  <2>. QED BY <1>5, <1>6, <2>5, CallerOnly
<1>. QED BY <1>7, <1>8

\* Steps that only go somewhere where nothing is remembered.
LEMMA PlainStep ==
    ASSUME ExitInv, NEW c \in Callers,
           Flatten(c) \/ ManualClose(c) \/ NoEntry(c) \/ Fail(c)
    PROVE  ExitInv'
<1>1. loc[c] \in Loc /\ loc \in [Callers -> Loc]
  BY DEF ExitInv, TypeOK
<1>2. CASE Flatten(c)
  <2>. DEFINE l == [loc[c] EXCEPT !.at = "close", !.act = "EXIT_TIME"]
  <2>1. l \in Loc /\ l.at = "close"
    BY <1>1 DEF Loc, Actions
  <2>2. loc' = [loc EXCEPT ![c] = l] /\ UNCHANGED <<bars, prints, late, row, run>>
    BY <1>1, <1>2 DEF Flatten
  <2>. HIDE DEF l
  <2>. QED BY <2>1, <2>2, Leaves
<1>3. CASE ManualClose(c)
  <2>. DEFINE l == [loc[c] EXCEPT !.at = "close", !.act = "manual"]
  <2>1. l \in Loc /\ l.at = "close"
    BY <1>1 DEF Loc, Actions
  <2>2. loc' = [loc EXCEPT ![c] = l] /\ UNCHANGED <<bars, prints, late, row, run>>
    BY <1>1, <1>3 DEF ManualClose
  <2>. HIDE DEF l
  <2>. QED BY <2>1, <2>2, Leaves
<1>4. CASE NoEntry(c) \/ Fail(c)
  <2>1. loc' = [loc EXCEPT ![c] = Idle] /\ UNCHANGED <<bars, prints, late, row, run>>
    BY <1>4 DEF NoEntry, Fail, Quit
  <2>2. Idle.at = "idle"
    BY DEF Idle
  <2>. QED BY <2>1, <2>2, IdleType, Leaves
<1>. QED BY <1>2, <1>3, <1>4

LEMMA CloseFindStep ==
    ASSUME ExitInv, NEW c \in Callers, CloseFind(c) PROVE ExitInv'
<1>1. loc[c] \in Loc /\ loc \in [Callers -> Loc]
  BY DEF ExitInv, TypeOK
<1>2. CASE row.status # "open"
  <2>1. loc' = [loc EXCEPT ![c] = Idle] /\ UNCHANGED <<bars, prints, late, row, run>>
    BY <1>2 DEF CloseFind, Quit
  <2>2. Idle.at = "idle"
    BY DEF Idle
  <2>. QED BY <2>1, <2>2, IdleType, Leaves
<1>3. CASE row.status = "open"
  <2>. DEFINE l == [loc[c] EXCEPT !.at = "closeTx"]
  <2>1. l \in Loc /\ l.at = "closeTx"
    BY <1>1 DEF Loc
  <2>2. loc' = [loc EXCEPT ![c] = l] /\ UNCHANGED <<bars, prints, late, row, run>>
    BY <1>1, <1>3 DEF CloseFind
  <2>. HIDE DEF l
  <2>3. loc'[c] = l
    BY <1>1, <2>2
  <2>4. CallerInv(c)'
    BY <1>3, <2>1, <2>2, <2>3 DEF CallerInv, ManageInv, PartialInv, PartialTxInv, CloseInv
  <2>. QED BY <2>1, <2>2, <2>4, CallerOnly
<1>. QED BY <1>2, <1>3

LEMMA PartialFindStep ==
    ASSUME ExitInv, NEW c \in Callers, PartialFind(c) PROVE ExitInv'
<1>. DEFINE act == loc[c].act
<1>1. /\ loc[c] \in Loc /\ loc \in [Callers -> Loc] /\ row \in Row
      /\ UNCHANGED <<bars, prints, late, row, run>>
  BY DEF ExitInv, TypeOK, PartialFind
<1>2. CASE ~(row.status = "open" /\ Bookable(row, act))
  <2>1. loc' = [loc EXCEPT ![c] = Idle]
    BY <1>2 DEF PartialFind
  <2>2. Idle.at = "idle"
    BY DEF Idle
  <2>. QED BY <1>1, <2>1, <2>2, IdleType, Leaves
<1>3. CASE row.status = "open" /\ Bookable(row, act) /\ Sell(row, act) >= row.qty
  <2>. DEFINE l == [loc[c] EXCEPT !.at = "close", !.act = "EXIT_TARGET"]
  <2>1. l \in Loc /\ l.at = "close"
    BY <1>1 DEF Loc, Actions
  <2>2. loc' = [loc EXCEPT ![c] = l]
    BY <1>1, <1>3 DEF PartialFind
  <2>. HIDE DEF l
  <2>. QED BY <1>1, <2>1, <2>2, Leaves
<1>4. CASE row.status = "open" /\ Bookable(row, act) /\ ~(Sell(row, act) >= row.qty)
  <2>. DEFINE l == [loc[c] EXCEPT !.at = "partialTx", !.row = row]
  <2>1. l \in Loc /\ l.at = "partialTx" /\ l.row = row /\ l.act = act
    BY <1>1 DEF Loc
  <2>2. loc' = [loc EXCEPT ![c] = l]
    BY <1>1, <1>4 DEF PartialFind
  <2>. HIDE DEF l
  <2>3. loc'[c] = l
    BY <1>1, <2>2
  <2>4. /\ act \in {"PARTIAL_T1", "PARTIAL_T2"}
        /\ Reached(row, bars, TargetOf(act))
    BY DEF ExitInv, CallerInv, PartialInv, PartialFind
  <2>5. StopFollows(row) /\ \A k \in {1, 2} : Booked(row, k) => Reached(row, bars, k)
    <3>1. row # NoRow
      BY <1>4 DEF NoRow
    <3>. QED BY <3>1 DEF ExitInv, RowInv
  <2>6. row.qty \in 1..row.orig /\ row.orig \in Nat
    BY <1>1, <1>4 DEF ExitInv, TypeOK, Row
  <2>7. Sell(row, act) \in Int
    <3>1. (row.orig * (IF act = "PARTIAL_T1" THEN 70 ELSE 20)) \div 100 \in Int
      BY <2>6
    <3>. QED BY <2>6, <3>1 DEF Sell
  <2>8. Sell(row, act) < row.qty /\ row.qty <= row.orig
    BY <1>4, <2>6, <2>7
  <2>9. (loc[c].at = "partialTx" /\ loc[c].row = row /\ loc[c].act = act)'
    BY <1>1, <2>1, <2>3
  <2>. HIDE DEF act
  <2>10. PartialTxInv(c)'
    BY <1>1, <1>4, <2>1, <2>3, <2>5, <2>8 DEF PartialTxInv, SameTrade
  <2>11. PartialInv(c)'
    BY <1>1, <1>4, <2>1, <2>3, <2>4 DEF PartialInv
  <2>12. ManageInv(c)' /\ CloseInv(c)'
    BY <2>1, <2>3 DEF ManageInv, CloseInv
  <2>. QED BY <1>1, <2>1, <2>2, <2>10, <2>11, <2>12, CallerOnly DEF CallerInv
<1>. QED BY <1>2, <1>3, <1>4

\* A step of c that writes the row and is done.
LEMMA Writes ==
    ASSUME ExitInv, NEW c \in Callers, UNCHANGED <<bars, prints, late, run>>,
           loc' = [loc EXCEPT ![c] = Idle],
           row' \in Row, row'.status = "open" => row'.qty \in 1..row'.orig,
           RowInv',
           row.status # "none" =>
              /\ row'.status # "none" /\ row'.side = row.side /\ row'.entered = row.entered
              /\ row'.from = row.from /\ row'.orig = row.orig
    PROVE  ExitInv'
<1>1. TypeOK'
  <2>1. loc' \in [Callers -> Loc]
    BY IdleType DEF ExitInv, TypeOK
  <2>. QED BY <2>1 DEF ExitInv, TypeOK
<1>2. Keeps
  BY NothingGrows DEF ExitInv, Keeps
<1>3. ASSUME NEW d \in Callers PROVE CallerInv(d)'
  <2>1. CASE d = c
    <3>1. loc'[d].at = "idle"
      BY <2>1 DEF ExitInv, TypeOK, Idle
    <3>. QED BY <3>1 DEF CallerInv, ManageInv, PartialInv, PartialTxInv, CloseInv
  <2>2. CASE d # c
    <3>1. loc'[d] = loc[d]
      BY <2>2 DEF ExitInv, TypeOK
    <3>. QED BY <1>1, <1>2, <3>1, CallerKeeps DEF ExitInv
  <2>. QED BY <2>1, <2>2
<1>. QED BY <1>1, <1>3 DEF ExitInv

LEMMA CloseWriteStep ==
    ASSUME ExitInv, NEW c \in Callers, CloseWrite(c) PROVE ExitInv'
<1>1. /\ row \in Row /\ loc[c].act \in Actions /\ row.status # "none" /\ row # NoRow
      /\ UNCHANGED <<bars, prints, late, run>> /\ loc' = [loc EXCEPT ![c] = Idle]
  <2>1. row.status # "none"
    BY DEF ExitInv, CallerInv, CloseInv, CloseWrite
  <2>. QED BY <2>1 DEF ExitInv, TypeOK, Loc, CloseWrite, Quit, NoRow
<1>2. row' = [row EXCEPT !.status = "closed", !.qty = 0, !.reason = loc[c].act]
  BY DEF CloseWrite
<1>3. /\ row' \in Row /\ row'.status = "closed" /\ row'.side = row.side
      /\ row'.entered = row.entered /\ row'.from = row.from /\ row'.orig = row.orig
      /\ row'.t1 = row.t1 /\ row'.t2 = row.t2 /\ row'.stop = row.stop
  BY <1>1, <1>2 DEF Row
<1>4. RowInv'
  <2>1. /\ row.entered \in 1..Len(bars) /\ row.from \in 1..(row.entered + 1)
        /\ StopFollows(row)
        /\ \A k \in {1, 2} : Booked(row, k) => Reached(row, bars, k)
    BY <1>1 DEF ExitInv, RowInv
  <2>2. StopFollows(row')
    BY <1>3, <2>1 DEF StopFollows
  <2>3. \A k \in {1, 2} : Booked(row', k) => Reached(row', bars, k)
    <3>. TAKE k \in {1, 2}
    <3>1. Booked(row', k) = Booked(row, k)
      BY <1>3 DEF Booked
    <3>2. Reached(row', bars, k) = Reached(row, bars, k)
      BY <1>3, ReachedIsOfTrade
    <3>. QED BY <2>1, <3>1, <3>2
  <2>. QED BY <1>1, <1>3, <2>1, <2>2, <2>3 DEF RowInv
<1>. QED BY <1>1, <1>3, <1>4, Writes

LEMMA EntryIsTighter ==
    ASSUME NEW side \in {"long", "short"}
    PROVE  /\ Tighter(side, Entry(side), Stop(side))
           /\ Tighter(side, Entry(side), Entry(side)) /\ Tighter(side, Stop(side), Stop(side))
BY DEF Tighter, Entry, Stop, Level

\* What the booking writes, however old its reading: the stop is the entry.
LEMMA PartialWrites ==
    ASSUME ExitInv, NEW c \in Callers, PartialWrite(c)
    PROVE  /\ row \in Row /\ row # NoRow /\ row.status # "none" /\ RowInv
           /\ row' \in Row /\ row'.status = row.status /\ row'.side = row.side
           /\ row'.entered = row.entered /\ row'.from = row.from /\ row'.orig = row.orig
           /\ row'.qty \in 1..row'.orig
           /\ row'.t1 /\ Reached(row, bars, 1)
           /\ row'.t2 => Reached(row, bars, 2)
           /\ row'.stop = Entry(row.side)
<1>. DEFINE r    == loc[c].row
            act  == loc[c].act
            be   == Entry(r.side)
            qty  == r.qty - Sell(r, act)
            t1   == r.t1 \/ act = "PARTIAL_T1"
            t2   == r.t2 \/ act = "PARTIAL_T2"
            stop == IF act = "PARTIAL_T1" /\ Tighter(r.side, be, r.stop) THEN be ELSE r.stop
<1>1. /\ row \in Row /\ r \in Row /\ row.status # "none" /\ row # NoRow /\ RowInv
      /\ r.side = row.side /\ r.orig = row.orig
      /\ StopFollows(r)
      /\ \A k \in {1, 2} : Booked(r, k) => Reached(row, bars, k)
      /\ act \in {"PARTIAL_T1", "PARTIAL_T2"} /\ Reached(row, bars, TargetOf(act))
      /\ Bookable(r, act) /\ Sell(r, act) < r.qty /\ r.qty <= r.orig
  <2>1. loc[c] \in Loc /\ loc[c].at = "partialTx" /\ CallerInv(c)
    BY DEF ExitInv, TypeOK, PartialWrite
  <2>2. row \in Row /\ r \in Row /\ RowInv
    BY <2>1 DEF ExitInv, TypeOK, Loc
  <2>3. row.status # "none" => row # NoRow
    BY DEF NoRow
  <2>. QED BY <2>1, <2>2, <2>3 DEF CallerInv, PartialInv, PartialTxInv, SameTrade
<1>2. row' = [row EXCEPT !.qty = qty, !.t1 = t1, !.t2 = t2, !.stop = stop]
  BY DEF PartialWrite
<1>3. qty \in 1..r.orig
  <2>. DEFINE part == (r.orig * (IF act = "PARTIAL_T1" THEN 70 ELSE 20)) \div 100
  <2>1. r.orig \in Nat /\ r.qty \in Nat
    BY <1>1 DEF Row
  <2>2. part \in Int
    BY <2>1
  <2>3. Sell(r, act) = LET want == IF part < 1 THEN 1 ELSE part
                       IN  IF want > r.qty THEN r.qty ELSE want
    BY DEF Sell
  <2>. HIDE DEF part, r, act
  <2>4. Sell(r, act) \in Nat
    BY <2>1, <2>2, <2>3
  <2>. QED BY <1>1, <2>1, <2>4 DEF qty
<1>4. stop = Entry(row.side) /\ Entry(row.side) \in Levels
  <2>1. row.side \in {"long", "short"}
    BY <1>1 DEF Row
  <2>2. CASE act = "PARTIAL_T1"
    <3>1. ~r.t1 /\ r.stop = Stop(row.side)
      BY <1>1, <2>2 DEF Bookable, StopFollows
    <3>. QED BY <1>1, <2>1, <2>2, <3>1, EntryIsTighter, LevelsType
  <2>3. CASE act = "PARTIAL_T2"
    <3>1. r.t1 /\ r.stop = Entry(row.side)
      BY <1>1, <2>3 DEF Bookable, StopFollows
    <3>. QED BY <2>1, <2>3, <3>1, LevelsType
  <2>. QED BY <1>1, <2>2, <2>3
<1>5. t1 = TRUE /\ t2 \in BOOLEAN
  BY <1>1 DEF Bookable, Row
<1>6. Reached(row, bars, 1) /\ (t2 => Reached(row, bars, 2))
  BY <1>1, <1>5 DEF TargetOf, Booked, Bookable
<1>. HIDE DEF qty, t1, t2, stop
<1>7. row' \in Row
  <2>1. qty \in Nat
    BY <1>1, <1>3 DEF Row
  <2>. QED BY <1>1, <1>2, <1>4, <1>5, <2>1 DEF Row
<1>8. /\ row'.status = row.status /\ row'.side = row.side /\ row'.entered = row.entered
      /\ row'.from = row.from /\ row'.orig = row.orig
      /\ row'.qty = qty /\ row'.t1 = t1 /\ row'.t2 = t2 /\ row'.stop = stop
  BY <1>1, <1>2 DEF Row
<1>. QED BY <1>1, <1>3, <1>4, <1>5, <1>6, <1>7, <1>8

LEMMA PartialWriteStep ==
    ASSUME ExitInv, NEW c \in Callers, PartialWrite(c) PROVE ExitInv'
<1>1. /\ row \in Row /\ row # NoRow /\ row.status # "none" /\ RowInv
      /\ row' \in Row /\ row'.status = row.status /\ row'.side = row.side
      /\ row'.entered = row.entered /\ row'.from = row.from /\ row'.orig = row.orig
      /\ row'.qty \in 1..row'.orig
      /\ row'.t1 /\ Reached(row, bars, 1)
      /\ row'.t2 => Reached(row, bars, 2)
      /\ row'.stop = Entry(row.side)
  BY PartialWrites
<1>2. UNCHANGED <<bars, prints, late, run>> /\ loc' = [loc EXCEPT ![c] = Idle]
  BY DEF PartialWrite, Quit
<1>3. RowInv'
  <2>1. row.entered \in 1..Len(bars) /\ row.from \in 1..(row.entered + 1)
    BY <1>1 DEF RowInv
  <2>2. StopFollows(row')
    BY <1>1 DEF StopFollows
  <2>3. \A k \in {1, 2} : Booked(row', k) => Reached(row', bars, k)
    <3>. TAKE k \in {1, 2}
    <3>1. Reached(row', bars, k) = Reached(row, bars, k)
      BY <1>1, ReachedIsOfTrade
    <3>. QED BY <1>1, <3>1 DEF Booked
  <2>. QED BY <1>1, <1>2, <2>1, <2>2, <2>3 DEF RowInv
<1>. QED BY <1>1, <1>2, <1>3, Writes

LEMMA EnterStep ==
    ASSUME ExitInv, NEW c \in Callers, NEW side \in Sides, NEW qty \in Qtys, Enter(c, side, qty)
    PROVE  ExitInv'
<1>. DEFINE n == Len(bars)
<1>1. PICK from \in {n - 1, n, n + 1} \ {0} :
        row' = [NoRow EXCEPT !.status = "open", !.side = side, !.stop = Stop(side),
                             !.qty = qty, !.orig = qty, !.entered = n, !.from = from]
  BY DEF Enter
<1>2. /\ row.status = "none" /\ bars # <<>> /\ n \in Nat /\ n # 0
      /\ UNCHANGED <<bars, prints, late, run>> /\ loc' = [loc EXCEPT ![c] = Idle]
  BY DEF Enter, Opened, Quit, ExitInv, TypeOK
<1>3. /\ side \in {"long", "short"} /\ Stop(side) \in Levels /\ qty \in Nat /\ qty # 0
      /\ from \in 1..(n + 1) /\ from \in Nat
  BY <1>2, SidesAreSides, BoundsAreNumbers, LevelsType
<1>. HIDE DEF n
<1>4. /\ row' \in Row /\ row'.status = "open" /\ row'.side = side /\ row'.stop = Stop(side)
      /\ row'.qty = qty /\ row'.orig = qty /\ row'.entered = n /\ row'.from = from
      /\ row'.t1 = FALSE /\ row'.t2 = FALSE
  BY <1>1, <1>2, <1>3 DEF NoRow, Row, Actions
<1>5. RowInv'
  <2>1. StopFollows(row') /\ \A k \in {1, 2} : ~Booked(row', k)
    BY <1>4 DEF StopFollows, Booked
  <2>2. row'.entered \in 1..Len(bars) /\ row'.from \in 1..(row'.entered + 1)
    BY <1>2, <1>3, <1>4 DEF n
  <2>. QED BY <1>2, <1>4, <2>1, <2>2 DEF RowInv
<1>6. row'.qty \in 1..row'.orig
  BY <1>3, <1>4
<1>. QED BY <1>2, <1>4, <1>5, <1>6, Writes

LEMMA MarketStep ==
    ASSUME ExitInv, Market PROVE ExitInv'
<1>1. /\ bars' \in Seq(Bar) /\ Grown(bars, bars') /\ row' = row /\ loc' = loc
      /\ prints' \in 0..MaxPrints /\ run' \in {"before", "reached", "back"}
      /\ late' \in BOOLEAN
  <2>1. CASE TimeStop
    BY <2>1, NothingGrows DEF ExitInv, TypeOK, TimeStop
  <2>2. CASE \E p \in Levels : Quote(p) \/ NextBar(p)
    <3>1. PICK p \in Levels : Quote(p) \/ NextBar(p)
      BY <2>2
    <3>. QED BY <3>1, MarketGrows DEF ExitInv, TypeOK
  <2>. QED BY <2>1, <2>2 DEF Market
<1>2. TypeOK'
  BY <1>1 DEF ExitInv, TypeOK
<1>3. Keeps
  BY <1>1 DEF Keeps
<1>4. RowInv'
  BY <1>1, <1>2, RowKeeps DEF ExitInv
<1>5. \A c \in Callers : CallerInv(c)'
  <2>. TAKE c \in Callers
  <2>1. loc'[c] = loc[c] /\ CallerInv(c)
    BY <1>1 DEF ExitInv
  <2>. QED BY <1>2, <1>3, <2>1, CallerKeeps DEF ExitInv
<1>. QED BY <1>2, <1>4, <1>5 DEF ExitInv

LEMMA Invariance == ExitInv /\ [Next]_vars => ExitInv'
<1>. SUFFICES ASSUME ExitInv, [Next]_vars PROVE ExitInv'
  OBVIOUS
<1>1. CASE Market
  BY <1>1, MarketStep
<1>2. ASSUME NEW c \in Callers, Step(c) \/ ManualClose(c) \/ Fail(c) PROVE ExitInv'
  <2>1. CASE TickBegin(c)
    BY <2>1, TickBeginStep
  <2>2. CASE Manage(c)
    BY <2>2, ManageStep
  <2>3. CASE Flatten(c) \/ ManualClose(c) \/ NoEntry(c) \/ Fail(c)
    BY <2>3, PlainStep
  <2>4. CASE CloseFind(c)
    BY <2>4, CloseFindStep
  <2>5. CASE CloseWrite(c)
    BY <2>5, CloseWriteStep
  <2>6. CASE PartialFind(c)
    BY <2>6, PartialFindStep
  <2>7. CASE PartialWrite(c)
    BY <2>7, PartialWriteStep
  <2>8. ASSUME NEW s \in Sides, NEW q \in Qtys, Enter(c, s, q) PROVE ExitInv'
    BY <2>8, EnterStep
  <2>. QED BY <1>2, <2>1, <2>2, <2>3, <2>4, <2>5, <2>6, <2>7, <2>8 DEF Step
<1>3. CASE UNCHANGED vars
  <2>1. /\ bars' = bars /\ prints' = prints /\ late' = late /\ row' = row /\ loc' = loc
        /\ run' = run
    BY <1>3 DEF vars
  <2>2. TypeOK' /\ Keeps
    BY <2>1, NothingGrows DEF ExitInv, TypeOK, Keeps
  <2>3. RowInv'
    BY <2>1, <2>2, RowKeeps DEF ExitInv, Keeps
  <2>4. \A c \in Callers : CallerInv(c)'
    <3>. TAKE c \in Callers
    <3>1. loc'[c] = loc[c] /\ CallerInv(c)
      BY <2>1 DEF ExitInv
    <3>. QED BY <2>2, <3>1, CallerKeeps DEF ExitInv
  <2>. QED BY <2>2, <2>3, <2>4 DEF ExitInv
<1>. QED BY <1>1, <1>2, <1>3 DEF Next

-----------------------------------------------------------------------------
(* The theorems.                                                           *)

\* The invariant behind them: what has been booked and what is about to be
\* booked was reached, and every reading in flight is of the same trade.
THEOREM ExitInvariant == Spec => []ExitInv
<1>. QED BY InitInv, Invariance, PTL DEF Spec

\* The row, the chart and the callers keep their types, and an open position has
\* between one share and the shares it was opened with: no overlap of two
\* bookPaperPartial calls sells more than there is.
THEOREM ExitTyped == Spec => []TypeOK
<1>1. ExitInv => TypeOK
  BY DEF ExitInv
<1>. QED BY <1>1, ExitInvariant, PTL

\* However many ticks and requests overlap, a target is on the row only if a bar
\* that counts for it (forwardBarsSinceEntry) touched it: one from 15 minutes before
\* the entry on, or any of the five days' if the chart had none then.
THEOREM TargetsWereReached == Spec => []BookedWasReached
<1>1. ASSUME ExitInv PROVE BookedWasReached
  <2>. SUFFICES ASSUME NEW k \in {1, 2}, IF k = 1 THEN row.t1 ELSE row.t2
                PROVE  \E i \in Counted(row) :
                          Tighter(row.side,
                                  IF row.side = "long" THEN bars[i].high ELSE bars[i].low,
                                  Target(row.side, k))
    BY DEF BookedWasReached
  <2>1. row # NoRow
    BY DEF NoRow
  <2>2. Reached(row, bars, k)
    BY <1>1, <2>1 DEF ExitInv, RowInv, Booked
  <2>3. PICK i \in 1..Len(bars) : /\ i >= row.from \/ row.from > row.entered
                                  /\ HitTarget(bars[i], Target(row.side, k), row.side)
    BY <2>2 DEF Reached
  <2>4. i \in Counted(row)
    <3>1. row.from \in Nat /\ row.entered \in Nat /\ Len(bars) \in Nat
      BY <1>1 DEF ExitInv, TypeOK, Row
    <3>. QED BY <2>3, <3>1 DEF Counted
  <2>. QED BY <2>3, <2>4 DEF HitTarget, Tighter
<1>. QED BY <1>1, ExitInvariant, PTL

\* bookPaperPartial writes the stop of a reading that may be stale; still no
\* order of the calls moves the stop of an open position away from the price.
THEOREM StopsOnlyTighten == Spec => StopOnlyTightens
<1>1. ASSUME ExitInv, [Next]_vars
      PROVE  row.status = "open" => Tighter(row.side, row'.stop, row.stop)
  <2>. SUFFICES ASSUME row.status = "open" PROVE Tighter(row.side, row'.stop, row.stop)
    OBVIOUS
  <2>1. /\ row \in Row /\ row.side \in {"long", "short"}
        /\ row.stop = Stop(row.side) \/ row.stop = Entry(row.side)
    <3>1. row # NoRow
      BY DEF NoRow
    <3>. QED BY <1>1, <3>1 DEF ExitInv, TypeOK, RowInv, StopFollows, Row
  <2>2. Tighter(row.side, row.stop, row.stop)
    BY <2>1, EntryIsTighter
  <2>3. CASE row'.stop = row.stop
    BY <2>2, <2>3
  <2>4. CASE row'.stop # row.stop
    <3>1. PICK c \in Callers : PartialWrite(c)
      <4>1. ASSUME NEW c \in Callers, CloseWrite(c) PROVE row'.stop = row.stop
        BY <2>1, <4>1 DEF CloseWrite, Row
      <4>2. ASSUME NEW c \in Callers, NEW s \in Sides, NEW q \in Qtys, Enter(c, s, q) PROVE FALSE
        BY <4>2 DEF Enter
      <4>3. row' # row
        BY <2>4
      <4>. QED BY <1>1, <2>4, <4>1, <4>2, <4>3
           DEF Next, Step, Market, TimeStop, Quote, NextBar, TickBegin, Manage, Flatten,
               ManualClose, CloseFind, PartialFind, NoEntry, Fail, vars
    <3>2. row'.stop = Entry(row.side)
      BY <1>1, <3>1, PartialWrites
    <3>. QED BY <2>1, <3>2, EntryIsTighter
  <2>. QED BY <2>3, <2>4
<1>. QED BY <1>1, ExitInvariant, PTL DEF Spec, StopOnlyTightens

\* "Aligns paper ticks with scaled-book backtest" (position-tracker.ts): until T1
\* is booked, when the walk starts after the entry bar and meets no bar past the
\* time stop, it decides as simulateScaledTrade does.
THEOREM WalkAgrees == Spec => []WalkAgreesUntilT1
<1>1. ASSUME ExitInv PROVE WalkAgreesUntilT1
  <2>. SUFFICES ASSUME row.status = "open", ~row.t1, row.from = row.entered + 1,
                       row.from <= Len(bars),
                       \A i \in row.from..Len(bars) : ~bars[i].late
                PROVE  LET act == Walk(row, bars)
                           s   == Sim(row.side, row.entered, bars)
                       IN  /\ act = "HOLD"       <=> s.exit = "none" /\ ~s.t1
                           /\ act = "EXIT_NOW"   <=> s.exit = "X1"
                           /\ act = "PARTIAL_T1" <=> s.t1
    BY DEF WalkAgreesUntilT1
  <2>1. row \in Row /\ bars \in Seq(Bar) /\ ~row.t2 /\ row.stop = Stop(row.side)
    <3>1. row # NoRow
      BY DEF NoRow
    <3>. QED BY <1>1, <3>1 DEF ExitInv, TypeOK, RowInv, StopFollows
  <2>. QED BY <2>1, WalkAgreesWithSim
<1>. QED BY <1>1, ExitInvariant, PTL
=============================================================================
