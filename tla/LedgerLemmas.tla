---------------------------- MODULE LedgerLemmas ----------------------------
(***************************************************************************)
(* What the proofs about the exposure ledger share: facts about one window *)
(* and the operations on it, and what SumOver computes.                    *)
(*                                                                         *)
(* Of SumOver, the argument is by minimal counterexample: the least        *)
(* cardinality, or the smallest set, at which a statement fails.           *)
(***************************************************************************)
EXTENDS Attestation, Totals, FiniteSetTheorems, TLAPS

-----------------------------------------------------------------------------
(* Facts about one window.                                                  *)

\* Two windows with the same fields are the same window.
LEMMA SameWindow ==
  ASSUME NEW u \in Window, NEW v \in Window,
         u.at_risk = v.at_risk, u.window_used = v.window_used,
         u.window_start = v.window_start, u.open_draws = v.open_draws
  PROVE  u = v
BY DEF Window

\* What a reader sees is what the next write starts from: the read-side roll
\* of `snapshot` and the write-side roll of `entry` agree.
THEOREM ReadSideAgrees ==
  ASSUME NEW w \in Window \cup {NoWindow}, NEW t \in Nat
  PROVE  /\ Snapshot(w, t) = Entry(w, t)
         /\ Entry(w, t) \in Window
         /\ ~ Elapsed(Entry(w, t), t)
<1>1. CASE w = NoWindow
  BY <1>1, WindowAssumption
     DEF Snapshot, Entry, NewWindow, Window, Minor, Elapsed
<1>2. CASE w \in Window /\ Elapsed(w, t)
  <2>1. w # NoWindow
    BY <1>2, WindowAssumption
  <2>2. Entry(w, t) = [w EXCEPT !.window_used = 0, !.window_start = t]
    BY <1>2, <2>1 DEF Entry, Refresh
  <2> DEFINE zero == 0
  <2>3. zero \in Minor
    BY WindowAssumption DEF Minor
  <2>4. Entry(w, t) = [w EXCEPT !.window_used = zero, !.window_start = t]
    BY <2>2
  <2>5. Snapshot(w, t) = [at_risk |-> w.at_risk, window_used |-> zero,
                          window_start |-> t, open_draws |-> w.open_draws]
    BY <1>2, <2>1 DEF Snapshot
  <2> HIDE DEF zero
  <2>6. Entry(w, t) \in Window /\ Snapshot(w, t) \in Window
    <3>1. [w EXCEPT !.window_used = zero, !.window_start = t] \in Window
      BY <1>2, <2>3 DEF Window
    <3>2. [at_risk |-> w.at_risk, window_used |-> zero,
           window_start |-> t, open_draws |-> w.open_draws] \in Window
      BY <1>2, <2>3 DEF Window
    <3> QED
      BY <2>4, <2>5, <3>1, <3>2
  <2>7. /\ Entry(w, t).window_start = t
        /\ Snapshot(w, t) = Entry(w, t)
    BY <1>2, <2>4, <2>5, <2>6, SameWindow DEF Window
  <2>8. ~ Elapsed(Entry(w, t), t)
    BY <2>7, WindowAssumption DEF Elapsed
  <2> QED
    BY <2>6, <2>7, <2>8
<1>3. CASE w \in Window /\ ~ Elapsed(w, t)
  <2>1. w # NoWindow
    BY <1>3, WindowAssumption
  <2> QED
    BY <1>3, <2>1, WindowAssumption
       DEF Snapshot, Entry, Refresh, Window, Minor, Elapsed
<1> QED
  BY <1>1, <1>2, <1>3

\* A window that has not elapsed is seen as it is stored.
LEMMA SeenAsStored ==
  ASSUME NEW w \in Window, NEW t \in Nat, ~ Elapsed(w, t)
  PROVE  Snapshot(w, t) = w
BY WindowAssumption DEF Snapshot, Window, Elapsed

\* What a reader sees after each of the three operations, in terms of what it
\* saw before.
LEMMA AfterCommit ==
  ASSUME NEW w \in Window \cup {NoWindow}, NEW t \in Nat, NEW m \in Minor
  PROVE  LET new == RecordCommit(w, t, m)
             e == Snapshot(w, t)
         IN  /\ new \in Window
             /\ ~ Elapsed(new, t)
             /\ Snapshot(new, t) = new
             /\ new.at_risk = SatAdd(e.at_risk, m, MaxMinor)
             /\ new.window_used = e.window_used
             /\ new.open_draws = SatAdd(e.open_draws, 1, MaxCount)
<1> DEFINE new == RecordCommit(w, t, m)
           e == Entry(w, t)
<1>1. e \in Window /\ ~ Elapsed(e, t) /\ Snapshot(w, t) = e
  BY ReadSideAgrees
<1> HIDE DEF e
<1>2. new = [e EXCEPT !.at_risk = SatAdd(@, m, MaxMinor),
                      !.open_draws = SatAdd(@, 1, MaxCount)]
  BY DEF RecordCommit, e
<1> HIDE DEF new
<1>3. /\ new \in Window
      /\ new.window_start = e.window_start
      /\ new.at_risk = SatAdd(e.at_risk, m, MaxMinor)
      /\ new.window_used = e.window_used
      /\ new.open_draws = SatAdd(e.open_draws, 1, MaxCount)
  <2>1. /\ SatAdd(e.at_risk, m, MaxMinor) \in Minor
        /\ SatAdd(e.open_draws, 1, MaxCount) \in 0..MaxCount
    BY <1>1, WindowAssumption DEF Window, Minor, SatAdd, SatSub
  <2> QED
    BY <1>1, <1>2, <2>1 DEF Window
<1>4. ~ Elapsed(new, t)
  BY <1>1, <1>3 DEF Elapsed
<1>5. Snapshot(new, t) = new
  BY <1>3, <1>4, SeenAsStored
<1> QED
  BY <1>1, <1>3, <1>4, <1>5 DEF new

LEMMA AfterSettle ==
  ASSUME NEW w \in Window \cup {NoWindow}, NEW t \in Nat, NEW m \in Minor
  PROVE  LET new == RecordSettled(w, t, m)
             e == Snapshot(w, t)
         IN  /\ new \in Window
             /\ ~ Elapsed(new, t)
             /\ Snapshot(new, t) = new
             /\ new.at_risk = SatSub(e.at_risk, m)
             /\ new.window_used = SatAdd(e.window_used, m, MaxMinor)
             /\ new.open_draws = SatSub(e.open_draws, 1)
<1> DEFINE new == RecordSettled(w, t, m)
           e == Entry(w, t)
<1>1. e \in Window /\ ~ Elapsed(e, t) /\ Snapshot(w, t) = e
  BY ReadSideAgrees
<1> HIDE DEF e
<1>2. new = [e EXCEPT !.at_risk = SatSub(@, m),
                      !.window_used = SatAdd(@, m, MaxMinor),
                      !.open_draws = SatSub(@, 1)]
  BY DEF RecordSettled, e
<1> HIDE DEF new
<1>3. /\ new \in Window
      /\ new.window_start = e.window_start
      /\ new.at_risk = SatSub(e.at_risk, m)
      /\ new.window_used = SatAdd(e.window_used, m, MaxMinor)
      /\ new.open_draws = SatSub(e.open_draws, 1)
  <2>1. /\ SatSub(e.at_risk, m) \in Minor
        /\ SatAdd(e.window_used, m, MaxMinor) \in Minor
        /\ SatSub(e.open_draws, 1) \in 0..MaxCount
    BY <1>1, WindowAssumption DEF Window, Minor, SatAdd, SatSub
  <2> QED
    BY <1>1, <1>2, <2>1 DEF Window
<1>4. ~ Elapsed(new, t)
  BY <1>1, <1>3 DEF Elapsed
<1>5. Snapshot(new, t) = new
  BY <1>3, <1>4, SeenAsStored
<1> QED
  BY <1>1, <1>3, <1>4, <1>5 DEF new

LEMMA AfterRelease ==
  ASSUME NEW w \in Window \cup {NoWindow}, NEW t \in Nat, NEW m \in Minor
  PROVE  LET new == RecordReleased(w, t, m)
             e == Snapshot(w, t)
         IN  /\ new \in Window
             /\ ~ Elapsed(new, t)
             /\ Snapshot(new, t) = new
             /\ new.at_risk = SatSub(e.at_risk, m)
             /\ new.window_used = e.window_used
             /\ new.open_draws = SatSub(e.open_draws, 1)
<1> DEFINE new == RecordReleased(w, t, m)
           e == Entry(w, t)
<1>1. e \in Window /\ ~ Elapsed(e, t) /\ Snapshot(w, t) = e
  BY ReadSideAgrees
<1> HIDE DEF e
<1>2. new = [e EXCEPT !.at_risk = SatSub(@, m),
                      !.open_draws = SatSub(@, 1)]
  BY DEF RecordReleased, e
<1> HIDE DEF new
<1>3. /\ new \in Window
      /\ new.window_start = e.window_start
      /\ new.at_risk = SatSub(e.at_risk, m)
      /\ new.window_used = e.window_used
      /\ new.open_draws = SatSub(e.open_draws, 1)
  <2>1. /\ SatSub(e.at_risk, m) \in Minor
        /\ SatSub(e.open_draws, 1) \in 0..MaxCount
    BY <1>1, WindowAssumption DEF Window, Minor, SatAdd, SatSub
  <2> QED
    BY <1>1, <1>2, <2>1 DEF Window
<1>4. ~ Elapsed(new, t)
  BY <1>1, <1>3 DEF Elapsed
<1>5. Snapshot(new, t) = new
  BY <1>3, <1>4, SeenAsStored
<1> QED
  BY <1>1, <1>3, <1>4, <1>5 DEF new

-----------------------------------------------------------------------------
(* Sums.                                                                   *)

\* The element that the recursion removes from T first.
LOCAL Pick(T) == CHOOSE d \in T : TRUE

\* One unfolding of the recursion, for an approximation g of the sum.
LOCAL Unfold(f, g, T) == IF T = {} THEN 0 ELSE f[Pick(T)] + g[T \ {Pick(T)}]

(***************************************************************************)
(* A non-empty set of natural numbers has a least element.                 *)
(***************************************************************************)
LEMMA LeastNumber ==
  ASSUME NEW B \in SUBSET Nat, B # {}
  PROVE  \E n \in B : \A m \in B : n <= m
<1> DEFINE R == OpToRel(<, Nat)
<1>1. IsWellFoundedOn(R, Nat)
  BY NatLessThanWellFounded
<1>2. PICK n \in B : \A m \in B : ~ (<<m, n>> \in R)
  BY <1>1, WFMin
<1>3. \A m \in B : ~ (m < n)
  BY <1>2 DEF OpToRel
<1> QED
  BY <1>3

(***************************************************************************)
(* A non-empty family of subsets of a finite set has a minimal element.    *)
(***************************************************************************)
LEMMA SmallestSet ==
  ASSUME NEW D, IsFiniteSet(D), NEW B \in SUBSET SUBSET D, B # {}
  PROVE  \E T \in B : \A d \in T : T \ {d} \notin B
<1> DEFINE Sizes == {Cardinality(T) : T \in B}
<1>1. \A T \in B : IsFiniteSet(T) /\ Cardinality(T) \in Nat
  BY FS_Subset, FS_CardinalityType
<1>2. PICK n \in Sizes : \A m \in Sizes : n <= m
  <2>1. Sizes \in SUBSET Nat /\ Sizes # {}
    BY <1>1
  <2> HIDE DEF Sizes
  <2> QED
    BY <2>1, LeastNumber
<1>3. PICK T \in B : Cardinality(T) = n
  BY <1>2
<1>4. ASSUME NEW d \in T, T \ {d} \in B
      PROVE  FALSE
  <2>1. Cardinality(T \ {d}) = Cardinality(T) - 1
    BY <1>1, FS_RemoveElement
  <2>2. n <= Cardinality(T \ {d})
    BY <1>2, <1>4
  <2> QED
    BY <1>1, <1>3, <2>1, <2>2
<1> QED
  BY <1>4

(***************************************************************************)
(* The recursion has a solution, so SumOver satisfies its own equation.    *)
(***************************************************************************)
LEMMA SumOverDef ==
  ASSUME NEW D, IsFiniteSet(D), NEW f \in [D -> Nat]
  PROVE  /\ SumOver(f, D) \in [SUBSET D -> Nat]
         /\ \A T \in SUBSET D : SumOver(f, D)[T] = Unfold(f, SumOver(f, D), T)
<1> DEFINE Good(g, n) == \A T \in SUBSET D :
                            Cardinality(T) <= n => g[T] = Unfold(f, g, T)
           Bad == {n \in Nat : ~ \E g \in [SUBSET D -> Nat] : Good(g, n)}
<1>1. \A T \in SUBSET D : /\ Cardinality(T) \in Nat
                          /\ Cardinality(T) <= Cardinality(D)
                          /\ Cardinality(T) = 0 <=> T = {}
                          /\ \A d \in T : Cardinality(T \ {d}) = Cardinality(T) - 1
  BY FS_Subset, FS_CardinalityType, FS_RemoveElement, FS_EmptySet
<1>2. \A T \in SUBSET D : T # {} => /\ Pick(T) \in T
                                    /\ T \ {Pick(T)} \in SUBSET D
                                    /\ f[Pick(T)] \in Nat
  BY DEF Pick
<1>3. 0 \notin Bad
  <2>1. Good([T \in SUBSET D |-> 0], 0)
    BY <1>1 DEF Unfold
  <2> QED
    BY <2>1
<1>4. ASSUME NEW n \in Nat, NEW g \in [SUBSET D -> Nat], Good(g, n)
      PROVE  \E h \in [SUBSET D -> Nat] : Good(h, n + 1)
  <2> DEFINE h == [T \in SUBSET D |-> Unfold(f, g, T)]
  <2>1. h \in [SUBSET D -> Nat]
    BY <1>2 DEF Unfold
  <2>2. ASSUME NEW T \in SUBSET D, Cardinality(T) <= n + 1
        PROVE  h[T] = Unfold(f, h, T)
    <3>1. CASE T = {}
      BY <3>1 DEF Unfold
    <3>2. CASE T # {}
      <4> DEFINE U == T \ {Pick(T)}
      <4>1. U \in SUBSET D /\ Cardinality(U) <= n
        BY <1>1, <1>2, <2>2, <3>2
      <4>2. h[U] = g[U]
        BY <1>4, <4>1
      <4> QED
        BY <3>2, <4>2 DEF Unfold
    <3> QED
      BY <3>1, <3>2
  <2> QED
    BY <2>1, <2>2
<1>5. Bad = {}
  <2> SUFFICES ASSUME Bad # {}
               PROVE  FALSE
    OBVIOUS
  <2>1. PICK n \in Bad : \A m \in Bad : n <= m
    <3>1. Bad \in SUBSET Nat
      OBVIOUS
    <3> HIDE DEF Bad
    <3> QED
      BY <3>1, LeastNumber
  <2>2. n \in Nat /\ n # 0
    BY <1>3
  <2>3. n - 1 \in Nat /\ n - 1 \notin Bad
    <3>1. n - 1 \in Nat /\ ~ (n <= n - 1)
      BY <2>2
    <3> HIDE DEF Bad
    <3> QED
      BY <2>1, <3>1
  <2>4. PICK g \in [SUBSET D -> Nat] : Good(g, n - 1)
    BY <2>3
  <2>5. \E h \in [SUBSET D -> Nat] : Good(h, (n - 1) + 1)
    <3> HIDE DEF Good
    <3> QED
      BY <1>4, <2>3, <2>4
  <2>6. (n - 1) + 1 = n
    BY <2>2
  <2> QED
    BY <2>1, <2>5, <2>6
<1>6. PICK s \in [SUBSET D -> Nat] : Good(s, Cardinality(D))
  <2>1. Cardinality(D) \in Nat
    BY FS_CardinalityType
  <2> QED
    BY <1>5, <2>1
<1>7. s = [T \in SUBSET D |-> Unfold(f, s, T)]
  BY <1>1, <1>6
<1> DEFINE Solves(g) == g = [T \in SUBSET D |-> Unfold(f, g, T)]
<1>8. SumOver(f, D) = CHOOSE g : Solves(g)
  BY DEF SumOver, Unfold, Pick
<1>9. Solves(SumOver(f, D))
  BY <1>7, <1>8
<1>10. \A g : Solves(g) => g = s
  <2> SUFFICES ASSUME NEW g, Solves(g), NEW T0 \in SUBSET D, g[T0] # s[T0]
               PROVE  FALSE
    BY <1>7
  <2> DEFINE Differ == {T \in SUBSET D : g[T] # s[T]}
  <2>1. PICK T \in Differ : \A d \in T : T \ {d} \notin Differ
    <3>1. Differ \in SUBSET SUBSET D /\ Differ # {}
      OBVIOUS
    <3> HIDE DEF Differ
    <3> QED
      BY <3>1, SmallestSet
  <2>2. T # {}
    BY <1>7, <2>1 DEF Unfold
  <2>3. g[T \ {Pick(T)}] = s[T \ {Pick(T)}]
    BY <1>2, <2>1, <2>2
  <2> QED
    BY ZenonT(40), <1>7, <2>1, <2>2, <2>3 DEF Unfold
<1> QED
  BY <1>7, <1>9, <1>10

(***************************************************************************)
(* The sum of no amounts is zero; the sum of one is that amount.           *)
(***************************************************************************)
LEMMA SumOverEmpty ==
  ASSUME NEW D, IsFiniteSet(D), NEW f \in [D -> Nat]
  PROVE  SumOver(f, D)[{}] = 0
BY SumOverDef DEF Unfold

(***************************************************************************)
(* The sum does not depend on the order in which the elements are taken:   *)
(* removing ANY element takes exactly its amount off the sum.              *)
(***************************************************************************)
LEMMA SumOverRemove ==
  ASSUME NEW D, IsFiniteSet(D), NEW f \in [D -> Nat],
         NEW T \in SUBSET D, NEW e \in T
  PROVE  SumOver(f, D)[T] = f[e] + SumOver(f, D)[T \ {e}]
<1> DEFINE s == SumOver(f, D)
           Holds(U) == \A x \in U : s[U] = f[x] + s[U \ {x}]
           Bad == {U \in SUBSET D : ~ Holds(U)}
<1>1. /\ s \in [SUBSET D -> Nat]
      /\ \A U \in SUBSET D : U # {} => s[U] = f[Pick(U)] + s[U \ {Pick(U)}]
  BY SumOverDef DEF Unfold
<1>2. \A U \in SUBSET D : U # {} => Pick(U) \in U
  BY DEF Pick
<1>3. Bad = {}
  <2> SUFFICES ASSUME Bad # {}
               PROVE  FALSE
    OBVIOUS
  <2>1. PICK U \in Bad : \A d \in U : U \ {d} \notin Bad
    <3>1. Bad \in SUBSET SUBSET D
      OBVIOUS
    <3> HIDE DEF Bad
    <3> QED
      BY <3>1, SmallestSet
  <2>2. PICK x \in U : s[U] # f[x] + s[U \ {x}]
    BY <2>1
  <2> DEFINE p == Pick(U)
  <2>3. p \in U /\ s[U] = f[p] + s[U \ {p}]
    BY <1>1, <1>2, <2>1, <2>2
  <2>4. p # x
    BY <2>2, <2>3
  <2>5. s[U \ {p}] = f[x] + s[(U \ {p}) \ {x}]
    BY <2>1, <2>2, <2>3, <2>4
  <2>6. s[U \ {x}] = f[p] + s[(U \ {x}) \ {p}]
    BY <2>1, <2>2, <2>3, <2>4
  <2>7. (U \ {p}) \ {x} = (U \ {x}) \ {p}
    OBVIOUS
  <2>8. /\ f[p] \in Nat /\ f[x] \in Nat
        /\ s[(U \ {x}) \ {p}] \in Nat
    BY <1>1, <2>1, <2>2, <2>3
  <2> DEFINE rest == s[(U \ {x}) \ {p}]
  <2>9. s[U] = f[p] + (f[x] + rest)
    BY <2>3, <2>5, <2>7
  <2>10. f[x] + s[U \ {x}] = f[x] + (f[p] + rest)
    BY <2>6
  <2>11. f[p] + (f[x] + rest) = f[x] + (f[p] + rest)
    <3> HIDE DEF p, s, rest
    <3> QED
      BY <2>8 DEF rest
  <2> QED
    BY <2>2, <2>9, <2>10, <2>11
<1> QED
  BY <1>3

(***************************************************************************)
(* Adding an element adds its amount; a member's amount is within the sum; *)
(* every sum is a natural number.                                          *)
(***************************************************************************)
LEMMA SumOverFacts ==
  ASSUME NEW D, IsFiniteSet(D), NEW f \in [D -> Nat], NEW T \in SUBSET D
  PROVE  /\ SumOver(f, D)[T] \in Nat
         /\ \A e \in D \ T : SumOver(f, D)[T \cup {e}] = SumOver(f, D)[T] + f[e]
         /\ \A e \in T : /\ SumOver(f, D)[T \ {e}] = SumOver(f, D)[T] - f[e]
                         /\ f[e] <= SumOver(f, D)[T]
<1> DEFINE s == SumOver(f, D)
<1>1. s \in [SUBSET D -> Nat]
  BY SumOverDef
<1>2. \A U \in SUBSET D : \A e \in U : s[U] = f[e] + s[U \ {e}]
  BY SumOverRemove
<1> HIDE DEF s
<1>3. ASSUME NEW e \in D \ T
      PROVE  s[T \cup {e}] = s[T] + f[e]
  <2>1. /\ T \cup {e} \in SUBSET D
        /\ e \in T \cup {e}
        /\ (T \cup {e}) \ {e} = T
    OBVIOUS
  <2>2. s[T \cup {e}] = f[e] + s[T]
    BY <1>2, <2>1, Zenon
  <2>3. f[e] \in Nat /\ s[T] \in Nat
    BY <1>1
  <2> QED
    BY <2>2, <2>3
<1>4. ASSUME NEW e \in T
      PROVE  s[T \ {e}] = s[T] - f[e] /\ f[e] <= s[T]
  <2>1. T \ {e} \in SUBSET D /\ s[T] = f[e] + s[T \ {e}]
    BY <1>2
  <2> QED
    BY <1>1, <2>1
<1> QED
  BY <1>1, <1>3, <1>4 DEF s

(***************************************************************************)
(* A sum depends only on the amounts it adds, and not on what else there   *)
(* is to add.                                                              *)
(***************************************************************************)
LEMMA SumOverAlike ==
  ASSUME NEW D, IsFiniteSet(D), NEW f \in [D -> Nat],
         NEW E, IsFiniteSet(E), NEW g \in [E -> Nat],
         NEW T \in SUBSET (D \cap E), \A d \in T : f[d] = g[d]
  PROVE  SumOver(f, D)[T] = SumOver(g, E)[T]
<1> DEFINE s == SumOver(f, D)
           t == SumOver(g, E)
           Differ == {U \in SUBSET D : U \subseteq T /\ s[U] # t[U]}
<1> SUFFICES ASSUME Differ # {}
             PROVE  FALSE
  OBVIOUS
<1>1. PICK U \in Differ : \A d \in U : U \ {d} \notin Differ
  <2>1. Differ \in SUBSET SUBSET D
    OBVIOUS
  <2> HIDE DEF Differ
  <2> QED
    BY <2>1, SmallestSet
<1>2. U \in SUBSET D /\ U \in SUBSET E /\ U \subseteq T /\ s[U] # t[U]
  BY <1>1
<1>3. PICK d \in U : TRUE
  BY <1>2, SumOverEmpty
<1>4. U \ {d} \in SUBSET D /\ U \ {d} \in SUBSET E /\ d \in T /\ s[U \ {d}] = t[U \ {d}]
  BY <1>1, <1>2, <1>3
<1>5. s[U] = f[d] + s[U \ {d}]
  BY <1>2, <1>3, SumOverRemove
<1>6. t[U] = g[d] + t[U \ {d}]
  BY <1>2, <1>3, SumOverRemove
<1> HIDE DEF s, t
<1> QED
  BY <1>2, <1>4, <1>5, <1>6

LEMMA SumOverSame ==
  ASSUME NEW D, IsFiniteSet(D), NEW f \in [D -> Nat], NEW g \in [D -> Nat],
         NEW T \in SUBSET D, \A d \in T : f[d] = g[d]
  PROVE  SumOver(f, D)[T] = SumOver(g, D)[T]
<1>1. T \in SUBSET (D \cap D)
  OBVIOUS
<1> QED
  BY <1>1, SumOverAlike

(***************************************************************************)
(* Amounts that are each covered at a rate are covered together.           *)
(***************************************************************************)
LEMMA SumOverScaled ==
  ASSUME NEW D, IsFiniteSet(D), NEW f \in [D -> Nat], NEW g \in [D -> Nat],
         NEW w \in Nat, \A d \in D : f[d] <= g[d] * w
  PROVE  SumOver(f, D)[D] <= SumOver(g, D)[D] * w
<1> DEFINE s == SumOver(f, D)
           t == SumOver(g, D)
           Above == {U \in SUBSET D : ~ (s[U] <= t[U] * w)}
<1>a. \A U \in SUBSET D : \A x \in U : s[U] = f[x] + s[U \ {x}]
  BY SumOverRemove, Zenon
<1>b. \A U \in SUBSET D : \A x \in U : t[U] = g[x] + t[U \ {x}]
  BY SumOverRemove, Zenon
<1> SUFFICES ASSUME Above # {}
             PROVE  FALSE
  OBVIOUS
<1>1. PICK U \in Above : \A d \in U : U \ {d} \notin Above
  <2>1. Above \in SUBSET SUBSET D
    OBVIOUS
  <2> HIDE DEF Above
  <2> QED
    BY <2>1, SmallestSet
<1>2. U \in SUBSET D /\ ~ (s[U] <= t[U] * w)
  BY <1>1
<1>3. s[{}] = 0 /\ t[{}] = 0
  BY SumOverEmpty
<1>4. PICK d \in U : TRUE
  <2>1. U # {}
    <3>1. 0 <= 0 * w
      OBVIOUS
    <3> HIDE DEF s, t
    <3> QED
      BY <1>2, <1>3, <3>1
  <2> QED
    BY <2>1
<1>5. U \ {d} \in SUBSET D /\ s[U \ {d}] <= t[U \ {d}] * w
  BY <1>1, <1>2, <1>4
<1>6. s[U] = f[d] + s[U \ {d}] /\ t[U] = g[d] + t[U \ {d}]
  <2>1. U \in SUBSET D /\ d \in U
    BY <1>2, <1>4
  <2> HIDE DEF s, t
  <2> QED
    BY <1>a, <1>b, <2>1
<1>7. s[U \ {d}] \in Nat /\ t[U \ {d}] \in Nat
  <2>1. s \in [SUBSET D -> Nat]
    BY SumOverDef
  <2>2. t \in [SUBSET D -> Nat]
    BY SumOverDef
  <2> HIDE DEF s, t
  <2> QED
    BY <1>5, <2>1, <2>2
<1>8. f[d] <= g[d] * w /\ f[d] \in Nat /\ g[d] \in Nat
  BY <1>2, <1>4
<1> DEFINE x == g[d]
           y == t[U \ {d}]
<1>9. (x + y) * w = x * w + y * w /\ x * w \in Nat /\ y * w \in Nat
  <2>1. x \in Nat /\ y \in Nat
    BY <1>7, <1>8
  <2> HIDE DEF x, y
  <2> QED
    BY <2>1
<1>10. s[U] <= x * w + y * w
  <2> HIDE DEF s, t
  <2> QED
    BY <1>5, <1>6, <1>7, <1>8, <1>9
<1> HIDE DEF s, t
<1> QED
  BY <1>2, <1>6, <1>9, <1>10

\* A sum of zeros is zero.
LEMMA SumOfNothing ==
    ASSUME NEW E, IsFiniteSet(E), NEW f \in [E -> Nat], \A d \in E : f[d] = 0
    PROVE  SumOver(f, E)[E] = 0
<1>1. \A d \in E : f[d] <= f[d] * 0
  OBVIOUS
<1>2. SumOver(f, E)[E] <= SumOver(f, E)[E] * 0
  BY <1>1, SumOverScaled
<1>3. SumOver(f, E)[E] \in Nat
  BY SumOverFacts
<1> QED
  BY <1>2, <1>3

\* A part sums to no more than the whole.
LEMMA SumOverWithin ==
    ASSUME NEW X, IsFiniteSet(X), NEW f \in [X -> Nat], NEW U \in SUBSET X, NEW T \in SUBSET U
    PROVE  SumOver(f, X)[T] <= SumOver(f, X)[U]
<1> DEFINE s == SumOver(f, X)
           Bad == {W \in SUBSET X : T \subseteq W /\ ~ (s[T] <= s[W])}
<1>1. \A W \in SUBSET X : s[W] \in Nat
  BY SumOverFacts
<1>2. ASSUME NEW W \in SUBSET X, NEW e \in W PROVE s[W \ {e}] = s[W] - f[e]
  BY SumOverFacts
<1> HIDE DEF s
<1> SUFFICES ASSUME Bad # {} PROVE FALSE
  BY DEF s
<1>3. PICK W \in Bad : \A e \in W : W \ {e} \notin Bad
  <2>1. Bad \in SUBSET SUBSET X
    OBVIOUS
  <2> HIDE DEF Bad
  <2> QED
    BY <2>1, SmallestSet
<1>4. PICK e \in W : e \notin T
  <2>1. s[T] \in Nat
    BY <1>1
  <2>2. W # T /\ T \subseteq W
    BY <1>3, <2>1
  <2> QED
    BY <2>2
<1>5. W \ {e} \in SUBSET X /\ T \subseteq W \ {e}
  BY <1>3, <1>4
<1>6. s[T] <= s[W \ {e}]
  BY <1>3, <1>5
<1>7. s[T] \in Nat /\ s[W] \in Nat /\ f[e] \in Nat /\ s[W \ {e}] = s[W] - f[e]
  <2>1. W \in SUBSET X
    BY <1>3
  <2> QED
    BY <1>1, <1>2, <1>4, <2>1
<1>8. ~ (s[T] <= s[W])
  BY <1>3
<1> QED
  BY <1>6, <1>7, <1>8

\* One amount grows, and so does every sum it is in.
LEMMA SumOverGrown ==
    ASSUME NEW X, IsFiniteSet(X), NEW f \in [X -> Nat], NEW g \in [X -> Nat],
           NEW x \in X, NEW v \in Nat, g[x] = f[x] + v, \A y \in X \ {x} : g[y] = f[y],
           NEW T \in SUBSET X
    PROVE  SumOver(g, X)[T] = SumOver(f, X)[T] + (IF x \in T THEN v ELSE 0)
<1>1. CASE x \notin T
  <2>1. SumOver(g, X)[T] = SumOver(f, X)[T]
    BY <1>1, SumOverSame
  <2>2. SumOver(f, X)[T] \in Nat
    BY SumOverFacts
  <2> QED
    BY <1>1, <2>1, <2>2
<1>2. CASE x \in T
  <2>1. T \ {x} \in SUBSET X
    OBVIOUS
  <2>2. SumOver(g, X)[T \ {x}] = SumOver(f, X)[T \ {x}]
    BY <2>1, SumOverSame
  <2>3. SumOver(g, X)[T] = g[x] + SumOver(g, X)[T \ {x}]
    BY <1>2, SumOverRemove
  <2>4. SumOver(f, X)[T] = f[x] + SumOver(f, X)[T \ {x}]
    BY <1>2, SumOverRemove
  <2>5. SumOver(f, X)[T \ {x}] \in Nat /\ f[x] \in Nat
    BY <2>1, SumOverFacts
  <2> QED
    BY <1>2, <2>2, <2>3, <2>4, <2>5
<1> QED
  BY <1>1, <1>2
=============================================================================
