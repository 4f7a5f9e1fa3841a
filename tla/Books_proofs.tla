---------------------------- MODULE Books_proofs ----------------------------
(***************************************************************************)
(* What is proved of the two books that others have to rely on: the ledger *)
(* of draws, which an issuer's risk is counted in, and the receipts, which *)
(* an auditor reads.  They share no state, and no constant.                *)
(*                                                                         *)
(* First the ledger.  Its invariants, its two step properties and the      *)
(* refinement of CapacityAccount, for every set of agents and draws, every *)
(* offer and every window length.                                          *)
(*                                                                         *)
(* The inductive invariant Inv is the conjunction of what the runs check   *)
(* with CountedOwn.  It speaks of what a reader of the ledger sees now     *)
(* (Exposure, StillCounted), not of the stored entry: the entry is rolled  *)
(* late, and what is seen does not change when it is.                      *)
(***************************************************************************)
EXTENDS DrawLedger, Receipts, LedgerLemmas

\* The history counts only settled draws of its own agent.
CountedOwn ==
    \A a \in Agent : counted[a] \subseteq
        {d \in Draw : offer[d].agent = a /\ status[d] = "settled"}

Inv == TypeOK /\ CountedOwn /\ BooksBalance /\ SumIsRepresentable

-----------------------------------------------------------------------------
(* Facts about offers, sums and the draws of an agent.                      *)

LEMMA OfferFacts ==
  ASSUME NEW d \in Draw
  PROVE  /\ offer[d].agent \in Agent
         /\ offer[d].amount \in Minor /\ offer[d].amount \in Nat
         /\ offer[d].lim_window \in Nat /\ offer[d].lim_window < MaxMinor
         /\ Amount[d] = offer[d].amount
<1>1. offer[d] \in Offer
  BY LedgerAssumption
<1>2. /\ offer[d].agent \in Agent
      /\ offer[d].amount \in Minor
      /\ offer[d].lim_window \in 0..(MaxMinor - 1)
  BY <1>1 DEF Offer, WindowLimit
<1> QED
  BY <1>2, WindowAssumption DEF Minor, Amount

LEMMA SumFacts ==
  ASSUME NEW T \in SUBSET Draw
  PROVE  /\ Worth[{}] = 0
         /\ Worth[T] \in Nat
         /\ \A e \in Draw \ T : Worth[T \cup {e}] = Worth[T] + offer[e].amount
         /\ \A e \in T : Worth[T \ {e}] = Worth[T] - offer[e].amount
                         /\ offer[e].amount <= Worth[T]
<1>1. IsFiniteSet(Draw) /\ Amount \in [Draw -> Nat]
  BY LedgerAssumption, OfferFacts DEF Amount
<1>2. \A e \in Draw : Amount[e] = offer[e].amount
  BY OfferFacts
<1>3. Worth[{}] = 0
  BY <1>1, SumOverEmpty DEF Worth
<1>4. /\ Worth[T] \in Nat
      /\ \A e \in Draw \ T : Worth[T \cup {e}] = Worth[T] + Amount[e]
      /\ \A e \in T : /\ Worth[T \ {e}] = Worth[T] - Amount[e]
                      /\ Amount[e] <= Worth[T]
  BY <1>1, SumOverFacts DEF Worth
<1> QED
  BY <1>2, <1>3, <1>4

LEMMA OpenFacts ==
  ASSUME TypeOK, NEW a \in Agent
  PROVE  /\ OpenDraws(a) \in SUBSET Draw
         /\ Cardinality(OpenDraws(a)) \in Nat
         /\ \A e \in Draw \ OpenDraws(a) :
               /\ Cardinality(OpenDraws(a) \cup {e}) = Cardinality(OpenDraws(a)) + 1
               /\ Cardinality(OpenDraws(a)) + 1 <= MaxCount
         /\ \A e \in OpenDraws(a) :
               /\ Cardinality(OpenDraws(a) \ {e}) = Cardinality(OpenDraws(a)) - 1
               /\ Cardinality(OpenDraws(a)) >= 1
<1> DEFINE T == OpenDraws(a)
<1>1. T \in SUBSET Draw
  BY DEF OpenDraws
<1> HIDE DEF T
<1>2. IsFiniteSet(T) /\ Cardinality(T) \in Nat
  BY <1>1, LedgerAssumption, FS_Subset, FS_CardinalityType
<1>3. Cardinality(Draw) \in Nat /\ Cardinality(Draw) <= MaxCount
  BY LedgerAssumption, FS_CardinalityType
<1>4. ASSUME NEW e \in Draw \ T
      PROVE  /\ Cardinality(T \cup {e}) = Cardinality(T) + 1
             /\ Cardinality(T) + 1 <= MaxCount
  <2>1. Cardinality(T \cup {e}) = Cardinality(T) + 1
    BY <1>2, FS_AddElement
  <2>2. Cardinality(T \cup {e}) <= Cardinality(Draw)
    BY <1>1, LedgerAssumption, FS_Subset
  <2> QED
    BY <1>2, <1>3, <2>1, <2>2, WindowAssumption
<1>5. ASSUME NEW e \in T
      PROVE  /\ Cardinality(T \ {e}) = Cardinality(T) - 1
             /\ Cardinality(T) >= 1
  <2>1. Cardinality(T \ {e}) = Cardinality(T) - 1
    BY <1>2, FS_RemoveElement
  <2>2. Cardinality(T \ {e}) \in Nat
    BY <1>2, FS_RemoveElement, FS_CardinalityType
  <2> QED
    BY <1>2, <2>1, <2>2
<1> QED
  BY <1>1, <1>2, <1>4, <1>5 DEF T

\* What is seen of an agent, and its type.
LEMMA SeenType ==
  ASSUME TypeOK, NEW a \in Agent
  PROVE  /\ windows[a] \in Window \cup {NoWindow} /\ now \in Nat
         /\ Exposure(a) \in Window
         /\ Exposure(a).at_risk \in Minor /\ Exposure(a).at_risk \in Nat
         /\ Exposure(a).window_used \in Minor /\ Exposure(a).window_used \in Nat
         /\ Exposure(a).open_draws \in 0..MaxCount
         /\ Committed(a) \in Nat
<1>1. windows[a] \in Window \cup {NoWindow} /\ now \in Nat
  BY LedgerAssumption DEF TypeOK
<1>2. Exposure(a) \in Window
  BY <1>1, ReadSideAgrees DEF Exposure
<1>3. /\ Exposure(a).at_risk \in Minor
      /\ Exposure(a).window_used \in Minor
      /\ Exposure(a).open_draws \in 0..MaxCount
  BY <1>2 DEF Window
<1> QED
  BY <1>1, <1>2, <1>3, WindowAssumption DEF Minor, Committed

\* A permitted draw fits under the limit it presents, and nothing saturates.
LEMMA PermittedFits ==
  ASSUME TypeOK, SumIsRepresentable, NEW d \in Draw, Permitted(d)
  PROVE  /\ Committed(offer[d].agent) + offer[d].amount <= offer[d].lim_window
         /\ Committed(offer[d].agent) + offer[d].amount <= MaxMinor
         /\ offer[d].amount <= offer[d].lim_single
<1> DEFINE a == offer[d].agent
           m == offer[d].amount
           l == offer[d].lim_window
           c == Committed(a)
<1>1. a \in Agent /\ m \in Nat /\ l \in Nat /\ l < MaxMinor
  BY OfferFacts
<1>2. c \in Nat /\ c <= MaxMinor
  BY <1>1, SeenType DEF SumIsRepresentable
<1>3. TotalCommitted(Exposure(a)) = c
  BY <1>1, <1>2, SeenType, WindowAssumption DEF TotalCommitted, Committed
<1>4. SatAdd(c, m, MaxMinor) <= l /\ offer[d].amount <= offer[d].lim_single
  BY <1>3 DEF Permitted, Permits
<1> HIDE DEF a, m, l, c
<1>5. c + m <= l /\ c + m <= MaxMinor
  BY <1>1, <1>2, <1>4, WindowAssumption DEF SatAdd
<1> QED
  BY <1>4, <1>5 DEF a, m, l, c

\* An agent whose entry, history and draws a step leaves alone is seen as
\* before, if the clock stands still.
LEMMA OthersSeenAsBefore ==
  ASSUME NEW b \in Agent, now' = now, windows'[b] = windows[b],
         counted'[b] = counted[b]
  PROVE  /\ Exposure(b)' = Exposure(b)
         /\ StillCounted(b)' = StillCounted(b)
         /\ Committed(b)' = Committed(b)
BY DEF Exposure, StillCounted, Committed

-----------------------------------------------------------------------------
(* The invariant holds initially and every step preserves it.               *)

LEMMA InitInv == Init => Inv
<1> SUFFICES ASSUME Init
             PROVE  Inv
  OBVIOUS
<1>1. TypeOK
  BY LedgerAssumption DEF Init, TypeOK, Status
<1>2. CountedOwn
  BY DEF Init, CountedOwn
<1>3. ASSUME NEW a \in Agent
      PROVE  /\ Exposure(a).at_risk = Worth[OpenDraws(a)]
             /\ Exposure(a).window_used = Worth[StillCounted(a)]
             /\ Exposure(a).open_draws = Cardinality(OpenDraws(a))
             /\ Committed(a) <= MaxMinor
  <2>1. Exposure(a) = NewWindow(0)
    BY DEF Init, Exposure, Snapshot
  <2>2. OpenDraws(a) = {} /\ StillCounted(a) = {}
    BY DEF Init, OpenDraws, StillCounted
  <2>3. Worth[{}] = 0
    BY SumFacts
  <2>4. Cardinality({}) = 0
    BY FS_EmptySet
  <2> QED
    BY <2>1, <2>2, <2>3, <2>4, WindowAssumption DEF NewWindow, Committed
<1> QED
  BY <1>1, <1>2, <1>3 DEF Inv, BooksBalance, SumIsRepresentable

\* The books of one agent; Inv says this of every agent.
BooksOf(a) ==
    /\ Exposure(a).at_risk = Worth[OpenDraws(a)]
    /\ Exposure(a).window_used = Worth[StillCounted(a)]
    /\ Exposure(a).open_draws = Cardinality(OpenDraws(a))
    /\ Committed(a) <= MaxMinor

LEMMA InvByAgent ==
  Inv <=> TypeOK /\ CountedOwn /\ \A a \in Agent : BooksOf(a)
BY DEF Inv, BooksBalance, SumIsRepresentable, BooksOf

\* A write to one agent's entry, on behalf of one of its draws that is not yet
\* settled, preserves the invariant when the agent's new books balance.
LEMMA WriteInv ==
  ASSUME Inv, NEW d \in Draw, NEW w \in Window, NEW s \in Status,
         NEW C \in SUBSET Draw,
         now' = now,
         windows' = [windows EXCEPT ![offer[d].agent] = w],
         status' = [status EXCEPT ![d] = s],
         counted' = [counted EXCEPT ![offer[d].agent] = C],
         status[d] # "settled",
         Snapshot(w, now) = w, ~ Elapsed(w, now),
         C \subseteq counted[offer[d].agent] \cup {d}, d \in C => s = "settled",
         w.at_risk = Worth[OpenDraws(offer[d].agent)'],
         w.window_used = Worth[C],
         w.open_draws = Cardinality(OpenDraws(offer[d].agent)'),
         w.at_risk + w.window_used <= MaxMinor
  PROVE  Inv'
<1> DEFINE a == offer[d].agent
<1>1. TypeOK /\ CountedOwn /\ \A b \in Agent : BooksOf(b)
  BY InvByAgent
<1>2. a \in Agent
  BY OfferFacts
<1>3. TypeOK'
  BY <1>1, <1>2 DEF TypeOK
<1>4. CountedOwn'
  <2>1. ASSUME NEW b \in Agent, NEW e \in counted'[b]
        PROVE  e \in Draw /\ offer[e].agent = b /\ status'[e] = "settled"
    <3>1. CASE b = a
      <4>1. e \in C
        BY <1>1, <1>2, <2>1, <3>1 DEF TypeOK
      <4>2. CASE e = d
        BY <1>1, <3>1, <4>1, <4>2 DEF TypeOK
      <4>3. CASE e # d
        <5>1. e \in counted[a]
          BY <4>1, <4>3
        <5>2. e \in Draw /\ offer[e].agent = a /\ status[e] = "settled"
          BY <1>1, <1>2, <5>1 DEF CountedOwn
        <5> QED
          BY <1>1, <3>1, <4>3, <5>2 DEF TypeOK
      <4> QED
        BY <4>2, <4>3
    <3>2. CASE b # a
      <4>1. e \in counted[b]
        BY <1>1, <2>1, <3>2 DEF TypeOK
      <4>2. e \in Draw /\ offer[e].agent = b /\ status[e] = "settled"
        BY <1>1, <4>1 DEF CountedOwn
      <4> QED
        BY <1>1, <3>2, <4>2 DEF TypeOK
    <3> QED
      BY <3>1, <3>2
  <2> QED
    BY <2>1 DEF CountedOwn
<1>5. BooksOf(a)'
  <2>1. windows'[a] = w /\ counted'[a] = C
    BY <1>1, <1>2 DEF TypeOK
  <2>2. Exposure(a)' = w /\ StillCounted(a)' = C
    BY <2>1 DEF Exposure, StillCounted
  <2> QED
    BY <2>2 DEF BooksOf, Committed
<1>6. ASSUME NEW b \in Agent, b # a
      PROVE  BooksOf(b)'
  <2>1. OpenDraws(b)' = OpenDraws(b)
    BY <1>1, <1>6 DEF TypeOK, OpenDraws
  <2>2. windows'[b] = windows[b] /\ counted'[b] = counted[b]
    BY <1>1, <1>6 DEF TypeOK
  <2>3. /\ Exposure(b)' = Exposure(b)
        /\ StillCounted(b)' = StillCounted(b)
        /\ Committed(b)' = Committed(b)
    BY <2>2, OthersSeenAsBefore
  <2> QED
    BY <1>1, <2>1, <2>3 DEF BooksOf
<1> HIDE DEF a
<1> QED
  BY <1>3, <1>4, <1>5, <1>6 DEF Inv, BooksBalance, SumIsRepresentable, BooksOf

LEMMA AuthoriseInv ==
  ASSUME Inv, NEW d \in Draw, Authorise(d)
  PROVE  Inv'
<1> DEFINE a == offer[d].agent
           m == offer[d].amount
<1>1. TypeOK /\ CountedOwn /\ SumIsRepresentable /\ \A b \in Agent : BooksOf(b)
  BY InvByAgent DEF Inv
<1>2. a \in Agent /\ m \in Minor /\ m \in Nat
  BY OfferFacts
<1>3. status[d] = "new" /\ now' = now
  BY DEF Authorise
<1>4. d \notin OpenDraws(a) /\ \A b \in Agent : d \notin counted[b]
  BY <1>1, <1>3 DEF OpenDraws, CountedOwn
<1>5. CASE ~ Permitted(d)
  <2>1. /\ windows' = windows /\ counted' = counted
        /\ status' = [status EXCEPT ![d] = "refused"]
    BY <1>5 DEF Authorise
  <2>2. TypeOK'
    BY <1>1, <1>3, <2>1 DEF TypeOK, Status
  <2>3. CountedOwn'
    BY <1>1, <1>3, <2>1 DEF TypeOK, CountedOwn
  <2>4. ASSUME NEW b \in Agent
        PROVE  BooksOf(b)'
    <3>1. OpenDraws(b)' = OpenDraws(b)
      BY <1>1, <1>3, <2>1 DEF TypeOK, OpenDraws
    <3>2. /\ Exposure(b)' = Exposure(b)
          /\ StillCounted(b)' = StillCounted(b)
          /\ Committed(b)' = Committed(b)
      BY <1>3, <2>1, OthersSeenAsBefore
    <3> QED
      BY <1>1, <3>1, <3>2 DEF BooksOf
  <2> QED
    BY <2>2, <2>3, <2>4 DEF Inv, BooksBalance, SumIsRepresentable, BooksOf
<1>6. CASE Permitted(d)
  <2> DEFINE new == RecordCommit(windows[a], now, m)
             C == StillCounted(a)
  <2>1. /\ windows' = [windows EXCEPT ![a] = new]
        /\ counted' = [counted EXCEPT ![a] = C]
        /\ status' = [status EXCEPT ![d] = "open"]
    BY <1>6 DEF Authorise
  <2>2. /\ new \in Window /\ ~ Elapsed(new, now) /\ Snapshot(new, now) = new
        /\ new.at_risk = SatAdd(Exposure(a).at_risk, m, MaxMinor)
        /\ new.window_used = Exposure(a).window_used
        /\ new.open_draws = SatAdd(Exposure(a).open_draws, 1, MaxCount)
    <3>1. windows[a] \in Window \cup {NoWindow} /\ now \in Nat
      BY <1>1, <1>2, SeenType
    <3> QED
      BY <1>2, <3>1, AfterCommit DEF Exposure
  <2> HIDE DEF new
  <2>3. C \in SUBSET Draw /\ C \subseteq counted[a]
    BY <1>1, <1>2 DEF TypeOK, StillCounted
  <2>4. OpenDraws(a)' = OpenDraws(a) \cup {d}
    BY <1>1, <1>3, <2>1 DEF TypeOK, OpenDraws
  <2>5. Committed(a) + m <= MaxMinor
    BY <1>1, <1>6, PermittedFits
  <2>6. /\ Exposure(a).at_risk \in Nat /\ Exposure(a).window_used \in Nat
        /\ Exposure(a).open_draws \in Nat
    BY <1>1, <1>2, SeenType, WindowAssumption
  <2>7. /\ new.at_risk = Exposure(a).at_risk + m
        /\ new.at_risk + new.window_used <= MaxMinor
    BY <1>2, <2>2, <2>5, <2>6, WindowAssumption DEF Committed, SatAdd
  <2>8. new.at_risk = Worth[OpenDraws(a)']
    BY <1>1, <1>2, <1>4, <2>4, <2>7, SumFacts, OpenFacts DEF BooksOf
  <2>9. new.open_draws = Cardinality(OpenDraws(a)')
    BY <1>1, <1>2, <1>4, <2>2, <2>4, <2>6, OpenFacts, WindowAssumption
       DEF BooksOf, SatAdd
  <2>10. new.window_used = Worth[C]
    BY <1>1, <1>2, <2>2 DEF BooksOf
  <2>11. "open" \in Status /\ d \notin C
    BY <1>2, <1>4, <2>3 DEF Status
  <2> HIDE DEF C
  <2> QED
    BY <1>3, <2>1, <2>2, <2>3, <2>7, <2>8, <2>9, <2>10, <2>11, WriteInv
<1> QED
  BY <1>5, <1>6

LEMMA SettleInv ==
  ASSUME Inv, NEW d \in Draw, Settle(d)
  PROVE  Inv'
<1> DEFINE a == offer[d].agent
           m == offer[d].amount
           new == RecordSettled(windows[a], now, m)
           C == StillCounted(a) \cup {d}
<1>1. TypeOK /\ CountedOwn /\ SumIsRepresentable /\ \A b \in Agent : BooksOf(b)
  BY InvByAgent DEF Inv
<1>2. a \in Agent /\ m \in Minor /\ m \in Nat
  BY OfferFacts
<1>3. /\ status[d] = "open" /\ now' = now
      /\ windows' = [windows EXCEPT ![a] = new]
      /\ counted' = [counted EXCEPT ![a] = C]
      /\ status' = [status EXCEPT ![d] = "settled"]
  BY DEF Settle
<1>4. /\ StillCounted(a) \in SUBSET Draw /\ StillCounted(a) \subseteq counted[a]
      /\ d \in OpenDraws(a) /\ d \notin StillCounted(a)
  BY <1>1, <1>2, <1>3 DEF TypeOK, CountedOwn, OpenDraws, StillCounted
<1>5. /\ new \in Window /\ ~ Elapsed(new, now) /\ Snapshot(new, now) = new
      /\ new.at_risk = SatSub(Exposure(a).at_risk, m)
      /\ new.window_used = SatAdd(Exposure(a).window_used, m, MaxMinor)
      /\ new.open_draws = SatSub(Exposure(a).open_draws, 1)
  <2>1. windows[a] \in Window \cup {NoWindow} /\ now \in Nat
    BY <1>1, <1>2, SeenType
  <2> QED
    BY <1>2, <2>1, AfterSettle DEF Exposure
<1> HIDE DEF new
<1>6. /\ Exposure(a).at_risk \in Nat /\ Exposure(a).window_used \in Nat
      /\ Exposure(a).open_draws \in Nat
      /\ Exposure(a).at_risk + Exposure(a).window_used <= MaxMinor
  BY <1>1, <1>2, SeenType, WindowAssumption DEF BooksOf, Committed
<1>7. OpenDraws(a)' = OpenDraws(a) \ {d}
  BY <1>1, <1>3 DEF TypeOK, OpenDraws
<1>8. /\ m <= Exposure(a).at_risk
      /\ Worth[OpenDraws(a)'] = Exposure(a).at_risk - m
  BY <1>1, <1>2, <1>4, <1>7, SumFacts, OpenFacts DEF BooksOf
<1>9. Worth[C] = Exposure(a).window_used + m
  BY <1>1, <1>2, <1>4, SumFacts DEF BooksOf
<1>10. /\ Exposure(a).open_draws >= 1
       /\ Cardinality(OpenDraws(a)') = Exposure(a).open_draws - 1
  BY <1>1, <1>2, <1>4, <1>7, OpenFacts DEF BooksOf
<1>11. /\ new.at_risk = Exposure(a).at_risk - m
       /\ new.window_used = Exposure(a).window_used + m
       /\ new.open_draws = Exposure(a).open_draws - 1
       /\ new.at_risk + new.window_used <= MaxMinor
  BY <1>2, <1>5, <1>6, <1>8, <1>10, WindowAssumption DEF SatAdd, SatSub
<1>12. /\ C \in SUBSET Draw /\ C \subseteq counted[a] \cup {d}
       /\ "settled" \in Status
  BY <1>4 DEF Status
<1> HIDE DEF C
<1> QED
  BY <1>3, <1>5, <1>8, <1>9, <1>10, <1>11, <1>12, WriteInv

LEMMA ReleaseInv ==
  ASSUME Inv, NEW d \in Draw, Release(d)
  PROVE  Inv'
<1> DEFINE a == offer[d].agent
           m == offer[d].amount
           new == RecordReleased(windows[a], now, m)
           C == StillCounted(a)
<1>1. TypeOK /\ CountedOwn /\ SumIsRepresentable /\ \A b \in Agent : BooksOf(b)
  BY InvByAgent DEF Inv
<1>2. a \in Agent /\ m \in Minor /\ m \in Nat
  BY OfferFacts
<1>3. /\ status[d] = "open" /\ now' = now
      /\ windows' = [windows EXCEPT ![a] = new]
      /\ counted' = [counted EXCEPT ![a] = C]
      /\ status' = [status EXCEPT ![d] = "released"]
  BY DEF Release
<1>4. /\ C \in SUBSET Draw /\ C \subseteq counted[a]
      /\ d \in OpenDraws(a) /\ d \notin C
  BY <1>1, <1>2, <1>3 DEF TypeOK, CountedOwn, OpenDraws, StillCounted
<1>5. /\ new \in Window /\ ~ Elapsed(new, now) /\ Snapshot(new, now) = new
      /\ new.at_risk = SatSub(Exposure(a).at_risk, m)
      /\ new.window_used = Exposure(a).window_used
      /\ new.open_draws = SatSub(Exposure(a).open_draws, 1)
  <2>1. windows[a] \in Window \cup {NoWindow} /\ now \in Nat
    BY <1>1, <1>2, SeenType
  <2> QED
    BY <1>2, <2>1, AfterRelease DEF Exposure
<1> HIDE DEF new
<1>6. /\ Exposure(a).at_risk \in Nat /\ Exposure(a).window_used \in Nat
      /\ Exposure(a).open_draws \in Nat
      /\ Exposure(a).at_risk + Exposure(a).window_used <= MaxMinor
  BY <1>1, <1>2, SeenType, WindowAssumption DEF BooksOf, Committed
<1>7. OpenDraws(a)' = OpenDraws(a) \ {d}
  BY <1>1, <1>3 DEF TypeOK, OpenDraws
<1>8. /\ m <= Exposure(a).at_risk
      /\ Worth[OpenDraws(a)'] = Exposure(a).at_risk - m
  BY <1>1, <1>2, <1>4, <1>7, SumFacts, OpenFacts DEF BooksOf
<1>9. /\ Exposure(a).open_draws >= 1
      /\ Cardinality(OpenDraws(a)') = Exposure(a).open_draws - 1
  BY <1>1, <1>2, <1>4, <1>7, OpenFacts DEF BooksOf
<1>10. /\ new.at_risk = Exposure(a).at_risk - m
       /\ new.window_used = Worth[C]
       /\ new.open_draws = Exposure(a).open_draws - 1
       /\ new.at_risk + new.window_used <= MaxMinor
  <2>1. Exposure(a).window_used = Worth[C]
    BY <1>1, <1>2 DEF BooksOf
  <2> QED
    BY <1>2, <1>5, <1>6, <1>8, <1>9, <2>1, WindowAssumption DEF SatSub
<1>11. "released" \in Status
  BY DEF Status
<1> HIDE DEF C
<1> QED
  BY <1>3, <1>4, <1>5, <1>8, <1>9, <1>10, <1>11, WriteInv

\* The clock alone moves: what was spent may age out, nothing else changes.
LEMMA TickSeen ==
  ASSUME TypeOK, \A b \in Agent : BooksOf(b), NEW a \in Agent, Tick
  PROVE  /\ Exposure(a)'.at_risk = Exposure(a).at_risk
         /\ Exposure(a)'.open_draws = Exposure(a).open_draws
         /\ Exposure(a)'.window_used = Worth[StillCounted(a)']
         /\ Exposure(a)'.window_used <= Exposure(a).window_used
         /\ Exposure(a)'.window_used \in Nat
         /\ StillCounted(a)' \in {{}, StillCounted(a)}
<1>1. windows' = windows /\ counted' = counted /\ status' = status /\ now' = now + 1
  BY DEF Tick
<1>2. windows[a] \in Window \cup {NoWindow} /\ now \in Nat
  BY SeenType
<1>3. Exposure(a).window_used = Worth[StillCounted(a)]
  BY DEF BooksOf
<1>4. Worth[{}] = 0
  BY SumFacts
<1>5. CASE windows[a] = NoWindow
  BY <1>1, <1>3, <1>5 DEF Exposure, Snapshot, NewWindow, StillCounted
<1>6. CASE windows[a] \in Window
  <2>1. windows[a] # NoWindow /\ windows[a].window_used \in Nat
        /\ windows[a].window_start \in Nat
    BY <1>6, WindowAssumption DEF Window, Minor
  <2>2. CASE Elapsed(windows[a], now + 1)
    BY <1>1, <1>2, <1>4, <2>1, <2>2, WindowAssumption
       DEF Exposure, Snapshot, StillCounted
  <2>3. CASE ~ Elapsed(windows[a], now + 1)
    <3>1. ~ Elapsed(windows[a], now)
      BY <1>2, <2>1, <2>3, WindowAssumption DEF Elapsed
    <3> QED
      BY <1>1, <1>3, <2>1, <2>3, <3>1 DEF Exposure, Snapshot, StillCounted
  <2> QED
    BY <2>2, <2>3
<1> QED
  BY <1>2, <1>5, <1>6

LEMMA TickInv ==
  ASSUME Inv, Tick
  PROVE  Inv'
<1>1. TypeOK /\ CountedOwn /\ \A b \in Agent : BooksOf(b)
  BY InvByAgent
<1>2. windows' = windows /\ counted' = counted /\ status' = status
      /\ now' = now + 1 /\ now < MaxTime
  BY DEF Tick
<1>3. TypeOK'
  BY <1>1, <1>2, LedgerAssumption DEF TypeOK
<1>4. CountedOwn'
  BY <1>1, <1>2 DEF CountedOwn
<1>5. ASSUME NEW a \in Agent
      PROVE  BooksOf(a)'
  <2>1. OpenDraws(a)' = OpenDraws(a)
    BY <1>2 DEF OpenDraws
  <2>2. /\ Exposure(a).at_risk \in Nat /\ Exposure(a).window_used \in Nat
        /\ Committed(a) <= MaxMinor
    BY <1>1, SeenType DEF BooksOf
  <2>3. Committed(a)' <= MaxMinor
    BY <1>1, <2>2, TickSeen, WindowAssumption DEF Committed
  <2> QED
    BY <1>1, <2>1, <2>3, TickSeen DEF BooksOf
<1> QED
  BY <1>3, <1>4, <1>5 DEF Inv, BooksBalance, SumIsRepresentable, BooksOf

LEMMA StutterInv ==
  ASSUME Inv, UNCHANGED vars
  PROVE  Inv'
<1>1. UNCHANGED <<now, windows, status, counted>>
  BY DEF vars
<1>2. TypeOK' /\ CountedOwn'
  BY <1>1 DEF Inv, TypeOK, CountedOwn
<1>3. ASSUME NEW a \in Agent
      PROVE  BooksOf(a)'
  <2>1. OpenDraws(a)' = OpenDraws(a)
    BY <1>1 DEF OpenDraws
  <2>2. /\ Exposure(a)' = Exposure(a)
        /\ StillCounted(a)' = StillCounted(a)
        /\ Committed(a)' = Committed(a)
    BY <1>1, OthersSeenAsBefore
  <2> QED
    BY <2>1, <2>2, InvByAgent DEF BooksOf
<1> QED
  BY <1>2, <1>3 DEF Inv, BooksBalance, SumIsRepresentable, BooksOf

LEMMA NextInv == Inv /\ [Next]_vars => Inv'
<1> SUFFICES ASSUME Inv, [Next]_vars
             PROVE  Inv'
  OBVIOUS
<1> QED
  BY AuthoriseInv, SettleInv, ReleaseInv, TickInv, StutterInv DEF Next

-----------------------------------------------------------------------------
(* The invariants of the specification.                                     *)

LEMMA SpecInv == Spec => []Inv
BY InitInv, NextInv, PTL DEF Spec

\* Type correctness: no operation drives a counter out of its unsigned range.
THEOREM TypeCorrect == Spec => []TypeOK
<1>1. Inv => TypeOK
  BY DEF Inv
<1> QED
  BY SpecInv, <1>1, PTL

\* The counters of every agent are exactly its unresolved draws and the draws
\* settled in its present window, for any agents, draws, offers and windows.
THEOREM BooksAlwaysBalance == Spec => []BooksBalance
<1>1. Inv => BooksBalance
  BY DEF Inv
<1> QED
  BY SpecInv, <1>1, PTL

\* The sum verify_limit compares always fits in a u64.
THEOREM SumAlwaysRepresentable == Spec => []SumIsRepresentable
<1>1. Inv => SumIsRepresentable
  BY DEF Inv
<1> QED
  BY SpecInv, <1>1, PTL

-----------------------------------------------------------------------------
(* What a reader sees after each step.                                      *)

\* After a write to one agent's entry: that entry, and all others as before.
LEMMA WriteSeen ==
  ASSUME TypeOK, NEW d \in Draw, NEW w \in Window, NEW C \in SUBSET Draw,
         now' = now,
         windows' = [windows EXCEPT ![offer[d].agent] = w],
         counted' = [counted EXCEPT ![offer[d].agent] = C],
         Snapshot(w, now) = w, ~ Elapsed(w, now)
  PROVE  /\ Exposure(offer[d].agent)' = w
         /\ StillCounted(offer[d].agent)' = C
         /\ \A b \in Agent \ {offer[d].agent} :
               /\ Exposure(b)' = Exposure(b)
               /\ StillCounted(b)' = StillCounted(b)
               /\ Committed(b)' = Committed(b)
<1> DEFINE a == offer[d].agent
<1>1. a \in Agent
  BY OfferFacts
<1>2. windows'[a] = w /\ counted'[a] = C
  BY <1>1 DEF TypeOK
<1>3. Exposure(a)' = w /\ StillCounted(a)' = C
  BY <1>2 DEF Exposure, StillCounted
<1>4. ASSUME NEW b \in Agent \ {a}
      PROVE  /\ Exposure(b)' = Exposure(b)
             /\ StillCounted(b)' = StillCounted(b)
             /\ Committed(b)' = Committed(b)
  <2>1. windows'[b] = windows[b] /\ counted'[b] = counted[b]
    BY <1>4 DEF TypeOK
  <2> QED
    BY <2>1, OthersSeenAsBefore
<1> QED
  BY <1>3, <1>4

\* A draw that is permitted adds its amount to what is at risk.
LEMMA AuthoriseSeen ==
  ASSUME Inv, NEW d \in Draw, Authorise(d), Permitted(d)
  PROVE  /\ Committed(offer[d].agent)' = Committed(offer[d].agent) + offer[d].amount
         /\ Exposure(offer[d].agent)'.window_used = Exposure(offer[d].agent).window_used
         /\ \A b \in Agent : StillCounted(b)' = StillCounted(b)
         /\ \A b \in Agent \ {offer[d].agent} :
               Exposure(b)' = Exposure(b) /\ Committed(b)' = Committed(b)
<1> DEFINE a == offer[d].agent
           m == offer[d].amount
           new == RecordCommit(windows[a], now, m)
           C == StillCounted(a)
<1>1. TypeOK /\ SumIsRepresentable
  BY DEF Inv
<1>2. a \in Agent /\ m \in Minor /\ m \in Nat
  BY OfferFacts
<1>3. windows[a] \in Window \cup {NoWindow} /\ now \in Nat
  BY <1>1, <1>2, SeenType
<1>4. /\ new \in Window /\ ~ Elapsed(new, now) /\ Snapshot(new, now) = new
      /\ new.at_risk = SatAdd(Exposure(a).at_risk, m, MaxMinor)
      /\ new.window_used = Exposure(a).window_used
  BY <1>2, <1>3, AfterCommit DEF Exposure
<1>5. /\ now' = now /\ windows' = [windows EXCEPT ![a] = new]
      /\ counted' = [counted EXCEPT ![a] = C]
  BY DEF Authorise
<1> HIDE DEF new
<1>6. C \in SUBSET Draw
  BY <1>1, <1>2 DEF TypeOK, StillCounted
<1> HIDE DEF C
<1>7. /\ Exposure(a)' = new /\ StillCounted(a)' = C
      /\ \A b \in Agent \ {a} : /\ Exposure(b)' = Exposure(b)
                                /\ StillCounted(b)' = StillCounted(b)
                                /\ Committed(b)' = Committed(b)
  BY <1>1, <1>4, <1>5, <1>6, WriteSeen
<1>8. Committed(a)' = Committed(a) + m
  <2>1. Committed(a) + m <= MaxMinor
    BY <1>1, PermittedFits
  <2>2. Exposure(a).at_risk \in Nat /\ Exposure(a).window_used \in Nat
    BY <1>1, <1>2, SeenType
  <2> QED
    BY <1>2, <1>4, <1>7, <2>1, <2>2, WindowAssumption DEF Committed, SatAdd
<1> QED
  BY <1>2, <1>4, <1>7, <1>8 DEF C

\* A settled draw moves its amount from at risk to used.
LEMMA SettleSeen ==
  ASSUME Inv, NEW d \in Draw, Settle(d)
  PROVE  /\ Committed(offer[d].agent)' = Committed(offer[d].agent)
         /\ Exposure(offer[d].agent)'.window_used >= Exposure(offer[d].agent).window_used
         /\ StillCounted(offer[d].agent)' = StillCounted(offer[d].agent) \cup {d}
         /\ \A b \in Agent \ {offer[d].agent} :
               /\ StillCounted(b)' = StillCounted(b)
               /\ Exposure(b)' = Exposure(b) /\ Committed(b)' = Committed(b)
<1> DEFINE a == offer[d].agent
           m == offer[d].amount
           new == RecordSettled(windows[a], now, m)
           C == StillCounted(a) \cup {d}
<1>1. TypeOK /\ \A b \in Agent : BooksOf(b)
  BY InvByAgent DEF Inv
<1>2. a \in Agent /\ m \in Minor /\ m \in Nat
  BY OfferFacts
<1>3. windows[a] \in Window \cup {NoWindow} /\ now \in Nat
  BY <1>1, <1>2, SeenType
<1>4. /\ new \in Window /\ ~ Elapsed(new, now) /\ Snapshot(new, now) = new
      /\ new.at_risk = SatSub(Exposure(a).at_risk, m)
      /\ new.window_used = SatAdd(Exposure(a).window_used, m, MaxMinor)
  BY <1>2, <1>3, AfterSettle DEF Exposure
<1>5. /\ now' = now /\ windows' = [windows EXCEPT ![a] = new]
      /\ counted' = [counted EXCEPT ![a] = C] /\ status[d] = "open"
  BY DEF Settle
<1> HIDE DEF new
<1>6. C \in SUBSET Draw
  BY <1>1, <1>2 DEF TypeOK, StillCounted
<1> HIDE DEF C
<1>7. /\ Exposure(a)' = new /\ StillCounted(a)' = C
      /\ \A b \in Agent \ {a} : /\ Exposure(b)' = Exposure(b)
                                /\ StillCounted(b)' = StillCounted(b)
                                /\ Committed(b)' = Committed(b)
  BY <1>1, <1>4, <1>5, <1>6, WriteSeen
<1>8. /\ Committed(a)' = Committed(a)
      /\ Exposure(a)'.window_used >= Exposure(a).window_used
  <2>1. d \in OpenDraws(a)
    BY <1>5 DEF OpenDraws
  <2>2. m <= Exposure(a).at_risk
    BY <1>1, <1>2, <2>1, SumFacts, OpenFacts DEF BooksOf
  <2>3. /\ Exposure(a).at_risk \in Nat /\ Exposure(a).window_used \in Nat
        /\ Committed(a) <= MaxMinor
    BY <1>1, <1>2, SeenType DEF BooksOf
  <2> QED
    BY <1>2, <1>4, <1>7, <2>2, <2>3, WindowAssumption DEF Committed, SatAdd, SatSub
<1> QED
  BY <1>2, <1>4, <1>7, <1>8 DEF C

\* A released draw gives its amount back.
LEMMA ReleaseSeen ==
  ASSUME Inv, NEW d \in Draw, Release(d)
  PROVE  /\ Committed(offer[d].agent)' <= Committed(offer[d].agent)
         /\ Exposure(offer[d].agent)'.window_used = Exposure(offer[d].agent).window_used
         /\ \A b \in Agent : StillCounted(b)' = StillCounted(b)
         /\ \A b \in Agent \ {offer[d].agent} :
               Exposure(b)' = Exposure(b) /\ Committed(b)' = Committed(b)
<1> DEFINE a == offer[d].agent
           m == offer[d].amount
           new == RecordReleased(windows[a], now, m)
           C == StillCounted(a)
<1>1. TypeOK
  BY DEF Inv
<1>2. a \in Agent /\ m \in Minor /\ m \in Nat
  BY OfferFacts
<1>3. windows[a] \in Window \cup {NoWindow} /\ now \in Nat
  BY <1>1, <1>2, SeenType
<1>4. /\ new \in Window /\ ~ Elapsed(new, now) /\ Snapshot(new, now) = new
      /\ new.at_risk = SatSub(Exposure(a).at_risk, m)
      /\ new.window_used = Exposure(a).window_used
  BY <1>2, <1>3, AfterRelease DEF Exposure
<1>5. /\ now' = now /\ windows' = [windows EXCEPT ![a] = new]
      /\ counted' = [counted EXCEPT ![a] = C]
  BY DEF Release
<1> HIDE DEF new
<1>6. C \in SUBSET Draw
  BY <1>1, <1>2 DEF TypeOK, StillCounted
<1> HIDE DEF C
<1>7. /\ Exposure(a)' = new /\ StillCounted(a)' = C
      /\ \A b \in Agent \ {a} : /\ Exposure(b)' = Exposure(b)
                                /\ StillCounted(b)' = StillCounted(b)
                                /\ Committed(b)' = Committed(b)
  BY <1>1, <1>4, <1>5, <1>6, WriteSeen
<1>8. Committed(a)' <= Committed(a)
  <2>1. Exposure(a).at_risk \in Nat /\ Exposure(a).window_used \in Nat
    BY <1>1, <1>2, SeenType
  <2> QED
    BY <1>2, <1>4, <1>7, <2>1 DEF Committed, SatSub
<1> QED
  BY <1>2, <1>4, <1>7, <1>8 DEF C

\* A refused draw, and a step that changes nothing, leave what is seen alone.
LEMMA NothingSeen ==
  ASSUME UNCHANGED <<now, windows, counted>>, NEW a \in Agent
  PROVE  /\ Exposure(a)' = Exposure(a)
         /\ StillCounted(a)' = StillCounted(a)
         /\ Committed(a)' = Committed(a)
BY OthersSeenAsBefore

-----------------------------------------------------------------------------
(* The two step properties.                                                 *)

\* Only the authorisation of a draw of the agent makes its exposure grow.
LEMMA GrowthStep ==
  ASSUME Inv, [Next]_vars, NEW a \in Agent, Committed(a)' > Committed(a)
  PROVE  \E d \in Draw : /\ offer[d].agent = a
                         /\ status[d] = "new" /\ status'[d] = "open"
                         /\ Committed(a)' <= offer[d].lim_window
<1>1. TypeOK /\ SumIsRepresentable /\ \A b \in Agent : BooksOf(b)
  BY InvByAgent DEF Inv
<1>2. Committed(a) \in Nat
  BY <1>1, SeenType
<1>3. ASSUME NEW d \in Draw, Authorise(d)
      PROVE  /\ offer[d].agent = a
             /\ status[d] = "new" /\ status'[d] = "open"
             /\ Committed(a)' <= offer[d].lim_window
  <2>1. Permitted(d)
    <3>1. CASE ~ Permitted(d)
      <4>1. UNCHANGED <<now, windows, counted>>
        BY <1>3, <3>1 DEF Authorise
      <4> QED
        BY <1>2, <4>1, NothingSeen
    <3> QED
      BY <3>1
  <2>2. offer[d].agent = a /\ Committed(a)' = Committed(a) + offer[d].amount
    BY <1>2, <1>3, <2>1, AuthoriseSeen
  <2>3. Committed(a) + offer[d].amount <= offer[d].lim_window
    BY <1>1, <2>1, <2>2, PermittedFits
  <2>4. status[d] = "new" /\ status'[d] = "open"
    BY <1>1, <1>3, <2>1 DEF Authorise, TypeOK
  <2> QED
    BY <2>2, <2>3, <2>4
<1>4. ASSUME NEW d \in Draw, Settle(d) \/ Release(d)
      PROVE  FALSE
  <2>1. offer[d].agent \in Agent
    BY OfferFacts
  <2>2. Committed(offer[d].agent) \in Nat
    BY <1>1, <2>1, SeenType
  <2>3. CASE Settle(d)
    BY <1>2, <2>2, <2>3, SettleSeen
  <2>4. CASE Release(d)
    <3>1. CASE offer[d].agent = a
      <4>1. Committed(a)' <= Committed(a)
        BY <2>4, <3>1, ReleaseSeen
      <4>2. Exposure(a)'.at_risk \in Nat /\ Exposure(a)'.window_used \in Nat
        <5>1. Inv'
          BY <2>4, ReleaseInv
        <5>2. TypeOK'
          BY <5>1 DEF Inv
        <5>3. /\ windows'[a] \in Window \cup {NoWindow} /\ now' \in Nat
          BY <5>2, LedgerAssumption DEF TypeOK
        <5>4. Snapshot(windows'[a], now') \in Window
          BY <5>3, ReadSideAgrees
        <5> QED
          BY <5>4, WindowAssumption DEF Exposure, Window, Minor
      <4>3. Committed(a)' \in Nat
        BY <4>2 DEF Committed
      <4> QED
        BY <1>2, <4>1, <4>3
    <3>2. CASE offer[d].agent # a
      BY <1>2, <2>4, <3>2, ReleaseSeen
    <3> QED
      BY <3>1, <3>2
  <2> QED
    BY <1>4, <2>3, <2>4
<1>5. CASE Tick
  <2>1. Exposure(a).at_risk \in Nat /\ Exposure(a).window_used \in Nat
    BY <1>1, SeenType
  <2> QED
    BY <1>1, <1>5, <2>1, TickSeen DEF Committed
<1>6. CASE UNCHANGED vars
  BY <1>2, <1>6, NothingSeen DEF vars
<1> QED
  BY <1>3, <1>4, <1>5, <1>6 DEF Next

\* Exposure grows only by an authorised draw and only up to its own limit.
THEOREM GrowthStaysWithinLimit == Spec => GrowsOnlyWithinLimit
<1>1. Inv /\ [Next]_vars =>
        [\A a \in Agent : Committed(a)' > Committed(a) =>
            \E d \in Draw : /\ offer[d].agent = a
                            /\ status[d] = "new" /\ status'[d] = "open"
                            /\ Committed(a)' <= offer[d].lim_window]_vars
  BY GrowthStep
<1> QED
  BY SpecInv, <1>1, PTL DEF Spec, GrowsOnlyWithinLimit

\* What an agent has spent shrinks only when its window ends.
LEMMA SpentStep ==
  ASSUME Inv, [Next]_vars, NEW a \in Agent,
         Exposure(a).window_used' < Exposure(a).window_used
  PROVE  now' - windows[a].window_start > WindowSecs
<1>1. TypeOK /\ \A b \in Agent : BooksOf(b)
  BY InvByAgent DEF Inv
<1>2. Exposure(a).window_used \in Nat
  BY <1>1, SeenType
<1>3. ASSUME NEW d \in Draw, Authorise(d) \/ Settle(d) \/ Release(d)
      PROVE  FALSE
  <2>1. CASE Authorise(d) /\ Permitted(d)
    BY <1>2, <2>1, AuthoriseSeen
  <2>2. CASE Authorise(d) /\ ~ Permitted(d)
    <3>1. UNCHANGED <<now, windows, counted>>
      BY <2>2 DEF Authorise
    <3> QED
      BY <1>2, <3>1, NothingSeen
  <2>3. CASE Settle(d)
    <3>1. CASE offer[d].agent = a
      <4>1. Exposure(a)'.window_used >= Exposure(a).window_used
        BY <2>3, <3>1, SettleSeen
      <4>2. Exposure(a)'.window_used \in Nat
        <5>1. TypeOK'
          BY <2>3, SettleInv DEF Inv
        <5>2. /\ windows'[a] \in Window \cup {NoWindow} /\ now' \in Nat
          BY <5>1, LedgerAssumption DEF TypeOK
        <5>3. Snapshot(windows'[a], now') \in Window
          BY <5>2, ReadSideAgrees
        <5> QED
          BY <5>3, WindowAssumption DEF Exposure, Window, Minor
      <4> QED
        BY <1>2, <4>1, <4>2
    <3>2. CASE offer[d].agent # a
      BY <1>2, <2>3, <3>2, SettleSeen
    <3> QED
      BY <3>1, <3>2
  <2>4. CASE Release(d)
    BY <1>2, <2>4, ReleaseSeen
  <2> QED
    BY <1>3, <2>1, <2>2, <2>3, <2>4
<1>4. CASE UNCHANGED vars
  BY <1>2, <1>4, NothingSeen DEF vars
<1>5. CASE Tick
  <2>1. windows' = windows /\ now' = now + 1
    BY <1>5 DEF Tick
  <2>2. windows[a] \in Window \cup {NoWindow} /\ now \in Nat
    BY <1>1, SeenType
  <2>3. windows[a] # NoWindow
    BY <2>1 DEF Exposure, Snapshot, NewWindow
  <2>4. Elapsed(windows[a], now + 1)
    <3>1. CASE ~ Elapsed(windows[a], now + 1)
      <4>1. ~ Elapsed(windows[a], now)
        BY <2>2, <2>3, <3>1, WindowAssumption DEF Elapsed, Window
      <4> QED
        BY <2>1, <2>3, <3>1, <4>1, <1>2 DEF Exposure, Snapshot
    <3> QED
      BY <3>1
  <2> QED
    BY <2>1, <2>4 DEF Elapsed
<1> QED
  BY <1>3, <1>4, <1>5 DEF Next

\* Settled value is forgotten only at the end of its window.
THEOREM SpentCounts == Spec => SpentCountsForItsWindow
<1>1. Inv /\ [Next]_vars =>
        [\A a \in Agent : Exposure(a).window_used' < Exposure(a).window_used =>
            now' - windows[a].window_start > WindowSecs]_vars
  BY SpentStep
<1> QED
  BY SpecInv, <1>1, PTL DEF Spec, SpentCountsForItsWindow

-----------------------------------------------------------------------------
(* The ledger implements CapacityAccount.                                   *)

\* The phase function that the refinement maps the ledger's state to.
Bar == [d \in Draw |-> PhaseOf(d)]

\* The abstract account adds up the same draws as the concrete counters.
LEMMA AccountAgrees ==
  ASSUME Inv, NEW a \in Agent
  PROVE  Account!Committed(a) = Committed(a)
<1>1. TypeOK /\ CountedOwn /\ BooksOf(a)
  BY InvByAgent
<1>2. Account!Of(a, "open") = OpenDraws(a)
  BY <1>1 DEF Account!Of, OpenDraws, PhaseOf, TypeOK, Status
<1>3. Account!Of(a, "spent") = StillCounted(a)
  <2>1. StillCounted(a) \subseteq
          {d \in Draw : offer[d].agent = a /\ status[d] = "settled"}
    BY <1>1 DEF CountedOwn, StillCounted
  <2> QED
    BY <1>1, <2>1 DEF Account!Of, PhaseOf, TypeOK, Status
<1>4. Account!SumOver(Account!Amount, Draw) = Worth
  BY DEF Account!SumOver, SumOver, Account!Amount, Amount, Worth
<1> QED
  BY <1>1, <1>2, <1>3, <1>4 DEF Account!Committed, BooksOf, Committed

LEMMA AccountInit == Init => Account!Init
BY DEF Init, Account!Init, PhaseOf

\* Phases after a step that changes one draw's status and lets it count or not.
LEMMA PhaseAfter ==
  ASSUME TypeOK, NEW d \in Draw, NEW s \in Status,
         status' = [status EXCEPT ![d] = s],
         \A e \in Draw \ {d} : e \in StillCounted(offer[e].agent)'
                               <=> e \in StillCounted(offer[e].agent)
  PROVE  Bar' = [Bar EXCEPT ![d] = PhaseOf(d)']
<1>1. \A e \in Draw \ {d} : PhaseOf(e)' = PhaseOf(e)
  BY DEF PhaseOf, TypeOK
<1> QED
  BY <1>1 DEF Bar

\* Every step of the ledger is a step of the account, or changes no phase.
LEMMA AccountStep == Inv /\ [Next]_vars => [Account!Next]_Bar
<1> SUFFICES ASSUME Inv, [Next]_vars
             PROVE  Account!Next \/ UNCHANGED Bar
  OBVIOUS
<1>1. TypeOK /\ CountedOwn /\ SumIsRepresentable
  BY DEF Inv
<1>2. \A e \in Draw : Bar[e] = PhaseOf(e) /\ offer[e].agent \in Agent
  BY OfferFacts DEF Bar
<1>3. ASSUME NEW d \in Draw, Authorise(d), Permitted(d)
      PROVE  Account!Reserve(d)
  <2>1. \A b \in Agent : StillCounted(b)' = StillCounted(b)
    BY <1>3, AuthoriseSeen
  <2>2. /\ status[d] = "new" /\ status' = [status EXCEPT ![d] = "open"]
        /\ "open" \in Status
    BY <1>3 DEF Authorise, Status
  <2>3. PhaseOf(d)' = "open" /\ PhaseOf(d) = "new"
    BY <1>1, <2>2 DEF PhaseOf, TypeOK
  <2>4. Bar' = [Bar EXCEPT ![d] = "open"]
    BY <1>1, <1>2, <2>1, <2>2, <2>3, PhaseAfter
  <2>5. /\ offer[d].amount <= offer[d].lim_single
        /\ Account!Committed(offer[d].agent) + offer[d].amount <= offer[d].lim_window
    BY <1>1, <1>2, <1>3, PermittedFits, AccountAgrees
  <2> QED
    BY <2>3, <2>4, <2>5 DEF Account!Reserve, Bar
<1>4. ASSUME NEW d \in Draw, Authorise(d), ~ Permitted(d)
      PROVE  Account!Refuse(d)
  <2>1. /\ status[d] = "new" /\ status' = [status EXCEPT ![d] = "refused"]
        /\ UNCHANGED <<now, windows, counted>> /\ "refused" \in Status
    BY <1>4 DEF Authorise, Status
  <2>2. \A b \in Agent : StillCounted(b)' = StillCounted(b)
    BY <2>1, NothingSeen
  <2>3. PhaseOf(d)' = "refused" /\ PhaseOf(d) = "new"
    BY <1>1, <2>1 DEF PhaseOf, TypeOK
  <2>4. Bar' = [Bar EXCEPT ![d] = "refused"]
    BY <1>1, <1>2, <2>1, <2>2, <2>3, PhaseAfter
  <2> QED
    BY <2>3, <2>4 DEF Account!Refuse, Bar
<1>5. ASSUME NEW d \in Draw, Settle(d)
      PROVE  Account!Settle(d)
  <2>1. /\ StillCounted(offer[d].agent)' = StillCounted(offer[d].agent) \cup {d}
        /\ \A b \in Agent \ {offer[d].agent} : StillCounted(b)' = StillCounted(b)
    BY <1>5, SettleSeen
  <2>2. /\ status[d] = "open" /\ status' = [status EXCEPT ![d] = "settled"]
        /\ "settled" \in Status
    BY <1>5 DEF Settle, Status
  <2>3. PhaseOf(d)' = "spent" /\ PhaseOf(d) = "open"
    BY <1>1, <2>1, <2>2 DEF PhaseOf, TypeOK
  <2>4. Bar' = [Bar EXCEPT ![d] = "spent"]
    <3>1. \A e \in Draw \ {d} : e \in StillCounted(offer[e].agent)'
                                <=> e \in StillCounted(offer[e].agent)
      BY <1>2, <2>1
    <3> QED
      BY <1>1, <2>2, <2>3, <3>1, PhaseAfter
  <2> QED
    BY <2>3, <2>4 DEF Account!Settle, Bar
<1>6. ASSUME NEW d \in Draw, Release(d)
      PROVE  Account!Release(d)
  <2>1. \A b \in Agent : StillCounted(b)' = StillCounted(b)
    BY <1>6, ReleaseSeen
  <2>2. /\ status[d] = "open" /\ status' = [status EXCEPT ![d] = "released"]
        /\ "released" \in Status
    BY <1>6 DEF Release, Status
  <2>3. PhaseOf(d)' = "released" /\ PhaseOf(d) = "open"
    BY <1>1, <2>2 DEF PhaseOf, TypeOK
  <2>4. Bar' = [Bar EXCEPT ![d] = "released"]
    BY <1>1, <1>2, <2>1, <2>2, <2>3, PhaseAfter
  <2> QED
    BY <2>3, <2>4 DEF Account!Release, Bar
<1>7. CASE Tick
  <2> DEFINE S == {a \in Agent : StillCounted(a)' # StillCounted(a)}
  <2>1. status' = status
    BY <1>7 DEF Tick
  <2>2. \A a \in Agent : StillCounted(a)' \in {{}, StillCounted(a)}
    BY <1>1, <1>7, TickSeen, InvByAgent
  <2>3. ASSUME NEW e \in Draw
        PROVE  PhaseOf(e)' = IF offer[e].agent \in S /\ PhaseOf(e) = "spent"
                             THEN "aged" ELSE PhaseOf(e)
    <3>1. offer[e].agent \in Agent
      BY <1>2
    <3>2. CASE offer[e].agent \in S
      <4>1. StillCounted(offer[e].agent)' = {}
        BY <2>2, <3>1, <3>2
      <4> QED
        BY <1>1, <2>1, <3>2, <4>1 DEF PhaseOf, TypeOK, Status
    <3>3. CASE offer[e].agent \notin S
      BY <2>1, <3>1, <3>3 DEF PhaseOf
    <3> QED
      BY <3>2, <3>3
  <2>4. S \in SUBSET Agent
    OBVIOUS
  <2> HIDE DEF S
  <2>5. Account!Roll(S)
    BY <1>2, <2>3 DEF Account!Roll, Bar
  <2> QED
    BY <2>4, <2>5 DEF Account!Next
<1>8. CASE UNCHANGED vars
  <2>1. UNCHANGED <<now, windows, counted, status>>
    BY <1>8 DEF vars
  <2>2. \A e \in Draw : PhaseOf(e)' = PhaseOf(e)
    BY <1>2, <2>1, NothingSeen DEF PhaseOf
  <2> QED
    BY <2>2 DEF Bar
<1> QED
  BY <1>3, <1>4, <1>5, <1>6, <1>7, <1>8 DEF Next, Account!Next

\* The counters, the clamps, the lazy roll and the unsigned arithmetic keep
\* the promise of CapacityAccount, which has none of them.
THEOREM ImplementsAccount == Spec => AccountSpec
<1>1. Inv /\ [Next]_vars => [Account!Next]_[d \in Draw |-> PhaseOf(d)]
  BY AccountStep DEF Bar
<1> QED
  BY SpecInv, AccountInit, <1>1, PTL DEF Spec, AccountSpec, Account!Spec
-----------------------------------------------------------------------------
(***************************************************************************)
(* Then the receipts: what their endpoints guarantee, for any agents,      *)
(* receipts, batches and pages, whatever calls fail and handlers are       *)
(* dropped, and however often the gateway restarts, with its store or not. *)
(*                                                                         *)
(* StepInv says where everything stands; the flush's account is part of    *)
(* it.  KeptInv says that no receipt is in the batcher twice, which the    *)
(* audit of memory needs to count what it shows; AuditInv says that what   *)
(* an auditor saw is what it was owed up to its cursor.                    *)
(***************************************************************************)

\* Where a handler stands tells which body it serves, and what it has left to do.
PlaceInv ==
    \A r \in Request :
        /\ pc[r] = "add" => req[r].kind = "create" /\ todo[r].left # <<>>
        /\ pc[r] \in {"persist", "assign"} =>
              /\ req[r].kind # "audit"
              /\ todo[r].batch \in Batches /\ todo[r].left # <<>>
        /\ pc[r] = "page" => req[r].kind = "audit"

JobInv ==
    /\ job.at # "asleep" => job.batch \in Batches
    /\ job.at = "reconnect" => job.tries # 0

\* What the flush still owes is written, or left to write.
FlushInv ==
    /\ phase = "up" => closing.left = {} /\ closing.owed = {}
    /\ phase = "flush" => closing.left # {} /\ closing.owed \subseteq roots \cup closing.left
    /\ phase = "draining" => closing.owed \subseteq roots

StepInv == ReceiptsTypeOK /\ PlaceInv /\ JobInv /\ FlushInv

-----------------------------------------------------------------------------
\* What a request says.
LEMMA Bodies ==
    ASSUME NEW r \in Request
    PROVE  /\ req[r].kind \in {"create", "seal", "audit"}
           /\ req[r].kind = "create" => req[r].agent \in Subject
           /\ req[r].kind = "audit" => /\ req[r].agent \in Subject \cup {AnyAgent}
                                       /\ req[r].limit \in Nat \ {0}
<1>1. CASE req[r] \in CreateBody
  BY <1>1 DEF CreateBody
<1>2. CASE req[r] \in SealBody
  BY <1>2 DEF SealBody
<1>3. CASE req[r] \in AuditBody
  BY <1>3 DEF AuditBody
<1>4. req[r] \in CreateBody \cup SealBody \cup AuditBody
  BY ReceiptsAssumption
<1> QED
  BY <1>1, <1>2, <1>3, <1>4

\* A finite set of numbers has a bound.
LEMMA FiniteIsBounded ==
    ASSUME NEW T \in SUBSET Nat, IsFiniteSet(T)
    PROVE  \E n \in Nat : \A i \in T : i <= n
<1> DEFINE Unbounded == {U \in SUBSET T : ~ \E n \in Nat : \A i \in U : i <= n}
<1> SUFFICES ASSUME Unbounded # {} PROVE FALSE
  OBVIOUS
<1>1. PICK U \in Unbounded : \A i \in U : U \ {i} \notin Unbounded
  <2>1. Unbounded \in SUBSET SUBSET T
    OBVIOUS
  <2> HIDE DEF Unbounded
  <2> QED
    BY <2>1, SmallestSet
<1>2. PICK i \in U : TRUE
  BY <1>1
<1>3. i \in Nat /\ U \ {i} \in SUBSET T
  BY <1>1
<1>4. PICK n \in Nat : \A j \in U \ {i} : j <= n
  BY <1>1, <1>2, <1>3
<1>5. \A j \in U : j <= n + i
  <2> TAKE j \in U
  <2>1. j \in Nat
    BY <1>1
  <2> QED
    BY <1>3, <1>4, <2>1
<1>6. n + i \in Nat
  BY <1>3
<1> QED
  BY <1>1, <1>5, <1>6

\* The largest of a finite set of numbers is one of them.
LEMMA MaxFacts ==
    ASSUME NEW T \in SUBSET Nat, IsFiniteSet(T), T # {}
    PROVE  Max(T) \in T /\ \A i \in T : i <= Max(T)
<1>1. PICK n \in Nat : \A i \in T : i <= n
  BY FiniteIsBounded
<1> DEFINE Gaps == {d \in 0 .. n : n - d \in T}
<1>2. PICK i \in T : TRUE
  OBVIOUS
<1>3. Gaps \in SUBSET Nat /\ n - i \in Gaps
  BY <1>1
<1>4. PICK d \in Gaps : \A e \in Gaps : d <= e
  <2> HIDE DEF Gaps
  <2> QED
    BY <1>3, LeastNumber
<1>5. n - d \in T
  BY <1>4
<1>6. \A j \in T : n - d >= j
  <2> TAKE j \in T
  <2>1. j \in Nat /\ j <= n
    BY <1>1
  <2>2. n - j \in Gaps
    BY <2>1
  <2>3. d <= n - j /\ d \in Nat
    BY <1>3, <1>4, <2>2
  <2> QED
    BY <2>1, <2>3
<1>7. \E x \in T : \A y \in T : x >= y
  BY <1>5, <1>6
<1>8. Max(T) \in T /\ \A y \in T : Max(T) >= y
  BY <1>7 DEF Max
<1> QED
  BY <1>8

\* The smallest of a set of numbers is one of them.
LEMMA MinFacts ==
    ASSUME NEW T \in SUBSET Nat, T # {}
    PROVE  Min(T) \in T
<1>1. \E x \in T : \A y \in T : x <= y
  BY LeastNumber
<1> QED
  BY <1>1 DEF Min

LEMMA StepInit == ASSUME ReceiptsInit PROVE StepInv
BY DEF ReceiptsInit, StepInv, ReceiptsTypeOK, PlaceInv, JobInv, FlushInv, Nothing, Idle, Unopened, Batches,
       InFlight, Attempts

\* A new batch is the next one.
LEMMA AfterSeal ==
    ASSUME ReceiptsTypeOK, NEW receipts \in Seq(Receipt), Seal(receipts)
    PROVE  /\ pending' \in Seq(Receipt) /\ content' \in Seq(Seq(Receipt))
           /\ sealed' \subseteq Batches' /\ Batches \subseteq Batches'
           /\ Len(content) + 1 \in Batches' /\ Len(content) + 1 \in Nat
<1>1. /\ content' = Append(content, receipts) /\ content \in Seq(Seq(Receipt))
      /\ sealed \subseteq Batches /\ sealed' = sealed \cup {Len(content) + 1}
  BY DEF Seal, ReceiptsTypeOK
<1>2. Len(content') = Len(content) + 1 /\ Len(content) \in Nat
  BY <1>1
<1>3. Batches \subseteq Batches' /\ Len(content) + 1 \in Batches'
  BY <1>2 DEF Batches
<1> QED
  BY <1>1, <1>2, <1>3 DEF Seal

\* A handler goes on, or answers.
LEMMA AfterMove ==
    ASSUME ReceiptsTypeOK, NEW r \in Request,
           \/ \E where \in InFlight \cup {"page"} : Goto(r, where)
           \/ \E what \in {"ok", "error", "no_reply"} : Reply(r, what)
    PROVE  /\ pc' \in [Request -> InFlight \cup {"idle", "page", "done", "dropped"}]
           /\ answer' \in [Request -> {"none", "ok", "error", "no_reply"}]
           /\ \A q \in Request : q # r => pc'[q] = pc[q] /\ answer'[q] = answer[q]
<1>1. CASE \E where \in InFlight \cup {"page"} : Goto(r, where)
  BY <1>1 DEF ReceiptsTypeOK, Goto
<1>2. CASE \E what \in {"ok", "error", "no_reply"} : Reply(r, what)
  BY <1>2 DEF ReceiptsTypeOK, Reply
<1> QED
  BY <1>1, <1>2

LEMMA CreateStep == ASSUME StepInv, NEW r \in Request, CreateRow(r) PROVE StepInv'
<1>1. PICK i \in Receipt :
        /\ owner' = [owner EXCEPT ![i] = req[r].agent]
        /\ todo' = [todo EXCEPT ![r] = [batch |-> 0, left |-> <<i>>]]
        /\ rows' \in {rows, [rows EXCEPT ![i] = Unbatched]}
        /\ \/ Goto(r, "add") /\ UNCHANGED faults
           \/ Fault /\ Reply(r, "error")
  BY DEF CreateRow
<1>2. /\ req[r].kind = "create" /\ pc[r] = "idle" /\ req[r].agent \in Subject
      /\ UNCHANGED <<phase, store, batcher, roots, anchored, job, closing, walk, restarts>>
  BY Bodies DEF CreateRow, Arrive
<1>3. ReceiptsTypeOK'
  <2>1. rows' \in [Receipt -> Nat \cup {NoRow, Unbatched}]
    BY <1>1 DEF StepInv, ReceiptsTypeOK
  <2>2. owner' \in [Receipt -> Subject \cup {AnyAgent}]
    BY <1>1, <1>2 DEF StepInv, ReceiptsTypeOK
  <2>3. todo' \in [Request -> [batch : Nat, left : Seq(Receipt)]]
    <3>1. [batch |-> 0, left |-> <<i>>] \in [batch : Nat, left : Seq(Receipt)]
      BY <1>1
    <3> QED
      BY <1>1, <3>1 DEF StepInv, ReceiptsTypeOK
  <2>4. /\ pc' \in [Request -> InFlight \cup {"idle", "page", "done", "dropped"}]
        /\ answer' \in [Request -> {"none", "ok", "error", "no_reply"}]
    BY <1>1, AfterMove DEF StepInv, InFlight
  <2>6. faults' \in Nat
    BY <1>1 DEF StepInv, ReceiptsTypeOK, Fault
  <2>5. /\ phase' = phase /\ store' = store /\ pending' = pending /\ sealed' = sealed
        /\ content' = content /\ roots' = roots /\ anchored' = anchored /\ job' = job
        /\ closing' = closing /\ walk' = walk /\ restarts' = restarts
        /\ Batches' = Batches
    BY <1>2 DEF batcher, Batches
  <2> QED
    BY <2>1, <2>2, <2>3, <2>4, <2>5, <2>6, Zenon DEF StepInv, ReceiptsTypeOK
<1>4. PlaceInv'
  BY <1>1, <1>2 DEF StepInv, ReceiptsTypeOK, PlaceInv, Goto, Reply, Fault, InFlight, batcher,
     Batches
<1>5. JobInv' /\ FlushInv'
  BY <1>2 DEF StepInv, JobInv, FlushInv, batcher, Batches
<1> QED
  BY <1>3, <1>4, <1>5 DEF StepInv

\* A handler that has sealed goes on to persist, or has answered.
LEMMA AfterPersist ==
    ASSUME StepInv, NEW r \in Request, req[r].kind # "audit",
           NEW receipts \in Seq(Receipt), receipts # <<>>, Seal(receipts), Persist(r, receipts)
    PROVE  /\ todo' \in [Request -> [batch : Nat, left : Seq(Receipt)]]
           /\ pc' \in [Request -> InFlight \cup {"idle", "page", "done", "dropped"}]
           /\ answer' \in [Request -> {"none", "ok", "error", "no_reply"}]
           /\ PlaceInv'
<1>1. /\ Batches \subseteq Batches' /\ Len(content) + 1 \in Batches' /\ Len(content) + 1 \in Nat
  BY AfterSeal DEF StepInv
<1>2. CASE store
  <2>1. /\ todo' = [todo EXCEPT ![r] = [batch |-> Len(content) + 1, left |-> receipts]]
        /\ Goto(r, "persist")
    BY <1>2 DEF Persist
  <2>2. [batch |-> Len(content) + 1, left |-> receipts] \in [batch : Nat, left : Seq(Receipt)]
    BY <1>1
  <2>3. todo' \in [Request -> [batch : Nat, left : Seq(Receipt)]]
    BY <2>1, <2>2 DEF StepInv, ReceiptsTypeOK
  <2>4. /\ pc' \in [Request -> InFlight \cup {"idle", "page", "done", "dropped"}]
        /\ answer' \in [Request -> {"none", "ok", "error", "no_reply"}]
    BY <2>1, AfterMove DEF StepInv, InFlight
  <2>5. PlaceInv'
    BY <1>1, <2>1 DEF StepInv, ReceiptsTypeOK, PlaceInv, Goto
  <2> QED
    BY <2>3, <2>4, <2>5
<1>3. CASE ~store
  <2>1. Reply(r, "ok") /\ todo' = todo
    BY <1>3 DEF Persist
  <2>2. /\ pc' \in [Request -> InFlight \cup {"idle", "page", "done", "dropped"}]
        /\ answer' \in [Request -> {"none", "ok", "error", "no_reply"}]
    BY <2>1, AfterMove DEF StepInv
  <2>3. PlaceInv'
    BY <1>1, <2>1 DEF StepInv, ReceiptsTypeOK, PlaceInv, Reply
  <2> QED
    BY <2>1, <2>2, <2>3 DEF StepInv, ReceiptsTypeOK
<1> QED
  BY <1>2, <1>3

\* What stays as it was but for the batches that there are.
LEMMA MoreBatches ==
    ASSUME StepInv, Batches \subseteq Batches',
           UNCHANGED <<phase, roots, anchored, job, closing>>
    PROVE  /\ roots' \subseteq Batches' /\ anchored' \subseteq Batches'
           /\ closing' \in [left : SUBSET Batches', owed : SUBSET Batches']
           /\ JobInv' /\ FlushInv'
<1>1. /\ phase' = phase /\ roots' = roots /\ anchored' = anchored /\ job' = job
      /\ closing' = closing
  OBVIOUS
<1>2. roots' \subseteq Batches' /\ anchored' \subseteq Batches'
  BY <1>1 DEF StepInv, ReceiptsTypeOK
<1>3. closing' \in [left : SUBSET Batches', owed : SUBSET Batches']
  BY <1>1 DEF StepInv, ReceiptsTypeOK
<1>4. JobInv' /\ FlushInv'
  BY <1>1 DEF StepInv, JobInv, FlushInv
<1> QED
  BY <1>2, <1>3, <1>4

LEMMA AddStep == ASSUME StepInv, NEW r \in Request, AddReceipt(r) PROVE StepInv'
<1> DEFINE receipts == Append(pending, Head(todo[r].left))
<1>1. /\ req[r].kind = "create" /\ pc[r] = "add" /\ todo[r].left # <<>>
      /\ UNCHANGED <<phase, store, rows, roots, anchored, owner, job, closing, walk, faults,
                     restarts>>
  BY DEF AddReceipt, Resume, tables, StepInv, PlaceInv
<1>2. receipts \in Seq(Receipt) /\ receipts # <<>>
  <2>1. todo[r].left \in Seq(Receipt) /\ pending \in Seq(Receipt)
    BY DEF StepInv, ReceiptsTypeOK
  <2>2. Head(todo[r].left) \in Receipt
    BY <1>1, <2>1
  <2>3. receipts \in Seq(Receipt) /\ Len(receipts) = Len(pending) + 1 /\ Len(pending) \in Nat
    BY <2>1, <2>2
  <2> QED
    BY <2>3
<1>3. CASE Seal(receipts) /\ Persist(r, receipts)
  <2> HIDE DEF receipts
  <2>1. /\ todo' \in [Request -> [batch : Nat, left : Seq(Receipt)]]
        /\ pc' \in [Request -> InFlight \cup {"idle", "page", "done", "dropped"}]
        /\ answer' \in [Request -> {"none", "ok", "error", "no_reply"}]
        /\ PlaceInv'
    BY <1>1, <1>2, <1>3, AfterPersist
  <2>2. /\ pending' \in Seq(Receipt) /\ content' \in Seq(Seq(Receipt))
        /\ sealed' \subseteq Batches' /\ Batches \subseteq Batches'
    BY <1>2, <1>3, AfterSeal DEF StepInv
  <2>3. /\ roots' \subseteq Batches' /\ anchored' \subseteq Batches'
        /\ closing' \in [left : SUBSET Batches', owed : SUBSET Batches']
        /\ JobInv' /\ FlushInv'
    BY <1>1, <2>2, MoreBatches
  <2>4. /\ phase' = phase /\ store' = store /\ rows' = rows /\ owner' = owner /\ job' = job
        /\ walk' = walk /\ faults' = faults /\ restarts' = restarts
    BY <1>1
  <2>5. ReceiptsTypeOK'
    BY <2>1, <2>2, <2>3, <2>4, Zenon DEF StepInv, ReceiptsTypeOK
  <2> QED
    BY <2>1, <2>3, <2>5 DEF StepInv
<1>4. CASE /\ pending' = receipts /\ Reply(r, "ok")
           /\ UNCHANGED <<sealed, content, todo>>
  <2>1. /\ phase' = phase /\ store' = store /\ rows' = rows /\ owner' = owner /\ job' = job
        /\ walk' = walk /\ faults' = faults /\ restarts' = restarts /\ sealed' = sealed
        /\ content' = content /\ todo' = todo /\ roots' = roots /\ anchored' = anchored
        /\ closing' = closing /\ Batches' = Batches
    BY <1>1, <1>4 DEF Batches
  <2>2. /\ pc' \in [Request -> InFlight \cup {"idle", "page", "done", "dropped"}]
        /\ answer' \in [Request -> {"none", "ok", "error", "no_reply"}]
    BY <1>4, AfterMove DEF StepInv
  <2>3. pending' \in Seq(Receipt)
    BY <1>2, <1>4
  <2>4. ReceiptsTypeOK'
    BY <2>1, <2>2, <2>3, Zenon DEF StepInv, ReceiptsTypeOK
  <2>5. PlaceInv'
    BY <1>4, <2>1 DEF StepInv, ReceiptsTypeOK, PlaceInv, Reply
  <2>6. JobInv' /\ FlushInv'
    BY <2>1 DEF StepInv, JobInv, FlushInv
  <2> QED
    BY <2>4, <2>5, <2>6 DEF StepInv
<1> QED
  BY <1>3, <1>4 DEF AddReceipt

LEMMA PersistStep == ASSUME StepInv, NEW r \in Request, PersistBatch(r) PROVE StepInv'
<1>1. /\ pc[r] = "persist" /\ todo[r].batch \in Batches /\ req[r].kind # "audit"
      /\ todo[r].left # <<>>
      /\ roots \subseteq roots' /\ roots' \subseteq roots \cup {todo[r].batch}
      /\ faults' \in Nat /\ Goto(r, "assign")
  BY DEF PersistBatch, Resume, StepInv, PlaceInv, ReceiptsTypeOK, Fault
<1>2. /\ phase' = phase /\ store' = store /\ rows' = rows /\ owner' = owner /\ job' = job
      /\ walk' = walk /\ restarts' = restarts /\ sealed' = sealed /\ pending' = pending
      /\ content' = content /\ todo' = todo /\ anchored' = anchored
      /\ closing' = closing /\ Batches' = Batches
  BY DEF PersistBatch, batcher, Batches
<1>3. /\ pc' \in [Request -> InFlight \cup {"idle", "page", "done", "dropped"}]
      /\ answer' \in [Request -> {"none", "ok", "error", "no_reply"}]
  BY <1>1, AfterMove DEF StepInv, InFlight
<1>4. roots' \subseteq Batches'
  BY <1>1, <1>2 DEF StepInv, ReceiptsTypeOK
<1>5. ReceiptsTypeOK'
  BY <1>1, <1>2, <1>3, <1>4, Zenon DEF StepInv, ReceiptsTypeOK
<1>6. PlaceInv'
  BY <1>1, <1>2 DEF StepInv, ReceiptsTypeOK, PlaceInv, Goto
<1>7. JobInv' /\ FlushInv'
  BY <1>1, <1>2 DEF StepInv, JobInv, FlushInv
<1> QED
  BY <1>5, <1>6, <1>7 DEF StepInv

LEMMA AssignStep == ASSUME StepInv, NEW r \in Request, Assign(r) PROVE StepInv'
<1> DEFINE left == todo[r].left
           b == todo[r].batch
           i == Head(left)
<1>1. /\ pc[r] = "assign" /\ b \in Batches /\ req[r].kind # "audit"
      /\ left \in Seq(Receipt) /\ left # <<>> /\ b \in Nat /\ i \in Receipt
  <2>1. /\ pc[r] = "assign" /\ b \in Batches /\ req[r].kind # "audit"
        /\ left \in Seq(Receipt) /\ left # <<>> /\ b \in Nat
    BY DEF Assign, Resume, StepInv, PlaceInv, ReceiptsTypeOK
  <2> QED
    BY <2>1
<1>2. rows' \in {rows, [rows EXCEPT ![i] = b]} /\ faults' \in Nat
  BY DEF Assign, Fault, StepInv, ReceiptsTypeOK
<1>3. /\ todo' = [todo EXCEPT ![r] = [batch |-> b, left |-> Tail(left)]]
      /\ IF Len(left) = 1 THEN Reply(r, "ok") ELSE UNCHANGED <<pc, answer>>
  <2>1. todo[r] = [batch |-> b, left |-> left] /\ todo \in [Request -> [batch : Nat, left : Seq(Receipt)]]
    BY DEF StepInv, ReceiptsTypeOK
  <2>2. todo' = [todo EXCEPT ![r].left = Tail(@)]
    BY DEF Assign
  <2> QED
    BY <2>1, <2>2 DEF Assign
<1>4. /\ phase' = phase /\ store' = store /\ roots' = roots /\ owner' = owner /\ job' = job
      /\ walk' = walk /\ restarts' = restarts /\ sealed' = sealed /\ pending' = pending
      /\ content' = content /\ anchored' = anchored /\ closing' = closing
      /\ Batches' = Batches
  BY DEF Assign, batcher, Batches
<1>5. Tail(left) \in Seq(Receipt) /\ (Len(left) # 1 => Tail(left) # <<>>)
  <2>1. left \in Seq(Receipt) /\ left # <<>>
    BY <1>1
  <2> HIDE DEF left
  <2>2. Tail(left) \in Seq(Receipt) /\ Len(Tail(left)) = Len(left) - 1 /\ Len(left) \in Nat
    BY <2>1
  <2>3. Tail(left) = <<>> => Len(left) - 1 = 0
    BY <2>2
  <2> QED
    BY <2>2, <2>3
<1>6. todo' \in [Request -> [batch : Nat, left : Seq(Receipt)]]
  <2>1. [batch |-> b, left |-> Tail(left)] \in [batch : Nat, left : Seq(Receipt)]
    BY <1>1, <1>5
  <2> QED
    BY <1>3, <2>1 DEF StepInv, ReceiptsTypeOK
<1>7. rows' \in [Receipt -> Nat \cup {NoRow, Unbatched}]
  <2>1. rows \in [Receipt -> Nat \cup {NoRow, Unbatched}]
    BY DEF StepInv, ReceiptsTypeOK
  <2> HIDE DEF left, b, i
  <2> QED
    BY <1>1, <1>2, <2>1
<1>8. /\ pc' \in [Request -> InFlight \cup {"idle", "page", "done", "dropped"}]
      /\ answer' \in [Request -> {"none", "ok", "error", "no_reply"}]
  <2>1. CASE Len(left) = 1
    BY <1>3, <2>1, AfterMove DEF StepInv
  <2>2. CASE Len(left) # 1
    BY <1>3, <2>2 DEF StepInv, ReceiptsTypeOK
  <2> QED
    BY <2>1, <2>2
<1>9. ReceiptsTypeOK'
  BY <1>2, <1>4, <1>6, <1>7, <1>8, Zenon DEF StepInv, ReceiptsTypeOK
<1>10. PlaceInv'
  <2> SUFFICES ASSUME NEW q \in Request
               PROVE  /\ pc'[q] = "add" => req[q].kind = "create" /\ todo'[q].left # <<>>
                      /\ pc'[q] \in {"persist", "assign"} =>
                          /\ req[q].kind # "audit"
                          /\ todo'[q].batch \in Batches' /\ todo'[q].left # <<>>
                      /\ pc'[q] = "page" => req[q].kind = "audit"
    BY DEF PlaceInv
  <2>1. CASE q # r
    <3>1. todo'[q] = todo[q] /\ pc'[q] = pc[q]
      BY <1>3, <2>1 DEF StepInv, ReceiptsTypeOK, Reply
    <3> QED
      BY <1>4, <3>1 DEF StepInv, PlaceInv
  <2>2. CASE q = r /\ Len(left) = 1
    <3>1. pc'[q] = "done"
      BY <1>3, <2>2 DEF StepInv, ReceiptsTypeOK, Reply
    <3> QED
      BY <3>1
  <2>3. CASE q = r /\ Len(left) # 1
    <3>1. pc'[q] = "assign" /\ todo'[q].batch = b /\ todo'[q].left = Tail(left)
      BY <1>1, <1>3, <2>3 DEF StepInv, ReceiptsTypeOK
    <3> QED
      BY <1>1, <1>4, <1>5, <2>3, <3>1
  <2> QED
    BY <2>1, <2>2, <2>3
<1>11. JobInv' /\ FlushInv'
  BY <1>4 DEF StepInv, JobInv, FlushInv
<1> QED
  BY <1>9, <1>10, <1>11 DEF StepInv

LEMMA SealStep == ASSUME StepInv, NEW r \in Request, ForceSeal(r) PROVE StepInv'
<1>1. /\ req[r].kind = "seal" /\ pending \in Seq(Receipt)
      /\ UNCHANGED <<phase, store, rows, roots, anchored, owner, job, closing, walk, faults,
                     restarts>>
  BY DEF ForceSeal, tables, StepInv, ReceiptsTypeOK
<1>2. /\ phase' = phase /\ store' = store /\ rows' = rows /\ owner' = owner /\ job' = job
      /\ walk' = walk /\ faults' = faults /\ restarts' = restarts
  BY <1>1
<1>3. CASE pending # <<>> /\ Seal(pending) /\ Persist(r, pending)
  <2>1. /\ todo' \in [Request -> [batch : Nat, left : Seq(Receipt)]]
        /\ pc' \in [Request -> InFlight \cup {"idle", "page", "done", "dropped"}]
        /\ answer' \in [Request -> {"none", "ok", "error", "no_reply"}]
        /\ PlaceInv'
    BY <1>1, <1>3, AfterPersist
  <2>2. /\ pending' \in Seq(Receipt) /\ content' \in Seq(Seq(Receipt))
        /\ sealed' \subseteq Batches' /\ Batches \subseteq Batches'
    BY <1>1, <1>3, AfterSeal DEF StepInv
  <2>3. /\ roots' \subseteq Batches' /\ anchored' \subseteq Batches'
        /\ closing' \in [left : SUBSET Batches', owed : SUBSET Batches']
        /\ JobInv' /\ FlushInv'
    BY <1>1, <2>2, MoreBatches
  <2>4. ReceiptsTypeOK'
    BY <1>2, <2>1, <2>2, <2>3, Zenon DEF StepInv, ReceiptsTypeOK
  <2> QED
    BY <2>1, <2>3, <2>4 DEF StepInv
<1>4. CASE Reply(r, "no_reply") /\ UNCHANGED <<batcher, todo>>
  <2>1. /\ sealed' = sealed /\ pending' = pending /\ content' = content /\ todo' = todo
        /\ roots' = roots /\ anchored' = anchored /\ closing' = closing
        /\ Batches' = Batches
    BY <1>1, <1>4 DEF Batches, batcher
  <2>2. /\ pc' \in [Request -> InFlight \cup {"idle", "page", "done", "dropped"}]
        /\ answer' \in [Request -> {"none", "ok", "error", "no_reply"}]
    BY <1>4, AfterMove DEF StepInv
  <2>3. ReceiptsTypeOK'
    BY <1>2, <2>1, <2>2, Zenon DEF StepInv, ReceiptsTypeOK
  <2>4. PlaceInv'
    BY <1>4, <2>1 DEF StepInv, ReceiptsTypeOK, PlaceInv, Reply
  <2>5. JobInv' /\ FlushInv'
    BY <1>2, <2>1 DEF StepInv, JobInv, FlushInv
  <2> QED
    BY <2>3, <2>4, <2>5 DEF StepInv
<1> QED
  BY <1>3, <1>4 DEF ForceSeal

\* A page is some of the rows.
LEMMA PageFacts ==
    ASSUME NEW agent, NEW after, NEW limit, NEW page, page = Listed(agent, after, limit)
    PROVE  /\ page \subseteq Receipt /\ page \subseteq Nat /\ IsFiniteSet(page)
           /\ Cardinality(page) \in Nat
           /\ page # {} => Max(page) \in page /\ \A i \in page : i <= Max(page)
<1>1. page \subseteq Receipt
  BY DEF Listed, First, Stored
<1>2. IsFiniteSet(Receipt) /\ Receipt \subseteq Nat
  BY ReceiptsAssumption, FS_Interval DEF Receipt
<1>3. page \subseteq Nat /\ IsFiniteSet(page) /\ Cardinality(page) \in Nat
  BY <1>1, <1>2, FS_Subset, FS_CardinalityType
<1> QED
  BY <1>1, <1>3, MaxFacts

\* The places that memory holds, and what is at them.
LEMMA MemoryFacts ==
    ASSUME ReceiptsTypeOK, NEW q
    PROVE  /\ IsFiniteSet(Sealed(q)) /\ IsFiniteSet(Loose(q)) /\ Loose(q) \subseteq Nat
           /\ \A p \in Sealed(q) : /\ p[1] \in sealed /\ p[1] \in Batches
                                   /\ p[2] \in DOMAIN content[p[1]]
                                   /\ p = <<p[1], p[2]>> /\ p[1] \in Nat /\ p[2] \in Nat
                                   /\ content[p[1]][p[2]] \in Receipt
           /\ \A k \in Loose(q) : k \in DOMAIN pending /\ pending[k] \in Receipt
<1>1. /\ content \in Seq(Seq(Receipt)) /\ pending \in Seq(Receipt) /\ sealed \subseteq Batches
      /\ Len(content) \in Nat /\ Len(pending) \in Nat
  BY DEF ReceiptsTypeOK
<1>2. \A b \in Batches : /\ content[b] \in Seq(Receipt) /\ Len(content[b]) \in Nat
                         /\ DOMAIN content[b] = 1 .. Len(content[b]) /\ b \in Nat
  BY <1>1 DEF Batches
<1>3. IsFiniteSet(Loose(q)) /\ Loose(q) \subseteq Nat
  <2>1. Loose(q) \subseteq 1 .. Len(pending)
    BY <1>1 DEF Loose
  <2>2. IsFiniteSet(1 .. Len(pending))
    BY <1>1, FS_Interval
  <2> QED
    BY <2>1, <2>2, FS_Subset
<1>4. \A k \in Loose(q) : k \in DOMAIN pending /\ pending[k] \in Receipt
  BY <1>1 DEF Loose
<1> DEFINE asked == {b \in sealed : q.batch \in {AnyBatch, b}}
           rowsOf == {{b} \X DOMAIN content[b] : b \in asked}
<1>5. \A p \in Sealed(q) : \E b \in asked : p \in {b} \X DOMAIN content[b]
  BY DEF Sealed
<1>6. ASSUME NEW p \in Sealed(q)
      PROVE  /\ p[1] \in sealed /\ p[1] \in Batches
             /\ p[2] \in DOMAIN content[p[1]]
             /\ p = <<p[1], p[2]>> /\ p[1] \in Nat /\ p[2] \in Nat
             /\ content[p[1]][p[2]] \in Receipt
  <2>1. PICK b \in asked : p \in {b} \X DOMAIN content[b]
    BY <1>5
  <2>2. p = <<p[1], p[2]>> /\ p[1] = b /\ p[2] \in DOMAIN content[b]
    BY <2>1
  <2>3. b \in sealed /\ b \in Batches
    BY <1>1
  <2>4. content[b] \in Seq(Receipt) /\ Len(content[b]) \in Nat /\ b \in Nat
        /\ DOMAIN content[b] = 1 .. Len(content[b])
    BY <1>2, <2>3
  <2>5. p[2] \in Nat /\ content[b][p[2]] \in Receipt
    BY <2>2, <2>4
  <2> QED
    BY <2>2, <2>3, <2>4, <2>5
<1>7. IsFiniteSet(Sealed(q))
  <2>1. IsFiniteSet(asked)
    <3>1. asked \subseteq 1 .. Len(content)
      BY <1>1 DEF Batches
    <3>2. IsFiniteSet(1 .. Len(content))
      BY <1>1, FS_Interval
    <3> QED
      BY <3>1, <3>2, FS_Subset
  <2> DEFINE RowOf == [b \in asked |-> {b} \X DOMAIN content[b]]
  <2>2. IsFiniteSet(rowsOf)
    <3>1. RowOf \in Surjection(asked, rowsOf)
      BY DEF Surjection
    <3> QED
      BY <2>1, <3>1, FS_Surjection
  <2>3. \A T \in rowsOf : IsFiniteSet(T)
    <3> SUFFICES ASSUME NEW b \in asked PROVE IsFiniteSet({b} \X DOMAIN content[b])
      OBVIOUS
    <3>1. IsFiniteSet(DOMAIN content[b])
      <4>1. DOMAIN content[b] = 1 .. Len(content[b]) /\ Len(content[b]) \in Int
        BY <1>1, <1>2
      <4> QED
        BY <4>1, FS_Interval
    <3>2. IsFiniteSet({b})
      BY FS_Singleton
    <3> QED
      BY <3>1, <3>2, FS_Product
  <2>4. IsFiniteSet(UNION rowsOf)
    BY <2>2, <2>3, FS_UNION
  <2>5. Sealed(q) \subseteq UNION rowsOf
    BY <1>5
  <2> QED
    BY <2>4, <2>5, FS_Subset
<1> QED
  BY <1>3, <1>4, <1>6, <1>7

Walked == [after : Nat, seen : SUBSET Receipt, shown : Nat, owed : SUBSET Receipt,
           more : BOOLEAN]

\* An audit changes nothing but what its auditor has.
LEMMA AuditOnly ==
    ASSUME StepInv, NEW r \in Request, req[r].kind = "audit",
           walk' \in [Request -> Walked], faults' \in Nat,
           \/ Goto(r, "page")
           \/ \E what \in {"ok", "error"} : Reply(r, what),
           UNCHANGED <<phase, store, batcher, tables, owner, todo, job, closing, restarts>>
    PROVE  StepInv'
<1>1. /\ phase' = phase /\ store' = store /\ rows' = rows /\ owner' = owner /\ job' = job
      /\ restarts' = restarts /\ sealed' = sealed /\ pending' = pending
      /\ content' = content /\ todo' = todo /\ anchored' = anchored /\ roots' = roots
      /\ closing' = closing /\ Batches' = Batches
  BY DEF batcher, tables, Batches
<1>2. /\ pc' \in [Request -> InFlight \cup {"idle", "page", "done", "dropped"}]
      /\ answer' \in [Request -> {"none", "ok", "error", "no_reply"}]
  BY AfterMove DEF StepInv
<1>3. ReceiptsTypeOK'
  BY <1>1, <1>2, Zenon DEF StepInv, ReceiptsTypeOK, Walked
<1>4. pc[r] \notin InFlight /\ pc'[r] \in {"page", "done"}
      /\ \A q \in Request : q # r => pc'[q] = pc[q]
  BY Bodies DEF StepInv, ReceiptsTypeOK, PlaceInv, Goto, Reply, InFlight
<1>5. PlaceInv'
  BY <1>1, <1>4 DEF StepInv, PlaceInv
<1>6. JobInv' /\ FlushInv'
  BY <1>1 DEF StepInv, JobInv, FlushInv
<1> QED
  BY <1>3, <1>5, <1>6 DEF StepInv

LEMMA AuditStoreStep == ASSUME StepInv, NEW r \in Request, AuditStore(r) PROVE StepInv'
<1> DEFINE page == Listed(req[r].agent, walk[r].after, req[r].limit)
           Read == [after |-> IF page = {} THEN 0 ELSE Max(page),
                    seen |-> walk[r].seen \cup page,
                    shown |-> walk[r].shown + Cardinality(page),
                    owed |-> IF pc[r] = "page" THEN walk[r].owed
                             ELSE {i \in Stored : About(req[r].agent, i)},
                    more |-> HasCursor(page, req[r].limit)]
<1>1. /\ page \subseteq Receipt /\ page \subseteq Nat /\ Cardinality(page) \in Nat
      /\ page # {} => Max(page) \in page
  BY PageFacts
<1>2. walk \in [Request -> Walked]
  BY DEF StepInv, ReceiptsTypeOK, Walked
<1>3. Read \in Walked
  <2>1. Read.after \in Nat
    BY <1>1
  <2>2. walk[r] \in Walked
    BY <1>2
  <2>3. Read.seen \in SUBSET Receipt /\ Read.shown \in Nat
    BY <1>1, <2>2 DEF Walked
  <2>4. Read.owed \in SUBSET Receipt
    BY <2>2 DEF Walked, Stored
  <2>5. Read.more \in BOOLEAN
    BY DEF HasCursor
  <2> QED
    BY <2>1, <2>3, <2>4, <2>5 DEF Walked
<1>4. /\ req[r].kind = "audit"
      /\ walk' = walk \/ walk' = [walk EXCEPT ![r] = Read]
      /\ \/ Goto(r, "page")
         \/ \E what \in {"ok", "error"} : Reply(r, what)
      /\ UNCHANGED <<phase, store, batcher, tables, owner, todo, job, closing, restarts>>
  BY DEF AuditStore
<1>5. walk' \in [Request -> Walked]
  <2> HIDE DEF Read
  <2> QED
    BY <1>2, <1>3, <1>4
<1>6. faults' \in Nat
  BY DEF AuditStore, Fault, StepInv, ReceiptsTypeOK
<1> QED
  BY <1>4, <1>5, <1>6, AuditOnly

LEMMA AuditMemoryStep == ASSUME StepInv, NEW r \in Request, AuditMemory(r) PROVE StepInv'
<1> DEFINE q == req[r]
           first == FirstPlaces(Sealed(q), q.limit)
           rest == First(Loose(q), Max({1, q.limit - Cardinality(first)}))
           shown == Cardinality(first) + Cardinality(rest)
           Read == [after |-> 0, seen |-> Receipts(first, rest), shown |-> shown,
                    owed |-> Receipts(Sealed(q), Loose(q)), more |-> shown >= q.limit]
<1>1. /\ IsFiniteSet(Sealed(q)) /\ IsFiniteSet(Loose(q))
      /\ \A p \in Sealed(q) : content[p[1]][p[2]] \in Receipt
      /\ \A k \in Loose(q) : pending[k] \in Receipt
  BY MemoryFacts DEF StepInv
<1>2. first \subseteq Sealed(q) /\ rest \subseteq Loose(q)
  BY DEF First, FirstPlaces
<1>3. Cardinality(first) \in Nat /\ Cardinality(rest) \in Nat
  <2> HIDE DEF first, rest, q
  <2> QED
    BY <1>1, <1>2, FS_Subset, FS_CardinalityType
<1>4. Read \in Walked
  <2>1. Read.seen \in SUBSET Receipt /\ Read.owed \in SUBSET Receipt
    BY <1>1, <1>2 DEF Receipts
  <2>2. Read.shown \in Nat /\ Read.more \in BOOLEAN
    BY <1>3
  <2> HIDE DEF first, rest, q
  <2> QED
    BY <2>1, <2>2 DEF Walked
<1>5. /\ req[r].kind = "audit" /\ walk' = [walk EXCEPT ![r] = Read] /\ Reply(r, "ok")
      /\ faults' = faults
      /\ UNCHANGED <<phase, store, batcher, tables, owner, todo, job, closing, restarts>>
  BY DEF AuditMemory
<1>6. walk \in [Request -> Walked]
  BY DEF StepInv, ReceiptsTypeOK, Walked
<1>7. walk' \in [Request -> Walked]
  <2> HIDE DEF Read
  <2> QED
    BY <1>4, <1>5, <1>6
<1>8. faults' \in Nat
  BY <1>5 DEF StepInv, ReceiptsTypeOK
<1> QED
  BY <1>5, <1>7, <1>8, AuditOnly

LEMMA DropStep == ASSUME StepInv, NEW r \in Request, Drop(r) PROVE StepInv'
<1>1. /\ phase' = phase /\ store' = store /\ rows' = rows /\ owner' = owner /\ job' = job
      /\ restarts' = restarts /\ sealed' = sealed /\ pending' = pending
      /\ content' = content /\ anchored' = anchored /\ roots' = roots
      /\ closing' = closing /\ answer' = answer /\ walk' = walk /\ Batches' = Batches
  BY DEF Drop, batcher, tables, Batches
<1>2. pc' = [pc EXCEPT ![r] = "dropped"] /\ todo' = [todo EXCEPT ![r] = Nothing]
      /\ faults' = faults + 1
  BY DEF Drop
<1>3. todo' \in [Request -> [batch : Nat, left : Seq(Receipt)]]
  <2>1. Nothing \in [batch : Nat, left : Seq(Receipt)]
    BY DEF Nothing
  <2> QED
    BY <1>2, <2>1 DEF StepInv, ReceiptsTypeOK
<1>4. pc' \in [Request -> InFlight \cup {"idle", "page", "done", "dropped"}] /\ faults' \in Nat
  BY <1>2 DEF StepInv, ReceiptsTypeOK
<1>5. ReceiptsTypeOK'
  BY <1>1, <1>3, <1>4, Zenon DEF StepInv, ReceiptsTypeOK
<1>6. PlaceInv'
  BY <1>1, <1>2 DEF StepInv, PlaceInv, ReceiptsTypeOK
<1>7. JobInv' /\ FlushInv'
  BY <1>1 DEF StepInv, JobInv, FlushInv
<1> QED
  BY <1>5, <1>6, <1>7 DEF StepInv

JobState == [at : {"asleep", "write", "reconnect", "rewrite"}, batch : Nat,
             tries : 0 .. Attempts, failures : Nat]

LEMMA JobSealStep == ASSUME StepInv, JobSeal PROVE StepInv'
<1>1. /\ phase' = phase /\ store' = store /\ rows' = rows /\ owner' = owner
      /\ restarts' = restarts /\ anchored' = anchored /\ roots' = roots
      /\ closing' = closing /\ answer' = answer /\ walk' = walk /\ pc' = pc /\ todo' = todo
      /\ faults' = faults
  BY DEF JobSeal, tables, handlers
<1>2. /\ Seal(pending) /\ pending \in Seq(Receipt)
      /\ job' = [at |-> "write", batch |-> Len(content) + 1, tries |-> 0, failures |-> 0]
  BY DEF JobSeal, Idle, StepInv, ReceiptsTypeOK
<1>3. /\ pending' \in Seq(Receipt) /\ content' \in Seq(Seq(Receipt))
      /\ sealed' \subseteq Batches' /\ Batches \subseteq Batches'
      /\ Len(content) + 1 \in Batches' /\ Len(content) + 1 \in Nat
  BY <1>2, AfterSeal DEF StepInv
<1>4. job' \in JobState /\ JobInv'
  BY <1>2, <1>3 DEF JobState, JobInv, Attempts
<1>5. /\ roots' \subseteq Batches' /\ anchored' \subseteq Batches'
      /\ closing' \in [left : SUBSET Batches', owed : SUBSET Batches']
      /\ FlushInv'
  BY <1>1, <1>3 DEF StepInv, ReceiptsTypeOK, FlushInv
<1>6. ReceiptsTypeOK'
  BY <1>1, <1>3, <1>4, <1>5, Zenon DEF StepInv, ReceiptsTypeOK, JobState
<1>7. PlaceInv'
  BY <1>1, <1>3 DEF StepInv, PlaceInv
<1> QED
  BY <1>4, <1>5, <1>6, <1>7 DEF StepInv

\* A call of the job.
LEMMA JobOnly ==
    ASSUME StepInv, job' \in JobState, JobInv', anchored' \subseteq Batches, faults' \in Nat,
           UNCHANGED <<phase, store, batcher, rows, roots, owner, handlers, closing, walk,
                       restarts>>
    PROVE  StepInv'
<1>1. /\ phase' = phase /\ store' = store /\ rows' = rows /\ owner' = owner
      /\ restarts' = restarts /\ roots' = roots /\ sealed' = sealed /\ pending' = pending
      /\ content' = content
      /\ closing' = closing /\ answer' = answer /\ walk' = walk /\ pc' = pc /\ todo' = todo
      /\ Batches' = Batches
  BY DEF batcher, handlers, Batches
<1>2. ReceiptsTypeOK'
  BY <1>1, Zenon DEF StepInv, ReceiptsTypeOK, JobState
<1>3. PlaceInv' /\ FlushInv'
  BY <1>1 DEF StepInv, PlaceInv, FlushInv
<1> QED
  BY <1>2, <1>3 DEF StepInv

LEMMA JobWriteStep == ASSUME StepInv, JobWrite PROVE StepInv'
<1>1. job \in JobState /\ job.batch \in Batches
  BY DEF JobWrite, StepInv, ReceiptsTypeOK, JobInv, JobState
<1>2. anchored' \subseteq Batches /\ faults' \in Nat
  BY <1>1 DEF JobWrite, StepInv, ReceiptsTypeOK, Fault
<1>3. \/ job' = Idle
      \/ job' = [at |-> "reconnect", batch |-> job.batch, tries |-> Attempts, failures |-> 1]
  BY <1>1 DEF JobWrite, AfterFailure, JobState
<1>4. job' \in JobState /\ JobInv'
  <2>1. Batches' = Batches
    BY DEF JobWrite, batcher, Batches
  <2> QED
    BY <1>1, <1>3, <2>1 DEF JobState, JobInv, Idle, Attempts
<1> QED
  BY <1>2, <1>4, JobOnly DEF JobWrite

LEMMA JobReconnectStep == ASSUME StepInv, JobReconnect PROVE StepInv'
<1>1. job \in JobState /\ job.batch \in Batches /\ job.tries # 0
  BY DEF JobReconnect, StepInv, ReceiptsTypeOK, JobInv, JobState
<1>2. /\ anchored' \subseteq Batches /\ faults' \in Nat /\ Batches' = Batches
      /\ UNCHANGED <<phase, store, batcher, rows, roots, owner, handlers, closing, walk,
                     restarts>>
  BY DEF JobReconnect, StepInv, ReceiptsTypeOK, Fault, tables, batcher, Batches
<1>3. \/ job' = Idle
      \/ job' = [at |-> "rewrite", batch |-> job.batch, tries |-> job.tries,
                 failures |-> job.failures]
      \/ /\ job.tries # 1
         /\ job' = [at |-> "reconnect", batch |-> job.batch, tries |-> job.tries - 1,
                    failures |-> job.failures + 1]
  BY <1>1 DEF JobReconnect, JobState
<1>4. job' \in JobState /\ JobInv'
  <2>1. CASE job' = Idle
    BY <2>1 DEF JobState, JobInv, Idle, Attempts
  <2>2. CASE job' = [at |-> "rewrite", batch |-> job.batch, tries |-> job.tries,
                     failures |-> job.failures]
    BY <1>1, <1>2, <2>2 DEF JobState, JobInv
  <2>3. CASE /\ job.tries # 1
             /\ job' = [at |-> "reconnect", batch |-> job.batch, tries |-> job.tries - 1,
                        failures |-> job.failures + 1]
    <3>1. job.tries - 1 \in 0 .. Attempts /\ job.tries - 1 # 0 /\ job.failures + 1 \in Nat
      BY <1>1, <2>3 DEF JobState, Attempts
    <3> QED
      BY <1>1, <1>2, <2>3, <3>1 DEF JobState, JobInv
  <2> QED
    BY <1>3, <2>1, <2>2, <2>3
<1> QED
  BY <1>2, <1>4, JobOnly

LEMMA SignalStep == ASSUME StepInv, Signal PROVE StepInv'
<1>1. /\ store' = store /\ rows' = rows /\ owner' = owner /\ job' = job /\ faults' = faults
      /\ restarts' = restarts /\ roots' = roots /\ sealed' = sealed /\ pending' = pending
      /\ content' = content /\ anchored' = anchored
      /\ answer' = answer /\ walk' = walk /\ pc' = pc /\ todo' = todo
      /\ Batches' = Batches
  BY DEF Signal, batcher, handlers, tables, Batches
<1>2. /\ phase' \in {"flush", "draining"}
      /\ closing' \in [left : SUBSET Batches, owed : SUBSET Batches]
      /\ FlushInv'
  BY <1>1 DEF Signal, StepInv, ReceiptsTypeOK, FlushInv
<1>3. ReceiptsTypeOK'
  BY <1>1, <1>2, Zenon DEF StepInv, ReceiptsTypeOK
<1>4. PlaceInv' /\ JobInv'
  BY <1>1 DEF StepInv, PlaceInv, JobInv
<1> QED
  BY <1>2, <1>3, <1>4 DEF StepInv

LEMMA FlushStep == ASSUME StepInv, FlushOne PROVE StepInv'
<1> DEFINE b == Min(closing.left)
           left == closing.left \ {b}
<1>1. /\ store' = store /\ rows' = rows /\ owner' = owner /\ job' = job
      /\ restarts' = restarts /\ sealed' = sealed /\ pending' = pending
      /\ content' = content /\ anchored' = anchored
      /\ answer' = answer /\ walk' = walk /\ pc' = pc /\ todo' = todo
      /\ Batches' = Batches
  BY DEF FlushOne, batcher, handlers, Batches
<1>2. /\ phase = "flush" /\ closing.left # {} /\ closing.left \subseteq Batches
      /\ closing.owed \subseteq Batches
      /\ closing.owed \subseteq roots \cup closing.left /\ roots \subseteq Batches
  BY DEF FlushOne, StepInv, FlushInv, ReceiptsTypeOK
<1>3. b \in closing.left
  <2>1. Batches \subseteq Nat
    BY DEF Batches
  <2> QED
    BY <1>2, <2>1, MinFacts
<1>4. /\ phase' = IF left = {} THEN "draining" ELSE phase
      /\ \/ /\ closing' = [left |-> left, owed |-> closing.owed]
            /\ roots' = roots \cup {b}
         \/ /\ closing' = [left |-> left, owed |-> closing.owed \ {b}]
            /\ roots' \in {roots, roots \cup {b}}
      /\ faults' = faults \/ faults' = faults + 1
  BY DEF FlushOne, Fault
<1>5. /\ phase' \in {"flush", "draining"}
      /\ closing' \in [left : SUBSET Batches, owed : SUBSET Batches]
      /\ roots' \subseteq Batches
      /\ FlushInv'
  <2> HIDE DEF b
  <2> QED
    BY <1>2, <1>3, <1>4 DEF FlushInv
<1>6. faults' \in Nat
  BY <1>4 DEF StepInv, ReceiptsTypeOK
<1>7. ReceiptsTypeOK'
  BY <1>1, <1>5, <1>6, Zenon DEF StepInv, ReceiptsTypeOK
<1>8. PlaceInv' /\ JobInv'
  BY <1>1 DEF StepInv, PlaceInv, JobInv
<1> QED
  BY <1>5, <1>7, <1>8 DEF StepInv

LEMMA RestartStep == ASSUME StepInv, Restart PROVE StepInv'
<1>1. /\ rows' = rows /\ owner' = owner /\ roots' = roots /\ content' = content
      /\ anchored' = anchored /\ answer' = answer /\ walk' = walk /\ Batches' = Batches
      /\ phase' = "up" /\ pending' = <<>> /\ sealed' = {} /\ job' = Idle
      /\ closing' = [left |-> {}, owed |-> {}] /\ todo' = [r \in Request |-> Nothing]
      /\ restarts' = restarts + 1
  BY DEF Restart, tables, Batches
<1>2. /\ store' \in BOOLEAN /\ faults' \in Nat /\ restarts' \in Nat
      /\ pc' = [r \in Request |-> IF pc[r] \in InFlight \cup {"page"} THEN "dropped"
                                  ELSE pc[r]]
  <2>1. store' \in BOOLEAN /\ (faults' = faults \/ faults' = faults + 1)
    BY DEF Restart, Fault
  <2>2. faults \in Nat /\ restarts \in Nat
    BY DEF StepInv, ReceiptsTypeOK
  <2>3. pc' = [r \in Request |-> IF pc[r] \in InFlight \cup {"page"} THEN "dropped"
                                  ELSE pc[r]]
    BY DEF Restart
  <2> QED
    BY <1>1, <2>1, <2>2, <2>3
<1>3. pc' \in [Request -> InFlight \cup {"idle", "page", "done", "dropped"}]
  BY <1>2 DEF StepInv, ReceiptsTypeOK
<1>4. \A r \in Request : pc'[r] \notin InFlight \cup {"page"}
  BY <1>2 DEF InFlight
<1>5. /\ pending' \in Seq(Receipt) /\ sealed' \subseteq Batches' /\ phase' \in {"up", "flush", "draining"}
      /\ closing' \in [left : SUBSET Batches', owed : SUBSET Batches']
      /\ job' \in JobState
      /\ todo' \in [Request -> [batch : Nat, left : Seq(Receipt)]]
  BY <1>1 DEF Idle, JobState, Nothing, Attempts
<1>6. ReceiptsTypeOK'
  BY <1>1, <1>2, <1>3, <1>5, Zenon DEF StepInv, ReceiptsTypeOK, JobState
<1>7. PlaceInv' /\ JobInv' /\ FlushInv'
  BY <1>1, <1>4 DEF PlaceInv, JobInv, FlushInv, Idle, InFlight
<1> QED
  BY <1>6, <1>7 DEF StepInv

LEMMA StepStep == ASSUME StepInv, [ReceiptsNext]_receiptsVars PROVE StepInv'
<1>1. CASE \E r \in Request : Handle(r) \/ Audit(r) \/ Drop(r)
  BY <1>1, CreateStep, AddStep, PersistStep, AssignStep, SealStep, AuditStoreStep,
     AuditMemoryStep, DropStep DEF Handle, Audit
<1>2. CASE Job
  BY <1>2, JobSealStep, JobWriteStep, JobReconnectStep DEF Job
<1>3. CASE Signal \/ FlushOne \/ Restart
  BY <1>3, SignalStep, FlushStep, RestartStep
<1>4. CASE UNCHANGED receiptsVars
  <2>1. /\ phase' = phase /\ store' = store /\ rows' = rows /\ owner' = owner /\ job' = job
        /\ restarts' = restarts /\ sealed' = sealed /\ pending' = pending
        /\ content' = content /\ anchored' = anchored /\ roots' = roots /\ todo' = todo
        /\ closing' = closing /\ answer' = answer /\ walk' = walk /\ Batches' = Batches
        /\ pc' = pc /\ faults' = faults
    BY <1>4 DEF receiptsVars, batcher, tables, handlers, Batches
  <2>2. ReceiptsTypeOK'
    BY <2>1, Zenon DEF StepInv, ReceiptsTypeOK
  <2>3. PlaceInv' /\ JobInv' /\ FlushInv'
    BY <2>1 DEF StepInv, PlaceInv, JobInv, FlushInv
  <2> QED
    BY <2>2, <2>3 DEF StepInv
<1> QED
  BY <1>1, <1>2, <1>3, <1>4 DEF ReceiptsNext

LEMMA StepAlways == ReceiptsSpec => []StepInv
<1>1. ReceiptsInit => StepInv
  BY StepInit
<1>2. StepInv /\ [ReceiptsNext]_receiptsVars => StepInv'
  BY StepStep
<1> QED
  BY <1>1, <1>2, PTL DEF ReceiptsSpec

-----------------------------------------------------------------------------
(* What a page holds.                                                       *)

\* What comes before one of the first n is one of the first n; there are at most n of
\* them, and fewer only when that is all there is.
LEMMA FirstFacts ==
    ASSUME NEW ids \in SUBSET Nat, IsFiniteSet(ids), NEW n \in Nat
    PROVE  /\ First(ids, n) \subseteq ids
           /\ \A i \in First(ids, n) : \A j \in ids : j < i => j \in First(ids, n)
           /\ Cardinality(First(ids, n)) <= n
           /\ Cardinality(First(ids, n)) < n => First(ids, n) = ids
<1> DEFINE Below(i) == {j \in ids : j < i}
           F == First(ids, n)
<1>1. \A i \in ids : i \in F <=> Cardinality(Below(i)) < n
  BY DEF First
<1>2. F \subseteq ids /\ IsFiniteSet(F) /\ Cardinality(F) \in Nat
  BY FS_Subset, FS_CardinalityType DEF First
<1>3. \A i \in ids : IsFiniteSet(Below(i)) /\ Cardinality(Below(i)) \in Nat
  BY FS_Subset, FS_CardinalityType
<1> HIDE DEF F
<1>4. ASSUME NEW i \in F, NEW j \in ids, j < i
      PROVE  j \in F
  <2>1. i \in Nat /\ j \in Nat
    BY <1>2
  <2>2. Below(j) \subseteq Below(i)
    <3> SUFFICES ASSUME NEW k \in ids, k < j PROVE k < i
      OBVIOUS
    <3>1. k \in Nat
      OBVIOUS
    <3> QED
      BY <1>4, <2>1, <3>1
  <2>3. Cardinality(Below(j)) <= Cardinality(Below(i))
    BY <1>2, <1>3, <2>2, FS_Subset
  <2>4. Cardinality(Below(i)) < n /\ Cardinality(Below(i)) \in Nat /\ Cardinality(Below(j)) \in Nat
    BY <1>1, <1>2, <1>3
  <2>5. Cardinality(Below(j)) < n
    <3> HIDE DEF Below
    <3> QED
      BY <2>3, <2>4
  <2> QED
    BY <1>1, <2>5
<1>5. Cardinality(F) <= n
  <2>1. CASE F = {}
    BY <2>1, FS_EmptySet
  <2>2. CASE F # {}
    <3> DEFINE m == Max(F)
    <3>1. m \in F /\ \A i \in F : i <= m
      BY <1>2, <2>2, MaxFacts
    <3> HIDE DEF m
    <3>2. F \ {m} \subseteq Below(m)
      BY <1>2, <3>1
    <3>3. Cardinality(F \ {m}) <= Cardinality(Below(m))
      BY <1>2, <1>3, <3>1, <3>2, FS_Subset
    <3>4. Cardinality(F \ {m}) = Cardinality(F) - 1
      BY <1>2, <3>1, FS_RemoveElement
    <3>5. Cardinality(Below(m)) < n /\ Cardinality(Below(m)) \in Nat
      BY <1>1, <1>2, <1>3, <3>1
    <3> HIDE DEF Below
    <3> QED
      BY <1>2, <3>3, <3>4, <3>5
  <2> QED
    BY <2>1, <2>2
<1>6. ASSUME Cardinality(F) < n
      PROVE  F = ids
  <2> DEFINE Missing == ids \ F
  <2> SUFFICES ASSUME Missing # {} PROVE FALSE
    BY <1>2
  <2>1. PICK m \in Missing : \A k \in Missing : m <= k
    <3>1. Missing \in SUBSET Nat
      OBVIOUS
    <3> HIDE DEF Missing
    <3> QED
      BY <3>1, LeastNumber
  <2>2. Below(m) \subseteq F
    <3> SUFFICES ASSUME NEW j \in ids, j < m PROVE j \in F
      OBVIOUS
    <3>1. j \in Nat /\ m \in Nat
      OBVIOUS
    <3> QED
      BY <2>1, <3>1
  <2>3. Cardinality(Below(m)) <= Cardinality(F)
    BY <1>2, <2>2, FS_Subset
  <2>4. Cardinality(Below(m)) < n
    <3>1. Cardinality(Below(m)) \in Nat
      BY <1>3
    <3> HIDE DEF Below
    <3> QED
      BY <1>2, <1>6, <2>3, <3>1
  <2> QED
    BY <1>1, <2>4
<1> QED
  BY <1>2, <1>4, <1>5, <1>6 DEF F

\* The same of places.
LEMMA FirstPlacesFacts ==
    ASSUME NEW places, IsFiniteSet(places), NEW n \in Nat,
           \A p \in places : p[1] \in Nat /\ p[2] \in Nat
    PROVE  /\ FirstPlaces(places, n) \subseteq places
           /\ Cardinality(FirstPlaces(places, n)) < n => FirstPlaces(places, n) = places
<1> DEFINE Below(p) == {q \in places : Before(q, p)}
           F == FirstPlaces(places, n)
<1>1. \A p \in places : p \in F <=> Cardinality(Below(p)) < n
  BY DEF FirstPlaces
<1>2. F \subseteq places /\ IsFiniteSet(F) /\ Cardinality(F) \in Nat
  BY FS_Subset, FS_CardinalityType DEF FirstPlaces
<1>3. \A p \in places : IsFiniteSet(Below(p)) /\ Cardinality(Below(p)) \in Nat
  BY FS_Subset, FS_CardinalityType
<1> HIDE DEF F
<1>4. ASSUME Cardinality(F) < n, places \ F # {}
      PROVE  FALSE
  <2> DEFINE Missing == places \ F
             Firsts == {p[1] : p \in Missing}
  <2>1. PICK a \in Firsts : \A x \in Firsts : a <= x
    <3>1. Firsts \in SUBSET Nat /\ Firsts # {}
      BY <1>4
    <3> HIDE DEF Firsts
    <3> QED
      BY <3>1, LeastNumber
  <2> DEFINE Seconds == {p[2] : p \in {d \in Missing : d[1] = a}}
  <2>2. PICK b \in Seconds : \A x \in Seconds : b <= x
    <3>1. Seconds \in SUBSET Nat /\ Seconds # {}
      BY <2>1
    <3> HIDE DEF Seconds
    <3> QED
      BY <3>1, LeastNumber
  <2>3. PICK m \in Missing : m[1] = a /\ m[2] = b
    BY <2>2
  <2>4. \A p \in Missing : p[1] \in Nat /\ p[2] \in Nat /\ a <= p[1] /\ (p[1] = a => b <= p[2])
    BY <2>1, <2>2
  <2>5. Below(m) \subseteq F
    <3> SUFFICES ASSUME NEW q \in places, Before(q, m), q \notin F PROVE FALSE
      OBVIOUS
    <3>1. q[1] < a \/ (q[1] = a /\ q[2] < b)
      BY <2>3 DEF Before
    <3>2. q[1] \in Nat /\ q[2] \in Nat /\ a <= q[1] /\ (q[1] = a => b <= q[2])
      BY <2>4
    <3>3. a \in Nat /\ b \in Nat
      BY <2>3, <2>4
    <3> QED
      BY <3>1, <3>2, <3>3
  <2>6. Cardinality(Below(m)) <= Cardinality(F)
    BY <1>2, <2>5, FS_Subset
  <2>7. Cardinality(Below(m)) < n
    <3>1. Cardinality(Below(m)) \in Nat
      BY <1>3
    <3> HIDE DEF Below
    <3> QED
      BY <1>2, <1>4, <2>6, <3>1
  <2> QED
    BY <1>1, <2>7
<1> QED
  BY <1>2, <1>4 DEF F

-----------------------------------------------------------------------------
(* No receipt is in memory twice.                                           *)

\* Receipt i is in a batch of c, or in p, which is pending.
Kept(c, p, i) ==
    \/ \E k \in DOMAIN p : p[k] = i
    \/ \E b \in DOMAIN c : \E k \in DOMAIN c[b] : c[b][k] = i

Distinct(c, p) ==
    /\ \A k, l \in DOMAIN p : p[k] = p[l] => k = l
    /\ \A b \in DOMAIN c : \A k \in DOMAIN c[b] : \A l \in DOMAIN p : c[b][k] # p[l]
    /\ \A b, d \in DOMAIN c : \A k \in DOMAIN c[b] : \A l \in DOMAIN c[d] :
          c[b][k] = c[d][l] => b = d /\ k = l

\* A receipt that was not there may become pending.
LEMMA KeptMore ==
    ASSUME NEW c, NEW p \in Seq(Receipt), NEW i \in Receipt
    PROVE  /\ \A j : Kept(c, Append(p, i), j) <=> Kept(c, p, j) \/ j = i
           /\ Distinct(c, p) /\ ~ Kept(c, p, i) => Distinct(c, Append(p, i))
<1> DEFINE a == Append(p, i)
<1>1. /\ Len(p) \in Nat /\ DOMAIN p = 1 .. Len(p) /\ DOMAIN a = 1 .. (Len(p) + 1)
      /\ \A k \in DOMAIN p : a[k] = p[k]
      /\ a[Len(p) + 1] = i
  OBVIOUS
<1> HIDE DEF a
<1>2. \A k \in DOMAIN a : k \in DOMAIN p \/ k = Len(p) + 1
  BY <1>1
<1>3. DOMAIN p \subseteq DOMAIN a /\ Len(p) + 1 \in DOMAIN a
  BY <1>1
<1>4. \A j : Kept(c, a, j) <=> Kept(c, p, j) \/ j = i
  BY <1>1, <1>2, <1>3, Zenon DEF Kept
<1>5. ASSUME Distinct(c, p), ~ Kept(c, p, i)
      PROVE  Distinct(c, a)
  <2>1. ASSUME NEW k \in DOMAIN a, NEW l \in DOMAIN a, a[k] = a[l]
        PROVE  k = l
    <3>1. \A m \in DOMAIN p : p[m] # i
      BY <1>5, Zenon DEF Kept
    <3>2. CASE k \in DOMAIN p /\ l \in DOMAIN p
      BY <1>1, <1>5, <2>1, <3>2, Zenon DEF Distinct
    <3>3. CASE k \in DOMAIN p /\ l = Len(p) + 1
      BY <1>1, <2>1, <3>1, <3>3, Zenon
    <3>4. CASE k = Len(p) + 1 /\ l \in DOMAIN p
      BY <1>1, <2>1, <3>1, <3>4, Zenon
    <3> QED
      BY <1>2, <3>2, <3>3, <3>4, Zenon
  <2>2. ASSUME NEW b \in DOMAIN c, NEW k \in DOMAIN c[b], NEW l \in DOMAIN a
        PROVE  c[b][k] # a[l]
    <3>1. c[b][k] # i
      BY <1>5, Zenon DEF Kept
    <3>2. CASE l \in DOMAIN p
      <4>1. c[b][k] # p[l]
        BY <1>5, <3>2 DEF Distinct
      <4>2. a[l] = p[l]
        BY <1>1, <3>2
      <4> QED
        BY <4>1, <4>2
    <3>3. CASE l = Len(p) + 1
      <4>1. a[l] = i
        BY <1>1, <3>3
      <4> QED
        BY <3>1, <4>1
    <3> QED
      BY <1>2, <3>2, <3>3
  <2> QED
    BY <1>5, <2>1, <2>2 DEF Distinct
<1> QED
  BY <1>4, <1>5 DEF a

\* What was pending may become the next batch.
LEMMA KeptSealed ==
    ASSUME NEW c \in Seq(Seq(Receipt)), NEW p \in Seq(Receipt)
    PROVE  /\ \A j : Kept(Append(c, p), <<>>, j) <=> Kept(c, p, j)
           /\ Distinct(c, p) => Distinct(Append(c, p), <<>>)
<1> DEFINE a == Append(c, p)
<1>1. /\ Len(c) \in Nat /\ DOMAIN c = 1 .. Len(c) /\ DOMAIN a = 1 .. (Len(c) + 1)
      /\ \A k \in DOMAIN c : a[k] = c[k]
      /\ a[Len(c) + 1] = p
      /\ DOMAIN <<>> = {}
  OBVIOUS
<1> HIDE DEF a
<1>2. \A k \in DOMAIN a : k \in DOMAIN c \/ k = Len(c) + 1
  BY <1>1
<1>3. DOMAIN c \subseteq DOMAIN a /\ Len(c) + 1 \in DOMAIN a
  BY <1>1
<1>4. \A j : Kept(a, <<>>, j) <=> Kept(c, p, j)
  BY <1>1, <1>2, <1>3, Zenon DEF Kept
<1>5. ASSUME Distinct(c, p)
      PROVE  Distinct(a, <<>>)
  <2>1. ASSUME NEW b \in DOMAIN a, NEW d \in DOMAIN a,
               NEW k \in DOMAIN a[b], NEW l \in DOMAIN a[d], a[b][k] = a[d][l]
        PROVE  b = d /\ k = l
    <3>1. CASE b \in DOMAIN c /\ d \in DOMAIN c
      <4>1. a[b] = c[b] /\ a[d] = c[d]
        BY <1>1, <3>1
      <4> QED
        BY <1>5, <2>1, <3>1, <4>1 DEF Distinct
    <3>2. CASE b \in DOMAIN c /\ d = Len(c) + 1
      <4>1. a[b] = c[b] /\ a[d] = p
        BY <1>1, <3>2
      <4> QED
        BY <1>5, <2>1, <3>2, <4>1 DEF Distinct
    <3>3. CASE b = Len(c) + 1 /\ d \in DOMAIN c
      <4>1. a[b] = p /\ a[d] = c[d]
        BY <1>1, <3>3
      <4>2. c[d][l] # p[k]
        BY <1>5, <3>3, <4>1 DEF Distinct
      <4> QED
        BY <2>1, <4>1, <4>2
    <3>4. CASE b = Len(c) + 1 /\ d = Len(c) + 1
      <4>1. a[b] = p /\ a[d] = p
        BY <1>1, <3>4
      <4> QED
        BY <1>5, <2>1, <3>4, <4>1 DEF Distinct
    <3> QED
      BY <1>2, <3>1, <3>2, <3>3, <3>4
  <2> QED
    BY <1>1, <2>1, Zenon DEF Distinct
<1> QED
  BY <1>4, <1>5 DEF a

\* What was pending may be lost.
LEMMA KeptLost ==
    ASSUME NEW c, NEW p
    PROVE  /\ \A j : Kept(c, <<>>, j) => Kept(c, p, j)
           /\ Distinct(c, p) => Distinct(c, <<>>)
<1>1. DOMAIN <<>> = {}
  OBVIOUS
<1> QED
  BY <1>1, Zenon DEF Kept, Distinct

\* What is in memory has an owner; what a handler is about to add is not there yet, and
\* no two handlers are about to add the same.
KeptInv ==
    /\ Distinct(content, pending)
    /\ \A i \in Receipt : Kept(content, pending, i) => owner[i] # AnyAgent
    /\ \A r \in Request : pc[r] = "add" =>
          /\ owner[Head(todo[r].left)] # AnyAgent
          /\ ~ Kept(content, pending, Head(todo[r].left))
    /\ \A q, r \in Request :
          pc[q] = "add" /\ pc[r] = "add" /\ q # r => Head(todo[q].left) # Head(todo[r].left)

LEMMA KeptInit == ASSUME ReceiptsInit PROVE KeptInv
<1>1. content = <<>> /\ pending = <<>> /\ \A r \in Request : pc[r] = "idle"
  BY DEF ReceiptsInit
<1>2. DOMAIN <<>> = {}
  OBVIOUS
<1>3. Distinct(<<>>, <<>>) /\ \A i : ~ Kept(<<>>, <<>>, i)
  BY <1>2, Zenon DEF Distinct, Kept
<1> QED
  BY <1>1, <1>3 DEF KeptInv

\* A step that neither adds to the batcher nor takes from it, nor brings a handler there.
LEMMA KeptSame ==
    ASSUME KeptInv, content' = content, pending' = pending, owner' = owner,
           \A r \in Request : pc'[r] = "add" => pc[r] = "add" /\ todo'[r] = todo[r]
    PROVE  KeptInv'
BY DEF KeptInv

\* All that is pending is sealed.
LEMMA KeptSeal ==
    ASSUME StepInv, KeptInv, Seal(pending), owner' = owner,
           \A r \in Request : pc'[r] = "add" => pc[r] = "add" /\ todo'[r] = todo[r]
    PROVE  KeptInv'
<1>1. content' = Append(content, pending) /\ pending' = <<>>
  BY DEF Seal
<1>2. content \in Seq(Seq(Receipt)) /\ pending \in Seq(Receipt)
  BY DEF StepInv, ReceiptsTypeOK
<1>3. /\ \A j : Kept(content', pending', j) <=> Kept(content, pending, j)
      /\ Distinct(content, pending) => Distinct(content', pending')
  BY <1>1, <1>2, KeptSealed
<1> HIDE DEF Seal
<1> QED
  BY <1>3 DEF KeptInv

LEMMA KeptCreate ==
    ASSUME StepInv, KeptInv, NEW r \in Request, CreateRow(r)
    PROVE  KeptInv'
<1>1. PICK i \in Receipt :
        /\ owner[i] = AnyAgent
        /\ owner' = [owner EXCEPT ![i] = req[r].agent]
        /\ todo' = [todo EXCEPT ![r] = [batch |-> 0, left |-> <<i>>]]
  BY DEF CreateRow
<1>2. /\ req[r].agent # AnyAgent /\ content' = content /\ pending' = pending /\ pc[r] = "idle"
      /\ \A q \in Request : q # r => pc'[q] = pc[q] /\ todo'[q] = todo[q]
      /\ todo'[r].left = <<i>>
  <2>1. req[r].agent \in Subject /\ pc[r] = "idle"
    BY Bodies DEF CreateRow, Arrive
  <2>2. \A q \in Request : q # r => pc'[q] = pc[q] /\ todo'[q] = todo[q]
    BY <1>1 DEF CreateRow, Goto, Reply, StepInv, ReceiptsTypeOK
  <2>3. todo'[r].left = <<i>>
    BY <1>1 DEF StepInv, ReceiptsTypeOK
  <2> QED
    BY <2>1, <2>2, <2>3, ReceiptsAssumption DEF CreateRow, batcher
<1>3. \A j \in Receipt : owner[j] # AnyAgent => j # i /\ owner'[j] = owner[j]
  BY <1>1 DEF StepInv, ReceiptsTypeOK
<1>4. owner'[i] # AnyAgent /\ Head(<<i>>) = i
  BY <1>1, <1>2 DEF StepInv, ReceiptsTypeOK
<1>5. ~ Kept(content, pending, i)
  BY <1>1 DEF KeptInv
<1>6. \A q \in Request : pc[q] = "add" => /\ Head(todo[q].left) \in Receipt
                                          /\ owner[Head(todo[q].left)] # AnyAgent
  <2> SUFFICES ASSUME NEW q \in Request, pc[q] = "add"
               PROVE  Head(todo[q].left) \in Receipt
    BY DEF KeptInv
  <2>1. todo[q].left \in Seq(Receipt) /\ todo[q].left # <<>>
    BY DEF StepInv, ReceiptsTypeOK, PlaceInv
  <2> QED
    BY <2>1
<1>7. \A j \in Receipt : Kept(content', pending', j) => owner'[j] # AnyAgent
  BY <1>2, <1>3 DEF KeptInv
<1>8. \A q \in Request : pc'[q] = "add" =>
        /\ owner'[Head(todo'[q].left)] # AnyAgent
        /\ ~ Kept(content', pending', Head(todo'[q].left))
  <2> TAKE q \in Request
  <2>1. CASE q = r
    BY <1>2, <1>4, <1>5, <2>1
  <2>2. CASE q # r
    BY <1>2, <1>3, <1>6, <2>2 DEF KeptInv
  <2> QED
    BY <2>1, <2>2
<1>9. ASSUME NEW p \in Request, NEW q \in Request, pc'[p] = "add", pc'[q] = "add", p # q
      PROVE  Head(todo'[p].left) # Head(todo'[q].left)
  <2>1. CASE p # r /\ q # r
    BY <1>2, <1>9, <2>1 DEF KeptInv
  <2>2. CASE p = r
    BY <1>2, <1>3, <1>4, <1>6, <1>9, <2>2
  <2>3. CASE q = r
    BY <1>2, <1>3, <1>4, <1>6, <1>9, <2>3
  <2> QED
    BY <2>1, <2>2, <2>3
<1> QED
  BY <1>2, <1>7, <1>8, <1>9 DEF KeptInv

LEMMA KeptAdd ==
    ASSUME StepInv, KeptInv, NEW r \in Request, AddReceipt(r)
    PROVE  KeptInv'
<1> DEFINE i == Head(todo[r].left)
           receipts == Append(pending, i)
<1>1. pc[r] = "add" /\ i \in Receipt /\ owner[i] # AnyAgent /\ ~ Kept(content, pending, i)
  <2>1. todo[r].left \in Seq(Receipt) /\ todo[r].left # <<>> /\ pc[r] = "add"
    BY DEF AddReceipt, Resume, StepInv, ReceiptsTypeOK, PlaceInv
  <2> QED
    BY <2>1 DEF KeptInv
<1>2. content \in Seq(Seq(Receipt)) /\ pending \in Seq(Receipt)
  BY DEF StepInv, ReceiptsTypeOK
<1> HIDE DEF i
<1>3. /\ \A j : Kept(content, receipts, j) <=> Kept(content, pending, j) \/ j = i
      /\ Distinct(content, receipts)
  BY <1>1, <1>2, KeptMore DEF KeptInv
<1>4. receipts \in Seq(Receipt)
  BY <1>1, <1>2
<1> HIDE DEF receipts
<1>5. /\ \A j : Kept(content', pending', j) <=> Kept(content, pending, j) \/ j = i
      /\ Distinct(content', pending')
  <2>1. CASE content' = Append(content, receipts) /\ pending' = <<>>
    <3>1. /\ \A j : Kept(content', pending', j) <=> Kept(content, receipts, j)
          /\ Distinct(content, receipts) => Distinct(content', pending')
      BY <1>2, <1>4, <2>1, KeptSealed
    <3> QED
      BY <1>3, <3>1
  <2>2. CASE content' = content /\ pending' = receipts
    BY <1>3, <2>2
  <2> QED
    BY <2>1, <2>2 DEF AddReceipt, Seal, i, receipts
<1>6. owner' = owner /\ \A q \in Request : pc'[q] = "add" => /\ q # r /\ pc[q] = "add"
                                                            /\ todo'[q] = todo[q]
  <2>1. owner' = owner
    BY DEF AddReceipt
  <2>2. \/ Persist(r, receipts)
        \/ Reply(r, "ok") /\ todo' = todo
    BY DEF AddReceipt, i, receipts
  <2> QED
    BY <2>1, <2>2 DEF Persist, Goto, Reply, StepInv, ReceiptsTypeOK
<1>7. \A q \in Request : pc[q] = "add" /\ q # r => Head(todo[q].left) # i
  BY <1>1 DEF KeptInv, i
<1> QED
  BY <1>1, <1>5, <1>6, <1>7 DEF KeptInv

LEMMA KeptStep == ASSUME StepInv, KeptInv, [ReceiptsNext]_receiptsVars PROVE KeptInv'
<1>1. ASSUME NEW r \in Request, CreateRow(r) \/ AddReceipt(r)
      PROVE  KeptInv'
  BY <1>1, KeptCreate, KeptAdd
<1>2. ASSUME NEW r \in Request, ForceSeal(r)
      PROVE  KeptInv'
  <2>1. owner' = owner /\ \A q \in Request : pc'[q] = "add" => pc[q] = "add" /\ todo'[q] = todo[q]
    BY <1>2 DEF ForceSeal, Persist, Goto, Reply, StepInv, ReceiptsTypeOK
  <2>2. CASE Seal(pending)
    BY <2>1, <2>2, KeptSeal
  <2>3. CASE UNCHANGED batcher
    BY <2>1, <2>3, KeptSame DEF batcher
  <2> QED
    BY <1>2, <2>2, <2>3 DEF ForceSeal
<1>3. ASSUME NEW r \in Request,
             PersistBatch(r) \/ Assign(r) \/ AuditStore(r) \/ AuditMemory(r) \/ Drop(r)
      PROVE  KeptInv'
  <2>1. content' = content /\ pending' = pending /\ owner' = owner
    BY <1>3 DEF PersistBatch, Assign, AuditStore, AuditMemory, Drop, batcher
  <2>2. \A q \in Request : pc'[q] = "add" => pc[q] = "add" /\ todo'[q] = todo[q]
    <3>1. CASE PersistBatch(r)
      BY <3>1 DEF PersistBatch, Goto, StepInv, ReceiptsTypeOK
    <3>2. CASE Assign(r)
      <4>1. /\ todo' = [todo EXCEPT ![r].left = Tail(@)] /\ pc[r] = "assign"
            /\ pc' = pc \/ pc' = [pc EXCEPT ![r] = "done"]
        BY <3>2 DEF Assign, Reply, Resume
      <4> QED
        BY <4>1 DEF StepInv, ReceiptsTypeOK
    <3>3. CASE AuditStore(r) \/ AuditMemory(r)
      BY <3>3 DEF AuditStore, AuditMemory, Goto, Reply, StepInv, ReceiptsTypeOK
    <3>4. CASE Drop(r)
      BY <3>4 DEF Drop, StepInv, ReceiptsTypeOK
    <3> QED
      BY <1>3, <3>1, <3>2, <3>3, <3>4
  <2> QED
    BY <2>1, <2>2, KeptSame
<1>4. CASE JobSeal
  BY <1>4, KeptSeal DEF JobSeal, handlers
<1>5. CASE Restart
  <2>1. pending' = <<>> /\ content' = content /\ owner' = owner
    BY <1>5 DEF Restart
  <2>2. \A r \in Request : pc'[r] # "add"
    BY <1>5 DEF Restart, InFlight
  <2>3. /\ \A j : Kept(content', pending', j) => Kept(content, pending, j)
        /\ Distinct(content, pending) => Distinct(content', pending')
    BY <2>1, KeptLost
  <2> QED
    BY <2>1, <2>2, <2>3 DEF KeptInv
<1>6. CASE JobWrite \/ JobReconnect \/ Signal \/ FlushOne \/ UNCHANGED receiptsVars
  <2>1. UNCHANGED <<batcher, owner, handlers>>
    BY <1>6 DEF JobWrite, JobReconnect, Signal, FlushOne, receiptsVars
  <2> QED
    BY <2>1, KeptSame DEF batcher, handlers
<1> QED
  BY <1>1, <1>2, <1>3, <1>4, <1>5, <1>6 DEF ReceiptsNext, Handle, Audit, Job

-----------------------------------------------------------------------------
(* Audits.                                                                  *)

\* Every place in memory holds a receipt of its own.
LEMMA MemoryCounts ==
    ASSUME StepInv, KeptInv, NEW q
    PROVE  /\ IsFiniteSet(Receipts(Sealed(q), Loose(q)))
           /\ Cardinality(Receipts(Sealed(q), Loose(q))) =
                Cardinality(Sealed(q)) + Cardinality(Loose(q))
<1> DEFINE places == Sealed(q)
           positions == Loose(q)
           at == [p \in places |-> content[p[1]][p[2]]]
           waiting == [k \in positions |-> pending[k]]
           InBatches == {content[p[1]][p[2]] : p \in places}
           Waiting == {pending[k] : k \in positions}
<1>1. /\ IsFiniteSet(places) /\ IsFiniteSet(positions)
      /\ \A p \in places : /\ p[1] \in Batches /\ p[2] \in DOMAIN content[p[1]]
                           /\ p = <<p[1], p[2]>>
      /\ \A k \in positions : k \in DOMAIN pending
  BY MemoryFacts DEF StepInv
<1>2. Distinct(content, pending) /\ DOMAIN content = Batches
  BY DEF KeptInv, Batches, StepInv, ReceiptsTypeOK
<1> HIDE DEF places, positions
<1>3. \A p, o \in places : content[p[1]][p[2]] = content[o[1]][o[2]] => p = o
  <2> SUFFICES ASSUME NEW p \in places, NEW o \in places,
                      content[p[1]][p[2]] = content[o[1]][o[2]]
               PROVE  p = o
    OBVIOUS
  <2>1. p[1] = o[1] /\ p[2] = o[2]
    BY <1>1, <1>2 DEF Distinct
  <2> QED
    BY <1>1, <2>1
<1>4. \A k, l \in positions : pending[k] = pending[l] => k = l
  BY <1>1, <1>2 DEF Distinct
<1>5. InBatches \cap Waiting = {}
  BY <1>1, <1>2 DEF Distinct
<1>6. IsFiniteSet(InBatches) /\ Cardinality(InBatches) = Cardinality(places)
  <2>1. at \in Surjection(places, InBatches)
    BY DEF Surjection
  <2>2. at \in Injection(places, InBatches)
    BY <1>3 DEF Injection, IsInjective
  <2> HIDE DEF at, InBatches
  <2> QED
    BY <1>1, <2>1, <2>2, FS_Surjection
<1>7. IsFiniteSet(Waiting) /\ Cardinality(Waiting) = Cardinality(positions)
  <2>1. waiting \in Surjection(positions, Waiting)
    BY DEF Surjection
  <2>2. waiting \in Injection(positions, Waiting)
    BY <1>4 DEF Injection, IsInjective
  <2> HIDE DEF waiting, Waiting
  <2> QED
    BY <1>1, <2>1, <2>2, FS_Surjection
<1>8. Receipts(places, positions) = InBatches \cup Waiting
  BY DEF Receipts
<1> HIDE DEF InBatches, Waiting
<1>9. /\ Cardinality(InBatches) \in Nat /\ Cardinality(Waiting) \in Nat
      /\ Cardinality({}) = 0
  BY <1>6, <1>7, FS_CardinalityType, FS_EmptySet
<1>10. /\ IsFiniteSet(InBatches \cup Waiting)
       /\ Cardinality(InBatches \cup Waiting) =
            Cardinality(InBatches) + Cardinality(Waiting) - Cardinality({})
  BY <1>5, <1>6, <1>7, FS_Union
<1>11. Cardinality(InBatches \cup Waiting) = Cardinality(places) + Cardinality(positions)
  BY <1>6, <1>7, <1>9, <1>10
<1> QED
  BY <1>8, <1>10, <1>11 DEF places, positions

\* A row is of a receipt that has an owner.
RowsInv == \A i \in Stored : owner[i] # AnyAgent

\* What an auditor between two pages has seen, and what it was owed when it began, up to
\* its cursor.
WalkInv ==
    \A r \in Request : req[r].kind = "audit" =>
        /\ pc[r] \in {"idle", "page"} => answer[r] = "none"
        /\ pc[r] = "idle" => walk[r] = Unopened
        /\ pc[r] = "page" =>
              /\ \A i \in walk[r].seen : i <= walk[r].after
              /\ walk[r].shown = Cardinality(walk[r].seen)
              /\ \A i \in walk[r].owed :
                    /\ i \in Stored /\ About(req[r].agent, i)
                    /\ i <= walk[r].after => i \in walk[r].seen
        /\ answer[r] = "ok" /\ ~walk[r].more =>
              /\ walk[r].owed \subseteq walk[r].seen
              /\ walk[r].shown = Cardinality(walk[r].seen)

AuditInv == RowsInv /\ WalkInv

LEMMA AuditInit == ASSUME ReceiptsInit PROVE AuditInv
BY DEF ReceiptsInit, AuditInv, RowsInv, WalkInv, Stored

\* Rows stay, and an owner does too.
LEMMA AuditKept ==
    ASSUME StepInv, AuditInv, RowsInv', Stored \subseteq Stored', walk' = walk,
           \A i \in Stored : owner'[i] = owner[i],
           \A r \in Request : req[r].kind = "audit" => pc'[r] = pc[r] /\ answer'[r] = answer[r]
    PROVE  AuditInv'
<1>1. ASSUME NEW r \in Request, NEW i \in Stored, About(req[r].agent, i)
      PROVE  About(req[r].agent, i)'
  BY <1>1 DEF About
<1>2. WalkInv'
  <2> SUFFICES ASSUME NEW r \in Request, req[r].kind = "audit"
               PROVE  /\ pc'[r] \in {"idle", "page"} => answer'[r] = "none"
                      /\ pc'[r] = "idle" => walk'[r] = Unopened
                      /\ pc'[r] = "page" =>
                            /\ \A i \in walk'[r].seen : i <= walk'[r].after
                            /\ walk'[r].shown = Cardinality(walk'[r].seen)
                            /\ \A i \in walk'[r].owed :
                                  /\ i \in Stored' /\ About(req[r].agent, i)'
                                  /\ i <= walk'[r].after => i \in walk'[r].seen
                      /\ answer'[r] = "ok" /\ ~walk'[r].more =>
                            /\ walk'[r].owed \subseteq walk'[r].seen
                            /\ walk'[r].shown = Cardinality(walk'[r].seen)
    BY DEF WalkInv
  <2>1. pc'[r] = pc[r] /\ answer'[r] = answer[r] /\ walk'[r] = walk[r]
    OBVIOUS
  <2> QED
    BY <1>1, <2>1 DEF AuditInv, WalkInv
<1> QED
  BY <1>2 DEF AuditInv

\* A new receipt was owed to nobody; its row may be on any later page.
LEMMA AuditCreate ==
    ASSUME StepInv, AuditInv, NEW r \in Request, CreateRow(r)
    PROVE  AuditInv'
<1>1. PICK i \in Receipt :
        /\ owner[i] = AnyAgent
        /\ owner' = [owner EXCEPT ![i] = req[r].agent]
        /\ rows' \in {rows, [rows EXCEPT ![i] = Unbatched]}
  BY DEF CreateRow
<1>2. /\ req[r].agent # AnyAgent /\ req[r].kind = "create" /\ walk' = walk
  <2>1. req[r].agent \in Subject /\ req[r].kind = "create"
    BY Bodies DEF CreateRow
  <2> QED
    BY <2>1, ReceiptsAssumption DEF CreateRow
<1>3. \A j \in Receipt : (j \in Stored => j \in Stored') /\ (j \in Stored' => j \in Stored \/ j = i)
  <2>1. rows \in [Receipt -> Nat \cup {NoRow, Unbatched}]
    BY DEF StepInv, ReceiptsTypeOK
  <2> QED
    BY <1>1, <2>1, ReceiptsAssumption DEF Stored
<1>4. \A j \in Receipt : owner[j] # AnyAgent => owner'[j] = owner[j]
  BY <1>1 DEF StepInv, ReceiptsTypeOK
<1>5. owner'[i] = req[r].agent
  BY <1>1 DEF StepInv, ReceiptsTypeOK
<1>6. RowsInv'
  <2> SUFFICES ASSUME NEW j \in Stored' PROVE owner'[j] # AnyAgent
    BY DEF RowsInv
  <2>1. j \in Receipt
    BY DEF Stored
  <2>2. CASE j \in Stored
    BY <1>4, <2>1, <2>2 DEF AuditInv, RowsInv
  <2>3. CASE j = i
    BY <1>2, <1>5, <2>3
  <2> QED
    BY <1>3, <2>1, <2>2, <2>3
<1>7. \A q \in Request : req[q].kind = "audit" => pc'[q] = pc[q] /\ answer'[q] = answer[q]
  BY <1>2 DEF CreateRow, Goto, Reply, StepInv, ReceiptsTypeOK
<1>8. Stored \subseteq Stored' /\ \A j \in Stored : owner'[j] = owner[j]
  BY <1>3, <1>4 DEF Stored, AuditInv, RowsInv
<1> QED
  BY <1>2, <1>6, <1>7, <1>8, AuditKept

\* A row that gets its batch is a row.
LEMMA AuditAssign ==
    ASSUME StepInv, AuditInv, NEW r \in Request, Assign(r)
    PROVE  AuditInv'
<1> DEFINE b == todo[r].batch
           i == Head(todo[r].left)
<1>1. /\ rows' \in {rows, [rows EXCEPT ![i] = b]} /\ (rows[i] = NoRow => rows' = rows)
      /\ owner' = owner /\ walk' = walk
  BY DEF Assign
<1>2. b \in Nat /\ pc[r] = "assign" /\ req[r].kind # "audit"
  BY DEF StepInv, ReceiptsTypeOK, PlaceInv, Assign, Resume
<1>3. Stored \subseteq Stored' /\ Stored' \subseteq Stored
  <2>1. rows \in [Receipt -> Nat \cup {NoRow, Unbatched}]
    BY DEF StepInv, ReceiptsTypeOK
  <2> HIDE DEF b, i
  <2> QED
    BY <1>1, <1>2, <2>1, ReceiptsAssumption DEF Stored
<1>4. RowsInv'
  BY <1>1, <1>3 DEF AuditInv, RowsInv
<1>5. \A q \in Request : req[q].kind = "audit" => pc'[q] = pc[q] /\ answer'[q] = answer[q]
  BY <1>2 DEF Assign, Reply, StepInv, ReceiptsTypeOK
<1> QED
  BY <1>1, <1>3, <1>4, <1>5, AuditKept

\* A page follows what has been seen, and what it leaves out comes after it.
LEMMA AuditPage ==
    ASSUME StepInv, AuditInv, NEW r \in Request, AuditStore(r)
    PROVE  AuditInv'
<1> DEFINE q == req[r]
           w == walk[r]
           asked == {i \in Stored : i > w.after /\ About(q.agent, i)}
           page == Listed(q.agent, w.after, q.limit)
           owed == IF pc[r] = "page" THEN w.owed ELSE {i \in Stored : About(q.agent, i)}
           Read == [after |-> IF page = {} THEN 0 ELSE Max(page),
                    seen |-> w.seen \cup page,
                    shown |-> w.shown + Cardinality(page),
                    owed |-> owed,
                    more |-> HasCursor(page, q.limit)]
<1>1. /\ q.kind = "audit" /\ pc[r] \in {"idle", "page"} /\ q.limit \in Nat \ {0}
      /\ UNCHANGED <<rows, owner>>
  BY Bodies DEF AuditStore, tables
<1>2. /\ w \in Walked /\ answer[r] = "none"
      /\ \A i \in w.seen : i <= w.after
      /\ w.shown = Cardinality(w.seen)
      /\ \A i \in w.owed : /\ i \in Stored /\ About(q.agent, i)
                           /\ i <= w.after => i \in w.seen
      /\ pc[r] = "idle" => w = Unopened
  <2>1. w \in Walked
    BY DEF StepInv, ReceiptsTypeOK, Walked
  <2>2. CASE pc[r] = "page"
    BY <1>1, <2>1, <2>2 DEF AuditInv, WalkInv
  <2>3. CASE pc[r] = "idle"
    <3>1. w = Unopened /\ answer[r] = "none"
      BY <1>1, <2>3 DEF AuditInv, WalkInv
    <3>2. w.seen = {} /\ w.shown = 0 /\ w.owed = {}
      BY <3>1 DEF Unopened
    <3> QED
      BY <2>1, <2>3, <3>1, <3>2, FS_EmptySet
  <2> QED
    BY <1>1, <2>2, <2>3
<1>3. /\ page \subseteq Receipt /\ page \subseteq Nat /\ IsFiniteSet(page)
      /\ Cardinality(page) \in Nat
      /\ page # {} => Max(page) \in page /\ \A i \in page : i <= Max(page)
  BY PageFacts
<1>4. asked \in SUBSET Nat /\ IsFiniteSet(asked) /\ page = First(asked, q.limit)
  <2>1. IsFiniteSet(Receipt) /\ Receipt \subseteq Nat
    BY ReceiptsAssumption, FS_Interval DEF Receipt
  <2>2. asked \subseteq Receipt
    BY DEF Stored
  <2> QED
    BY <2>1, <2>2, FS_Subset DEF Listed
<1>5. /\ page \subseteq asked
      /\ \A i \in page : \A j \in asked : j < i => j \in page
      /\ Cardinality(page) <= q.limit
      /\ Cardinality(page) < q.limit => page = asked
  <2> HIDE DEF asked, page, q
  <2> QED
    BY <1>1, <1>4, FirstFacts
<1>6. /\ IsFiniteSet(w.seen) /\ w.after \in Nat /\ w.seen \subseteq Receipt
      /\ owed \subseteq Receipt /\ Receipt \subseteq Nat /\ Cardinality(w.seen) \in Nat
  <2>1. IsFiniteSet(Receipt) /\ Receipt \subseteq Nat
    BY ReceiptsAssumption, FS_Interval DEF Receipt
  <2>2. w.after \in Nat /\ w.seen \subseteq Receipt /\ owed \subseteq Receipt
    BY <1>2 DEF Walked, Stored
  <2> QED
    BY <2>1, <2>2, FS_Subset, FS_CardinalityType
<1>7. \A i \in owed : /\ i \in Stored /\ About(q.agent, i)
                      /\ i <= w.after => i \in w.seen
  <2>1. CASE pc[r] = "page"
    BY <1>2, <2>1
  <2>2. CASE pc[r] = "idle"
    <3>1. w.after = 0 /\ \A i \in Receipt : ~ (i <= 0)
      BY <1>2, <2>2 DEF Unopened, Receipt
    <3> QED
      BY <1>6, <2>2, <3>1
  <2> QED
    BY <1>1, <2>1, <2>2
<1>8. \A i \in page : i > w.after
  BY <1>5
<1> HIDE DEF asked, page, owed, w, q
<1>9. Cardinality(w.seen \cup page) = w.shown + Cardinality(page)
  <2>1. w.seen \cap page = {}
    BY <1>2, <1>3, <1>6, <1>8
  <2>2. Cardinality(w.seen \cup page) =
            Cardinality(w.seen) + Cardinality(page) - Cardinality({})
    BY <1>3, <1>6, <2>1, FS_Union
  <2> QED
    BY <1>2, <1>3, <1>6, <2>2, FS_EmptySet
  \* What is owed is seen, or would be on a later page.
<1>10. \A i \in owed : i \in w.seen \/ i \in asked
  <2> SUFFICES ASSUME NEW i \in owed, i \notin w.seen PROVE i \in asked
    OBVIOUS
  <2>1. i \in Nat /\ ~ (i <= w.after) /\ i \in Stored /\ About(q.agent, i)
    BY <1>6, <1>7
  <2>2. i > w.after
    BY <1>6, <2>1
  <2> QED
    BY <2>1, <2>2 DEF asked
<1>11. /\ Read.after = IF page = {} THEN 0 ELSE Max(page)
       /\ Read.seen = w.seen \cup page /\ Read.owed = owed
       /\ Read.shown = Cardinality(Read.seen)
       /\ Read.more <=> Cardinality(page) = q.limit
  BY <1>9 DEF HasCursor
<1> HIDE DEF Read
<1>12. Read.more =>
         /\ \A i \in Read.seen : i <= Read.after
         /\ \A i \in Read.owed : i <= Read.after => i \in Read.seen
  <2> SUFFICES ASSUME Read.more
               PROVE  /\ \A i \in Read.seen : i <= Read.after
                      /\ \A i \in Read.owed : i <= Read.after => i \in Read.seen
    OBVIOUS
  <2>1. page # {}
    BY <1>1, <1>11, FS_EmptySet
  <2>2. Read.after = Max(page) /\ Max(page) \in page /\ \A i \in page : i <= Max(page)
    BY <1>3, <1>11, <2>1
  <2>3. \A i \in w.seen : i <= Max(page)
    <3> SUFFICES ASSUME NEW i \in w.seen PROVE i <= Max(page)
      OBVIOUS
    <3>1. i \in Nat /\ i <= w.after /\ Max(page) \in Nat /\ Max(page) > w.after
      BY <1>2, <1>3, <1>6, <1>8, <2>2
    <3> QED
      BY <1>6, <3>1
  <2>4. \A i \in owed : i <= Max(page) => i \in w.seen \cup page
    <3> SUFFICES ASSUME NEW i \in asked, i <= Max(page) PROVE i \in page
      BY <1>10
    <3>1. i \in Nat /\ Max(page) \in Nat
      BY <1>3, <1>4, <2>2
    <3>2. i = Max(page) \/ i < Max(page)
      BY <2>4, <3>1
    <3> QED
      BY <1>5, <2>2, <3>2
  <2> QED
    BY <1>11, <2>2, <2>3, <2>4
<1>13. ~ Read.more => Read.owed \subseteq Read.seen
  <2> SUFFICES ASSUME ~ Read.more PROVE owed \subseteq w.seen \cup page
    BY <1>11
  <2>1. Cardinality(page) < q.limit
    BY <1>1, <1>3, <1>5, <1>11
  <2>2. page = asked
    BY <1>5, <2>1
  <2> QED
    BY <1>10, <2>2
<1>14. /\ \/ /\ walk' = [walk EXCEPT ![r] = Read]
             /\ IF Read.more THEN Goto(r, "page") ELSE Reply(r, "ok")
          \/ Reply(r, "error") /\ walk' = walk
  BY DEF AuditStore, Read, w, q, page, owed
<1>15. /\ Stored' = Stored
       /\ \A p \in Request : \A i \in Receipt : About(req[p].agent, i)' <=> About(req[p].agent, i)
  BY <1>1 DEF Stored, About
<1>16. RowsInv'
  BY <1>1, <1>15 DEF AuditInv, RowsInv
<1>17. WalkInv'
  <2> SUFFICES ASSUME NEW p \in Request, req[p].kind = "audit"
               PROVE  /\ pc'[p] \in {"idle", "page"} => answer'[p] = "none"
                      /\ pc'[p] = "idle" => walk'[p] = Unopened
                      /\ pc'[p] = "page" =>
                            /\ \A i \in walk'[p].seen : i <= walk'[p].after
                            /\ walk'[p].shown = Cardinality(walk'[p].seen)
                            /\ \A i \in walk'[p].owed :
                                  /\ i \in Stored' /\ About(req[p].agent, i)'
                                  /\ i <= walk'[p].after => i \in walk'[p].seen
                      /\ answer'[p] = "ok" /\ ~walk'[p].more =>
                            /\ walk'[p].owed \subseteq walk'[p].seen
                            /\ walk'[p].shown = Cardinality(walk'[p].seen)
    BY DEF WalkInv
  <2>1. pc \in [Request -> InFlight \cup {"idle", "page", "done", "dropped"}]
        /\ answer \in [Request -> {"none", "ok", "error", "no_reply"}]
        /\ walk \in [Request -> Walked]
    BY DEF StepInv, ReceiptsTypeOK, Walked
  <2>2. CASE p # r
    <3>1. pc'[p] = pc[p] /\ answer'[p] = answer[p] /\ walk'[p] = walk[p]
      BY <1>14, <2>1, <2>2 DEF Goto, Reply
    <3>2. walk[p] \in Walked
      BY <2>1
    <3>3. walk[p].owed \subseteq Receipt
      BY <3>2 DEF Walked
    <3> QED
      BY <1>15, <3>1, <3>3 DEF AuditInv, WalkInv
  <2>3. CASE p = r /\ Read.more /\ walk' = [walk EXCEPT ![r] = Read] /\ Goto(r, "page")
    <3>1. pc'[p] = "page" /\ answer'[p] = "none" /\ walk'[p] = Read
      BY <1>2, <2>1, <2>3 DEF Goto
    <3>2. \A i \in Read.owed : i \in Receipt /\ i \in Stored /\ About(q.agent, i)
      BY <1>6, <1>7, <1>11
    <3> QED
      BY <1>11, <1>12, <1>15, <2>3, <3>1, <3>2 DEF q
  <2>4. CASE p = r /\ ~ Read.more /\ walk' = [walk EXCEPT ![r] = Read] /\ Reply(r, "ok")
    <3>1. pc'[p] = "done" /\ answer'[p] = "ok" /\ walk'[p] = Read
      BY <2>1, <2>4 DEF Reply
    <3> QED
      BY <1>11, <1>13, <3>1
  <2>5. CASE p = r /\ Reply(r, "error") /\ walk' = walk
    <3>1. pc'[p] = "done" /\ answer'[p] = "error" /\ walk'[p] = walk[p]
      BY <2>1, <2>5 DEF Reply
    <3> QED
      BY <3>1
  <2> QED
    BY <1>14, <2>2, <2>3, <2>4, <2>5
<1> QED
  BY <1>16, <1>17 DEF AuditInv

\* The next page keeps the account.
LEMMA AuditListing ==
    ASSUME StepInv, KeptInv, AuditInv, NEW r \in Request, AuditMemory(r)
    PROVE  AuditInv'
<1> DEFINE q == req[r]
           first == FirstPlaces(Sealed(q), q.limit)
           rest == First(Loose(q), Max({1, q.limit - Cardinality(first)}))
           shown == Cardinality(first) + Cardinality(rest)
           Read == [after |-> 0, seen |-> Receipts(first, rest), shown |-> shown,
                    owed |-> Receipts(Sealed(q), Loose(q)), more |-> shown >= q.limit]
<1>1. /\ q.kind = "audit" /\ q.limit \in Nat \ {0} /\ UNCHANGED <<rows, owner>>
      /\ walk' = [walk EXCEPT ![r] = Read] /\ Reply(r, "ok")
  BY Bodies DEF AuditMemory, tables
<1>2. /\ IsFiniteSet(Sealed(q)) /\ IsFiniteSet(Loose(q)) /\ Loose(q) \in SUBSET Nat
      /\ \A p \in Sealed(q) : p[1] \in Nat /\ p[2] \in Nat
  BY MemoryFacts DEF StepInv
<1> HIDE DEF q
<1>3. /\ first \subseteq Sealed(q)
      /\ Cardinality(first) < q.limit => first = Sealed(q)
  BY <1>1, <1>2, FirstPlacesFacts
<1>4. Cardinality(first) \in Nat /\ rest \subseteq Loose(q)
  BY <1>2, <1>3, FS_Subset, FS_CardinalityType DEF First
<1> HIDE DEF first
<1>5. Cardinality(first) < q.limit =>
        (Cardinality(rest) < q.limit - Cardinality(first) => rest = Loose(q))
  <2> SUFFICES ASSUME Cardinality(first) < q.limit
               PROVE  Cardinality(rest) < q.limit - Cardinality(first) => rest = Loose(q)
    OBVIOUS
  <2> DEFINE left == q.limit - Cardinality(first)
  <2>1. left \in Nat /\ left >= 1
    BY <1>1, <1>4
  <2> HIDE DEF left
  <2>2. IsFiniteSet({1, left})
    <3>1. {1, left} \subseteq 0 .. left
      BY <2>1
    <3> QED
      BY <2>1, <3>1, FS_Interval, FS_Subset
  <2>3. Max({1, left}) = left
    <3>1. Max({1, left}) \in {1, left} /\ \A i \in {1, left} : i <= Max({1, left})
      BY <2>1, <2>2, MaxFacts
    <3> QED
      BY <2>1, <3>1
  <2>4. rest = First(Loose(q), left)
    BY <2>3 DEF left
  <2>5. Cardinality(rest) < left => rest = Loose(q)
    BY <1>2, <2>1, <2>4, FirstFacts
  <2> QED
    BY <2>5 DEF left
<1>6. Cardinality(rest) \in Nat
  BY <1>2, <1>4, FS_Subset, FS_CardinalityType
<1> HIDE DEF rest
<1>7. ~ Read.more => first = Sealed(q) /\ rest = Loose(q)
  <2> SUFFICES ASSUME ~ (Cardinality(first) + Cardinality(rest) >= q.limit)
               PROVE  first = Sealed(q) /\ rest = Loose(q)
    OBVIOUS
  <2>1. /\ Cardinality(first) < q.limit
        /\ Cardinality(rest) < q.limit - Cardinality(first)
    BY <1>1, <1>4, <1>6
  <2> QED
    BY <1>3, <1>5, <2>1
<1>8. ~ Read.more => /\ Read.owed \subseteq Read.seen
                     /\ Read.shown = Cardinality(Read.seen)
  BY <1>7, MemoryCounts
<1> HIDE DEF Read
<1>9. /\ Stored' = Stored
      /\ \A p \in Request : \A i \in Receipt : About(req[p].agent, i)' <=> About(req[p].agent, i)
  BY <1>1 DEF Stored, About
<1>10. RowsInv'
  BY <1>1, <1>9 DEF AuditInv, RowsInv
<1>11. WalkInv'
  <2> SUFFICES ASSUME NEW p \in Request, req[p].kind = "audit"
               PROVE  /\ pc'[p] \in {"idle", "page"} => answer'[p] = "none"
                      /\ pc'[p] = "idle" => walk'[p] = Unopened
                      /\ pc'[p] = "page" =>
                            /\ \A i \in walk'[p].seen : i <= walk'[p].after
                            /\ walk'[p].shown = Cardinality(walk'[p].seen)
                            /\ \A i \in walk'[p].owed :
                                  /\ i \in Stored' /\ About(req[p].agent, i)'
                                  /\ i <= walk'[p].after => i \in walk'[p].seen
                      /\ answer'[p] = "ok" /\ ~walk'[p].more =>
                            /\ walk'[p].owed \subseteq walk'[p].seen
                            /\ walk'[p].shown = Cardinality(walk'[p].seen)
    BY DEF WalkInv
  <2>1. pc \in [Request -> InFlight \cup {"idle", "page", "done", "dropped"}]
        /\ answer \in [Request -> {"none", "ok", "error", "no_reply"}]
        /\ walk \in [Request -> Walked]
    BY DEF StepInv, ReceiptsTypeOK, Walked
  <2>2. CASE p # r
    <3>1. pc'[p] = pc[p] /\ answer'[p] = answer[p] /\ walk'[p] = walk[p]
      BY <1>1, <2>1, <2>2 DEF Reply
    <3>2. walk[p] \in Walked
      BY <2>1
    <3>3. walk[p].owed \subseteq Receipt
      BY <3>2 DEF Walked
    <3> QED
      BY <1>9, <3>1, <3>3 DEF AuditInv, WalkInv
  <2>3. CASE p = r
    <3>1. pc'[p] = "done" /\ walk'[p] = Read
      BY <1>1, <2>1, <2>3 DEF Reply
    <3> QED
      BY <1>8, <3>1
  <2> QED
    BY <2>2, <2>3
<1> QED
  BY <1>10, <1>11 DEF AuditInv

LEMMA AuditStep == ASSUME StepInv, KeptInv, AuditInv, [ReceiptsNext]_receiptsVars PROVE AuditInv'
<1>1. ASSUME NEW r \in Request, CreateRow(r) \/ Assign(r) \/ AuditStore(r) \/ AuditMemory(r)
      PROVE  AuditInv'
  BY <1>1, AuditCreate, AuditAssign, AuditPage, AuditListing
<1>2. ASSUME NEW r \in Request, AddReceipt(r) \/ PersistBatch(r) \/ ForceSeal(r) \/ Drop(r)
      PROVE  AuditInv'
  <2>1. rows' = rows /\ owner' = owner /\ walk' = walk
    BY <1>2 DEF AddReceipt, PersistBatch, ForceSeal, Drop, tables
  <2>2. RowsInv' /\ Stored' = Stored
    BY <2>1 DEF AuditInv, RowsInv, Stored
  <2>3. req[r].kind # "audit"
    BY <1>2 DEF AddReceipt, PersistBatch, ForceSeal, Drop, StepInv, PlaceInv, Resume,
       InFlight
  <2>4. \A q \in Request : req[q].kind = "audit" => pc'[q] = pc[q] /\ answer'[q] = answer[q]
    BY <1>2, <2>3 DEF AddReceipt, PersistBatch, ForceSeal, Drop, Persist, Goto, Reply,
       StepInv,
                      ReceiptsTypeOK
  <2> QED
    BY <2>1, <2>2, <2>4, AuditKept
<1>3. CASE Restart
  <2>1. rows' = rows /\ owner' = owner /\ walk' = walk /\ answer' = answer
    BY <1>3 DEF Restart, tables
  <2>2. RowsInv' /\ Stored' = Stored
    BY <2>1 DEF AuditInv, RowsInv, Stored
  <2>3. \A q \in Request : pc'[q] # "page" /\ (pc'[q] = "idle" => pc[q] = "idle")
    BY <1>3 DEF Restart
  <2> QED
    BY <2>1, <2>2, <2>3 DEF AuditInv, WalkInv
<1>4. CASE Job \/ Signal \/ FlushOne \/ UNCHANGED receiptsVars
  <2>1. rows' = rows /\ owner' = owner /\ walk' = walk /\ UNCHANGED handlers
    BY <1>4 DEF Job, JobSeal, JobWrite, JobReconnect, Signal, FlushOne, receiptsVars, tables
  <2>2. RowsInv' /\ Stored' = Stored
    BY <2>1 DEF AuditInv, RowsInv, Stored
  <2> QED
    BY <2>1, <2>2, AuditKept DEF handlers
<1> QED
  BY <1>1, <1>2, <1>3, <1>4 DEF ReceiptsNext, Handle, Audit

-----------------------------------------------------------------------------
(***************************************************************************)
(* The state of the endpoints stays what it is said to be: among others a  *)
(* handler that persists a batch persists one that was sealed, and the     *)
(* flush always has a batch to write.                                      *)
(***************************************************************************)
THEOREM ReceiptsTypeCorrect == ReceiptsSpec => []ReceiptsTypeOK
<1>1. StepInv => ReceiptsTypeOK
  BY DEF StepInv
<1> QED
  BY <1>1, StepAlways, PTL

(***************************************************************************)
(* When the flush is over, what it owed is stored: flush_on_shutdown tries *)
(* every batch, whatever becomes of the one before it.                     *)
(***************************************************************************)
THEOREM FlushKeepsSealedHolds == ReceiptsSpec => []FlushKeepsSealed
<1>1. StepInv => FlushKeepsSealed
  BY DEF StepInv, FlushInv, FlushKeepsSealed
<1> QED
  BY <1>1, StepAlways, PTL

(***************************************************************************)
(* A receipt is in one place of one batch, or pending once.                *)
(***************************************************************************)
THEOREM KeptOnce == ReceiptsSpec => []Distinct(content, pending)
<1>1. ReceiptsInit => KeptInv
  BY KeptInit
<1>2. StepInv /\ KeptInv /\ [ReceiptsNext]_receiptsVars => KeptInv'
  BY KeptStep
<1>3. KeptInv => Distinct(content, pending)
  BY DEF KeptInv
<1> QED
  BY <1>1, <1>2, <1>3, StepAlways, PTL DEF ReceiptsSpec

(***************************************************************************)
(* An auditor who follows the cursors to a page that is not full has seen  *)
(* each receipt that was there when it began, and none twice, whatever was *)
(* stored in between and whatever id it was given.                         *)
(***************************************************************************)
THEOREM WalkIsCompleteHolds == ReceiptsSpec => []WalkIsComplete
<1>1. ReceiptsInit => KeptInv /\ AuditInv
  BY KeptInit, AuditInit
<1>2. StepInv /\ KeptInv /\ AuditInv /\ [ReceiptsNext]_receiptsVars => KeptInv' /\ AuditInv'
  BY KeptStep, AuditStep
<1>3. AuditInv => WalkIsComplete
  BY DEF AuditInv, WalkInv, WalkIsComplete
<1> QED
  BY <1>1, <1>2, <1>3, StepAlways, PTL DEF ReceiptsSpec
=============================================================================
