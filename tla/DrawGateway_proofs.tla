------------------------- MODULE DrawGateway_proofs -------------------------
(***************************************************************************)
(* What the draw endpoints guarantee, for any agents, requests, keys and   *)
(* clocks, however their sections interleave, whatever is revoked when,    *)
(* and wherever handlers are dropped.                                      *)
(*                                                                         *)
(* The inductive invariant ties four things to the handler that touches    *)
(* them: the windows never hold more than an amount can express (so the    *)
(* checked sum that verify_limit falls back to zero on never fails), an    *)
(* answer is backed by what was applied, the cache holds the answer that   *)
(* was last sent under a key, a handler about to decide has seen its       *)
(* attestation unrevoked, and a window counts at least what was drawn in   *)
(* it and not released.                                                    *)
(***************************************************************************)
EXTENDS DrawGateway, LedgerLemmas

Place == InFlight \cup {"idle", "done", "dropped"}

\* Where a handler stands tells which body it serves, and what it has done.
PlaceInv ==
    \A r \in Request :
        /\ pc[r] \in {"check", "decide"} => req[r].kind = "verify"
        /\ pc[r] \in {"resolve", "score"} => req[r].kind = "settle"
        /\ pc[r] = "score" => r \in applied
        /\ pc[r] = "put" => answer[r] \in IF req[r].kind = "verify"
                                          THEN {"permitted", "refused"}
                                          ELSE {"resolved"}
        /\ pc[r] = "decide" => r \in livable

\* A draw was committed, or a settlement applied, under key k.
AppliedUnder(kind, k) == \E s \in applied : req[s].kind = kind /\ req[s].key = k

\* What the cache would tell a retry is so.
CacheInv ==
    \A k \in Key : cache[k] # NoEntry =>
        /\ cache[k].response = "permitted" => AppliedUnder("verify", k)
        /\ cache[k].response = "resolved" => AppliedUnder("settle", k)

\* An answer under a key is in the cache for as long as a retry may rely on it.
AnsweredInv ==
    \A k \in Key : answered[k] # Never =>
        /\ answered[k] <= now
        /\ now - answered[k] <= KeyTtl =>
              cache[k] # NoEntry /\ cache[k].stored_at = answered[k]

LateInv == \A r \in late : pc[r] = "done"

\* The sum of the two counters fits in an amount, rolled or not.
Fits(w) == w # NoWindow => w.at_risk + w.window_used <= MaxMinor

WindowInv == \A a \in Agent : Fits(windows[a])

\* What a window counts, rolled or not.
Counted(w) == IF w = NoWindow THEN 0 ELSE w.at_risk + w.window_used

\* It is at least what was drawn in it and not released.
DrawnInv == \A a \in Agent : drawn[a] <= Counted(windows[a])

Inv == /\ TypeOK /\ PlaceInv /\ AnswersAreBacked /\ CacheInv /\ AnsweredInv
       /\ LateInv /\ WindowInv /\ DrawnInv

-----------------------------------------------------------------------------
(* Facts about requests, and about one window.                              *)

LEMMA RequestBody ==
    ASSUME NEW r \in Request
    PROVE  /\ req[r].kind \in {"verify", "settle"}
           /\ req[r].key \in Key \cup {NoKey}
           /\ req[r].agent \in Agent /\ req[r].amount \in Minor
           /\ req[r].kind = "verify" => req[r].lim_window \in WindowLimit
  BY GatewayAssumption DEF VerifyBody, SettleBody

\* What a reader sees of a window that fits, fits.
LEMMA SeenFits ==
    ASSUME NEW w \in Window \cup {NoWindow}, NEW t \in Nat, Fits(w)
    PROVE  /\ Snapshot(w, t).at_risk \in 0..MaxMinor
           /\ Snapshot(w, t).window_used \in 0..MaxMinor
           /\ Snapshot(w, t).at_risk + Snapshot(w, t).window_used <= MaxMinor
<1>1. CASE w = NoWindow
  BY <1>1, WindowAssumption DEF Snapshot, NewWindow
<1>2. CASE w # NoWindow
  <2>1. w.at_risk \in 0..MaxMinor /\ w.window_used \in 0..MaxMinor
    BY <1>2 DEF Window, Minor
  <2>2. w.at_risk + w.window_used <= MaxMinor
    BY <1>2 DEF Fits
  <2>3. /\ Snapshot(w, t).at_risk = w.at_risk
        /\ Snapshot(w, t).window_used \in {0, w.window_used}
    BY <1>2 DEF Snapshot
  <2> QED
    BY <2>1, <2>2, <2>3, WindowAssumption
<1> QED
  BY <1>1, <1>2

\* A permitted draw leaves a window that fits, and is within the limit it presented.
LEMMA CommitFits ==
    ASSUME NEW w \in Window \cup {NoWindow}, NEW t \in Nat, Fits(w),
           NEW o, o.amount \in Minor, o.lim_window \in WindowLimit,
           Permits(o, Snapshot(w, t), t)
    PROVE  LET new == RecordCommit(w, t, o.amount)
           IN  /\ new \in Window /\ Fits(new)
               /\ Snapshot(new, t).at_risk + Snapshot(new, t).window_used <= o.lim_window
               /\ new.at_risk + new.window_used
                    = Snapshot(w, t).at_risk + Snapshot(w, t).window_used + o.amount
<1> DEFINE new == RecordCommit(w, t, o.amount)
           s == Snapshot(w, t)
<1>1. s.at_risk \in 0..MaxMinor /\ s.window_used \in 0..MaxMinor
      /\ s.at_risk + s.window_used <= MaxMinor
  BY SeenFits
<1>2. /\ new \in Window /\ Snapshot(new, t) = new
      /\ new.at_risk = SatAdd(s.at_risk, o.amount, MaxMinor)
      /\ new.window_used = s.window_used
  BY AfterCommit
<1>3. SatAdd(TotalCommitted(s), o.amount, MaxMinor) <= o.lim_window
  BY DEF Permits
<1> HIDE DEF new, s
<1>4. TotalCommitted(s) = s.at_risk + s.window_used
  BY <1>1, WindowAssumption DEF TotalCommitted
<1>5. /\ o.amount \in 0..MaxMinor /\ o.lim_window \in 0..(MaxMinor - 1)
      /\ MaxMinor \in Nat
  BY WindowAssumption DEF Minor, WindowLimit
<1>6. s.at_risk + s.window_used + o.amount <= o.lim_window
  BY <1>1, <1>3, <1>4, <1>5 DEF SatAdd
<1>7. new.at_risk = s.at_risk + o.amount
  BY <1>1, <1>2, <1>5, <1>6 DEF SatAdd
<1>8. new.at_risk + new.window_used <= o.lim_window
  BY <1>1, <1>2, <1>5, <1>6, <1>7
<1>9. Fits(new)
  BY <1>1, <1>2, <1>5, <1>7, <1>8 DEF Fits
<1>10. new.at_risk + new.window_used = s.at_risk + s.window_used + o.amount
  BY <1>1, <1>2, <1>5, <1>7
<1> QED
  BY <1>2, <1>8, <1>9, <1>10 DEF new, s

\* A settlement or a release leaves a window that fits, whatever its amount.
LEMMA ResolveFits ==
    ASSUME NEW w \in Window \cup {NoWindow}, NEW t \in Nat, Fits(w), NEW m \in Minor,
           NEW new \in {RecordSettled(w, t, m), RecordReleased(w, t, m)}
    PROVE  new \in Window /\ Fits(new)
<1> DEFINE s == Snapshot(w, t)
<1>1. s.at_risk \in 0..MaxMinor /\ s.window_used \in 0..MaxMinor
      /\ s.at_risk + s.window_used <= MaxMinor
  BY SeenFits
<1>2. m \in 0..MaxMinor /\ MaxMinor \in Nat
  BY WindowAssumption DEF Minor
<1>3. CASE new = RecordSettled(w, t, m)
  <2>1. /\ new \in Window
        /\ new.at_risk = SatSub(s.at_risk, m)
        /\ new.window_used = SatAdd(s.window_used, m, MaxMinor)
    BY <1>3, AfterSettle
  <2> HIDE DEF s
  <2>2. new.at_risk + new.window_used <= MaxMinor
    BY <1>1, <1>2, <2>1 DEF SatAdd, SatSub
  <2> QED
    BY <2>1, <2>2 DEF Fits
<1>4. CASE new = RecordReleased(w, t, m)
  <2>1. /\ new \in Window
        /\ new.at_risk = SatSub(s.at_risk, m)
        /\ new.window_used = s.window_used
    BY <1>4, AfterRelease
  <2> HIDE DEF s
  <2>2. new.at_risk + new.window_used <= MaxMinor
    BY <1>1, <1>2, <2>1 DEF SatSub
  <2> QED
    BY <2>1, <2>2 DEF Fits
<1> QED
  BY <1>3, <1>4

\* A settlement never lowers what a window counts, and a release lowers it by
\* its amount at most: neither makes more room than it says.
LEMMA ResolveCounts ==
    ASSUME NEW w \in Window \cup {NoWindow}, NEW t \in Nat, Fits(w), NEW m \in Minor,
           NEW d \in Nat, d <= Snapshot(w, t).at_risk + Snapshot(w, t).window_used
    PROVE  /\ d <= Counted(RecordSettled(w, t, m))
           /\ SatSub(d, m) <= Counted(RecordReleased(w, t, m))
           /\ SatSub(d, m) \in Nat
<1> DEFINE s == Snapshot(w, t)
           settled == RecordSettled(w, t, m)
           released == RecordReleased(w, t, m)
<1>1. s.at_risk \in 0..MaxMinor /\ s.window_used \in 0..MaxMinor
      /\ s.at_risk + s.window_used <= MaxMinor
  BY SeenFits
<1>2. m \in 0..MaxMinor /\ MaxMinor \in Nat /\ NoWindow \notin Window
  BY WindowAssumption DEF Minor
<1>3. /\ settled \in Window
      /\ settled.at_risk = SatSub(s.at_risk, m)
      /\ settled.window_used = SatAdd(s.window_used, m, MaxMinor)
  BY AfterSettle
<1>4. /\ released \in Window
      /\ released.at_risk = SatSub(s.at_risk, m)
      /\ released.window_used = s.window_used
  BY AfterRelease
<1>5. /\ Counted(settled) = settled.at_risk + settled.window_used
      /\ Counted(released) = released.at_risk + released.window_used
  BY <1>2, <1>3, <1>4 DEF Counted
<1> HIDE DEF s, settled, released
<1>6. d <= s.at_risk + s.window_used
  BY DEF s
<1>7. d <= Counted(settled)
  BY <1>1, <1>2, <1>3, <1>5, <1>6 DEF SatAdd, SatSub
<1>8. SatSub(d, m) <= Counted(released) /\ SatSub(d, m) \in Nat
  BY <1>1, <1>2, <1>4, <1>5, <1>6 DEF SatSub
<1> QED
  BY <1>7, <1>8 DEF settled, released

\* What was drawn in the window that is open now is within what it counts.
LEMMA SeenDrawn ==
    ASSUME Inv, NEW a \in Agent
    PROVE  /\ DrawnInWindow(a) \in Nat
           /\ DrawnInWindow(a) <= Snapshot(windows[a], now).at_risk
                                  + Snapshot(windows[a], now).window_used
<1>1. /\ windows[a] \in Window \cup {NoWindow} /\ Fits(windows[a]) /\ now \in Nat
      /\ drawn[a] \in Nat /\ drawn[a] <= Counted(windows[a])
  BY GatewayAssumption DEF Inv, TypeOK, WindowInv, DrawnInv
<1> DEFINE s == Snapshot(windows[a], now)
<1>2. s.at_risk \in 0..MaxMinor /\ s.window_used \in 0..MaxMinor /\ MaxMinor \in Nat
  BY <1>1, SeenFits, WindowAssumption
<1>3. CASE windows[a] = NoWindow \/ Elapsed(windows[a], now)
  <2>1. DrawnInWindow(a) = 0
    BY <1>3 DEF DrawnInWindow
  <2> HIDE DEF s
  <2>2. 0 <= s.at_risk + s.window_used
    BY <1>2
  <2> QED
    BY <2>1, <2>2 DEF s
<1>4. CASE ~ (windows[a] = NoWindow \/ Elapsed(windows[a], now))
  BY <1>1, <1>4 DEF DrawnInWindow, Counted, Snapshot
<1> QED
  BY <1>3, <1>4

-----------------------------------------------------------------------------
(* What a step leaves of the invariant.                                     *)

\* Something of request r's kind was applied, by r or under its key.
Backed(r) ==
    \E s \in applied : /\ req[s].kind = req[r].kind
                       /\ (s = r \/ (req[s].key = req[r].key /\ req[r].key # NoKey))

\* An answer that says that something was applied.
Claims(r, what) ==
    <<req[r].kind, what>> \in {<<"verify", "permitted">>, <<"settle", "resolved">>}

LEMMA BackedAnswers ==
    AnswersAreBacked <=> \A r \in Request : Claims(r, answer[r]) => Backed(r)
  BY DEF AnswersAreBacked, Claims, Backed

\* What is backed stays so.
LEMMA BackedStays ==
    ASSUME applied \subseteq applied'
    PROVE  /\ \A r \in Request : Backed(r) => Backed(r)'
           /\ \A kind, k : AppliedUnder(kind, k) => AppliedUnder(kind, k)'
  BY DEF Backed, AppliedUnder

\* A handler moves on; where it then stands and what it then answers fit.
LEMMA HandlerKeeps ==
    ASSUME Inv, NEW r \in Request, NEW where \in Place, NEW what \in Answer,
           Goto(r, where, what), pc[r] # "done", RecordLivable,
           UNCHANGED <<now, cutoffs>>,
           applied \subseteq applied', late' \subseteq late \cup {r},
           r \in late' => where = "done",
           where \in {"check", "decide"} => req[r].kind = "verify",
           where \in {"resolve", "score"} => req[r].kind = "settle",
           where = "score" => r \in applied',
           where = "put" => what \in IF req[r].kind = "verify"
                                     THEN {"permitted", "refused"} ELSE {"resolved"},
           where = "decide" => ~ Revoked(r),
           Claims(r, what) => Backed(r)'
    PROVE  /\ pc' \in [Request -> Place] /\ answer' \in [Request -> Answer]
           /\ livable' \subseteq Request
           /\ PlaceInv' /\ AnswersAreBacked' /\ LateInv'
<1>1. /\ pc' \in [Request -> Place] /\ answer' \in [Request -> Answer]
      /\ pc'[r] = where /\ answer'[r] = what
      /\ \A q \in Request : q # r => pc'[q] = pc[q] /\ answer'[q] = answer[q]
  BY DEF Inv, TypeOK, Goto, Place
<1>2. livable' \subseteq Request
  BY DEF RecordLivable
<1>3. \A q \in Request : pc'[q] = "decide" => q \in livable'
  <2> SUFFICES ASSUME NEW q \in Request, pc'[q] = "decide" PROVE q \in livable'
    OBVIOUS
  <2>1. req[q].kind = "verify"
    BY <1>1 DEF Inv, PlaceInv
  <2>2. q \in livable \/ ~ Revoked(q)'
    <3>1. CASE q = r
      BY <1>1, <3>1 DEF Revoked, Cuts
    <3>2. CASE q # r
      BY <1>1, <3>2 DEF Inv, PlaceInv
    <3> QED
      BY <3>1, <3>2
  <2> QED
    BY <2>1, <2>2 DEF RecordLivable, InFlight
<1>4. PlaceInv'
  BY <1>1, <1>3 DEF Inv, PlaceInv
<1>5. AnswersAreBacked'
  <2>1. \A q \in Request : Claims(q, answer'[q]) => Backed(q)'
    BY <1>1, BackedAnswers, BackedStays DEF Inv
  <2> QED
    BY <2>1 DEF AnswersAreBacked, Claims, Backed
<1>6. LateInv'
  BY <1>1 DEF Inv, LateInv, TypeOK
<1> QED
  BY <1>1, <1>2, <1>4, <1>5, <1>6

\* The cache, and what was answered, are as they were.
LEMMA CacheKeeps ==
    ASSUME Inv, applied \subseteq applied', UNCHANGED <<now, cache, answered>>
    PROVE  CacheInv' /\ AnsweredInv'
<1>1. CacheInv'
  BY BackedStays DEF Inv, CacheInv
<1>2. AnsweredInv'
  BY DEF Inv, AnsweredInv
<1> QED
  BY <1>1, <1>2

\* Most steps leave the ledger and the cache alone.
LEMMA QuietStep ==
    ASSUME Inv, NEW r \in Request, NEW where \in Place, NEW what \in Answer,
           Goto(r, where, what), pc[r] # "done", RecordLivable, SameBooks,
           UNCHANGED <<now, cutoffs, revokes, cache, answered>>,
           late' \subseteq late \cup {r}, r \in late' => where = "done",
           where \in {"check", "decide"} => req[r].kind = "verify",
           where = "resolve" => req[r].kind = "settle",
           where \notin {"score", "put"},
           where = "decide" => ~ Revoked(r),
           Claims(r, what) => Backed(r)
    PROVE  Inv'
<1>1. UNCHANGED <<windows, outcomes, applied, drawn>>
  BY DEF SameBooks
<1>2. Claims(r, what) => Backed(r)'
  BY <1>1, BackedStays
<1>3. /\ pc' \in [Request -> Place] /\ answer' \in [Request -> Answer]
      /\ livable' \subseteq Request
      /\ PlaceInv' /\ AnswersAreBacked' /\ LateInv'
  BY <1>1, <1>2, HandlerKeeps
<1>4. late' \subseteq Request
  BY DEF Inv, TypeOK
<1>5. TypeOK'
  BY <1>1, <1>3, <1>4 DEF Inv, TypeOK, Place
<1>6. CacheInv' /\ AnsweredInv'
  BY <1>1, CacheKeeps
<1>7. WindowInv' /\ DrawnInv'
  BY <1>1 DEF Inv, WindowInv, DrawnInv
<1> QED
  BY <1>3, <1>5, <1>6, <1>7 DEF Inv

-----------------------------------------------------------------------------
(* The sections of a handler.                                               *)

LEMMA LookupInv == ASSUME Inv, NEW r \in Request, Handle(Lookup(r)) PROVE Inv'
<1> DEFINE k == req[r].key
<1>1. /\ pc[r] = "idle" /\ RecordLivable /\ SameBooks
      /\ UNCHANGED <<now, cutoffs, revokes, cache, answered>>
      /\ late' \subseteq late \cup {r}
  BY DEF Handle, Lookup
<1>2. req[r].kind \in {"verify", "settle"} /\ k \in Key \cup {NoKey}
  BY RequestBody
<1>3. CASE Hit(r)
  <2>1. /\ k \in Key /\ k # NoKey /\ cache[k] # NoEntry /\ cache[k].response \in Answer
    BY <1>2, <1>3 DEF Hit, Live, Inv, TypeOK, Entries
  <2>2. Replayed(r) \in Answer
    BY <2>1 DEF Replayed, Answer
  <2>3. ASSUME Claims(r, Replayed(r)) PROVE Backed(r)
    <3>1. AppliedUnder(req[r].kind, k)
      BY <2>1, <2>3 DEF Claims, Replayed, Inv, CacheInv
    <3> QED
      BY <2>1, <3>1 DEF AppliedUnder, Backed
  <2>4. Goto(r, "done", Replayed(r))
    BY <1>3 DEF Handle, Lookup
  <2> QED
    BY <1>1, <2>2, <2>3, <2>4, QuietStep DEF Place
<1>4. CASE ~ Hit(r)
  <2>1. \/ req[r].kind = "verify" /\ Goto(r, "check", "none")
        \/ req[r].kind = "settle" /\ Goto(r, "resolve", "none")
    BY <1>2, <1>4 DEF Handle, Lookup
  <2>2. "none" \in Answer /\ "check" \in Place /\ "resolve" \in Place /\ ~ Claims(r, "none")
    BY DEF Answer, Place, InFlight, Claims
  <2>3. r \notin late'
    <3>1. r \notin late
      BY <1>1 DEF Inv, LateInv
    <3>2. ASSUME k # NoKey, answered[k] # Never, now - answered[k] <= KeyTtl PROVE FALSE
      BY <1>2, <1>4, <3>2 DEF Hit, Live, Inv, AnsweredInv
    <3> QED
      BY <3>1, <3>2 DEF Handle, Lookup
  <2> QED
    BY <1>1, <2>1, <2>2, <2>3, QuietStep
<1> QED
  BY <1>3, <1>4

LEMMA CheckInv == ASSUME Inv, NEW r \in Request, Handle(Check(r)) PROVE Inv'
<1>1. /\ pc[r] = "check" /\ RecordLivable /\ SameBooks /\ r \notin late
      /\ UNCHANGED <<now, cutoffs, revokes, cache, answered, late>>
      /\ Goto(r, "done", "unauthorised") \/ (Goto(r, "decide", "none") /\ ~ Revoked(r))
  BY DEF Handle, Check, SameCache, Inv, LateInv
<1>2. /\ {"done", "decide"} \subseteq Place /\ {"none", "unauthorised"} \subseteq Answer
      /\ ~ Claims(r, "none") /\ ~ Claims(r, "unauthorised")
  BY DEF Answer, Place, InFlight, Claims
<1>3. req[r].kind = "verify"
  BY <1>1 DEF Inv, PlaceInv
<1> QED
  BY <1>1, <1>2, <1>3, QuietStep

LEMMA DropInv == ASSUME Inv, NEW r \in Request, Handle(Drop(r)) PROVE Inv'
<1>1. /\ pc[r] # "done" /\ RecordLivable /\ SameBooks /\ r \notin late
      /\ UNCHANGED <<now, cutoffs, revokes, cache, answered, late>>
      /\ Goto(r, "dropped", "none")
  BY DEF Handle, Drop, SameCache, Inv, LateInv, InFlight
<1>2. "dropped" \in Place /\ "none" \in Answer /\ ~ Claims(r, "none")
  BY DEF Answer, Place, Claims
<1> QED
  BY <1>1, <1>2, QuietStep

LEMMA DecideInv == ASSUME Inv, NEW r \in Request, Handle(Decide(r)) PROVE Inv'
<1> DEFINE a == req[r].agent
           next == IF req[r].key = NoKey THEN "done" ELSE "put"
<1>1. /\ pc[r] = "decide" /\ RecordLivable /\ r \notin late
      /\ UNCHANGED <<now, cutoffs, revokes, cache, answered, late, outcomes>>
  BY DEF Handle, Decide, SameCache, Inv, LateInv
<1>2. /\ req[r].kind = "verify" /\ a \in Agent /\ req[r].amount \in Minor
      /\ req[r].lim_window \in WindowLimit
  BY <1>1, RequestBody DEF Inv, PlaceInv
<1>3. /\ next \in Place /\ next \in {"done", "put"}
      /\ {"permitted", "refused"} \subseteq Answer
      /\ ~ Claims(r, "refused")
  BY DEF Place, InFlight, Answer, Claims
<1>4. \/ /\ Permits(req[r], Exposure(a), now)
         /\ windows' = [windows EXCEPT ![a] = RecordCommit(@, now, req[r].amount)]
         /\ drawn' = [drawn EXCEPT ![a] = DrawnInWindow(a) + req[r].amount]
         /\ applied' = applied \cup {r} /\ Goto(r, next, "permitted")
      \/ UNCHANGED <<windows, applied, drawn>> /\ Goto(r, next, "refused")
  BY DEF Handle, Decide
<1> HIDE DEF next
<1>5. r \in applied' => Backed(r)'
  BY <1>1 DEF Backed
<1>6. /\ pc' \in [Request -> Place] /\ answer' \in [Request -> Answer]
      /\ livable' \subseteq Request
      /\ PlaceInv' /\ AnswersAreBacked' /\ LateInv'
  <2>1. CASE Goto(r, next, "permitted") /\ applied' = applied \cup {r}
    BY <1>1, <1>2, <1>3, <1>5, <2>1, HandlerKeeps
  <2>2. CASE Goto(r, next, "refused") /\ applied' = applied
    BY <1>1, <1>2, <1>3, <2>2, HandlerKeeps
  <2> QED
    BY <1>4, <2>1, <2>2
<1>7. applied \subseteq applied'
  BY <1>4
<1>8. CacheInv' /\ AnsweredInv'
  BY <1>1, <1>7, CacheKeeps
<1>9. /\ windows' \in [Agent -> Window \cup {NoWindow}] /\ WindowInv'
      /\ drawn' \in [Agent -> Nat] /\ DrawnInv'
  <2>1. CASE UNCHANGED <<windows, drawn>>
    BY <2>1 DEF Inv, TypeOK, WindowInv, DrawnInv
  <2>2. CASE /\ Permits(req[r], Exposure(a), now)
             /\ windows' = [windows EXCEPT ![a] = RecordCommit(@, now, req[r].amount)]
             /\ drawn' = [drawn EXCEPT ![a] = DrawnInWindow(a) + req[r].amount]
    <3> DEFINE new == RecordCommit(windows[a], now, req[r].amount)
               s == Snapshot(windows[a], now)
    <3>1. /\ windows[a] \in Window \cup {NoWindow} /\ Fits(windows[a]) /\ now \in Nat
      BY <1>2, GatewayAssumption DEF Inv, TypeOK, WindowInv
    <3>2. /\ new \in Window /\ Fits(new)
          /\ new.at_risk + new.window_used = s.at_risk + s.window_used + req[r].amount
      BY <1>2, <2>2, <3>1, CommitFits DEF Exposure
    <3>3. windows' \in [Agent -> Window \cup {NoWindow}] /\ WindowInv'
      BY <2>2, <3>2 DEF Inv, TypeOK, WindowInv
    <3>4. DrawnInWindow(a) \in Nat /\ DrawnInWindow(a) <= s.at_risk + s.window_used
      BY <1>2, SeenDrawn
    <3>5. req[r].amount \in Nat /\ s.at_risk \in Nat /\ s.window_used \in Nat
      BY <1>2, <3>1, SeenFits, WindowAssumption DEF Minor
    <3> DEFINE d == DrawnInWindow(a) + req[r].amount
    <3>6. Counted(new) = new.at_risk + new.window_used
      BY <3>2, WindowAssumption DEF Counted
    <3> HIDE DEF new, s
    <3>7. d \in Nat /\ d <= Counted(new)
      BY <3>2, <3>4, <3>5, <3>6
    <3> HIDE DEF d
    <3>8. drawn' = [drawn EXCEPT ![a] = d] /\ windows' = [windows EXCEPT ![a] = new]
      BY <2>2 DEF d, new
    <3> QED
      BY <1>2, <3>3, <3>7, <3>8 DEF Inv, TypeOK, DrawnInv
  <2> QED
    BY <1>4, <2>1, <2>2
<1>10. TypeOK'
  <2>1. late' \subseteq Request /\ applied' \subseteq Request
    BY <1>1, <1>4 DEF Inv, TypeOK
  <2> QED
    BY <1>1, <1>6, <1>9, <2>1 DEF Inv, TypeOK, Place
<1> QED
  BY <1>6, <1>8, <1>9, <1>10 DEF Inv

LEMMA ResolveInv == ASSUME Inv, NEW r \in Request, Handle(Resolve(r)) PROVE Inv'
<1> DEFINE a == req[r].agent
           new == IF req[r].settled THEN RecordSettled(windows[a], now, req[r].amount)
                                    ELSE RecordReleased(windows[a], now, req[r].amount)
           d == IF req[r].settled THEN DrawnInWindow(a)
                                  ELSE SatSub(DrawnInWindow(a), req[r].amount)
<1>1. /\ pc[r] = "resolve" /\ RecordLivable /\ r \notin late
      /\ UNCHANGED <<now, cutoffs, revokes, cache, answered, late, outcomes>>
      /\ applied' = applied \cup {r} /\ Goto(r, "score", "none")
      /\ windows' = [windows EXCEPT ![a] = new]
      /\ drawn' = [drawn EXCEPT ![a] = d]
  BY DEF Handle, Resolve, SameCache, Inv, LateInv
<1>2. req[r].kind = "settle" /\ a \in Agent /\ req[r].amount \in Minor
  BY <1>1, RequestBody DEF Inv, PlaceInv
<1>3. "score" \in Place /\ "none" \in Answer /\ ~ Claims(r, "none")
  BY DEF Place, InFlight, Answer, Claims
<1>4. /\ pc' \in [Request -> Place] /\ answer' \in [Request -> Answer]
      /\ livable' \subseteq Request
      /\ PlaceInv' /\ AnswersAreBacked' /\ LateInv'
  BY <1>1, <1>2, <1>3, HandlerKeeps
<1>5. CacheInv' /\ AnsweredInv'
  BY <1>1, CacheKeeps
<1>6. new \in Window /\ Fits(new) /\ d \in Nat /\ d <= Counted(new)
  <2>1. /\ windows[a] \in Window \cup {NoWindow} /\ Fits(windows[a]) /\ now \in Nat
    BY <1>2, GatewayAssumption DEF Inv, TypeOK, WindowInv
  <2>2. new \in Window /\ Fits(new)
    BY <1>2, <2>1, ResolveFits
  <2>3. /\ DrawnInWindow(a) \in Nat
        /\ DrawnInWindow(a) <= Snapshot(windows[a], now).at_risk
                               + Snapshot(windows[a], now).window_used
    BY <1>2, SeenDrawn
  <2>4. /\ DrawnInWindow(a) <= Counted(RecordSettled(windows[a], now, req[r].amount))
        /\ SatSub(DrawnInWindow(a), req[r].amount)
             <= Counted(RecordReleased(windows[a], now, req[r].amount))
        /\ SatSub(DrawnInWindow(a), req[r].amount) \in Nat
    BY <1>2, <2>1, <2>3, ResolveCounts
  <2> QED
    BY <2>2, <2>3, <2>4
<1> HIDE DEF new, d
<1>7. /\ windows' \in [Agent -> Window \cup {NoWindow}] /\ WindowInv'
      /\ drawn' \in [Agent -> Nat] /\ DrawnInv'
  BY <1>1, <1>2, <1>6 DEF Inv, TypeOK, WindowInv, DrawnInv
<1>8. TypeOK'
  <2>1. late' \subseteq Request
    BY <1>1 DEF Inv, TypeOK
  <2> QED
    BY <1>1, <1>4, <1>7, <2>1 DEF Inv, TypeOK, Place
<1> QED
  BY <1>4, <1>5, <1>7, <1>8 DEF Inv

LEMMA ScoreInv == ASSUME Inv, NEW r \in Request, Handle(Score(r)) PROVE Inv'
<1>1. /\ pc[r] = "score" /\ RecordLivable /\ r \notin late
      /\ UNCHANGED <<now, cutoffs, revokes, cache, answered, late, windows, applied, drawn>>
      /\ Goto(r, "put", "resolved")
      /\ outcomes' = [outcomes EXCEPT ![req[r].agent] = @ + 1]
  BY DEF Handle, Score, SameCache, Inv, LateInv
<1>2. req[r].kind = "settle" /\ req[r].agent \in Agent /\ r \in applied
  BY <1>1, RequestBody DEF Inv, PlaceInv
<1>3. "put" \in Place /\ "resolved" \in Answer
  BY DEF Place, InFlight, Answer
<1>4. Backed(r)'
  BY <1>1, <1>2 DEF Backed
<1>5. /\ pc' \in [Request -> Place] /\ answer' \in [Request -> Answer]
      /\ livable' \subseteq Request
      /\ PlaceInv' /\ AnswersAreBacked' /\ LateInv'
  BY <1>1, <1>2, <1>3, <1>4, HandlerKeeps
<1>6. CacheInv' /\ AnsweredInv'
  BY <1>1, CacheKeeps
<1>7. WindowInv' /\ DrawnInv' /\ TypeOK'
  <2>1. late' \subseteq Request
    BY <1>1 DEF Inv, TypeOK
  <2>2. outcomes' \in [Agent -> Nat]
    BY <1>1, <1>2 DEF Inv, TypeOK
  <2> QED
    BY <1>1, <1>5, <2>1, <2>2 DEF Inv, TypeOK, WindowInv, DrawnInv, Place
<1> QED
  BY <1>5, <1>6, <1>7 DEF Inv

LEMMA PutInv == ASSUME Inv, NEW r \in Request, Handle(Put(r)) PROVE Inv'
<1> DEFINE k == req[r].key
<1>1. /\ pc[r] = "put" /\ RecordLivable /\ r \notin late /\ Goto(r, "done", answer[r])
      /\ UNCHANGED <<now, cutoffs, revokes, windows, outcomes, applied, drawn, late>>
      /\ cache' = Stored(r)
      /\ answered' = IF k = NoKey THEN answered ELSE [answered EXCEPT ![k] = now]
  BY DEF Handle, Put, SameBooks, Inv, LateInv
<1>2. /\ k \in Key \cup {NoKey} /\ answer[r] \in Answer /\ now \in Nat
      /\ KeyTtl \in Nat /\ NoEntry \notin Entries /\ Never \notin Nat
  BY RequestBody, GatewayAssumption DEF Inv, TypeOK
<1>3. Claims(r, answer[r]) => Backed(r)'
  <2>1. Claims(r, answer[r]) => Backed(r)
    BY BackedAnswers DEF Inv
  <2> QED
    BY <1>1, <2>1, BackedStays
<1>4. /\ pc' \in [Request -> Place] /\ answer' \in [Request -> Answer]
      /\ livable' \subseteq Request
      /\ PlaceInv' /\ AnswersAreBacked' /\ LateInv'
  BY <1>1, <1>2, <1>3, HandlerKeeps DEF Place
<1> DEFINE e == [response |-> answer[r], stored_at |-> now]
<1>5. e \in Entries /\ e # NoEntry
  BY <1>2 DEF Entries
<1>6. CASE k = NoKey
  <2>1. cache' = cache /\ answered' = answered
    BY <1>1, <1>6 DEF Stored
  <2>2. CacheInv' /\ AnsweredInv'
    BY <1>1, <2>1, CacheKeeps
  <2>3. TypeOK'
    BY <1>1, <1>4, <2>1 DEF Inv, TypeOK, Place
  <2>4. WindowInv' /\ DrawnInv'
    BY <1>1 DEF Inv, WindowInv, DrawnInv
  <2> QED
    BY <1>4, <2>2, <2>3, <2>4 DEF Inv
<1>7. CASE k # NoKey
  <2>1. /\ k \in Key
        /\ cache' = [j \in Key |-> IF j = k THEN e
                                   ELSE IF Live(cache[j]) THEN cache[j] ELSE NoEntry]
        /\ answered' = [answered EXCEPT ![k] = now]
    BY <1>1, <1>2, <1>7 DEF Stored
  <2>2. cache \in [Key -> Entries \cup {NoEntry}] /\ answered \in [Key -> Nat \cup {Never}]
    BY DEF Inv, TypeOK
  <2>3. /\ cache' \in [Key -> Entries \cup {NoEntry}] /\ answered' \in [Key -> Nat \cup {Never}]
        /\ cache'[k] = e /\ answered'[k] = now
        /\ \A j \in Key : j # k =>
              answered'[j] = answered[j]
              /\ cache'[j] = IF Live(cache[j]) THEN cache[j] ELSE NoEntry
    BY <1>2, <1>5, <2>1, <2>2
  <2>4. CacheInv'
    <3> SUFFICES ASSUME NEW j \in Key, cache'[j] # NoEntry
                 PROVE  /\ cache'[j].response = "permitted" => AppliedUnder("verify", j)'
                        /\ cache'[j].response = "resolved" => AppliedUnder("settle", j)'
      BY DEF CacheInv
    <3>1. CASE j = k
      <4>1. cache'[j].response = answer[r]
        BY <2>3, <3>1
      <4>2. /\ answer[r] = "permitted" => req[r].kind = "verify"
            /\ answer[r] = "resolved" => req[r].kind = "settle"
        BY <1>1, RequestBody DEF Inv, PlaceInv
      <4>3. answer[r] \in {"permitted", "resolved"} => AppliedUnder(req[r].kind, k)'
        BY <1>3, <4>2 DEF Claims, Backed, AppliedUnder
      <4> QED
        BY <3>1, <4>1, <4>2, <4>3
    <3>2. CASE j # k
      <4>1. cache'[j] = cache[j] /\ cache[j] # NoEntry
        BY <2>3, <3>2
      <4> QED
        BY <1>1, <4>1, BackedStays DEF Inv, CacheInv
    <3> QED
      BY <3>1, <3>2
  <2>5. AnsweredInv'
    <3> SUFFICES ASSUME NEW j \in Key, answered'[j] # Never
                 PROVE  /\ answered'[j] <= now
                        /\ now - answered'[j] <= KeyTtl =>
                              cache'[j] # NoEntry /\ cache'[j].stored_at = answered'[j]
      BY <1>1 DEF AnsweredInv
    <3>1. CASE j = k
      BY <1>2, <1>5, <2>3, <3>1
    <3>2. CASE j # k
      BY <1>2, <2>2, <2>3, <3>2 DEF Inv, AnsweredInv, Live
    <3> QED
      BY <3>1, <3>2
  <2>6. TypeOK'
    BY <1>1, <1>4, <2>3 DEF Inv, TypeOK, Place
  <2>7. WindowInv' /\ DrawnInv'
    BY <1>1 DEF Inv, WindowInv, DrawnInv
  <2> QED
    BY <1>4, <2>4, <2>5, <2>6, <2>7 DEF Inv
<1> QED
  BY <1>6, <1>7

-----------------------------------------------------------------------------
(* The other steps.                                                         *)

\* No handler moves: those that are to decide have seen what they have seen.
LEMMA NoHandlerMoves ==
    ASSUME Inv, UNCHANGED <<windows, cache, outcomes, handlers, history>>,
           now' \in now..MaxTime, revokes' \in 0..MaxRevokes,
           cutoffs' \in [Subject -> Nat \cup {Never}],
           RecordLivable
    PROVE  Inv'
<1>1. UNCHANGED <<windows, cache, outcomes, pc, answer, applied, drawn, answered, late>>
  BY DEF handlers, history
<1>2. /\ now \in Nat /\ now' \in Nat /\ now <= now' /\ now' \in 0..MaxTime
      /\ KeyTtl \in Nat /\ Never \notin Nat /\ NoEntry \notin Entries
  BY GatewayAssumption DEF Inv, TypeOK
<1>3. livable' \subseteq Request
  BY DEF RecordLivable
<1>4. PlaceInv'
  BY <1>1 DEF Inv, PlaceInv, RecordLivable, InFlight
<1>5. CacheInv' /\ AnswersAreBacked' /\ LateInv' /\ WindowInv' /\ DrawnInv'
  BY <1>1 DEF Inv, CacheInv, AnswersAreBacked, LateInv, WindowInv, DrawnInv, AppliedUnder
<1>6. AnsweredInv'
  <2> SUFFICES ASSUME NEW k \in Key, answered[k] # Never
               PROVE  /\ answered[k] <= now'
                      /\ now' - answered[k] <= KeyTtl =>
                            cache[k] # NoEntry /\ cache[k].stored_at = answered[k]
    BY <1>1 DEF AnsweredInv
  <2>1. answered[k] \in Nat
    BY DEF Inv, TypeOK
  <2> QED
    BY <1>2, <2>1 DEF Inv, AnsweredInv
<1>7. TypeOK'
  BY <1>1, <1>2, <1>3 DEF Inv, TypeOK
<1> QED
  BY <1>4, <1>5, <1>6, <1>7 DEF Inv

LEMMA RevokeInv ==
    ASSUME Inv, NEW s \in Subject, NEW t \in {now, now + 1}, Revoke(s, t), RecordLivable
    PROVE  Inv'
<1>1. /\ now \in 0..MaxTime /\ revokes \in 0..MaxRevokes /\ revokes < MaxRevokes
      /\ MaxTime \in Nat /\ MaxRevokes \in Nat
  BY GatewayAssumption DEF Inv, TypeOK, Revoke
<1>2. cutoffs' \in [Subject -> Nat \cup {Never}]
  BY <1>1 DEF Inv, TypeOK, Revoke
<1>3. /\ now' \in now..MaxTime /\ revokes' \in 0..MaxRevokes
      /\ UNCHANGED <<windows, cache, outcomes, handlers, history>>
  BY <1>1 DEF Revoke
<1> QED
  BY <1>2, <1>3, NoHandlerMoves

LEMMA TickInv == ASSUME Inv, Tick, RecordLivable PROVE Inv'
<1>1. now \in 0..MaxTime /\ now < MaxTime /\ now' = now + 1 /\ MaxTime \in Nat
  BY GatewayAssumption DEF Inv, TypeOK, Tick
<1>2. /\ cutoffs' \in [Subject -> Nat \cup {Never}] /\ revokes' \in 0..MaxRevokes
      /\ UNCHANGED <<windows, cache, outcomes, handlers, history>>
  BY DEF Inv, TypeOK, Tick
<1>3. now' \in now..MaxTime
  BY <1>1
<1> QED
  BY <1>2, <1>3, NoHandlerMoves

LEMMA InitInv == Init => Inv
<1> SUFFICES ASSUME Init PROVE Inv
  OBVIOUS
<1>1. MaxTime \in Nat /\ MaxRevokes \in Nat
  BY GatewayAssumption
<1>2. TypeOK
  BY <1>1 DEF Init, TypeOK, Answer
<1>3. PlaceInv /\ AnswersAreBacked /\ LateInv
  BY DEF Init, PlaceInv, AnswersAreBacked, LateInv
<1>4. CacheInv /\ AnsweredInv /\ WindowInv /\ DrawnInv
  BY DEF Init, CacheInv, AnsweredInv, WindowInv, Fits, DrawnInv, Counted
<1> QED
  BY <1>2, <1>3, <1>4 DEF Inv

LEMMA StepInv == Inv /\ [Next]_vars => Inv'
<1> SUFFICES ASSUME Inv, [Next]_vars PROVE Inv'
  OBVIOUS
<1>1. CASE UNCHANGED vars
  BY <1>1 DEF vars, Inv, TypeOK, PlaceInv, AnswersAreBacked, CacheInv, AppliedUnder,
              AnsweredInv, LateInv, WindowInv, DrawnInv
<1>2. ASSUME NEW r \in Request, Handle(Step(r)) PROVE Inv'
  <2>1. \/ Handle(Lookup(r)) \/ Handle(Check(r)) \/ Handle(Decide(r))
        \/ Handle(Resolve(r)) \/ Handle(Score(r)) \/ Handle(Put(r))
    BY <1>2 DEF Handle, Step
  <2> QED
    BY <2>1, LookupInv, CheckInv, DecideInv, ResolveInv, ScoreInv, PutInv
<1>3. ASSUME NEW r \in Request, Handle(Drop(r)) PROVE Inv'
  BY <1>3, DropInv
<1>4. ASSUME NEW s \in Subject, NEW t \in {now, now + 1}, Revoke(s, t), RecordLivable
      PROVE  Inv'
  BY <1>4, RevokeInv
<1>5. CASE Tick /\ RecordLivable
  BY <1>5, TickInv
<1> QED
  BY <1>1, <1>2, <1>3, <1>4, <1>5 DEF Next

LEMMA Invariance == Spec => []Inv
  BY InitInv, StepInv, PTL DEF Spec

-----------------------------------------------------------------------------
(* What the steps may do.                                                   *)

\* Only the section that decides and the one that resolves move exposure.
LEMMA OnlyTheseApply ==
    ASSUME [Next]_vars, NEW r \in NewlyApplied
    PROVE  r \in Request /\ (Handle(Decide(r)) \/ Handle(Resolve(r)))
<1>1. r \in applied' /\ r \notin applied
  BY DEF NewlyApplied
<1>2. ASSUME NEW q \in Request, Handle(Step(q)) PROVE q = r /\ (Handle(Decide(q)) \/ Handle(Resolve(q)))
  <2>1. \/ Handle(Lookup(q)) \/ Handle(Check(q)) \/ Handle(Score(q)) \/ Handle(Put(q))
        \/ Handle(Decide(q)) \/ Handle(Resolve(q))
    BY <1>2 DEF Handle, Step
  <2>2. CASE Handle(Lookup(q)) \/ Handle(Check(q)) \/ Handle(Score(q)) \/ Handle(Put(q))
    BY <1>1, <2>2 DEF Handle, Lookup, Check, Score, Put, SameBooks
  <2>3. CASE Handle(Decide(q)) \/ Handle(Resolve(q))
    BY <1>1, <2>3 DEF Handle, Decide, Resolve
  <2> QED
    BY <2>1, <2>2, <2>3
<1>3. ASSUME NEW q \in Request, Handle(Drop(q)) PROVE FALSE
  BY <1>1, <1>3 DEF Handle, Drop, SameBooks
<1>4. ASSUME NEW s \in Subject, NEW t \in {now, now + 1}, Revoke(s, t) PROVE FALSE
  BY <1>1, <1>4 DEF Revoke, history
<1>5. CASE Tick
  BY <1>1, <1>5 DEF Tick, history
<1>6. CASE UNCHANGED vars
  BY <1>1, <1>6 DEF vars
<1> QED
  BY <1>2, <1>3, <1>4, <1>5, <1>6 DEF Next

\* A draw that is applied was decided, and of a verification.
LEMMA DrawIsDecided ==
    ASSUME Inv, [Next]_vars, NEW r \in NewlyApplied, req[r].kind = "verify"
    PROVE  r \in Request /\ Handle(Decide(r))
<1>1. r \in Request /\ (Handle(Decide(r)) \/ Handle(Resolve(r)))
  BY OnlyTheseApply
<1>2. ~ Handle(Resolve(r))
  BY <1>1 DEF Handle, Resolve, Inv, PlaceInv
<1> QED
  BY <1>1, <1>2

\* Every variable keeps its type: in particular both counters of every window
\* stay amounts, and the clock a time (limits.rs, idempotency.rs, handlers.rs).
THEOREM GatewayTypeCorrect == Spec => []TypeOK
<1>1. Inv => TypeOK
  BY DEF Inv
<1> QED
  BY <1>1, Invariance, PTL

\* A client is never told "permitted" or "resolved" unless a draw was committed
\* or a settlement applied under its request or its key, through any number of
\* retries, drops and evictions (handlers.rs, idempotency.rs).
THEOREM AnswersStayBacked == Spec => []AnswersAreBacked
<1>1. Inv => AnswersAreBacked
  BY DEF Inv
<1> QED
  BY <1>1, Invariance, PTL

\* Whatever ran between the sections of a handler, the draw it commits leaves
\* the agent's whole exposure within the limit it presented (verify_limit reads,
\* decides and reserves under one write guard).
THEOREM DrawsDecideOnWholeWindow == Spec => DecidesOnWholeWindow
<1>1. Inv /\ [Next]_vars =>
        [\A r \in NewlyApplied : req[r].kind = "verify" =>
           Committed(req[r].agent)' <= req[r].lim_window]_vars
  <2> SUFFICES ASSUME Inv, [Next]_vars, NEW r \in NewlyApplied, req[r].kind = "verify"
               PROVE  Committed(req[r].agent)' <= req[r].lim_window
    OBVIOUS
  <2> DEFINE a == req[r].agent
             new == RecordCommit(windows[a], now, req[r].amount)
  <2>1. r \in Request /\ Handle(Decide(r)) /\ r \in applied' /\ r \notin applied
    BY DrawIsDecided DEF NewlyApplied
  <2>2. /\ a \in Agent /\ req[r].amount \in Minor /\ req[r].lim_window \in WindowLimit
    BY <2>1, RequestBody
  <2>3. /\ Permits(req[r], Exposure(a), now) /\ now' = now
        /\ windows' = [windows EXCEPT ![a] = new]
    BY <2>1 DEF Handle, Decide
  <2>4. windows[a] \in Window \cup {NoWindow} /\ Fits(windows[a]) /\ now \in Nat
    BY <2>2, GatewayAssumption DEF Inv, TypeOK, WindowInv
  <2>5. Snapshot(new, now).at_risk + Snapshot(new, now).window_used <= req[r].lim_window
    BY <2>2, <2>3, <2>4, CommitFits DEF Exposure
  <2>6. windows'[a] = new
    BY <2>2, <2>3 DEF Inv, TypeOK
  <2> QED
    BY <2>3, <2>5, <2>6 DEF Committed, Exposure
<1> QED
  BY <1>1, Invariance, PTL DEF Spec, DecidesOnWholeWindow

\* In one window an agent is permitted no more than the limit it presents, what
\* it released aside, whatever its clients settle: more than they drew, twice, or
\* nothing they ever drew (settle_draw matches no settlement with a draw).
THEOREM SettlementsFreeNothing == Spec => SettlingFreesNothing
<1>1. Inv /\ [Next]_vars =>
        [\A r \in NewlyApplied : req[r].kind = "verify" =>
           drawn'[req[r].agent] <= req[r].lim_window]_vars
  <2> SUFFICES ASSUME Inv, [Next]_vars, NEW r \in NewlyApplied, req[r].kind = "verify"
               PROVE  drawn'[req[r].agent] <= req[r].lim_window
    OBVIOUS
  <2> DEFINE a == req[r].agent
             s == Snapshot(windows[a], now)
             new == RecordCommit(windows[a], now, req[r].amount)
  <2>1. r \in Request /\ Handle(Decide(r)) /\ r \in applied' /\ r \notin applied
    BY DrawIsDecided DEF NewlyApplied
  <2>2. a \in Agent /\ req[r].amount \in Minor /\ req[r].lim_window \in WindowLimit
    BY <2>1, RequestBody
  <2>3. /\ Permits(req[r], s, now)
        /\ drawn' = [drawn EXCEPT ![a] = DrawnInWindow(a) + req[r].amount]
    BY <2>1 DEF Handle, Decide, Exposure
  <2>4. windows[a] \in Window \cup {NoWindow} /\ Fits(windows[a]) /\ now \in Nat
    BY <2>2, GatewayAssumption DEF Inv, TypeOK, WindowInv
  <2>5. /\ new \in Window
        /\ Snapshot(new, now).at_risk + Snapshot(new, now).window_used <= req[r].lim_window
        /\ new.at_risk + new.window_used = s.at_risk + s.window_used + req[r].amount
    BY <2>2, <2>3, <2>4, CommitFits
  <2>6. Snapshot(new, now) = new
    BY <2>2, <2>4, AfterCommit
  <2>7. DrawnInWindow(a) \in Nat /\ DrawnInWindow(a) <= s.at_risk + s.window_used
    BY <2>2, SeenDrawn
  <2>8. /\ s.at_risk \in 0..MaxMinor /\ s.window_used \in 0..MaxMinor
        /\ req[r].amount \in 0..MaxMinor /\ MaxMinor \in Nat
        /\ req[r].lim_window \in 0..(MaxMinor - 1)
    BY <2>2, <2>4, SeenFits, WindowAssumption DEF Minor, WindowLimit
  <2>9. drawn'[a] = DrawnInWindow(a) + req[r].amount
    BY <2>2, <2>3 DEF Inv, TypeOK
  <2> HIDE DEF s, new
  <2> QED
    BY <2>5, <2>6, <2>7, <2>8, <2>9
<1> QED
  BY <1>1, Invariance, PTL DEF Spec, SettlingFreesNothing

\* A draw that arrives when its attestation is revoked, and finds it revoked
\* ever after, commits nothing (the registry is read on the way to the ledger).
THEOREM RevokedDrawsNothing == Spec => RevokedOnArrivalNeverDraws
<1>1. Inv /\ [Next]_vars =>
        [\A r \in NewlyApplied : req[r].kind = "verify" => r \in livable]_vars
  <2> SUFFICES ASSUME Inv, [Next]_vars, NEW r \in NewlyApplied, req[r].kind = "verify"
               PROVE  r \in livable
    OBVIOUS
  <2>1. r \in Request /\ pc[r] = "decide"
    BY DrawIsDecided DEF Handle, Decide
  <2> QED
    BY <2>1 DEF Inv, PlaceInv
<1> QED
  BY <1>1, Invariance, PTL DEF Spec, RevokedOnArrivalNeverDraws

\* Once a handler has answered under a key, a request that arrives with it
\* within its lifetime moves no exposure (idempotency.rs: put overwrites, evicts
\* only what has expired, and get serves what is left).
THEOREM AnsweredKeysAreFinal == Spec => AnsweredKeyIsFinal
<1>1. Inv /\ [Next]_vars => [NewlyApplied \cap late = {}]_vars
  <2> SUFFICES ASSUME Inv, [Next]_vars, NEW r \in NewlyApplied, r \in late PROVE FALSE
    OBVIOUS
  <2>1. r \in Request /\ pc[r] \in {"decide", "resolve"}
    BY OnlyTheseApply DEF Handle, Decide, Resolve
  <2> QED
    BY <2>1 DEF Inv, LateInv
<1> QED
  BY <1>1, Invariance, PTL DEF Spec, AnsweredKeyIsFinal
=============================================================================
