-------------------------- MODULE TrustCheck_proofs --------------------------
(***************************************************************************)
(* What is proved of trust checks: for any agents, mandates, requests,     *)
(* faults, dropped handlers and restarts.                                  *)
(*                                                                         *)
(* The invariant has a part for what handlers and mandates say of each     *)
(* other (BookInv, RevokedInv, CheckInv), one for the spends that are not  *)
(* recorded yet (SpendInv), and one for the scores and their proofs        *)
(* (StandingInv), which handlers read and do not change.                   *)
(***************************************************************************)
EXTENDS TrustCheck, LedgerLemmas

\* Where a check awaits the answer about the score.
Asking == {"cache", "graph", "memory"}

HandlerType ==
    /\ now \in Nat
    /\ book \in Book
    /\ windows \in [Agent -> Window \cup {NoWindow}]
    /\ rows \in [MandateId -> {"absent", "live", "revoked"}]
    /\ pc \in [Request -> InFlight \cup {"idle", "done", "dropped"}]
    /\ answer \in [Request -> Answer]
    /\ since \in [Request -> Nat]
    /\ under \in [Request -> MandateId \cup {NoMandate}]
    /\ token \in [Request -> Nat \cup {Never}]
    /\ spawned \subseteq Checks
    /\ faults \in Nat /\ restarts \in Nat
    /\ revoked_at \in [MandateId -> Nat \cup {Never}]
    /\ overlap \in [Request -> SUBSET Checks]

StandingType ==
    /\ meets \in [Agent -> BOOLEAN]
    /\ cached \in [Agent -> Nat \cup {NoProof}]
    /\ proving \in [Agent -> Nat \cup {Never}]
    /\ moves \in Nat
    /\ met_at \in [Agent -> Nat \cup {Never}]

\* A mandate in memory is the one its request asked for, and the index finds it.
BookInv ==
    /\ \A i \in MandateId : book.mandates[i] # NoMandate =>
          book.mandates[i].agent = req[i].agent /\ book.mandates[i].daily_cap = DailyCap(i)
    /\ \A a \in Agent : \A i \in MandateId : book.agent_index[a] = i =>
          book.mandates[i] # NoMandate /\ req[i].agent = a

\* A mandate that is revoked has been answered, so nothing brings it back.
RevokedInv ==
    /\ \A r \in Request : answer[r] = "created" => pc[r] = "done"
    /\ \A r \in Request : req[r].kind = "revoke" /\ pc[r] = "book" =>
          answer[req[r].id] = "created"
    /\ \A i \in MandateId : revoked_at[i] # Never =>
          answer[i] = "created" /\ revoked_at[i] <= now /\ book.mandates[i] = NoMandate

\* A check that goes on under a revoked mandate had begun before the revocation was
\* answered, and does not go on for long.
CheckInv ==
    /\ \A r \in Request : pc[r] \in InFlight =>
          since[r] <= now /\ now <= since[r] + RequestTimeout
    /\ \A r \in Request : pc[r] \in Asking => r \in Checks /\ under[r] \in MandateId
    /\ \A r \in Request : pc[r] \in Asking /\ revoked_at[under[r]] # Never =>
          since[r] <= revoked_at[under[r]]
    /\ \A r \in Request : token[r] # Never =>
          pc[r] = "done" /\ under[r] \in MandateId /\ token[r] <= now + TokenLife
    /\ \A r \in Request : token[r] # Never /\ revoked_at[under[r]] # Never =>
          token[r] <= revoked_at[under[r]] + RequestTimeout + TokenLife

\* What check r would make of its agent's window, if it recorded its spend now.
WithinOverlap(r) ==
    SatAdd(AlreadyCommitted(windows[req[r].agent], now), req[r].amount, MaxMinor)
        <= DailyCap(under[r]) + SumOver(Spend, Checks)[overlap[r]]

\* Spends settle at once, and each is recorded once.
SpendInv ==
    /\ \A a \in Agent : windows[a] # NoWindow => windows[a].at_risk = 0
    /\ \A r \in spawned : pc[r] = "done" /\ req[r].amount # Unstated /\ under[r] \in MandateId
    /\ \A r \in Request : \A c \in overlap[r] : pc[c] = "done" /\ c \notin spawned
    /\ \A r \in Checks : (pc[r] \in Asking \/ r \in spawned) /\ req[r].amount # Unstated =>
          WithinOverlap(r)

HandlerInv == HandlerType /\ BookInv /\ RevokedInv /\ CheckInv /\ SpendInv

\* A proof is of a score that met the threshold when it was begun.
StandingInv ==
    /\ StandingType
    /\ \A a \in Agent : met_at[a] # Never => met_at[a] <= now
    /\ \A a \in Agent : proving[a] # Never =>
          met_at[a] # Never /\ proving[a] <= met_at[a] /\ now <= proving[a] + ProvingTime
    /\ \A a \in Agent : cached[a] # NoProof =>
          met_at[a] # Never /\ cached[a] <= met_at[a] + ProvingTime + ProofLife

Inv == HandlerInv /\ StandingInv

-----------------------------------------------------------------------------
(* What a spend does to a window.                                           *)

NoRisk(w) == w # NoWindow => w.at_risk = 0

\* With nothing at risk, what is committed is what is used.
LEMMA NothingAtRisk ==
    ASSUME NEW w \in Window \cup {NoWindow}, NEW t \in Nat, NoRisk(w)
    PROVE  /\ Snapshot(w, t).at_risk = 0
           /\ AlreadyCommitted(w, t) = Snapshot(w, t).window_used
           /\ AlreadyCommitted(w, t) \in Minor
<1>1. Snapshot(w, t) \in Window
  BY ReadSideAgrees
<1>2. Snapshot(w, t).at_risk = 0
  BY DEF NoRisk, Snapshot, NewWindow
<1>3. Snapshot(w, t).window_used \in Minor
  BY <1>1 DEF Window
<1> QED
  BY <1>2, <1>3, WindowAssumption DEF AlreadyCommitted, Minor

LEMMA SpendAdds ==
    ASSUME NEW w \in Window \cup {NoWindow}, NEW t \in Nat, NEW m \in Minor, NoRisk(w)
    PROVE  /\ RecordSpend(w, t, m) \in Window /\ NoRisk(RecordSpend(w, t, m))
           /\ AlreadyCommitted(RecordSpend(w, t, m), t)
                = SatAdd(AlreadyCommitted(w, t), m, MaxMinor)
<1> DEFINE c == RecordCommit(w, t, m)
           e == RecordSettled(c, t, m)
<1>1. /\ c \in Window /\ Snapshot(c, t) = c
      /\ c.at_risk = SatAdd(Snapshot(w, t).at_risk, m, MaxMinor)
      /\ c.window_used = Snapshot(w, t).window_used
  BY AfterCommit
<1> HIDE DEF c
<1>2. /\ e \in Window /\ Snapshot(e, t) = e
      /\ e.at_risk = SatSub(c.at_risk, m)
      /\ e.window_used = SatAdd(c.window_used, m, MaxMinor)
  BY <1>1, AfterSettle
<1> HIDE DEF e
<1>3. c.at_risk = m
  BY <1>1, NothingAtRisk, WindowAssumption DEF SatAdd, Minor
<1>4. e.at_risk = 0
  BY <1>2, <1>3, WindowAssumption DEF SatSub, Minor
<1>5. NoRisk(e) /\ AlreadyCommitted(e, t) = e.window_used
  BY <1>2, <1>4, NothingAtRisk DEF NoRisk
<1>6. RecordSpend(w, t, m) = e
  BY DEF RecordSpend, e, c
<1> QED
  BY <1>1, <1>2, <1>5, <1>6, NothingAtRisk

\* A window only forgets as time passes.
LEMMA WindowForgets ==
    ASSUME NEW w \in Window \cup {NoWindow}, NEW t \in Nat, NoRisk(w)
    PROVE  AlreadyCommitted(w, t + 1) <= AlreadyCommitted(w, t)
<1>1. /\ AlreadyCommitted(w, t) = Snapshot(w, t).window_used
      /\ AlreadyCommitted(w, t + 1) = Snapshot(w, t + 1).window_used
      /\ AlreadyCommitted(w, t) \in Minor
  BY NothingAtRisk
<1>2. CASE w = NoWindow
  BY <1>1, <1>2 DEF Snapshot, NewWindow
<1>3. CASE w # NoWindow
  <2>1. w.window_start \in Nat /\ w.window_used \in Minor
    BY <1>3 DEF Window
  <2>2. Elapsed(w, t) => Elapsed(w, t + 1)
    BY <2>1, WindowAssumption DEF Elapsed
  <2> QED
    BY <1>1, <1>3, <2>1, <2>2, WindowAssumption DEF Snapshot, Minor
<1> QED
  BY <1>2, <1>3

-----------------------------------------------------------------------------
(* What requests say.                                                       *)

LEMMA Bodies ==
    ASSUME NEW r \in Request
    PROVE  /\ req[r].kind \in {"create", "limit"} =>
                  r \in MandateId /\ req[r].agent \in Agent /\ DailyCap(r) \in Minor
           /\ req[r].kind = "create" => req[r] \in CreateBody
           /\ req[r].kind = "limit" => req[r] \in LimitBody
           /\ req[r].kind = "revoke" => req[r] \in RevokeBody /\ req[r].id \in MandateId
           /\ r \in Checks => /\ req[r].agent \in Agent
                              /\ req[r].amount \in Minor \cup {Unstated}
           /\ r \in MandateId => req[r].kind \in {"create", "limit"}
           /\ r \in Checks => r \notin MandateId
<1>1. req[r] \in CreateBody \cup LimitBody \cup RevokeBody \cup CheckBody
  BY TrustAssumption
<1>2. MandateId = {q \in Request : req[q].kind \in {"create", "limit"}}
  BY TrustAssumption
<1>3. CASE req[r] \in CreateBody
  BY <1>2, <1>3 DEF CreateBody, Checks, DailyCap
<1>4. CASE req[r] \in LimitBody
  BY <1>2, <1>4 DEF LimitBody, Checks, DailyCap
<1>5. CASE req[r] \in RevokeBody
  BY <1>2, <1>5 DEF RevokeBody, Checks
<1>6. CASE req[r] \in CheckBody
  BY <1>2, <1>6 DEF CheckBody, Checks
<1> QED
  BY <1>1, <1>3, <1>4, <1>5, <1>6

LEMMA MandateIsRequest == \A i \in MandateId : i \in Request /\ DailyCap(i) \in Minor
  BY TrustAssumption, Bodies

\* What spends add up to.
LEMMA Spends ==
    ASSUME NEW T \in SUBSET Checks
    PROVE  /\ SumOver(Spend, Checks)[T] \in Nat
           /\ \A c \in Checks \ T :
                 SumOver(Spend, Checks)[T \cup {c}] = SumOver(Spend, Checks)[T] + Spend[c]
<1>1. IsFiniteSet(Checks)
  BY TrustAssumption, FS_Subset DEF Checks
<1>2. Spend \in [Checks -> Nat]
  <2>1. \A c \in Checks : req[c].amount \in Minor \cup {Unstated}
    BY Bodies DEF Checks
  <2> QED
    BY <2>1, WindowAssumption DEF Spend, Minor
<1> QED
  BY <1>1, <1>2, SumOverFacts

-----------------------------------------------------------------------------
(* Handlers.                                                                *)

LEMMA HandlerStart == ASSUME Init PROVE HandlerInv
<1>1. EmptyBook \in Book
  BY DEF EmptyBook, Book
<1>2. HandlerType
  BY <1>1 DEF Init, HandlerType, Answer
<1>3. BookInv
  BY MandateAssumption DEF Init, EmptyBook, BookInv
<1>4. RevokedInv /\ CheckInv
  BY DEF Init, RevokedInv, CheckInv, Asking, InFlight, Checks
<1>5. SpendInv
  BY DEF Init, SpendInv, Asking, Checks
<1> QED
  BY <1>2, <1>3, <1>4, <1>5 DEF HandlerInv

\* What a step of handler r has to show: that it keeps its place, or that it goes
\* somewhere it may.  It does no more.
LEMMA QuietStep ==
    ASSUME HandlerInv, HandlerType', NEW r \in Request, NEW where, NEW what, NEW t \in Nat,
           pc[r] # "done",
           pc' = [pc EXCEPT ![r] = where], answer' = [answer EXCEPT ![r] = what],
           since' = [since EXCEPT ![r] = t],
           UNCHANGED <<now, book, windows, under, token, spawned, revoked_at, overlap>>,
           what # "created",
           where \in InFlight => t <= now /\ now <= t + RequestTimeout,
           where \in Asking => pc[r] \in Asking /\ t = since[r],
           where = "book" /\ req[r].kind = "revoke" => answer[req[r].id] = "created"
    PROVE  HandlerInv'
<1>1. /\ \A q \in Request : q # r =>
             pc'[q] = pc[q] /\ answer'[q] = answer[q] /\ since'[q] = since[q]
      /\ pc'[r] = where /\ answer'[r] = what /\ since'[r] = t
  BY DEF HandlerInv, HandlerType
<1>2. answer[r] # "created"
  BY DEF HandlerInv, RevokedInv
<1>3. BookInv'
  BY DEF HandlerInv, BookInv
<1>4. RevokedInv'
  <2>1. \A q \in Request : answer[q] = "created" => answer'[q] = "created"
    BY <1>1, <1>2
  <2>2. \A i \in MandateId : revoked_at[i] # Never => answer'[i] = "created"
    BY <2>1, MandateIsRequest DEF HandlerInv, RevokedInv
  <2>3. \A q \in Request : req[q].kind = "revoke" /\ pc'[q] = "book" =>
            answer'[req[q].id] = "created"
    BY <1>1, <2>1, Bodies, MandateIsRequest DEF HandlerInv, RevokedInv
  <2> QED
    BY <1>1, <2>2, <2>3 DEF HandlerInv, RevokedInv
<1>5. CheckInv'
  BY <1>1 DEF HandlerInv, CheckInv
<1>6. SpendInv'
  BY <1>1 DEF HandlerInv, SpendInv, WithinOverlap, Checks
<1> QED
  BY <1>3, <1>4, <1>5, <1>6 DEF HandlerInv

\* Neither does Goto, from a place to the next, nor a reply that creates nothing.
LEMMA GotoKeeps ==
    ASSUME HandlerInv, NEW r \in Request, NEW where \in InFlight, Goto(r, where), NoToken,
           UNCHANGED <<now, book, windows, revoked_at, restarts>>,
           rows' \in [MandateId -> {"absent", "live", "revoked"}], faults' \in Nat,
           pc[r] \in InFlight \cup {"idle"},
           where \in Asking => pc[r] \in Asking,
           where = "book" /\ req[r].kind = "revoke" => answer[req[r].id] = "created"
    PROVE  HandlerInv'
<1> DEFINE t == IF pc[r] = "idle" THEN now ELSE since[r]
<1>1. HandlerType
  BY DEF HandlerInv
<1>2. /\ pc' = [pc EXCEPT ![r] = where] /\ since' = [since EXCEPT ![r] = t]
      /\ answer' = [answer EXCEPT ![r] = answer[r]] /\ answer' = answer
  BY <1>1 DEF Goto, HandlerType
<1>3. t \in Nat /\ t <= now /\ now <= t + RequestTimeout /\ (pc[r] # "idle" => t = since[r])
  BY <1>1, TrustAssumption DEF HandlerType, HandlerInv, CheckInv
<1> HIDE DEF t
<1>4. HandlerType'
  BY <1>1, <1>2, <1>3 DEF HandlerType, NoToken
<1>5. pc[r] # "done" /\ answer[r] # "created" /\ (pc[r] \in Asking => pc[r] # "idle")
  BY DEF HandlerInv, RevokedInv, InFlight, Asking
<1> QED
  BY <1>2, <1>3, <1>4, <1>5, QuietStep DEF NoToken

LEMMA ReplyKeeps ==
    ASSUME HandlerInv, NEW r \in Request, NEW what \in Answer \ {"created"}, Reply(r, what),
           NoToken, UNCHANGED <<now, book, windows, revoked_at, restarts>>,
           rows' \in [MandateId -> {"absent", "live", "revoked"}], faults' \in Nat,
           pc[r] \in InFlight \cup {"idle"}
    PROVE  HandlerInv'
<1>1. HandlerType
  BY DEF HandlerInv
<1>2. HandlerType'
  BY <1>1 DEF HandlerType, Reply, NoToken
<1>3. pc[r] # "done" /\ "done" \notin InFlight /\ "done" \notin Asking
  BY DEF InFlight, Asking
<1> QED
  BY <1>2, <1>3, QuietStep DEF Reply, NoToken

LEMMA DropKeeps ==
    ASSUME HandlerInv, NEW r \in Request, Drop(r), UNCHANGED <<now, restarts>>
    PROVE  HandlerInv'
<1>1. HandlerType
  BY DEF HandlerInv
<1>2. HandlerType'
  BY <1>1 DEF HandlerType, Drop
<1>3. pc[r] # "done" /\ "dropped" \notin InFlight /\ "dropped" \notin Asking
  BY DEF InFlight, Asking, Drop
<1>4. answer' = [answer EXCEPT ![r] = answer[r]] /\ answer[r] # "created"
  BY <1>1, <1>3 DEF HandlerType, HandlerInv, RevokedInv, Drop
<1> QED
  BY <1>2, <1>3, <1>4, QuietStep DEF Drop

\* A mandate that is inserted is new, so it is not revoked.
LEMMA InsertKeeps ==
    ASSUME HandlerInv, NEW r \in Request, NEW m \in Mandate,
           m.agent = req[r].agent, m.daily_cap = DailyCap(r),
           req[r].kind \in {"create", "limit"}, pc[r] \in {"idle", "book"},
           book' = Inserted(book, r, m), Reply(r, "created"), NoToken,
           UNCHANGED <<now, windows, rows, faults, revoked_at, restarts>>
    PROVE  HandlerInv'
<1>1. HandlerType /\ r \in MandateId /\ m.agent \in Agent /\ r \notin Checks
  BY Bodies DEF HandlerInv, Mandate
<1>2. /\ pc' = [pc EXCEPT ![r] = "done"] /\ answer' = [answer EXCEPT ![r] = "created"]
      /\ since' = [since EXCEPT ![r] = 0]
      /\ UNCHANGED <<under, token, spawned, overlap>>
  BY DEF Reply, NoToken
<1>3. /\ \A q \in Request : q # r =>
             pc'[q] = pc[q] /\ answer'[q] = answer[q] /\ since'[q] = since[q]
      /\ pc'[r] = "done" /\ answer'[r] = "created"
  BY <1>1, <1>2 DEF HandlerType
<1>4. /\ book' \in Book
      /\ book'.mandates = [book.mandates EXCEPT ![r] = m]
      /\ book'.agent_index = [book.agent_index EXCEPT ![m.agent] = r]
  BY <1>1 DEF Inserted, HandlerType, Book
<1>5. /\ \A i \in MandateId : i # r => book'.mandates[i] = book.mandates[i]
      /\ book'.mandates[r] = m /\ m # NoMandate
      /\ \A a \in Agent : a # m.agent => book'.agent_index[a] = book.agent_index[a]
      /\ book'.agent_index[m.agent] = r
  BY <1>1, <1>4, MandateAssumption DEF HandlerType, Book
<1>6. HandlerType'
  BY <1>1, <1>2, <1>4 DEF HandlerType, Answer
<1>7. answer[r] # "created" /\ revoked_at[r] = Never /\ pc[r] \notin Asking
  BY <1>1 DEF HandlerInv, RevokedInv, Asking
<1>8. BookInv'
  BY <1>1, <1>5 DEF HandlerInv, BookInv
<1>9. RevokedInv'
  <2>1. \A q \in Request : answer[q] = "created" => answer'[q] = "created"
    BY <1>3
  <2>2. \A i \in MandateId : revoked_at[i] # Never =>
            answer'[i] = "created" /\ book'.mandates[i] = NoMandate
    BY <1>5, <1>7, <2>1, MandateIsRequest DEF HandlerInv, RevokedInv
  <2>3. \A q \in Request : req[q].kind = "revoke" /\ pc'[q] = "book" =>
            answer'[req[q].id] = "created"
    BY <1>3, <2>1, Bodies, MandateIsRequest DEF HandlerInv, RevokedInv
  <2> QED
    BY <1>2, <1>3, <2>2, <2>3 DEF HandlerInv, RevokedInv
<1>10. CheckInv'
  BY <1>2, <1>3, <1>7 DEF HandlerInv, CheckInv, InFlight, Asking
<1>11. SpendInv'
  BY <1>1, <1>2, <1>3 DEF HandlerInv, SpendInv, WithinOverlap, Checks, Asking
<1> QED
  BY <1>6, <1>8, <1>9, <1>10, <1>11 DEF HandlerInv

\* What goes out of the book goes out of the index, and is not inserted again.
LEMMA RevokeKeeps ==
    ASSUME HandlerInv, NEW r \in Request, RevokeInBook(r), UNCHANGED <<now, restarts>>
    PROVE  HandlerInv'
<1> DEFINE i == req[r].id
<1>1. HandlerType /\ i \in MandateId /\ i \in Request /\ r \notin Checks /\ answer[i] = "created"
      /\ now \in Nat /\ now # Never
  BY Bodies, MandateIsRequest, TrustAssumption
     DEF HandlerInv, HandlerType, RevokeInBook, Resume, Checks, RevokedInv
<1>2. /\ pc[r] = "book" /\ book' = Removed(book, i) /\ revoked_at' = [revoked_at EXCEPT ![i] = now]
      /\ pc' = [pc EXCEPT ![r] = "done"] /\ answer' = [answer EXCEPT ![r] = "revoked"]
      /\ since' = [since EXCEPT ![r] = 0]
      /\ UNCHANGED <<windows, rows, faults, under, token, spawned, overlap>>
  BY DEF RevokeInBook, Resume, Reply, NoToken
<1> HIDE DEF i
<1>3. /\ \A q \in Request : q # r =>
             pc'[q] = pc[q] /\ answer'[q] = answer[q] /\ since'[q] = since[q]
      /\ pc'[r] = "done" /\ answer'[r] = "revoked"
      /\ \A j \in MandateId : j # i => revoked_at'[j] = revoked_at[j]
      /\ revoked_at'[i] = now
  BY <1>1, <1>2 DEF HandlerType
<1>4. answer[r] # "created"
  BY <1>2 DEF HandlerInv, RevokedInv
<1>5. /\ book' \in Book /\ BookInv'
      /\ \A j \in MandateId : book.mandates[j] = NoMandate => book'.mandates[j] = NoMandate
      /\ book'.mandates[i] = NoMandate
  <2>1. CASE book.mandates[i] = NoMandate
    <3>1. book' = book
      BY <1>2, <2>1 DEF Removed
    <3> QED
      BY <1>1, <2>1, <3>1 DEF HandlerType, HandlerInv, BookInv
  <2>2. CASE book.mandates[i] # NoMandate
    <3> DEFINE a == book.mandates[i].agent
    <3>1. a = req[i].agent /\ a \in Agent
      BY <1>1, <2>2, Bodies DEF HandlerInv, BookInv
    <3>2. /\ book'.mandates = [book.mandates EXCEPT ![i] = NoMandate]
          /\ book'.agent_index = [book.agent_index EXCEPT ![a] = NoMandate]
          /\ book' = [mandates |-> book'.mandates, agent_index |-> book'.agent_index]
      BY <1>2, <2>2 DEF Removed
    <3> HIDE DEF a
    <3>3. book' \in Book
      BY <1>1, <3>1, <3>2 DEF HandlerType, Book
    <3>4. /\ \A j \in MandateId : j # i => book'.mandates[j] = book.mandates[j]
          /\ book'.mandates[i] = NoMandate
          /\ \A b \in Agent : b # a => book'.agent_index[b] = book.agent_index[b]
          /\ book'.agent_index[a] = NoMandate
      BY <1>1, <3>1, <3>2 DEF HandlerType, Book
    <3>5. BookInv'
      BY <3>1, <3>4, MandateAssumption DEF HandlerInv, BookInv
    <3> QED
      BY <3>3, <3>4, <3>5
  <2> QED
    BY <2>1, <2>2
<1>6. HandlerType'
  BY <1>1, <1>2, <1>5 DEF HandlerType, Answer
<1>7. RevokedInv'
  <2>1. \A q \in Request : answer[q] = "created" => answer'[q] = "created" /\ pc'[q] = "done"
    BY <1>3, <1>4 DEF HandlerInv, RevokedInv
  <2>2. \A j \in MandateId : revoked_at'[j] # Never =>
            /\ answer'[j] = "created" /\ revoked_at'[j] <= now
            /\ book'.mandates[j] = NoMandate
    BY <1>1, <1>3, <1>5, <2>1, MandateIsRequest DEF HandlerInv, RevokedInv
  <2>3. \A q \in Request : req[q].kind = "revoke" /\ pc'[q] = "book" =>
            answer'[req[q].id] = "created"
    BY <1>3, <2>1, Bodies, MandateIsRequest DEF HandlerInv, RevokedInv
  <2>4. \A q \in Request : answer'[q] = "created" => pc'[q] = "done"
    BY <1>3 DEF HandlerInv, RevokedInv
  <2> QED
    BY <1>2, <2>2, <2>3, <2>4 DEF RevokedInv
<1>8. CheckInv'
  <2>1. \A q \in Request : pc'[q] \in Asking => pc[q] \in Asking /\ since'[q] = since[q]
    BY <1>3 DEF Asking
  <2>2. \A q \in Request : pc[q] \in Asking => since[q] <= now
    BY DEF HandlerInv, CheckInv, Asking, InFlight
  <2>3. \A q \in Request : pc'[q] \in Asking /\ revoked_at'[under'[q]] # Never =>
            since'[q] <= revoked_at'[under'[q]]
    BY <1>2, <1>3, <2>1, <2>2 DEF HandlerInv, CheckInv
  <2>4. \A q \in Request : token'[q] # Never /\ revoked_at'[under'[q]] # Never =>
            token'[q] <= revoked_at'[under'[q]] + RequestTimeout + TokenLife
    <3> SUFFICES ASSUME NEW q \in Request, token[q] # Never, revoked_at'[under[q]] # Never
                 PROVE  token[q] <= revoked_at'[under[q]] + RequestTimeout + TokenLife
      BY <1>2
    <3>1. under[q] \in MandateId /\ token[q] <= now + TokenLife /\ token[q] \in Nat
          /\ RequestTimeout \in Nat /\ TokenLife \in Nat
      BY <1>1, TrustAssumption DEF HandlerInv, CheckInv, HandlerType
    <3>2. CASE under[q] = i
      BY <1>1, <1>3, <3>1, <3>2
    <3>3. CASE under[q] # i
      BY <1>3, <3>1, <3>3 DEF HandlerInv, CheckInv
    <3> QED
      BY <3>2, <3>3
  <2> QED
    BY <1>2, <1>3, <2>1, <2>3, <2>4 DEF HandlerInv, CheckInv, InFlight
<1>9. SpendInv'
  BY <1>1, <1>2, <1>3 DEF HandlerInv, SpendInv, WithinOverlap, Checks, Asking
<1> QED
  BY <1>5, <1>6, <1>7, <1>8, <1>9 DEF HandlerInv

\* A check that goes on does so under a mandate that is not revoked, and within its cap.
LEMMA MandateKeeps ==
    ASSUME HandlerInv, NEW r \in Request, CheckMandate(r), UNCHANGED <<now, restarts>>
    PROVE  HandlerInv'
<1> DEFINE a == req[r].agent
           i == book.agent_index[a]
           m == ForAgent(book, a)
<1>1. HandlerType /\ r \in Checks /\ pc[r] = "idle" /\ a \in Agent
      /\ req[r].amount \in Minor \cup {Unstated}
  BY Bodies DEF HandlerInv, CheckMandate, Arrive, Checks
<1>2. UNCHANGED <<token, spawned, overlap, book, windows, rows, faults, revoked_at>>
  BY DEF CheckMandate
<1>3. CASE Reply(r, "BLOCK") /\ UNCHANGED under
  <2>1. NoToken /\ "BLOCK" \in Answer \ {"created"} /\ pc[r] \in InFlight \cup {"idle"}
    BY <1>1, <1>2, <1>3 DEF NoToken, Answer
  <2>2. rows' \in [MandateId -> {"absent", "live", "revoked"}] /\ faults' \in Nat
    BY <1>1, <1>2 DEF HandlerType
  <2> QED
    BY <1>2, <1>3, <2>1, <2>2, ReplyKeeps
<1>4. CASE /\ Complies(m, windows[a], now, req[r])
           /\ under' = [under EXCEPT ![r] = i] /\ Goto(r, "cache")
  <2>1. i \in MandateId \cup {NoMandate}
    BY <1>1 DEF HandlerType, Book
  <2>2. i \in MandateId /\ book.mandates[i] = m /\ m # NoMandate
    BY <1>4, <2>1, MandateAssumption DEF Complies, ForAgent
  <2> HIDE DEF i, m, a
  <2>3. m.daily_cap = DailyCap(i) /\ DailyCap(i) \in Minor /\ revoked_at[i] = Never
    BY <2>2, MandateIsRequest DEF HandlerInv, BookInv, RevokedInv
  <2>4. /\ pc' = [pc EXCEPT ![r] = "cache"] /\ since' = [since EXCEPT ![r] = now]
        /\ answer' = answer
    BY <1>1, <1>4 DEF Goto
  <2>5. /\ \A q \in Request : q # r =>
               pc'[q] = pc[q] /\ since'[q] = since[q] /\ under'[q] = under[q]
        /\ pc'[r] = "cache" /\ since'[r] = now /\ under'[r] = i
    BY <1>1, <1>4, <2>4 DEF HandlerType
  <2>6. HandlerType'
    BY <1>1, <1>2, <1>4, <2>2, <2>4 DEF HandlerType, InFlight
  <2>7. answer[r] # "created" /\ token[r] = Never /\ r \notin spawned
    BY <1>1 DEF HandlerInv, RevokedInv, CheckInv, SpendInv
  <2>8. BookInv'
    BY <1>2 DEF HandlerInv, BookInv
  <2>9. RevokedInv'
    BY <1>1, <1>2, <2>4, <2>5, <2>7 DEF HandlerInv, RevokedInv
  <2>10. CheckInv'
    <3>1. now <= now + RequestTimeout /\ now <= now
      BY <1>1, TrustAssumption DEF HandlerType
    <3> QED
      BY <1>1, <1>2, <2>2, <2>3, <2>5, <2>7, <3>1 DEF HandlerInv, CheckInv, InFlight, Asking
  <2>11. SpendInv'
    <3>1. req[r].amount # Unstated => WithinOverlap(r)'
      <4> SUFFICES ASSUME req[r].amount # Unstated PROVE WithinOverlap(r)'
        OBVIOUS
      <4>1. SatAdd(AlreadyCommitted(windows[a], now), req[r].amount, MaxMinor) <= m.daily_cap
        BY <1>4 DEF Complies, WithinCaps
      <4>2. SumOver(Spend, Checks)[overlap[r]] \in Nat
        BY <1>1, Spends DEF HandlerType
      <4>3. SatAdd(AlreadyCommitted(windows[a], now), req[r].amount, MaxMinor) \in Nat
        <5>1. AlreadyCommitted(windows[a], now) \in Minor
          BY <1>1, NothingAtRisk DEF HandlerInv, SpendInv, HandlerType, NoRisk
        <5> QED
          BY <1>1, <5>1, WindowAssumption DEF SatAdd, Minor
      <4>4. DailyCap(i) \in Nat
        BY <2>3, WindowAssumption DEF Minor
      <4>5. SatAdd(AlreadyCommitted(windows[a], now), req[r].amount, MaxMinor)
                <= DailyCap(i) + SumOver(Spend, Checks)[overlap[r]]
        BY <2>3, <4>1, <4>2, <4>3, <4>4
      <4> QED
        BY <1>2, <2>5, <4>5 DEF WithinOverlap, a
    <3>2. \A q \in Checks : q # r => WithinOverlap(q)' = WithinOverlap(q)
      BY <1>2, <2>5 DEF WithinOverlap, Checks
    <3>3. \A q \in Request : pc[q] = "done" => pc'[q] = "done" /\ under'[q] = under[q]
      BY <1>1, <2>5
    <3>4. \A q \in spawned' : /\ pc'[q] = "done" /\ req[q].amount # Unstated
                              /\ under'[q] \in MandateId
      BY <1>1, <1>2, <3>3 DEF HandlerInv, SpendInv, HandlerType, Checks
    <3>5. \A q \in Request : \A c \in overlap'[q] : pc'[c] = "done" /\ c \notin spawned'
      BY <1>1, <1>2, <3>3 DEF HandlerInv, SpendInv, HandlerType, Checks
    <3>6. ASSUME NEW q \in Checks, pc'[q] \in Asking \/ q \in spawned', req[q].amount # Unstated
          PROVE  WithinOverlap(q)'
      <4>1. CASE q = r
        BY <3>1, <3>6, <4>1
      <4>2. CASE q # r
        <5>1. pc[q] \in Asking \/ q \in spawned
          BY <1>2, <2>5, <3>6, <4>2 DEF Checks
        <5>2. WithinOverlap(q)
          BY <3>6, <5>1 DEF HandlerInv, SpendInv
        <5> QED
          BY <3>2, <4>2, <5>2
      <4> QED
        BY <4>1, <4>2
    <3> QED
      BY <1>2, <3>4, <3>5, <3>6 DEF HandlerInv, SpendInv
  <2> QED
    BY <2>6, <2>8, <2>9, <2>10, <2>11 DEF HandlerInv
<1> QED
  BY <1>3, <1>4 DEF CheckMandate

\* A check that is answered leaves a token for as long, and a spend for its amount.
LEMMA ConcludeKeeps ==
    ASSUME HandlerInv, NEW r \in Request, NEW ok \in BOOLEAN, pc[r] \in Asking, Conclude(r, ok),
           UNCHANGED <<now, faults, restarts>>
    PROVE  HandlerInv'
<1> DEFINE x == now + TokenLife
<1>1. /\ HandlerType /\ r \in Checks /\ under[r] \in MandateId /\ now \in Nat /\ x \in Nat
      /\ since[r] \in Nat /\ RequestTimeout \in Nat /\ TokenLife \in Nat /\ Never \notin Nat
  BY TrustAssumption DEF HandlerInv, CheckInv, HandlerType
<1>2. /\ pc' = [pc EXCEPT ![r] = "done"] /\ since' = [since EXCEPT ![r] = 0]
      /\ answer' = [answer EXCEPT ![r] = IF ok THEN "PASS" ELSE "FLAG"]
      /\ token' = IF ok THEN [token EXCEPT ![r] = x] ELSE token
      /\ spawned' = IF ok /\ req[r].amount # Unstated THEN spawned \cup {r} ELSE spawned
      /\ UNCHANGED <<under, overlap, book, windows, rows, revoked_at>>
  BY DEF Conclude, Reply
<1> HIDE DEF x
<1>3. /\ \A q \in Request : q # r => /\ pc'[q] = pc[q] /\ answer'[q] = answer[q]
                                     /\ since'[q] = since[q] /\ token'[q] = token[q]
      /\ pc'[r] = "done" /\ answer'[r] # "created" /\ token'[r] \in {token[r], x}
  BY <1>1, <1>2 DEF HandlerType
<1>4. HandlerType'
  BY <1>1, <1>2 DEF HandlerType, Answer
<1>5. pc[r] # "done" /\ answer[r] # "created" /\ token[r] = Never
  BY DEF HandlerInv, RevokedInv, CheckInv, Asking
<1>6. BookInv'
  BY <1>2 DEF HandlerInv, BookInv
<1>7. RevokedInv'
  <2>1. \A q \in Request : answer[q] = "created" => answer'[q] = "created"
    BY <1>3, <1>5
  <2>2. \A i \in MandateId : revoked_at[i] # Never => answer'[i] = "created"
    BY <2>1, MandateIsRequest DEF HandlerInv, RevokedInv
  <2>3. \A q \in Request : req[q].kind = "revoke" /\ pc'[q] = "book" =>
            answer'[req[q].id] = "created"
    BY <1>3, <2>1, Bodies, MandateIsRequest DEF HandlerInv, RevokedInv
  <2> QED
    BY <1>2, <1>3, <2>2, <2>3 DEF HandlerInv, RevokedInv
<1>8. CheckInv'
  <2>1. revoked_at[under[r]] # Never => x <= revoked_at[under[r]] + RequestTimeout + TokenLife
    <3>1. now <= since[r] + RequestTimeout
      BY DEF HandlerInv, CheckInv, Asking, InFlight
    <3>2. revoked_at[under[r]] # Never => since[r] <= revoked_at[under[r]]
      BY DEF HandlerInv, CheckInv
    <3>3. revoked_at[under[r]] \in Nat \cup {Never}
      BY <1>1 DEF HandlerType
    <3> QED
      BY <1>1, <3>1, <3>2, <3>3 DEF x
  <2>2. x <= now + TokenLife
    BY <1>1 DEF x
  <2>3. \A q \in Request : token'[q] # Never =>
            pc'[q] = "done" /\ under'[q] \in MandateId /\ token'[q] <= now + TokenLife
    BY <1>1, <1>2, <1>3, <1>5, <2>2 DEF HandlerInv, CheckInv
  <2>4. \A q \in Request : token'[q] # Never /\ revoked_at[under[q]] # Never =>
            token'[q] <= revoked_at[under[q]] + RequestTimeout + TokenLife
    BY <1>3, <1>5, <2>1 DEF HandlerInv, CheckInv
  <2> QED
    BY <1>2, <1>3, <2>3, <2>4 DEF HandlerInv, CheckInv, Asking, InFlight
<1>9. SpendInv'
  <2>1. \A q \in Request : \A c \in overlap[q] : c # r
    BY <1>5 DEF HandlerInv, SpendInv
  <2>2. \A c \in spawned' : c \in spawned \/ (c = r /\ req[r].amount # Unstated)
    BY <1>2
  <2>3. \A q \in Checks : WithinOverlap(q)' = WithinOverlap(q)
    BY <1>2 DEF WithinOverlap
  <2>4. \A q \in Checks : pc'[q] \in Asking \/ q \in spawned' => pc[q] \in Asking \/ q \in spawned
    BY <1>3, <2>2 DEF Checks, Asking
  <2>5. \A q \in Request : pc[q] = "done" => pc'[q] = "done"
    BY <1>3
  <2>6. \A q \in spawned' : pc'[q] = "done" /\ req[q].amount # Unstated /\ under'[q] \in MandateId
    BY <1>1, <1>2, <1>3, <2>2, <2>5 DEF HandlerInv, SpendInv, HandlerType, Checks
  <2>7. \A q \in Request : \A c \in overlap'[q] : pc'[c] = "done" /\ c \notin spawned'
    BY <1>1, <1>2, <2>1, <2>2, <2>5 DEF HandlerInv, SpendInv, HandlerType, Checks
  <2> QED
    BY <1>2, <2>3, <2>4, <2>6, <2>7 DEF HandlerInv, SpendInv
<1> QED
  BY <1>4, <1>6, <1>7, <1>8, <1>9 DEF HandlerInv

LEMMA AskKeeps ==
    ASSUME HandlerInv, StandingType, NEW r \in Request,
           CheckCache(r) \/ CheckGraph(r) \/ CheckMemory(r),
           UNCHANGED <<now, restarts>>
    PROVE  HandlerInv'
<1>1. HandlerType /\ pc[r] \in Asking /\ pc[r] \in InFlight /\ pc[r] # "idle"
  BY DEF HandlerInv, CheckCache, CheckGraph, CheckMemory, Resume, Asking, InFlight
\* A miss, or a store that fails: on to the next one.
<1>2. ASSUME NEW where \in {"graph", "memory"}, Goto(r, where), NoToken, faults' \in Nat,
             UNCHANGED <<book, windows, rows, revoked_at>>
      PROVE  HandlerInv'
  <2>1. where \in InFlight /\ where # "book" /\ pc[r] \in InFlight \cup {"idle"}
    BY <1>1 DEF InFlight
  <2>2. rows' \in [MandateId -> {"absent", "live", "revoked"}]
    BY <1>1, <1>2 DEF HandlerType
  <2> QED
    BY <1>1, <1>2, <2>1, <2>2, GotoKeeps
<1>3. Fault => faults' \in Nat
  BY <1>1 DEF Fault, HandlerType
<1>4. faults' = faults => faults' \in Nat
  BY <1>1 DEF HandlerType
<1>5. CASE CheckCache(r)
  <2>1. CASE /\ \E verifies \in BOOLEAN : Proven(req[r].agent) /\ Conclude(r, verifies)
             /\ UNCHANGED faults
    <3>1. PICK verifies \in BOOLEAN : Conclude(r, verifies)
      BY <2>1
    <3> QED
      BY <1>1, <2>1, <3>1, ConcludeKeeps
  <2>2. CASE /\ Goto(r, "graph") /\ NoToken /\ UNCHANGED <<book, windows, rows, revoked_at>>
             /\ faults' = faults \/ Fault
    BY <1>2, <1>3, <1>4, <2>2
  <2> QED
    BY <1>5, <2>1, <2>2 DEF CheckCache
<1>6. CASE CheckGraph(r)
  <2> DEFINE ok == ComputeScore(GraphEdges[req[r].agent]) >= Threshold
  <2>1. CASE Conclude(r, ok) /\ UNCHANGED faults
    <3>1. ok \in BOOLEAN
      OBVIOUS
    <3> HIDE DEF ok
    <3> QED
      BY <1>1, <2>1, <3>1, ConcludeKeeps
  <2>2. CASE /\ Goto(r, "memory") /\ NoToken /\ UNCHANGED <<book, windows, rows, revoked_at>>
             /\ Fault
    BY <1>2, <1>3, <2>2
  <2> QED
    BY <1>6, <2>1, <2>2 DEF CheckGraph
<1>7. CASE CheckMemory(r)
  <2>1. r \in Checks
    BY <1>1 DEF HandlerInv, CheckInv
  <2>2. MeetsThreshold(req[r].agent) \in BOOLEAN
    BY <2>1, Bodies DEF MeetsThreshold, StandingType
  <2> QED
    BY <1>1, <1>7, <2>2, ConcludeKeeps DEF CheckMemory
<1> QED
  BY <1>5, <1>6, <1>7

LEMMA StepKeeps ==
    ASSUME HandlerInv, StandingType, NEW r \in Request, Step(r) \/ Drop(r),
           UNCHANGED <<now, restarts>>
    PROVE  HandlerInv'
<1>1. HandlerType /\ (faults' = faults \/ Fault => faults' \in Nat)
      /\ {"error", "not_found"} \subseteq Answer \ {"created"} /\ "book" \in InFlight
      /\ "book" \notin Asking
  BY DEF HandlerInv, HandlerType, Fault, Answer, InFlight, Asking
<1>2. CASE CreateRow(r)
  <2>1. r \in MandateId /\ pc[r] \in InFlight \cup {"idle"} /\ req[r].kind # "revoke"
    BY <1>2, Bodies DEF CreateRow, Arrive
  <2>2. faults' \in Nat /\ rows' \in [MandateId -> {"absent", "live", "revoked"}]
    BY <1>1, <1>2, <2>1 DEF CreateRow, RowInserted, HandlerType
  <2> QED
    BY <1>1, <1>2, <2>1, <2>2, GotoKeeps, ReplyKeeps DEF CreateRow
<1>3. CASE CreateInBook(r)
  <2> DEFINE m == Typed(req[r], since[r])
  <2>1. req[r] \in CreateBody /\ pc[r] = "book" /\ since[r] \in Nat /\ DailyCap(r) = req[r].daily_cap
    BY <1>1, <1>3, Bodies DEF CreateInBook, Resume, HandlerType, DailyCap
  <2>2. m \in Mandate /\ m.agent = req[r].agent /\ m.daily_cap = DailyCap(r)
    BY <2>1 DEF Typed, Mandate, CreateBody
  <2> HIDE DEF m
  <2> QED
    BY <1>3, <2>1, <2>2, InsertKeeps DEF CreateInBook, m
<1>4. CASE IssueInBook(r)
  <2> DEFINE m == FromDecision(req[r], now)
  <2>1. req[r] \in LimitBody /\ pc[r] = "idle" /\ now \in Nat /\ DailyCap(r) = req[r].lim_window
    BY <1>1, <1>4, Bodies DEF IssueInBook, Arrive, HandlerType, DailyCap
  <2>2. m \in Mandate /\ m.agent = req[r].agent /\ m.daily_cap = DailyCap(r)
    BY <2>1, MandateAssumption, WindowAssumption DEF FromDecision, Mandate, LimitBody
  <2> HIDE DEF m
  <2> QED
    BY <1>4, <2>1, <2>2, InsertKeeps DEF IssueInBook, m
<1>5. CASE RevokeRow(r)
  <2> DEFINE i == req[r].id
  <2>1. i \in MandateId /\ pc[r] \in InFlight \cup {"idle"} /\ answer[i] = "created"
    BY <1>5, Bodies DEF RevokeRow, Arrive
  <2>2. faults' \in Nat /\ rows' \in [MandateId -> {"absent", "live", "revoked"}]
    BY <1>1, <1>5, <2>1 DEF RevokeRow, RowRevoked, HandlerType
  <2>3. Goto(r, "book") \/ Reply(r, "not_found")
    BY <1>5 DEF RevokeRow
  <2>4. NoToken /\ UNCHANGED <<book, windows, revoked_at>>
    BY <1>5 DEF RevokeRow
  <2> QED
    BY <1>1, <2>1, <2>2, <2>3, <2>4, GotoKeeps, ReplyKeeps
<1> QED
  BY <1>2, <1>3, <1>4, <1>5, RevokeKeeps, MandateKeeps, AskKeeps, DropKeeps DEF Step

\* A recorded spend adds as much to the window as to what every open check is allowed to
\* find there.
LEMMA ChargeKeeps ==
    ASSUME HandlerInv, NEW r \in Request, Charge(r), UNCHANGED <<now, restarts>>
    PROVE  /\ HandlerInv'
           /\ spawned \ spawned' = {r}
           /\ AlreadyCommitted(windows'[req[r].agent], now)
                <= DailyCap(under[r]) + SumOver(Spend, Checks)[overlap[r]]
<1> DEFINE a == req[r].agent
           x == req[r].amount
           w == RecordSpend(windows[a], now, x)
           open(q) == pc[q] \in InFlight \/ q \in spawned \ {r}
<1>1. HandlerType /\ r \in spawned /\ r \in Checks /\ now \in Nat
  BY DEF HandlerInv, HandlerType, Charge
<1>2. a \in Agent /\ x \in Minor /\ Spend[r] = x /\ pc[r] = "done"
  BY <1>1, Bodies DEF HandlerInv, SpendInv, Spend
<1>3. /\ windows' = [windows EXCEPT ![a] = w] /\ spawned' = spawned \ {r}
      /\ overlap' = [q \in Request |->
                        IF ~ open(q) THEN {}
                        ELSE IF req[q].kind = "check" /\ req[q].agent = a
                             THEN overlap[q] \cup {r} ELSE overlap[q]]
      /\ UNCHANGED <<book, rows, pc, answer, since, under, token, faults, revoked_at>>
  BY DEF Charge
<1>4. /\ w \in Window /\ NoRisk(w) /\ AlreadyCommitted(windows[a], now) \in Minor
      /\ AlreadyCommitted(w, now) = SatAdd(AlreadyCommitted(windows[a], now), x, MaxMinor)
  <2>1. windows[a] \in Window \cup {NoWindow} /\ NoRisk(windows[a])
    BY <1>1, <1>2 DEF HandlerInv, HandlerType, SpendInv, NoRisk
  <2> QED
    BY <1>1, <1>2, <2>1, SpendAdds, NothingAtRisk
<1> HIDE DEF a, x, w
<1>5. \A b \in Agent : windows'[b] = IF b = a THEN w ELSE windows[b]
  BY <1>1, <1>2, <1>3 DEF HandlerType
<1>6. HandlerType'
  BY <1>1, <1>2, <1>3, <1>4 DEF HandlerType
<1>7. BookInv' /\ RevokedInv' /\ CheckInv'
  BY <1>3 DEF HandlerInv, BookInv, RevokedInv, CheckInv
<1>8. ASSUME NEW q \in Checks, pc[q] \in Asking \/ q \in spawned', req[q].amount # Unstated
      PROVE  WithinOverlap(q)'
  <2>1. open(q) /\ req[q].kind = "check" /\ q \in Request /\ q # r
    BY <1>2, <1>3, <1>8 DEF Checks, Asking, InFlight
  <2>2. WithinOverlap(q) /\ req[q].agent \in Agent /\ req[q].amount \in Minor
    BY <1>3, <1>8, <2>1, Bodies DEF HandlerInv, SpendInv
  <2>3. CASE req[q].agent # a
    <3>1. overlap'[q] = overlap[q] /\ windows'[req[q].agent] = windows[req[q].agent]
      BY <1>3, <1>5, <2>1, <2>2, <2>3
    <3> QED
      BY <1>3, <2>2, <3>1 DEF WithinOverlap
  <2>4. CASE req[q].agent = a
    <3> DEFINE T == overlap[q]
               s == SumOver(Spend, Checks)[T]
               c == AlreadyCommitted(windows[a], now)
    <3>1. overlap'[q] = T \cup {r} /\ windows'[a] = w
      BY <1>2, <1>3, <1>5, <2>1, <2>4
    <3>2. T \in SUBSET Checks /\ r \notin T
      BY <1>1, <2>1 DEF HandlerInv, HandlerType, SpendInv
    <3>3. s \in Nat /\ SumOver(Spend, Checks)[T \cup {r}] = s + x
      BY <1>1, <1>2, <3>2, Spends
    <3>4. SatAdd(c, req[q].amount, MaxMinor) <= DailyCap(under[q]) + s
      BY <2>2, <2>4 DEF WithinOverlap
    <3>5. under[q] \in MandateId
      BY <1>3, <1>8, <2>1 DEF HandlerInv, SpendInv, CheckInv
    <3>6. DailyCap(under[q]) \in Minor
      BY <3>5, MandateIsRequest
    <3>7. SatAdd(SatAdd(c, x, MaxMinor), req[q].amount, MaxMinor) <= DailyCap(under[q]) + (s + x)
      <4>1. c \in Minor /\ x \in Minor /\ req[q].amount \in Minor
        BY <1>2, <1>4, <2>2
      <4> HIDE DEF c, s
      <4> QED
        BY <3>3, <3>4, <3>6, <4>1, WindowAssumption DEF SatAdd, Minor
    <3> HIDE DEF s, c, T
    <3>8. AlreadyCommitted(windows'[req[q].agent], now') = SatAdd(c, x, MaxMinor)
      BY <1>4, <2>4, <3>1 DEF c
    <3>9. SumOver(Spend, Checks)[overlap'[q]] = s + x
      BY <3>1, <3>3
    <3> QED
      BY <1>3, <3>7, <3>8, <3>9 DEF WithinOverlap
  <2> QED
    BY <2>3, <2>4
<1>9. SpendInv'
  <2>1. \A b \in Agent : windows'[b] # NoWindow => windows'[b].at_risk = 0
    BY <1>4, <1>5 DEF HandlerInv, SpendInv, NoRisk
  <2>2. \A q \in Request : overlap'[q] \subseteq overlap[q] \cup {r}
    BY <1>3
  <2>3. \A q \in Request : \A c \in overlap'[q] : pc[c] = "done" /\ c \notin spawned'
    BY <1>2, <1>3, <2>2 DEF HandlerInv, SpendInv
  <2>4. \A q \in spawned' : pc[q] = "done" /\ req[q].amount # Unstated /\ under[q] \in MandateId
    BY <1>3 DEF HandlerInv, SpendInv
  <2> QED
    BY <1>3, <1>8, <2>1, <2>3, <2>4 DEF SpendInv
<1>10. AlreadyCommitted(windows'[a], now) <= DailyCap(under[r]) + SumOver(Spend, Checks)[overlap[r]]
  <2>1. WithinOverlap(r)
    BY <1>1 DEF HandlerInv, SpendInv
  <2> QED
    BY <1>2, <1>4, <1>5, <2>1 DEF WithinOverlap, a, x
<1>11. spawned \ spawned' = {r}
  BY <1>1, <1>3
<1> QED
  BY <1>6, <1>7, <1>9, <1>10, <1>11 DEF HandlerInv, a

LEMMA TickKeeps ==
    ASSUME HandlerInv, Tick,
           UNCHANGED <<book, windows, rows, handlers, spawned, faults, restarts, revoked_at,
                       overlap>>
    PROVE  HandlerInv'
<1>1. HandlerType /\ now \in Nat /\ now' = now + 1 /\ TokenLife \in Nat /\ RequestTimeout \in Nat
      /\ UNCHANGED <<pc, answer, since, under, token>>
  BY TrustAssumption DEF HandlerInv, HandlerType, Tick, handlers
<1>2. HandlerType'
  BY <1>1 DEF HandlerType
<1>3. BookInv'
  BY <1>1 DEF HandlerInv, BookInv
<1>4. RevokedInv'
  <2>1. \A i \in MandateId : revoked_at[i] # Never => revoked_at[i] <= now + 1
    BY <1>1 DEF HandlerInv, RevokedInv, HandlerType
  <2> QED
    BY <1>1, <2>1 DEF HandlerInv, RevokedInv
<1>5. CheckInv'
  <2>1. \A r \in Request : pc[r] \in InFlight =>
            since[r] <= now + 1 /\ now + 1 <= since[r] + RequestTimeout
    BY <1>1 DEF HandlerInv, CheckInv, HandlerType, Tick
  <2>2. \A r \in Request : token[r] # Never => token[r] <= (now + 1) + TokenLife
    BY <1>1 DEF HandlerInv, CheckInv, HandlerType
  <2> QED
    BY <1>1, <2>1, <2>2 DEF HandlerInv, CheckInv
<1>6. ASSUME NEW r \in Checks, pc[r] \in Asking \/ r \in spawned, req[r].amount # Unstated
      PROVE  WithinOverlap(r)'
  <2> DEFINE c == AlreadyCommitted(windows[req[r].agent], now)
             d == AlreadyCommitted(windows[req[r].agent], now + 1)
             s == SumOver(Spend, Checks)[overlap[r]]
             cap == DailyCap(under[r])
             x == req[r].amount
  <2>1. req[r].agent \in Agent /\ x \in Minor /\ r \in Request
    BY <1>6, Bodies DEF Checks
  <2>2. windows[req[r].agent] \in Window \cup {NoWindow} /\ NoRisk(windows[req[r].agent])
    BY <1>1, <2>1 DEF HandlerInv, HandlerType, SpendInv, NoRisk
  <2>3. c \in Minor /\ d \in Minor /\ d <= c
    BY <1>1, <2>2, NothingAtRisk, WindowForgets
  <2>4. s \in Nat
    BY <1>1, <2>1, Spends DEF HandlerType
  <2>5. cap \in Minor
    BY <1>6, <2>1, MandateIsRequest DEF HandlerInv, SpendInv, CheckInv
  <2>6. SatAdd(c, x, MaxMinor) <= cap + s
    BY <1>6 DEF HandlerInv, SpendInv, WithinOverlap
  <2> HIDE DEF c, d, s, cap, x
  <2>7. SatAdd(d, x, MaxMinor) <= cap + s
    BY <2>1, <2>3, <2>4, <2>5, <2>6, WindowAssumption DEF SatAdd, Minor
  <2> QED
    BY <1>1, <2>7 DEF WithinOverlap, d, s, cap, x
<1>7. SpendInv'
  BY <1>1, <1>6 DEF HandlerInv, SpendInv
<1> QED
  BY <1>2, <1>3, <1>4, <1>5, <1>7 DEF HandlerInv

\* With the book go the mandates, with the process the handlers.
LEMMA RestartKeeps ==
    ASSUME HandlerInv, Restart,
           UNCHANGED <<now, rows, cached, moves, answer, under, token, faults, revoked_at>>
    PROVE  HandlerInv'
<1>1. /\ HandlerType /\ restarts' = restarts + 1
      /\ book' = EmptyBook /\ windows' = [a \in Agent |-> NoWindow]
      /\ pc' = [r \in Request |-> IF pc[r] \in InFlight THEN "dropped" ELSE pc[r]]
      /\ since' = [r \in Request |-> 0] /\ spawned' = {} /\ overlap' = [r \in Request |-> {}]
  BY DEF HandlerInv, Restart
<1>2. EmptyBook \in Book /\ (\A i \in MandateId : EmptyBook.mandates[i] = NoMandate)
      /\ \A a \in Agent : EmptyBook.agent_index[a] = NoMandate
  BY DEF EmptyBook, Book
<1>3. HandlerType'
  BY <1>1, <1>2 DEF HandlerType
<1>4. \A r \in Request : pc'[r] \notin InFlight /\ pc'[r] \notin Asking /\ pc'[r] # "book"
                         /\ (pc[r] = "done" => pc'[r] = "done")
  BY <1>1 DEF InFlight, Asking
<1>5. BookInv'
  BY <1>1, <1>2, MandateAssumption DEF BookInv
<1>6. RevokedInv'
  BY <1>1, <1>2, <1>4 DEF HandlerInv, RevokedInv
<1>7. CheckInv'
  BY <1>4 DEF HandlerInv, CheckInv
<1>8. SpendInv'
  BY <1>1, <1>4 DEF SpendInv, Checks
<1> QED
  BY <1>3, <1>5, <1>6, <1>7, <1>8 DEF HandlerInv

LEMMA HandlerStep ==
    ASSUME HandlerInv, StandingType, [Next]_vars
    PROVE  HandlerInv'
<1>1. CASE UNCHANGED vars
  BY <1>1 DEF vars, handlers, reputation, HandlerInv, HandlerType, BookInv, RevokedInv, CheckInv,
              SpendInv, WithinOverlap
<1>2. ASSUME NEW r \in Request, Step(r) \/ Drop(r), UNCHANGED <<now, reputation, restarts>>
      PROVE  HandlerInv'
  BY <1>2, StepKeeps
<1>3. ASSUME NEW r \in Request, Charge(r), UNCHANGED <<now, reputation, restarts>>
      PROVE  HandlerInv'
  BY <1>3, ChargeKeeps
<1>4. CASE UNCHANGED <<now, book, windows, rows, handlers, spawned, faults, restarts, revoked_at,
                       overlap>>
  BY <1>4 DEF handlers, HandlerInv, HandlerType, BookInv, RevokedInv, CheckInv, SpendInv,
              WithinOverlap
<1> QED
  BY <1>1, <1>2, <1>3, <1>4, TickKeeps, RestartKeeps DEF Next

-----------------------------------------------------------------------------
(* Scores and proofs.                                                       *)

LEMMA StandingStart == ASSUME Init PROVE StandingInv
  BY DEF Init, StandingInv, StandingType

\* Every step remembers the scores as it leaves them.
LEMMA StandingStep ==
    ASSUME StandingInv, now \in Nat, [Next]_vars
    PROVE  StandingInv'
<1>1. /\ StandingType /\ Never \notin Nat /\ NoProof \notin Nat
      /\ ProvingTime \in Nat /\ ProofLife \in Nat /\ CacheTtl \in Nat
  BY TrustAssumption DEF StandingInv
<1>2. CASE UNCHANGED vars
  BY <1>2 DEF vars, reputation, StandingInv, StandingType
\* What is common to the others: met_at only grows, and is now where the score meets.
<1>3. ASSUME Remember, now' \in {now, now + 1}, meets' \in [Agent -> BOOLEAN]
      PROVE  /\ met_at' \in [Agent -> Nat \cup {Never}]
             /\ \A a \in Agent : met_at'[a] # Never => met_at'[a] <= now'
             /\ \A a \in Agent : met_at[a] # Never => met_at'[a] # Never /\ met_at[a] <= met_at'[a]
             /\ \A a \in Agent : meets'[a] => met_at'[a] = now'
  <2>1. now' \in Nat /\ now <= now'
    BY <1>3
  <2>2. \A a \in Agent : met_at'[a] = IF meets'[a] THEN now' ELSE met_at[a]
    BY <1>3 DEF Remember
  <2>3. \A a \in Agent : met_at[a] \in Nat \cup {Never} /\ (met_at[a] # Never => met_at[a] <= now)
    BY DEF StandingInv, StandingType
  <2>4. met_at' \in [Agent -> Nat \cup {Never}]
    BY <1>3, <2>1, <2>3 DEF Remember
  <2>5. \A a \in Agent : met_at'[a] # Never => met_at'[a] <= now'
    BY <1>1, <2>1, <2>2, <2>3
  <2>6. \A a \in Agent : met_at[a] # Never => met_at'[a] # Never /\ met_at[a] <= met_at'[a]
    BY <1>1, <2>1, <2>2, <2>3
  <2> QED
    BY <2>2, <2>4, <2>5, <2>6
\* A cached proof, a proof that is not finished: as good as before.
<1>4. ASSUME Remember, now' \in {now, now + 1}, meets' \in [Agent -> BOOLEAN], NEW a \in Agent
      PROVE  /\ cached[a] # NoProof =>
                    met_at'[a] # Never /\ cached[a] <= met_at'[a] + ProvingTime + ProofLife
             /\ proving[a] # Never => met_at'[a] # Never /\ proving[a] <= met_at'[a]
  <2> DEFINE m == met_at[a]
             n == met_at'[a]
             c == cached[a]
             p == proving[a]
  <2>1. /\ n \in Nat \cup {Never} /\ m \in Nat \cup {Never}
        /\ m # Never => n # Never /\ m <= n
    BY <1>1, <1>3, <1>4 DEF StandingType
  <2>2. /\ c \in Nat \cup {NoProof} /\ p \in Nat \cup {Never}
        /\ c # NoProof => m # Never /\ c <= m + ProvingTime + ProofLife
        /\ p # Never => m # Never /\ p <= m
    BY <1>1 DEF StandingInv, StandingType
  <2> HIDE DEF m, n, c, p
  <2>3. /\ c # NoProof => n # Never /\ c <= n + ProvingTime + ProofLife
        /\ p # Never => n # Never /\ p <= n
    BY <1>1, <2>1, <2>2
  <2> QED
    BY <2>3 DEF n, c, p
<1>5. CASE UNCHANGED <<now, reputation>> /\ Remember
  <2>1. UNCHANGED <<meets, cached, proving, moves>> /\ now' = now
    BY <1>5 DEF reputation
  <2> QED
    BY <1>1, <1>3, <1>4, <1>5, <2>1 DEF StandingInv, StandingType
<1>6. ASSUME Remember, now' = now, NEW a \in Agent, ScoreMoves(a)
      PROVE  StandingInv'
  <2>1. meets' \in [Agent -> BOOLEAN] /\ moves' \in Nat /\ UNCHANGED <<cached, proving>>
    BY <1>1, <1>6 DEF ScoreMoves, StandingType
  <2> QED
    BY <1>1, <1>3, <1>4, <1>6, <2>1 DEF StandingInv, StandingType
<1>7. ASSUME Remember, now' = now, NEW a \in Agent, StartProof(a)
      PROVE  StandingInv'
  <2>1. /\ meets[a] /\ proving' = [proving EXCEPT ![a] = now] /\ UNCHANGED <<meets, cached, moves>>
    BY <1>7 DEF StartProof
  <2>2. meets' \in [Agent -> BOOLEAN] /\ met_at'[a] = now
    BY <1>1, <1>3, <1>7, <2>1 DEF StandingType
  <2>3. /\ proving' \in [Agent -> Nat \cup {Never}] /\ proving'[a] = now
        /\ \A b \in Agent : b # a => proving'[b] = proving[b]
    BY <1>1, <2>1 DEF StandingType
  <2>4. \A b \in Agent : proving'[b] # Never =>
            met_at'[b] # Never /\ proving'[b] <= met_at'[b] /\ now' <= proving'[b] + ProvingTime
    <3> SUFFICES ASSUME NEW b \in Agent, proving'[b] # Never
                 PROVE  /\ met_at'[b] # Never /\ proving'[b] <= met_at'[b]
                        /\ now' <= proving'[b] + ProvingTime
      OBVIOUS
    <3>1. CASE b = a
      BY <1>1, <1>7, <2>2, <2>3, <3>1
    <3>2. CASE b # a
      BY <1>4, <1>7, <2>2, <2>3, <3>2 DEF StandingInv
    <3> QED
      BY <3>1, <3>2
  <2>5. \A b \in Agent : cached'[b] # NoProof =>
            met_at'[b] # Never /\ cached'[b] <= met_at'[b] + ProvingTime + ProofLife
    BY <1>4, <1>7, <2>1, <2>2
  <2> QED
    BY <1>1, <1>3, <1>7, <2>1, <2>2, <2>3, <2>4, <2>5 DEF StandingInv, StandingType
<1>8. ASSUME Remember, now' = now, NEW a \in Agent, FinishProof(a)
      PROVE  StandingInv'
  <2> DEFINE k == Kept(now + ProofLife)
  <2>1. /\ proving[a] # Never /\ cached' = [cached EXCEPT ![a] = k]
        /\ proving' = [proving EXCEPT ![a] = Never] /\ UNCHANGED <<meets, moves>>
    BY <1>8 DEF FinishProof
  <2>2. k \in Nat /\ k <= now + ProofLife
    BY <1>1 DEF Kept
  <2> HIDE DEF k
  <2>3. /\ meets' \in [Agent -> BOOLEAN] /\ cached' \in [Agent -> Nat \cup {NoProof}]
        /\ proving' \in [Agent -> Nat \cup {Never}]
        /\ cached'[a] = k /\ proving'[a] = Never
        /\ \A b \in Agent : b # a => cached'[b] = cached[b] /\ proving'[b] = proving[b]
    BY <1>1, <2>1, <2>2 DEF StandingType
  <2>4. met_at'[a] # Never /\ k <= met_at'[a] + ProvingTime + ProofLife
    <3>1. met_at'[a] # Never /\ proving[a] <= met_at'[a] /\ now <= proving[a] + ProvingTime
      BY <1>4, <1>8, <2>1, <2>3 DEF StandingInv
    <3>2. proving[a] \in Nat /\ met_at'[a] \in Nat
      BY <1>1, <1>3, <1>8, <2>1, <2>3, <3>1 DEF StandingType
    <3> QED
      BY <1>1, <2>2, <3>1, <3>2
  <2>5. \A b \in Agent : proving'[b] # Never =>
            met_at'[b] # Never /\ proving'[b] <= met_at'[b] /\ now' <= proving'[b] + ProvingTime
    BY <1>4, <1>8, <2>3 DEF StandingInv
  <2>6. \A b \in Agent : cached'[b] # NoProof =>
            met_at'[b] # Never /\ cached'[b] <= met_at'[b] + ProvingTime + ProofLife
    BY <1>4, <1>8, <2>3, <2>4
  <2> QED
    BY <1>1, <1>3, <1>8, <2>1, <2>3, <2>5, <2>6 DEF StandingInv, StandingType
<1>9. ASSUME Remember, now' = now, meets' \in [Agent -> BOOLEAN], UNCHANGED <<cached, moves>>,
             proving' \in [Agent -> Nat \cup {Never}],
             \A b \in Agent : proving'[b] \in {proving[b], Never}
      PROVE  StandingInv'
  BY <1>1, <1>3, <1>4, <1>9 DEF StandingInv, StandingType
<1>10. ASSUME NEW a \in Agent, LoseProof(a), Remember, now' = now PROVE StandingInv'
  <2>1. /\ meets' \in [Agent -> BOOLEAN] /\ UNCHANGED <<cached, moves>>
        /\ proving' \in [Agent -> Nat \cup {Never}]
        /\ \A b \in Agent : proving'[b] \in {proving[b], Never}
    BY <1>1, <1>10 DEF LoseProof, StandingType
  <2> QED
    BY <1>9, <1>10, <2>1
<1>11. CASE Restart /\ UNCHANGED <<now, cached, moves>> /\ Remember
  <2>1. /\ meets' \in [Agent -> BOOLEAN] /\ UNCHANGED <<cached, moves>>
        /\ proving' \in [Agent -> Nat \cup {Never}]
        /\ \A b \in Agent : proving'[b] \in {proving[b], Never}
    BY <1>1, <1>11 DEF Restart
  <2> QED
    BY <1>9, <1>11, <2>1
<1>12. CASE Tick /\ UNCHANGED reputation /\ Remember
  <2>1. now' = now + 1 /\ UNCHANGED <<meets, cached, proving, moves>>
        /\ \A a \in Agent : proving[a] # Never => now < proving[a] + ProvingTime
    BY <1>12 DEF Tick, reputation
  <2>2. meets' \in [Agent -> BOOLEAN] /\ now' \in {now, now + 1}
    BY <1>1, <2>1 DEF StandingType
  <2>3. \A a \in Agent : proving[a] # Never => now + 1 <= proving[a] + ProvingTime
    BY <1>1, <2>1 DEF StandingType
  <2> QED
    BY <1>1, <1>3, <1>4, <1>12, <2>1, <2>2, <2>3 DEF StandingInv, StandingType
<1> QED
  BY <1>2, <1>5, <1>6, <1>7, <1>8, <1>10, <1>11, <1>12 DEF Next

-----------------------------------------------------------------------------
(* The theorems.                                                            *)

LEMMA InvAlways == Spec => []Inv
<1>1. Init => Inv
  BY HandlerStart, StandingStart DEF Inv
<1>2. Inv /\ [Next]_vars => Inv'
  BY HandlerStep, StandingStep DEF Inv, HandlerInv, HandlerType, StandingInv
<1> QED
  BY <1>1, <1>2, PTL DEF Spec

\* What handlers, jobs and restarts leave in memory and in the stores is what its type
\* says.
THEOREM TrustTypeCorrect == Spec => []TypeOK
<1>1. Inv => TypeOK
  BY DEF Inv, HandlerInv, HandlerType, StandingInv, StandingType, TypeOK
<1> QED
  BY <1>1, InvAlways, PTL

\* No pass under a revoked mandate outlives the checks that had begun (revoke_mandate,
\* trust_check): for any mandates of an agent, faults, dropped handlers and restarts.
THEOREM RevocationsStopTokens == Spec => []RevocationStopsTokens
<1>1. Inv => RevocationStopsTokens
  BY DEF Inv, HandlerInv, CheckInv, RevocationStopsTokens, Checks
<1> QED
  BY <1>1, InvAlways, PTL

\* Concurrent checks overspend a cap by their overlap at most (MandateEngine::check and
\* record_spend): for any number of checks and agents.
THEOREM OverspendsAreOverlaps == Spec => OverspendIsOnlyOverlap
<1> DEFINE A == \A r \in spawned \ spawned' : restarts' = restarts =>
                    AlreadyCommitted(windows'[req[r].agent], now)
                      <= DailyCap(under[r]) + SumOver(Spend, Checks)[overlap[r]]
<1>1. Inv /\ [Next]_vars => [A]_vars
  <2> SUFFICES ASSUME Inv, [Next]_vars PROVE [A]_vars
    OBVIOUS
  <2>1. HandlerInv
    BY DEF Inv
  <2>2. CASE UNCHANGED vars
    BY <2>2
  <2>3. ASSUME NEW r \in Request, Step(r) \/ Drop(r)
        PROVE  spawned \subseteq spawned'
    BY <2>3 DEF Step, Drop, CreateRow, CreateInBook, IssueInBook, RevokeRow, RevokeInBook,
                CheckMandate, CheckCache, CheckGraph, CheckMemory, Conclude, NoToken
  <2>4. ASSUME NEW r \in Request, Charge(r), UNCHANGED <<now, restarts>>
        PROVE  A
    BY <2>1, <2>4, ChargeKeeps
  <2>5. CASE Restart
    <3>1. restarts' # restarts
      BY <2>1, <2>5 DEF Restart, HandlerInv, HandlerType
    <3> QED
      BY <3>1
  <2>6. CASE UNCHANGED spawned
    BY <2>6
  <2> HIDE DEF A
  <2>7. spawned \subseteq spawned' => A
    BY DEF A
  <2> QED
    BY <2>2, <2>3, <2>4, <2>5, <2>6, <2>7 DEF Next
<1>2. [][A]_vars <=> OverspendIsOnlyOverlap
  BY DEF OverspendIsOnlyOverlap
<1> HIDE DEF A
<1> QED
  BY <1>1, <1>2, InvAlways, PTL DEF Spec

\* A pass rests on the graph or on a score that met the threshold lately (trust_check,
\* proof_refresh's run_once): however proofs, restarts and scores interleave.
THEOREM PassesHaveStanding == Spec => PassHasStanding
<1> DEFINE A == \A r \in Checks : token[r] = Never /\ token'[r] # Never =>
                    LET a == req[r].agent
                    IN  \/ ComputeScore(GraphEdges[a]) >= Threshold
                        \/ met_at'[a] # Never /\ now <= met_at'[a] + ProvingTime + ProofLife
<1>1. Inv /\ [Next]_vars => [A]_vars
  <2> SUFFICES ASSUME Inv, Next, NEW r \in Checks, token[r] = Never, token'[r] # Never
               PROVE  \/ ComputeScore(GraphEdges[req[r].agent]) >= Threshold
                      \/ /\ met_at'[req[r].agent] # Never
                         /\ now <= met_at'[req[r].agent] + ProvingTime + ProofLife
    OBVIOUS
  <2> DEFINE a == req[r].agent
  <2>1. HandlerType /\ StandingInv /\ StandingType /\ a \in Agent /\ r \in Request /\ now \in Nat
        /\ ProvingTime \in Nat /\ ProofLife \in Nat /\ Never \notin Nat
    BY Bodies, TrustAssumption DEF Inv, HandlerInv, HandlerType, StandingInv, Checks
  <2>2. ASSUME NEW q \in Request, Step(q) \/ Drop(q)
        PROVE  \/ CheckCache(r) /\ Proven(a)
               \/ CheckGraph(r) /\ ComputeScore(GraphEdges[a]) >= Threshold
               \/ CheckMemory(r) /\ meets[a]
    <3>1. token' # token
      OBVIOUS
    <3>2. CheckCache(q) \/ CheckGraph(q) \/ CheckMemory(q)
      BY <2>2, <3>1 DEF Step, Drop, CreateRow, CreateInBook, IssueInBook, RevokeRow,
                        RevokeInBook, CheckMandate, NoToken
    <3>3. ASSUME NEW ok \in BOOLEAN, Conclude(q, ok) PROVE q = r /\ ok
      <4>1. token' = IF ok THEN [token EXCEPT ![q] = now + TokenLife] ELSE token
        BY <3>3 DEF Conclude
      <4> QED
        BY <2>1, <3>1, <4>1 DEF HandlerType
    <3>4. CASE CheckCache(q)
      BY <3>1, <3>3, <3>4 DEF CheckCache, NoToken
    <3>5. CASE CheckGraph(q)
      <4> DEFINE ok == ComputeScore(GraphEdges[req[q].agent]) >= Threshold
      <4>1. ok \in BOOLEAN /\ Conclude(q, ok)
        BY <3>1, <3>5 DEF CheckGraph, NoToken
      <4> HIDE DEF ok
      <4>2. q = r /\ ok
        BY <3>3, <4>1
      <4> QED
        BY <3>5, <4>2 DEF ok
    <3>6. CASE CheckMemory(q)
      <4>1. q \in Checks
        BY <2>1, <3>6 DEF Inv, HandlerInv, CheckInv, CheckMemory, Resume, Asking
      <4>2. meets[req[q].agent] \in BOOLEAN /\ Conclude(q, meets[req[q].agent])
        BY <2>1, <3>6, <4>1, Bodies DEF CheckMemory, MeetsThreshold, StandingType
      <4> QED
        BY <3>3, <3>6, <4>2
    <3> QED
      BY <3>2, <3>4, <3>5, <3>6
  <2>3. ASSUME token' = token PROVE FALSE
    BY <2>3
  <2>4. PICK q \in Request : /\ Step(q) \/ Drop(q)
                             /\ UNCHANGED <<now, reputation, restarts>> /\ Remember
    BY <2>3 DEF Next, Charge, handlers, Restart
  <2>5. met_at'[a] = IF meets[a] THEN now ELSE met_at[a]
    BY <2>1, <2>4 DEF Remember, reputation
  <2>6. CASE Proven(a)
    <3>1. /\ cached[a] \in Nat /\ now <= cached[a] /\ met_at[a] # Never
          /\ cached[a] <= met_at[a] + ProvingTime + ProofLife
      BY <2>1, <2>6 DEF Proven, StandingInv, StandingType
    <3>2. met_at[a] \in Nat /\ met_at[a] <= now
      BY <2>1, <3>1 DEF StandingInv, StandingType
    <3> HIDE DEF a
    <3>3. met_at'[a] # Never /\ now <= met_at'[a] + ProvingTime + ProofLife
      BY <2>1, <2>5, <3>1, <3>2
    <3> QED
      BY <3>3 DEF a
  <2>7. CASE meets[a]
    <3> HIDE DEF a
    <3>1. met_at'[a] # Never /\ now <= met_at'[a] + ProvingTime + ProofLife
      BY <2>1, <2>5, <2>7
    <3> QED
      BY <3>1 DEF a
  <2> QED
    BY <2>2, <2>4, <2>6, <2>7
<1>2. [][A]_vars <=> PassHasStanding
  BY DEF PassHasStanding
<1> HIDE DEF A
<1> QED
  BY <1>1, <1>2, InvAlways, PTL DEF Spec
=============================================================================
