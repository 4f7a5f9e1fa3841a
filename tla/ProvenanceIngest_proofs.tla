---------------------- MODULE ProvenanceIngest_proofs ----------------------
(***************************************************************************)
(* What submitting provenance guarantees, for any agents, runtimes, keys   *)
(* and batches, however submissions overlap, wherever their handlers are   *)
(* dropped, whichever store calls fail and whenever the process restarts.  *)
(*                                                                         *)
(* The inductive invariant says of each submission what its handler has    *)
(* contributed: before it verifies, nothing; once it has extended the      *)
(* evidence, all it verified, for good; and what it carries from the one   *)
(* section to the next, to commit to, the evidence still extends.  Of each *)
(* runtime it says that nothing that a barred one signs can verify, now or *)
(* after the registry is read back.                                        *)
(*                                                                         *)
(* (LedgerLemmas also holds the lemmas about windows, whose constants no   *)
(* statement here mentions.)                                               *)
(***************************************************************************)
EXTENDS ProvenanceIngest, LedgerLemmas, SequenceTheorems

\* A submission of this process has begun, and one that came before another
\* too; every handler at work is of this process.
ProgressInv ==
    \A r \in Submission :
        /\ r \in current => pc[r] # "idle"
        /\ \A q \in earlier[r] : pc[q] # "idle"
        /\ pc[r] \in InFlight /\ r \notin cut => r \in current

\* What a submission may count as its own.
ShareInv ==
    \A r \in Submission :
        /\ Len(verified[r]) <= Len(req[r].events)
        /\ pc[r] \in {"idle", "verify"} => verified[r] = <<>>

\* What a handler is about to commit to is still the beginning of the evidence.
CommitInv ==
    \A r \in Submission \ cut :
        pc[r] \in {"persist", "ref", "ingest"} =>
            IsPrefix(all[r], provenance[req[r].agent])

\* Every event of s is among those of t.
Within(s, t) == \A i \in DOMAIN s : \E j \in DOMAIN t : t[j] = s[i]

\* What a submission brought stays in its agent's evidence.
RecordedInv ==
    \A q \in Submission : Extended(q) => Within(verified[q], provenance[req[q].agent])

\* What was in the evidence when a submission began is in its replay set.
EarlierInv ==
    \A r \in current : \A q \in earlier[r] \cap current :
        /\ Extended(q) /\ req[q].agent = req[r].agent
        /\ pc[r] = "verify" => Within(verified[q], seen[r])

\* Nothing of a barred runtime verifies, nor will it once the rows are loaded.
BarredInv ==
    \A t \in Runtime :
        /\ barred[t] # "no" => (t \in revoked \/ keys[t] = NoKey) /\ ~ Registering(t)
        /\ barred[t] = "stored" => ~ Live(t)

EvidenceInv == /\ ProgressInv /\ ShareInv /\ CommitInv /\ RecordedInv /\ EarlierInv
               /\ EveryEventIsCounted /\ RefCommitsToHistory /\ AcceptedEvidenceIsFinal

Inv == TypeOK /\ EvidenceInv /\ BarredInv

-----------------------------------------------------------------------------
(* The operators.                                                           *)

LEMMA Bodies ==
    /\ IsFiniteSet(Submission) /\ Submission \subseteq Request
    /\ \A r \in Request :
          /\ req[r].kind \in {"register", "revoke", "submit"}
          /\ req[r].kind = "register" => req[r].runtime \in Runtime /\ req[r].key \in Key
          /\ req[r].kind = "revoke" => req[r].runtime \in Runtime
    /\ \A r \in Submission : req[r].agent \in Agent /\ req[r].events \in Seq(Event)
<1>1. Submission \subseteq Request
  BY DEF Submission
<1>2. IsFiniteSet(Submission)
  BY <1>1, FS_Subset, ProvenanceIngestAssumption
<1>3. \A r \in Request : req[r] \in RegisterBody \cup RevokeBody \cup SubmitBody
  BY ProvenanceIngestAssumption
<1> QED
  BY <1>1, <1>2, <1>3 DEF Submission, RegisterBody, RevokeBody, SubmitBody

LEMMA PrefixFacts ==
    ASSUME NEW s \in Seq(Event), NEW t \in Seq(Event), NEW u \in Seq(Event)
    PROVE  /\ IsPrefix(<<>>, t) /\ IsPrefix(t, t)
           /\ IsPrefix(s, t) => IsPrefix(s, t \o u) /\ Len(s) <= Len(t)
<1>1. IsPrefix(<<>>, t)
  <2>1. /\ SubSeq(<<>>, 1, Len(<<>>)) = <<>> /\ SubSeq(t, 1, Len(<<>>)) = <<>>
        /\ Len(<<>>) = 0 /\ Len(t) \in Nat
    BY LenProperties, SubSeqEmpty
  <2> QED
    BY <2>1 DEF IsPrefix
<1>2. IsPrefix(t, t)
  BY LenProperties DEF IsPrefix
<1>3. ASSUME IsPrefix(s, t) PROVE IsPrefix(s, t \o u)
  <2>1. /\ Len(s) \in Nat /\ Len(t) \in Nat /\ Len(u) \in Nat /\ Len(s) <= Len(t)
        /\ SubSeq(s, 1, Len(s)) = SubSeq(t, 1, Len(s))
    BY <1>3, LenProperties DEF IsPrefix
  <2>2. Len(t \o u) = Len(t) + Len(u)
    BY ConcatProperties
  <2>3. SubSeq(t \o u, 1, Len(s)) = SubSeq(t, 1, Len(s))
    BY <2>1, SubSeqOfConcat1
  <2> QED
    BY <2>1, <2>2, <2>3 DEF IsPrefix
<1> QED
  BY <1>1, <1>2, <1>3 DEF IsPrefix

LEMMA WithinFacts ==
    ASSUME NEW s \in Seq(Event), NEW t \in Seq(Event), NEW u \in Seq(Event)
    PROVE  /\ Within(s, t \o s) /\ (Within(s, t) => Within(s, t \o u))
           /\ Within(<<>>, t)
<1>1. /\ DOMAIN s = 1..Len(s) /\ DOMAIN t = 1..Len(t) /\ Len(s) \in Nat /\ Len(t) \in Nat
      /\ Len(u) \in Nat
  BY LenProperties
<1>2. /\ Len(t \o u) = Len(t) + Len(u) /\ DOMAIN (t \o u) = 1..(Len(t) + Len(u))
      /\ \A i \in 1..Len(t) : (t \o u)[i] = t[i]
  BY ConcatProperties, LenProperties
<1>3. /\ DOMAIN (t \o s) = 1..(Len(t) + Len(s))
      /\ \A i \in 1..Len(s) : (t \o s)[Len(t) + i] = s[i]
  <2>1. \A i \in 1..Len(s) : (t \o s)[Len(t) + i] = s[i]
    <3> SUFFICES ASSUME NEW i \in 1..Len(s) PROVE (t \o s)[Len(t) + i] = s[i]
      OBVIOUS
    <3>1. Len(t) + i \in (Len(t) + 1)..(Len(t) + Len(s)) /\ Len(t) + i - Len(t) = i
      BY <1>1
    <3> QED
      BY <1>1, <3>1, ConcatProperties
  <2> QED
    BY <2>1, ConcatProperties, LenProperties
<1>4. Within(s, t \o s)
  <2> SUFFICES ASSUME NEW i \in DOMAIN s PROVE \E j \in DOMAIN (t \o s) : (t \o s)[j] = s[i]
    BY DEF Within
  <2>1. Len(t) + i \in DOMAIN (t \o s)
    BY <1>1, <1>3
  <2> QED
    BY <1>1, <1>3, <2>1
<1>5. ASSUME Within(s, t) PROVE Within(s, t \o u)
  BY <1>1, <1>2, <1>5 DEF Within
<1>6. Within(<<>>, t)
  BY DEF Within
<1> QED
  BY <1>4, <1>5, <1>6

\* One event more, for what of the batch has passed before it.
Take(a, seeds, passed, e) ==
    IF Authentic(a, e) /\ Fresh(seeds \o passed, e) THEN Append(passed, e) ELSE passed

\* f lists what has passed of the first n events, for each n up to m.
Lists(f, a, seeds, events, m) ==
    \A n \in 0..m : f[n] = IF n = 0 THEN <<>> ELSE Take(a, seeds, f[n - 1], events[n])

LEMMA TakeType ==
    ASSUME NEW a, NEW seeds \in Seq(Event), NEW passed \in Seq(Event), NEW e \in Event
    PROVE  Take(a, seeds, passed, e) \in Seq(Event)
  BY AppendProperties DEF Take

\* The recursion of verify_batch has a solution.
LEMMA ListsExist ==
    ASSUME NEW a, NEW seeds \in Seq(Event), NEW events \in Seq(Event)
    PROVE  \E f \in [0..Len(events) -> Seq(Event)] : Lists(f, a, seeds, events, Len(events))
<1> DEFINE N == Len(events)
           Done(m) == \E f \in [0..N -> Seq(Event)] : Lists(f, a, seeds, events, m)
           Bad == {m \in 0..N : ~ Done(m)}
<1>1. N \in Nat /\ \A n \in 1..N : events[n] \in Event
  BY LenProperties, ElementOfSeq
<1> SUFFICES ASSUME Bad # {} PROVE FALSE
  BY <1>1
<1>2. PICK m \in Bad : \A n \in Bad : m <= n
  <2>1. Bad \in SUBSET Nat
    BY <1>1
  <2> HIDE DEF Bad
  <2> QED
    BY <2>1, LeastNumber
<1>3. m # 0
  <2>1. [n \in 0..N |-> <<>>] \in [0..N -> Seq(Event)]
    OBVIOUS
  <2>2. Lists([n \in 0..N |-> <<>>], a, seeds, events, 0)
    BY <1>1 DEF Lists
  <2> QED
    BY <1>2, <2>1, <2>2
<1>4. m - 1 \in 0..N /\ m \in 1..N /\ Done(m - 1)
  <2>1. m - 1 \in 0..N /\ m \in 1..N /\ ~ (m <= m - 1)
    <3>1. m \in 0..N
      BY <1>2
    <3> QED
      BY <1>1, <1>3, <3>1
  <2>2. m - 1 \notin Bad
    <3> HIDE DEF Bad
    <3> QED
      BY <1>2, <2>1
  <2> QED
    BY <2>1, <2>2
<1>5. PICK f \in [0..N -> Seq(Event)] : Lists(f, a, seeds, events, m - 1)
  BY <1>4
<1> DEFINE x == Take(a, seeds, f[m - 1], events[m])
           g == [f EXCEPT ![m] = x]
<1>6. x \in Seq(Event)
  BY <1>1, <1>4, <1>5, TakeType
<1>7. g \in [0..N -> Seq(Event)] /\ g[m] = x /\ \A n \in 0..N : n # m => g[n] = f[n]
  <2> HIDE DEF x
  <2> QED
    BY <1>4, <1>6
<1>8. Lists(g, a, seeds, events, m)
  <2> HIDE DEF g
  <2> SUFFICES ASSUME NEW n \in 0..m
               PROVE  g[n] = IF n = 0 THEN <<>> ELSE Take(a, seeds, g[n - 1], events[n])
    BY DEF Lists
  <2>1. CASE n = m
    BY <1>3, <1>4, <1>7, <2>1
  <2>2. CASE n # m
    <3>1. n \in 0..(m - 1) /\ (n # 0 => n - 1 \in 0..(m - 1))
      BY <1>4, <2>2
    <3> QED
      BY <1>4, <1>5, <1>7, <2>2, <3>1 DEF Lists
  <2> QED
    BY <2>1, <2>2
<1> QED
  BY <1>2, <1>7, <1>8

\* verify_batch: what passes is of the batch, authentic, and newer than all of
\* its session in the replay set.
LEMMA PassingFacts ==
    ASSUME NEW a, NEW seeds \in Seq(Event), NEW events \in Seq(Event)
    PROVE  /\ Passing(a, seeds, events) \in Seq(Event)
           /\ Len(Passing(a, seeds, events)) <= Len(events)
           /\ \A i \in DOMAIN Passing(a, seeds, events) :
                 LET e == Passing(a, seeds, events)[i]
                 IN  Authentic(a, e) /\ Fresh(seeds, e)
<1> DEFINE N == Len(events)
           Body(f) == [n \in 0..N |->
                         IF n = 0 THEN <<>>
                         ELSE IF /\ Authentic(a, events[n])
                                 /\ Fresh(seeds \o f[n - 1], events[n])
                              THEN Append(f[n - 1], events[n]) ELSE f[n - 1]]
           passed == CHOOSE f : f = Body(f)
           Good(p) == /\ p \in Seq(Event)
                      /\ \A i \in DOMAIN p : Authentic(a, p[i]) /\ Fresh(seeds, p[i])
           Bad == {n \in 0..N : ~ (Good(passed[n]) /\ Len(passed[n]) <= n)}
<1>1. N \in Nat /\ \A n \in 1..N : events[n] \in Event
  BY LenProperties, ElementOfSeq
<1>2. Passing(a, seeds, events) = passed[N]
  BY DEF Passing
<1>3. passed = Body(passed)
  <2>1. PICK f \in [0..N -> Seq(Event)] : Lists(f, a, seeds, events, N)
    BY ListsExist
  <2>2. f = Body(f)
    BY <2>1 DEF Lists, Take
  <2> QED
    BY <2>2
<1>4. \A n \in 0..N : passed[n] = IF n = 0 THEN <<>> ELSE Take(a, seeds, passed[n - 1], events[n])
  BY <1>3 DEF Take
<1> HIDE DEF passed
<1>5. ASSUME NEW p \in Seq(Event), Good(p), NEW e \in Event
      PROVE  Good(Take(a, seeds, p, e)) /\ Len(Take(a, seeds, p, e)) <= Len(p) + 1
  <2>1. CASE Authentic(a, e) /\ Fresh(seeds \o p, e)
    <3>1. /\ Take(a, seeds, p, e) = Append(p, e) /\ Append(p, e) \in Seq(Event)
          /\ Len(Append(p, e)) = Len(p) + 1 /\ Len(p) \in Nat
          /\ \A i \in 1..Len(p) : Append(p, e)[i] = p[i]
          /\ Append(p, e)[Len(p) + 1] = e
          /\ DOMAIN p = 1..Len(p) /\ DOMAIN Append(p, e) = 1..(Len(p) + 1)
      BY <2>1, AppendProperties, LenProperties DEF Take
    <3>2. Fresh(seeds, e)
      <4>1. /\ DOMAIN seeds = 1..Len(seeds) /\ DOMAIN (seeds \o p) = 1..(Len(seeds) + Len(p))
            /\ Len(seeds) \in Nat /\ Len(p) \in Nat
            /\ \A i \in 1..Len(seeds) : (seeds \o p)[i] = seeds[i]
        BY ConcatProperties, LenProperties
      <4> QED
        BY <2>1, <4>1 DEF Fresh
    <3>3. \A i \in 1..(Len(p) + 1) : i \in 1..Len(p) \/ i = Len(p) + 1
      BY <3>1
    <3> QED
      BY <1>5, <2>1, <3>1, <3>2, <3>3
  <2>2. CASE ~ (Authentic(a, e) /\ Fresh(seeds \o p, e))
    BY <1>5, <2>2, LenProperties DEF Take
  <2> QED
    BY <2>1, <2>2
<1>6. Bad = {}
  <2> SUFFICES ASSUME Bad # {} PROVE FALSE
    OBVIOUS
  <2>1. PICK n \in Bad : \A m \in Bad : n <= m
    <3>1. Bad \in SUBSET Nat
      BY <1>1
    <3> HIDE DEF Bad
    <3> QED
      BY <3>1, LeastNumber
  <2>2. CASE n = 0
    <3>1. passed[0] = <<>> /\ <<>> \in Seq(Event) /\ Len(<<>>) = 0 /\ DOMAIN <<>> = {}
      BY <1>1, <1>4, LenProperties
    <3>2. Good(<<>>) /\ Len(<<>>) <= 0
      BY <3>1
    <3> QED
      BY <2>1, <2>2, <3>1, <3>2
  <2>3. CASE n # 0
    <3>1. n \in 1..N /\ n - 1 \in 0..N /\ n - 1 \notin Bad
      BY <1>1, <2>1, <2>3
    <3>2. Good(passed[n - 1]) /\ Len(passed[n - 1]) <= n - 1
      BY <3>1
    <3>3. passed[n] = Take(a, seeds, passed[n - 1], events[n])
      BY <1>4, <2>3, <3>1
    <3>4. Good(passed[n]) /\ Len(passed[n]) <= Len(passed[n - 1]) + 1
      <4> HIDE DEF Good
      <4>1. passed[n - 1] \in Seq(Event)
        BY <3>2 DEF Good
      <4> QED
        BY <1>1, <1>5, <3>1, <3>2, <3>3, <4>1
    <3>5. Len(passed[n]) \in Nat /\ Len(passed[n - 1]) \in Nat
      BY <3>2, <3>4, LenProperties
    <3> QED
      BY <2>1, <3>1, <3>2, <3>4, <3>5
  <2> QED
    BY <2>2, <2>3
<1> QED
  BY <1>1, <1>2, <1>6

-----------------------------------------------------------------------------
(* Steps that leave most of the invariant alone.                            *)

Place == InFlight \cup {"idle", "done"}

LEMMA Moved ==
    ASSUME TypeOK, NEW r \in Request, NEW from, NEW to \in Place, Moves(r, from, to)
    PROVE  /\ pc[r] = from /\ r \notin cut
           /\ pc' \in [Request -> Place] /\ pc'[r] = to
           /\ \A q \in Request : q # r => pc'[q] = pc[q]
  BY DEF TypeOK, Moves, Place

\* What submissions verified and how far they got is as it was, up to what a
\* submission that counts for nothing yet has verified.
LEMMA CountKept ==
    ASSUME Inv, UNCHANGED <<provenance, provenance_rejected>>,
           verified' \in [Submission -> Seq(Event)],
           \A q \in Submission :
               /\ Extended(q)' <=> Extended(q)
               /\ Counted(q)' <=> Counted(q)
               /\ Extended(q) => verified'[q] = verified[q]
               /\ Len(verified'[q]) <= Len(req[q].events)
    PROVE  EveryEventIsCounted'
<1> SUFFICES ASSUME NEW a \in Agent
             PROVE  /\ Len(provenance'[a]) =
                         SumOver([r \in Submission |-> Len(verified'[r])], Submission)[ExtendedOf(a)']
                    /\ provenance_rejected'[a] =
                         SumOver([r \in Submission |-> Rejected(r)'], Submission)[CountedOf(a)']
  BY DEF EveryEventIsCounted
<1> DEFINE f == [r \in Submission |-> Len(verified[r])]
           g == [r \in Submission |-> Len(verified'[r])]
           u == [r \in Submission |-> Rejected(r)]
           v == [r \in Submission |-> Rejected(r)']
<1>1. \A r \in Submission : /\ Len(verified[r]) \in Nat /\ Len(verified'[r]) \in Nat
                            /\ Len(req[r].events) \in Nat
                            /\ Len(verified[r]) <= Len(req[r].events)
  BY Bodies, LenProperties DEF Inv, TypeOK, EvidenceInv, ShareInv
<1>2. f \in [Submission -> Nat] /\ g \in [Submission -> Nat]
  BY <1>1
<1>3. u \in [Submission -> Nat] /\ v \in [Submission -> Nat]
  BY <1>1 DEF Rejected
<1>4. ExtendedOf(a)' = ExtendedOf(a) /\ CountedOf(a)' = CountedOf(a)
  BY DEF ExtendedOf, CountedOf
<1>5. ExtendedOf(a) \in SUBSET Submission /\ CountedOf(a) \in SUBSET Submission
  BY DEF ExtendedOf, CountedOf
<1>6. \A r \in ExtendedOf(a) : f[r] = g[r]
  BY DEF ExtendedOf
<1>7. \A r \in CountedOf(a) : u[r] = v[r]
  BY DEF CountedOf, Counted, Extended, Rejected
<1>8. SumOver(f, Submission)[ExtendedOf(a)] = SumOver(g, Submission)[ExtendedOf(a)]
  <2> HIDE DEF f, g
  <2> QED
    BY <1>2, <1>5, <1>6, Bodies, SumOverSame
<1>9. SumOver(u, Submission)[CountedOf(a)] = SumOver(v, Submission)[CountedOf(a)]
  <2> HIDE DEF u, v
  <2> QED
    BY <1>3, <1>5, <1>7, Bodies, SumOverSame
<1>10. /\ Len(provenance[a]) = SumOver(f, Submission)[ExtendedOf(a)]
       /\ provenance_rejected[a] = SumOver(u, Submission)[CountedOf(a)]
  BY DEF Inv, EvidenceInv, EveryEventIsCounted
<1> QED
  BY <1>4, <1>8, <1>9, <1>10

\* The handlers of a registration or a revocation touch no evidence.
LEMMA RegistryStep ==
    ASSUME Inv, \A q \in Submission : pc'[q] = pc[q],
           UNCHANGED <<evidence, locals, history, cut>>
    PROVE  EvidenceInv'
<1>1. UNCHANGED <<provenance, provenance_rejected, evidence_refs, corroboration,
                  seen, verified, unsaved, all, current, earlier, cut>>
  BY DEF evidence, locals, history
<1>2. /\ current \subseteq Submission /\ \A q \in Submission : earlier[q] \subseteq Submission
      /\ verified \in [Submission -> Seq(Event)]
  BY DEF Inv, TypeOK
<1>3. \A q \in Submission : (Extended(q)' <=> Extended(q)) /\ (Counted(q)' <=> Counted(q))
  BY <1>1 DEF Extended, Counted
<1>4. EveryEventIsCounted'
  BY <1>1, <1>2, <1>3, CountKept DEF Inv, EvidenceInv, ShareInv
<1>5. ProgressInv' /\ ShareInv' /\ CommitInv'
  BY <1>1, <1>2 DEF Inv, EvidenceInv, ProgressInv, ShareInv, CommitInv
<1>6. RecordedInv' /\ EarlierInv'
  <2>1. RecordedInv'
    BY <1>1, <1>3 DEF Inv, EvidenceInv, RecordedInv
  <2>2. \A r \in current : \A q \in earlier[r] \cap current :
           pc'[r] = pc[r] /\ (Extended(q)' <=> Extended(q))
    BY <1>2, <1>3
  <2>3. EarlierInv'
    BY <1>1, <2>2 DEF Inv, EvidenceInv, EarlierInv
  <2> QED
    BY <2>1, <2>3
<1>7. RefCommitsToHistory' /\ AcceptedEvidenceIsFinal'
  BY <1>1 DEF Inv, EvidenceInv, RefCommitsToHistory, AcceptedEvidenceIsFinal
<1> QED
  BY <1>4, <1>5, <1>6, <1>7 DEF EvidenceInv

\* The handler of a submission touches no runtime, and a handler may end.
LEMMA SubmitStep ==
    ASSUME Inv, UNCHANGED registry, cut \subseteq cut',
           \A q \in Request \ Submission : pc'[q] = pc[q]
    PROVE  BarredInv'
<1>1. UNCHANGED <<keys, revoked, runtime_rows, barred>>
  BY DEF registry
<1>2. \A t \in Runtime : Registering(t)' => Registering(t)
  BY DEF Registering, Submission
<1> QED
  BY <1>1, <1>2 DEF Inv, BarredInv, Live

\* The later sections of a submission: the evidence and what was verified stay.
LEMMA LaterSection ==
    ASSUME Inv, NEW r \in Submission, pc[r] \in {"persist", "ref", "ingest"},
           NEW to \in {"persist", "ref", "ingest", "done"}, Moves(r, pc[r], to),
           UNCHANGED <<provenance, verified, seen, current, earlier, cut>>
    PROVE  /\ pc' \in [Request -> Place] /\ r \in current
           /\ pc'[r] = to /\ \A q \in Request : q # r => pc'[q] = pc[q]
           /\ \A q \in Submission : Extended(q)' <=> Extended(q)
           /\ \A q \in Submission : q # r => (Counted(q)' <=> Counted(q))
           /\ ProgressInv' /\ ShareInv' /\ RecordedInv' /\ EarlierInv'
           /\ AcceptedEvidenceIsFinal'
<1>1. r \in Request /\ to \in Place
  BY DEF Place, InFlight, Submission
<1>2. /\ pc' \in [Request -> Place] /\ pc'[r] = to /\ r \notin cut
      /\ \A q \in Request : q # r => pc'[q] = pc[q]
  BY <1>1, Moved DEF Inv
<1>3. r \in current
  BY <1>2 DEF Inv, EvidenceInv, ProgressInv, InFlight
<1>4. \A q \in Submission : q \in Request
  BY DEF Submission
<1>5. /\ \A q \in Submission : Extended(q)' <=> Extended(q)
      /\ \A q \in Submission : q # r => (Counted(q)' <=> Counted(q))
  BY <1>2, <1>3, <1>4 DEF Extended, Counted
<1>6. current \subseteq Submission /\ \A q \in Submission : earlier[q] \subseteq Submission
  BY DEF Inv, TypeOK
<1>7. ProgressInv' /\ ShareInv'
  BY <1>2, <1>3, <1>4, <1>6 DEF Inv, EvidenceInv, ProgressInv, ShareInv
<1>8. RecordedInv' /\ EarlierInv'
  BY <1>2, <1>4, <1>5, <1>6 DEF Inv, EvidenceInv, RecordedInv, EarlierInv
<1>9. AcceptedEvidenceIsFinal'
  BY DEF Inv, EvidenceInv, AcceptedEvidenceIsFinal
<1> QED
  BY <1>2, <1>3, <1>5, <1>7, <1>8, <1>9

-----------------------------------------------------------------------------
(* The registry.                                                            *)

LEMMA RegisterRuntimeInv == ASSUME Inv, NEW r \in Request, RegisterRuntime(r) PROVE Inv'
<1> DEFINE t == req[r].runtime
<1>1. /\ req[r].kind = "register" /\ Moves(r, "idle", "save") /\ t \in Runtime /\ req[r].key \in Key
      /\ revoked' = revoked \ {t} /\ keys' = [keys EXCEPT ![t] = req[r].key]
      /\ barred' = [barred EXCEPT ![t] = "no"]
      /\ UNCHANGED <<runtime_rows, evidence, event_rows, locals, faults, restarts, cut, history>>
  BY Bodies DEF RegisterRuntime
<1>2. /\ pc' \in [Request -> Place] /\ pc'[r] = "save"
      /\ \A q \in Request : q # r => pc'[q] = pc[q]
  BY <1>1, Moved DEF Inv, Place, InFlight
<1>3. EvidenceInv'
  BY <1>1, <1>2, RegistryStep DEF Submission
<1>4. TypeOK'
  BY <1>1, <1>2 DEF Inv, TypeOK, evidence, locals, history, Place
<1>5. BarredInv'
  <2> SUFFICES ASSUME NEW u \in Runtime, barred'[u] # "no"
               PROVE  /\ (u \in revoked' \/ keys'[u] = NoKey) /\ ~ Registering(u)'
                      /\ barred'[u] = "stored" => ~ Live(u)'
    BY <1>4 DEF BarredInv, TypeOK
  <2>1. u # t /\ barred'[u] = barred[u]
    BY <1>1 DEF Inv, TypeOK
  <2>2. ~ Registering(u)'
    BY <1>1, <1>2, <2>1 DEF Inv, BarredInv, Registering
  <2> QED
    BY <1>1, <2>1, <2>2 DEF Inv, TypeOK, BarredInv, Live
<1> QED
  BY <1>3, <1>4, <1>5 DEF Inv

LEMMA PersistRuntimeInv == ASSUME Inv, NEW r \in Request, PersistRuntime(r) PROVE Inv'
<1> DEFINE t == req[r].runtime
<1>1. /\ req[r].kind = "register" /\ Moves(r, "save", "done") /\ t \in Runtime /\ req[r].key \in Key
      /\ \/ /\ runtime_rows' = [runtime_rows EXCEPT ![t] = [key |-> req[r].key, revoked |-> FALSE]]
            /\ faults' = faults
         \/ StoreFails /\ runtime_rows' = runtime_rows
      /\ UNCHANGED <<keys, revoked, barred, evidence, event_rows, locals, restarts, cut, history>>
  BY Bodies DEF PersistRuntime
<1>2. /\ pc[r] = "save" /\ r \notin cut /\ pc' \in [Request -> Place] /\ pc'[r] = "done"
      /\ \A q \in Request : q # r => pc'[q] = pc[q]
  BY <1>1, Moved DEF Inv, Place
<1>3. EvidenceInv'
  BY <1>1, <1>2, RegistryStep DEF Submission
<1>4. TypeOK'
  <2> DEFINE row == [key |-> req[r].key, revoked |-> FALSE]
  <2>1. runtime_rows' \in [Runtime -> Row]
    <3>1. row \in Row
      BY <1>1, Zenon DEF Row
    <3>2. runtime_rows' = [runtime_rows EXCEPT ![t] = row] \/ runtime_rows' = runtime_rows
      BY <1>1
    <3> HIDE DEF row
    <3> QED
      BY <1>1, <3>1, <3>2 DEF Inv, TypeOK
  <2>2. faults' \in 0..MaxFaults
    BY <1>1, ProvenanceIngestAssumption DEF Inv, TypeOK, StoreFails
  <2> QED
    BY <1>1, <1>2, <2>1, <2>2 DEF Inv, TypeOK, evidence, locals, history, Place
<1>5. BarredInv'
  <2>1. Registering(t)
    BY <1>1, <1>2 DEF Registering
  <2>2. barred[t] = "no"
    BY <1>1, <2>1 DEF Inv, BarredInv
  <2>3. \A u \in Runtime : Registering(u)' => Registering(u)
    BY <1>1, <1>2 DEF Registering
  <2>4. \A u \in Runtime : u # t => runtime_rows'[u] = runtime_rows[u]
    BY <1>1 DEF Inv, TypeOK
  <2> QED
    BY <1>1, <2>2, <2>3, <2>4 DEF Inv, BarredInv, Live
<1> QED
  BY <1>3, <1>4, <1>5 DEF Inv

LEMMA RevokeRuntimeInv == ASSUME Inv, NEW r \in Request, RevokeRuntime(r) PROVE Inv'
<1> DEFINE t == req[r].runtime
<1>1. /\ req[r].kind = "revoke" /\ Moves(r, "idle", "save") /\ t \in Runtime
      /\ revoked' = revoked \cup {t}
      /\ barred' = [barred EXCEPT ![t] = IF Registering(t) THEN @ ELSE "memory"]
      /\ UNCHANGED <<keys, runtime_rows, evidence, event_rows, locals, faults, restarts, cut, history>>
  BY Bodies DEF RevokeRuntime
<1>2. /\ pc' \in [Request -> Place]
      /\ \A q \in Request : q # r => pc'[q] = pc[q]
  BY <1>1, Moved DEF Inv, Place, InFlight
<1>3. EvidenceInv'
  BY <1>1, <1>2, RegistryStep DEF Submission
<1>4. TypeOK'
  <2>1. barred' \in [Runtime -> {"no", "memory", "stored"}]
    BY <1>1 DEF Inv, TypeOK
  <2> QED
    BY <1>1, <1>2, <2>1 DEF Inv, TypeOK, evidence, locals, history, Place
<1>5. BarredInv'
  <2>1. \A u \in Runtime : Registering(u)' => Registering(u)
    BY <1>1, <1>2 DEF Registering
  <2>2. \A u \in Runtime : u # t => barred'[u] = barred[u]
    BY <1>1 DEF Inv, TypeOK
  <2>3. barred'[t] = IF Registering(t) THEN barred[t] ELSE "memory"
    BY <1>1 DEF Inv, TypeOK
  <2> QED
    BY <1>1, <2>1, <2>2, <2>3 DEF Inv, BarredInv, Live
<1> QED
  BY <1>3, <1>4, <1>5 DEF Inv

LEMMA PersistRevocationInv == ASSUME Inv, NEW r \in Request, PersistRevocation(r) PROVE Inv'
<1> DEFINE t == req[r].runtime
<1>1. /\ req[r].kind = "revoke" /\ Moves(r, "save", "done") /\ t \in Runtime
      /\ \/ /\ runtime_rows' = [runtime_rows EXCEPT ![t].revoked = @ \/ runtime_rows[t].key # NoKey]
            /\ barred' = [barred EXCEPT ![t] = IF @ = "memory" THEN "stored" ELSE @]
            /\ faults' = faults
         \/ StoreFails /\ runtime_rows' = runtime_rows /\ barred' = barred
      /\ UNCHANGED <<keys, revoked, evidence, event_rows, locals, restarts, cut, history>>
  BY Bodies DEF PersistRevocation
<1>2. /\ pc' \in [Request -> Place]
      /\ \A q \in Request : q # r => pc'[q] = pc[q]
  BY <1>1, Moved DEF Inv, Place
<1>3. EvidenceInv'
  BY <1>1, <1>2, RegistryStep DEF Submission
<1>4. \/ /\ runtime_rows' \in [Runtime -> Row]
         /\ barred' \in [Runtime -> {"no", "memory", "stored"}]
         /\ barred'[t] = (IF barred[t] = "memory" THEN "stored" ELSE barred[t])
         /\ ~ Live(t)'
         /\ \A u \in Runtime : u # t => runtime_rows'[u] = runtime_rows[u] /\ barred'[u] = barred[u]
      \/ runtime_rows' = runtime_rows /\ barred' = barred
  <2> DEFINE gone == runtime_rows[t].revoked \/ runtime_rows[t].key # NoKey
             row == [runtime_rows[t] EXCEPT !.revoked = gone]
  <2>1. /\ runtime_rows \in [Runtime -> Row] /\ barred \in [Runtime -> {"no", "memory", "stored"}]
        /\ gone \in BOOLEAN
    BY <1>1 DEF Inv, TypeOK, Row
  <2>2. row \in Row /\ row.key = runtime_rows[t].key /\ row.revoked = gone
    <3> HIDE DEF gone
    <3> QED
      BY <1>1, <2>1 DEF Row
  <2>3. CASE runtime_rows' = [runtime_rows EXCEPT ![t] = row]
    <3>1. runtime_rows'[t] = row /\ runtime_rows' \in [Runtime -> Row]
      <4> HIDE DEF row
      <4> QED
        BY <1>1, <2>1, <2>2, <2>3
    <3>2. ~ Live(t)'
      BY <2>2, <3>1 DEF Live
    <3> QED
      BY <1>1, <2>1, <2>3, <3>1, <3>2
  <2> QED
    BY <1>1, <2>3
<1>5. TypeOK'
  <2>1. faults' \in 0..MaxFaults
    BY <1>1, ProvenanceIngestAssumption DEF Inv, TypeOK, StoreFails
  <2>2. /\ runtime_rows' \in [Runtime -> Row]
        /\ barred' \in [Runtime -> {"no", "memory", "stored"}]
    BY <1>4 DEF Inv, TypeOK
  <2> QED
    BY <1>1, <1>2, <2>1, <2>2 DEF Inv, TypeOK, evidence, locals, history, Place
<1>6. BarredInv'
  <2>1. \A u \in Runtime : Registering(u)' => Registering(u)
    BY <1>1, <1>2 DEF Registering
  <2> QED
    BY <1>1, <1>4, <2>1 DEF Inv, BarredInv, Live
<1> QED
  BY <1>3, <1>5, <1>6 DEF Inv

-----------------------------------------------------------------------------
(* The sections of a submission.                                            *)

LEMMA SubmissionOf ==
    ASSUME Inv, NEW r \in Request, req[r].kind = "submit"
    PROVE  /\ r \in Submission /\ req[r].agent \in Agent /\ req[r].events \in Seq(Event)
           /\ verified[r] \in Seq(Event) /\ unsaved[r] \in Seq(Event)
           /\ all[r] \in Seq(Event) /\ seen[r] \in Seq(Event)
           /\ \A a \in Agent : provenance[a] \in Seq(Event) /\ evidence_refs[a] \in Seq(Event)
  BY Bodies DEF Submission, Inv, TypeOK

LEMMA ReadAcceptedInv == ASSUME Inv, NEW r \in Request, ReadAccepted(r) PROVE Inv'
<1> DEFINE a == req[r].agent
<1>1. /\ r \in Submission /\ a \in Agent /\ Moves(r, "idle", "verify")
      /\ seen' = [seen EXCEPT ![r] = provenance[a]] /\ provenance[a] \in Seq(Event)
      /\ current' = current \cup {r} /\ earlier' = [earlier EXCEPT ![r] = ExtendedOf(a)]
      /\ UNCHANGED <<registry, evidence, event_rows, verified, unsaved, all, faults, restarts, cut>>
  BY SubmissionOf DEF ReadAccepted, Seeds
<1>2. /\ pc[r] = "idle" /\ r \notin cut /\ pc' \in [Request -> Place] /\ pc'[r] = "verify"
      /\ \A q \in Request : q # r => pc'[q] = pc[q]
      /\ \A q \in Submission : q \in Request
  BY <1>1, Moved DEF Inv, Place, InFlight, Submission
<1>3. UNCHANGED <<provenance, provenance_rejected, evidence_refs, corroboration>>
  BY <1>1 DEF evidence
<1>4. /\ r \notin current /\ verified[r] = <<>> /\ ~ Extended(r)
      /\ \A p \in Submission : r \notin earlier[p]
  BY <1>1, <1>2 DEF Inv, EvidenceInv, ProgressInv, ShareInv, Extended
<1>5. \A q \in Submission : (Extended(q)' <=> Extended(q)) /\ (Counted(q)' <=> Counted(q))
  BY <1>1, <1>2, <1>4 DEF Extended, Counted
<1>6. ExtendedOf(a) \subseteq Submission /\ current \subseteq Submission
      /\ \A q \in Submission : earlier[q] \subseteq Submission
  BY DEF ExtendedOf, Inv, TypeOK
<1>7. /\ seen'[r] = provenance[a] /\ earlier'[r] = ExtendedOf(a)
      /\ \A q \in Submission : q # r => seen'[q] = seen[q] /\ earlier'[q] = earlier[q]
  BY <1>1 DEF Inv, TypeOK
<1>8. TypeOK'
  <2>1. UNCHANGED <<keys, revoked, runtime_rows, barred>>
    BY <1>1 DEF registry
  <2>2. \A local \in {seen', verified', unsaved', all'} : local \in [Submission -> Seq(Event)]
    BY <1>1 DEF Inv, TypeOK
  <2>3. earlier' \in [Submission -> SUBSET Submission] /\ current' \subseteq Submission
    BY <1>1, <1>6 DEF Inv, TypeOK
  <2> QED
    BY <1>1, <1>2, <1>3, <2>1, <2>2, <2>3 DEF Inv, TypeOK, Place
<1>9. EveryEventIsCounted'
  <2>1. verified' \in [Submission -> Seq(Event)]
    BY <1>1 DEF Inv, TypeOK
  <2> QED
    BY <1>1, <1>3, <1>5, <2>1, CountKept DEF Inv, EvidenceInv, ShareInv
<1>10. ProgressInv' /\ ShareInv' /\ CommitInv'
  <2>1. \A q \in ExtendedOf(a) : pc[q] # "idle" /\ q \in Submission /\ q # r
    BY <1>4 DEF ExtendedOf, Extended
  <2>2. ProgressInv'
    <3> SUFFICES ASSUME NEW p \in Submission
                 PROVE  /\ p \in current' => pc'[p] # "idle"
                        /\ \A q \in earlier'[p] : pc'[q] # "idle"
                        /\ pc'[p] \in InFlight /\ p \notin cut' => p \in current'
      BY DEF ProgressInv
    <3>1. CASE p = r
      BY <1>1, <1>2, <1>7, <2>1, <3>1
    <3>2. CASE p # r
      <4>1. \A q \in earlier[p] : pc[q] # "idle" /\ q \in Submission /\ q # r
        BY <1>4, <1>6 DEF Inv, EvidenceInv, ProgressInv
      <4>2. /\ p \in current => pc[p] # "idle"
            /\ pc[p] \in InFlight /\ p \notin cut => p \in current
        BY DEF Inv, EvidenceInv, ProgressInv
      <4> QED
        BY <1>1, <1>2, <1>7, <3>2, <4>1, <4>2
    <3> QED
      BY <3>1, <3>2
  <2>3. ShareInv' /\ CommitInv'
    BY <1>1, <1>2, <1>3, <1>4 DEF Inv, EvidenceInv, ShareInv, CommitInv
  <2> QED
    BY <2>2, <2>3
<1>11. RecordedInv'
  BY <1>1, <1>3, <1>5 DEF Inv, EvidenceInv, RecordedInv
<1>12. EarlierInv' /\ AcceptedEvidenceIsFinal'
  <2> SUFFICES ASSUME NEW p \in current', NEW q \in earlier'[p] \cap current'
               PROVE  /\ Extended(q)' /\ req[q].agent = req[p].agent
                      /\ pc'[p] = "verify" => Within(verified[q], seen'[p])
                      /\ KeysOf(verified[q]) \cap KeysOf(verified[p]) = {}
    BY <1>1 DEF EarlierInv, AcceptedEvidenceIsFinal
  <2>1. CASE p = r
    <3>1. q \in Submission /\ Extended(q) /\ req[q].agent = a
      BY <1>7, <2>1 DEF ExtendedOf
    <3>2. Within(verified[q], provenance[a])
      BY <3>1 DEF Inv, EvidenceInv, RecordedInv
    <3>3. KeysOf(verified[p]) = {}
      BY <1>4, <2>1 DEF KeysOf
    <3> QED
      BY <1>5, <1>7, <2>1, <3>1, <3>2, <3>3
  <2>2. CASE p # r
    <3>1. p \in current /\ p \in Submission /\ q \in earlier[p] /\ q # r
      BY <1>1, <1>4, <1>6, <1>7, <2>2
    <3>2. q \in current /\ q \in Submission
      BY <1>1, <1>6, <3>1
    <3>3. /\ Extended(q) /\ req[q].agent = req[p].agent
          /\ pc[p] = "verify" => Within(verified[q], seen[p])
      BY <3>1, <3>2 DEF Inv, EvidenceInv, EarlierInv
    <3>4. KeysOf(verified[q]) \cap KeysOf(verified[p]) = {}
      BY <3>1, <3>2 DEF Inv, EvidenceInv, AcceptedEvidenceIsFinal
    <3> QED
      BY <1>2, <1>5, <1>7, <2>2, <3>1, <3>2, <3>3, <3>4
  <2> QED
    BY <2>1, <2>2
<1>13. RefCommitsToHistory'
  BY <1>3 DEF Inv, EvidenceInv, RefCommitsToHistory
<1>14. BarredInv'
  BY <1>1, <1>2, SubmitStep
<1> QED
  BY <1>8, <1>9, <1>10, <1>11, <1>12, <1>13, <1>14 DEF Inv, EvidenceInv

\* What passes of a batch is new to the replay set, by key and all.
LEMMA NewToTheSeen ==
    ASSUME NEW a, NEW seeds \in Seq(Event), NEW events \in Seq(Event),
           NEW s \in Seq(Event), Within(s, seeds)
    PROVE  KeysOf(s) \cap KeysOf(Passing(a, seeds, events)) = {}
<1> DEFINE p == Passing(a, seeds, events)
<1> SUFFICES ASSUME NEW i \in DOMAIN s, NEW j \in DOMAIN p, RowKey(s[i]) = RowKey(p[j])
             PROVE  FALSE
  BY DEF KeysOf
<1>1. p \in Seq(Event) /\ Fresh(seeds, p[j])
  BY PassingFacts
<1> HIDE DEF p
<1>2. PICK k \in DOMAIN seeds : seeds[k] = s[i]
  BY DEF Within
<1>3. s[i] \in Event /\ p[j] \in Event
  BY <1>1, ElementOfSeq, LenProperties
<1>4. s[i].session = p[j].session /\ s[i].seq = p[j].seq /\ p[j].seq \in Nat
  BY <1>3 DEF RowKey, Event
<1>5. s[i].seq < p[j].seq
  BY <1>1, <1>2, <1>4 DEF Fresh
<1> QED
  BY <1>4, <1>5

LEMMA VerifyBatchInv == ASSUME Inv, NEW r \in Request, VerifyBatch(r) PROVE Inv'
<1> DEFINE a == req[r].agent
           p == Passing(a, seen[r], req[r].events)
<1>1. /\ r \in Submission /\ a \in Agent /\ Moves(r, "verify", "extend")
      /\ seen[r] \in Seq(Event) /\ req[r].events \in Seq(Event)
      /\ verified' = [verified EXCEPT ![r] = p] /\ seen' = [seen EXCEPT ![r] = <<>>]
      /\ UNCHANGED <<registry, evidence, event_rows, unsaved, all, faults, restarts, cut, current, earlier>>
  BY SubmissionOf DEF VerifyBatch, history
<1>2. /\ pc[r] = "verify" /\ r \notin cut /\ pc' \in [Request -> Place] /\ pc'[r] = "extend"
      /\ \A q \in Request : q # r => pc'[q] = pc[q]
      /\ \A q \in Submission : q \in Request
  BY <1>1, Moved DEF Inv, Place, InFlight, Submission
<1>3. UNCHANGED <<provenance, provenance_rejected, evidence_refs, corroboration>>
  BY <1>1 DEF evidence
<1>4. p \in Seq(Event) /\ Len(p) <= Len(req[r].events)
  BY <1>1, PassingFacts
<1>5. \A q \in current : q \in earlier[r] => KeysOf(verified[q]) \cap KeysOf(p) = {}
  <2> SUFFICES ASSUME NEW q \in current, q \in earlier[r]
               PROVE  KeysOf(verified[q]) \cap KeysOf(p) = {}
    OBVIOUS
  <2>1. r \in current /\ verified[q] \in Seq(Event)
    BY <1>1, <1>2 DEF Inv, EvidenceInv, ProgressInv, TypeOK, InFlight
  <2>2. Within(verified[q], seen[r])
    BY <1>2, <2>1 DEF Inv, EvidenceInv, EarlierInv
  <2> QED
    BY <1>1, <2>1, <2>2, NewToTheSeen
<1> HIDE DEF p
<1>6. /\ verified' \in [Submission -> Seq(Event)] /\ seen' \in [Submission -> Seq(Event)]
      /\ verified'[r] = p
      /\ \A q \in Submission : q # r => verified'[q] = verified[q] /\ seen'[q] = seen[q]
  <2>1. <<>> \in Seq(Event)
    OBVIOUS
  <2> QED
    BY <1>1, <1>4, <2>1 DEF Inv, TypeOK
<1>7. /\ ~ Extended(r)
      /\ \A q \in Submission : (Extended(q)' <=> Extended(q)) /\ (Counted(q)' <=> Counted(q))
  BY <1>1, <1>2 DEF Extended, Counted
<1>8. current \subseteq Submission /\ \A q \in Submission : earlier[q] \subseteq Submission
  BY DEF Inv, TypeOK
<1>9. TypeOK'
  <2>1. UNCHANGED <<keys, revoked, runtime_rows, barred, unsaved, all>>
    BY <1>1 DEF registry
  <2>2. \A local \in {seen', verified', unsaved', all'} : local \in [Submission -> Seq(Event)]
    BY <1>6, <2>1 DEF Inv, TypeOK
  <2> QED
    BY <1>1, <1>2, <1>3, <2>1, <2>2 DEF Inv, TypeOK, Place
<1>10. EveryEventIsCounted'
  <2>1. \A q \in Submission : Len(verified'[q]) <= Len(req[q].events)
    BY <1>4, <1>6 DEF Inv, EvidenceInv, ShareInv
  <2>2. \A q \in Submission : Extended(q) => verified'[q] = verified[q]
    BY <1>6, <1>7
  <2> QED
    BY <1>3, <1>6, <1>7, <2>1, <2>2, CountKept
<1>11. ProgressInv' /\ ShareInv' /\ CommitInv'
  <2>1. ProgressInv'
    BY <1>1, <1>2, <1>8 DEF Inv, EvidenceInv, ProgressInv, InFlight
  <2>2. ShareInv'
    BY <1>2, <1>4, <1>6 DEF Inv, EvidenceInv, ShareInv
  <2>3. CommitInv'
    BY <1>1, <1>2, <1>3 DEF Inv, EvidenceInv, CommitInv
  <2> QED
    BY <2>1, <2>2, <2>3
<1>12. RecordedInv'
  <2>1. \A q \in Submission : Extended(q)' => Extended(q) /\ verified'[q] = verified[q]
    BY <1>6, <1>7
  <2> QED
    BY <1>3, <2>1 DEF Inv, EvidenceInv, RecordedInv
<1>13. EarlierInv' /\ AcceptedEvidenceIsFinal'
  <2> SUFFICES ASSUME NEW s \in current, NEW q \in earlier[s] \cap current
               PROVE  /\ Extended(q)' /\ req[q].agent = req[s].agent
                      /\ pc'[s] = "verify" => Within(verified'[q], seen'[s])
                      /\ KeysOf(verified'[q]) \cap KeysOf(verified'[s]) = {}
    BY <1>1 DEF EarlierInv, AcceptedEvidenceIsFinal
  <2>1. s \in Submission /\ q \in Submission
    BY <1>8
  <2>2. /\ Extended(q) /\ req[q].agent = req[s].agent
        /\ pc[s] = "verify" => Within(verified[q], seen[s])
        /\ KeysOf(verified[q]) \cap KeysOf(verified[s]) = {}
    BY DEF Inv, EvidenceInv, EarlierInv, AcceptedEvidenceIsFinal
  <2>3. Extended(q)' /\ verified'[q] = verified[q]
    BY <1>6, <1>7, <2>1, <2>2
  <2> QED
    BY <1>2, <1>5, <1>6, <2>1, <2>2, <2>3
<1>14. RefCommitsToHistory'
  BY <1>3 DEF Inv, EvidenceInv, RefCommitsToHistory
<1>15. BarredInv'
  BY <1>1, <1>2, SubmitStep
<1> QED
  BY <1>9, <1>10, <1>11, <1>12, <1>13, <1>14, <1>15 DEF Inv, EvidenceInv

LEMMA ExtendInv == ASSUME Inv, NEW r \in Request, Extend(r) PROVE Inv'
<1> DEFINE a == req[r].agent
           more == provenance[a] \o verified[r]
<1>1. /\ r \in Submission /\ a \in Agent /\ Moves(r, "extend", "persist")
      /\ provenance[a] \in Seq(Event) /\ verified[r] \in Seq(Event)
      /\ provenance' = [provenance EXCEPT ![a] = more]
      /\ all' = [all EXCEPT ![r] = more] /\ unsaved' = [unsaved EXCEPT ![r] = verified[r]]
      /\ UNCHANGED <<registry, provenance_rejected, evidence_refs, corroboration, event_rows,
                     seen, verified, faults, restarts, cut, current, earlier>>
  BY SubmissionOf DEF Extend, Extension, history
<1>2. /\ pc[r] = "extend" /\ r \notin cut /\ pc' \in [Request -> Place] /\ pc'[r] = "persist"
      /\ \A q \in Request : q # r => pc'[q] = pc[q]
      /\ \A q \in Submission : q \in Request
  BY <1>1, Moved DEF Inv, Place, InFlight, Submission
<1>3. /\ more \in Seq(Event) /\ Len(more) = Len(provenance[a]) + Len(verified[r])
      /\ IsPrefix(more, more) /\ Within(verified[r], more)
      /\ Len(provenance[a]) \in Nat /\ Len(verified[r]) \in Nat
  <2>1. more \in Seq(Event) /\ Len(more) = Len(provenance[a]) + Len(verified[r])
    BY <1>1, ConcatProperties
  <2>2. Within(verified[r], more)
    BY <1>1, WithinFacts
  <2> HIDE DEF more
  <2> QED
    BY <1>1, <2>1, <2>2, PrefixFacts, LenProperties
<1>4. \A s \in Seq(Event) : /\ IsPrefix(s, provenance[a]) => IsPrefix(s, more)
                            /\ Within(s, provenance[a]) => Within(s, more)
  BY <1>1, PrefixFacts, WithinFacts
<1> HIDE DEF more
<1>5. /\ provenance' \in [Agent -> Seq(Event)] /\ all' \in [Submission -> Seq(Event)]
      /\ unsaved' \in [Submission -> Seq(Event)]
      /\ provenance'[a] = more /\ all'[r] = more
      /\ \A b \in Agent : b # a => provenance'[b] = provenance[b]
      /\ \A q \in Submission : q # r => all'[q] = all[q]
  BY <1>1, <1>3 DEF Inv, TypeOK
<1>6. /\ r \in current /\ ~ Extended(r) /\ Extended(r)' /\ ~ Counted(r) /\ ~ Counted(r)'
      /\ \A q \in Submission : q # r =>
            (Extended(q)' <=> Extended(q)) /\ (Counted(q)' <=> Counted(q))
  BY <1>1, <1>2 DEF Extended, Counted, Inv, EvidenceInv, ProgressInv, InFlight
<1>7. /\ current \subseteq Submission /\ \A q \in Submission : earlier[q] \subseteq Submission
      /\ \A q \in Submission : verified[q] \in Seq(Event) /\ all[q] \in Seq(Event) /\ req[q].agent \in Agent
      /\ \A b \in Agent : provenance[b] \in Seq(Event) /\ evidence_refs[b] \in Seq(Event)
                          /\ corroboration[b] \in Nat
  BY Bodies DEF Inv, TypeOK
<1>8. TypeOK'
  <2>1. UNCHANGED <<keys, revoked, runtime_rows, barred>>
    BY <1>1 DEF registry
  <2>2. \A local \in {seen', verified', unsaved', all'} : local \in [Submission -> Seq(Event)]
    BY <1>1, <1>5 DEF Inv, TypeOK
  <2> QED
    BY <1>1, <1>2, <1>5, <2>1, <2>2 DEF Inv, TypeOK, Place
<1>9. EveryEventIsCounted'
  <2> SUFFICES ASSUME NEW b \in Agent
               PROVE  /\ Len(provenance'[b]) =
                           SumOver([q \in Submission |-> Len(verified[q])], Submission)[ExtendedOf(b)']
                      /\ provenance_rejected[b] =
                           SumOver([q \in Submission |-> Rejected(q)], Submission)[CountedOf(b)']
    BY <1>1 DEF EveryEventIsCounted, Rejected
  <2> DEFINE f == [q \in Submission |-> Len(verified[q])]
  <2>1. /\ Len(provenance[b]) = SumOver(f, Submission)[ExtendedOf(b)]
        /\ provenance_rejected[b] =
               SumOver([q \in Submission |-> Rejected(q)], Submission)[CountedOf(b)]
    BY DEF Inv, EvidenceInv, EveryEventIsCounted
  <2>2. CountedOf(b)' = CountedOf(b)
    BY <1>6 DEF CountedOf
  <2>3. f \in [Submission -> Nat] /\ f[r] = Len(verified[r])
    BY <1>1, <1>7, LenProperties
  <2>4. CASE b = a
    <3>1. /\ ExtendedOf(b)' = ExtendedOf(b) \cup {r} /\ r \in Submission \ ExtendedOf(b)
          /\ ExtendedOf(b) \in SUBSET Submission
      BY <1>1, <1>6, <2>4 DEF ExtendedOf
    <3>2. SumOver(f, Submission)[ExtendedOf(b) \cup {r}] = SumOver(f, Submission)[ExtendedOf(b)] + f[r]
      <4>1. IsFiniteSet(Submission)
        BY Bodies
      <4> DEFINE T == ExtendedOf(b)
      <4>2. T \in SUBSET Submission /\ r \in Submission \ T
        BY <3>1
      <4> HIDE DEF f, T
      <4>3. SumOver(f, Submission)[T \cup {r}] = SumOver(f, Submission)[T] + f[r]
        BY <2>3, <4>1, <4>2, SumOverFacts
      <4> QED
        BY <4>3 DEF T
    <3>3. Len(provenance'[b]) = SumOver(f, Submission)[ExtendedOf(b)']
      <4> HIDE DEF f
      <4> QED
        BY <1>3, <1>5, <2>1, <2>3, <2>4, <3>1, <3>2
    <3> QED
      BY <2>1, <2>2, <3>3
  <2>5. CASE b # a
    <3>1. ExtendedOf(b)' = ExtendedOf(b)
      BY <1>6, <2>5 DEF ExtendedOf
    <3> QED
      BY <1>5, <2>1, <2>2, <2>5, <3>1
  <2> QED
    BY <2>4, <2>5
<1>10. ProgressInv' /\ ShareInv' /\ CommitInv'
  <2>1. ProgressInv'
    BY <1>1, <1>2, <1>6, <1>7 DEF Inv, EvidenceInv, ProgressInv
  <2>2. ShareInv'
    BY <1>1, <1>2 DEF Inv, EvidenceInv, ShareInv
  <2>3. CommitInv'
    <3> SUFFICES ASSUME NEW q \in Submission \ cut, pc'[q] \in {"persist", "ref", "ingest"}
                 PROVE  IsPrefix(all'[q], provenance'[req[q].agent])
      BY <1>1 DEF CommitInv
    <3>1. CASE q = r
      BY <1>3, <1>5, <3>1
    <3>2. CASE q # r
      <4>1. IsPrefix(all[q], provenance[req[q].agent])
        BY <1>2, <3>2 DEF Inv, EvidenceInv, CommitInv
      <4> QED
        BY <1>4, <1>5, <1>7, <3>2, <4>1
    <3> QED
      BY <3>1, <3>2
  <2> QED
    BY <2>1, <2>2, <2>3
<1>11. RecordedInv'
  <2> SUFFICES ASSUME NEW q \in Submission, Extended(q)'
               PROVE  Within(verified[q], provenance'[req[q].agent])
    BY <1>1 DEF RecordedInv
  <2>1. CASE q = r
    BY <1>3, <1>5, <2>1
  <2>2. CASE q # r
    <3>1. Within(verified[q], provenance[req[q].agent])
      BY <1>6, <2>2 DEF Inv, EvidenceInv, RecordedInv
    <3> QED
      BY <1>4, <1>5, <1>7, <3>1
  <2> QED
    BY <2>1, <2>2
<1>12. EarlierInv' /\ AcceptedEvidenceIsFinal'
  <2> SUFFICES ASSUME NEW s \in current, NEW q \in earlier[s] \cap current
               PROVE  /\ Extended(q)' /\ req[q].agent = req[s].agent
                      /\ pc'[s] = "verify" => Within(verified[q], seen[s])
                      /\ KeysOf(verified[q]) \cap KeysOf(verified[s]) = {}
    BY <1>1 DEF EarlierInv, AcceptedEvidenceIsFinal
  <2>1. /\ Extended(q) /\ req[q].agent = req[s].agent
        /\ pc[s] = "verify" => Within(verified[q], seen[s])
        /\ KeysOf(verified[q]) \cap KeysOf(verified[s]) = {}
    BY DEF Inv, EvidenceInv, EarlierInv, AcceptedEvidenceIsFinal
  <2>2. Extended(q)' /\ (pc'[s] = "verify" => pc[s] = "verify")
    BY <1>2, <1>6, <1>7, <2>1
  <2> QED
    BY <2>1, <2>2
<1>13. RefCommitsToHistory'
  <2> SUFFICES ASSUME NEW b \in Agent
               PROVE  /\ IsPrefix(evidence_refs[b], provenance'[b])
                      /\ corroboration[b] <= Len(provenance'[b])
    BY <1>1 DEF RefCommitsToHistory
  <2>1. IsPrefix(evidence_refs[b], provenance[b]) /\ corroboration[b] <= Len(provenance[b])
    BY DEF Inv, EvidenceInv, RefCommitsToHistory
  <2>2. CASE b = a
    <3>1. evidence_refs[b] \in Seq(Event) /\ corroboration[b] \in Nat
      BY <1>7
    <3>2. IsPrefix(evidence_refs[b], more)
      <4>1. IsPrefix(evidence_refs[b], provenance[a])
        BY <2>1, <2>2
      <4> QED
        BY <1>4, <3>1, <4>1
    <3>3. corroboration[b] <= Len(more)
      <4>1. corroboration[b] <= Len(provenance[a])
        BY <2>1, <2>2
      <4>2. /\ Len(more) = Len(provenance[a]) + Len(verified[r])
            /\ Len(provenance[a]) \in Nat /\ Len(verified[r]) \in Nat
        BY <1>3
      <4>3. \A c, m, n \in Nat : c <= m => c <= m + n
        OBVIOUS
      <4> QED
        BY <3>1, <4>1, <4>2, <4>3
    <3> QED
      BY <1>5, <2>2, <3>2, <3>3
  <2>3. CASE b # a
    BY <1>5, <2>1, <2>3
  <2> QED
    BY <2>2, <2>3
<1>14. BarredInv'
  BY <1>1, <1>2, SubmitStep
<1> QED
  BY <1>8, <1>9, <1>10, <1>11, <1>12, <1>13, <1>14 DEF Inv, EvidenceInv

LEMMA PersistEventInv == ASSUME Inv, NEW r \in Request, PersistEvent(r) PROVE Inv'
<1>1. /\ r \in Submission /\ Moves(r, "persist", "persist") /\ unsaved[r] \in Seq(Event)
      /\ unsaved[r] # <<>> /\ unsaved' = [unsaved EXCEPT ![r] = Tail(@)]
      /\ \/ /\ event_rows' = event_rows \cup {RowKey(Head(unsaved[r]))}
            /\ faults' = faults
         \/ StoreFails /\ event_rows' = event_rows
      /\ UNCHANGED <<registry, evidence, seen, verified, all, restarts, cut, current, earlier>>
  BY SubmissionOf DEF PersistEvent
<1>2. UNCHANGED <<provenance, provenance_rejected, evidence_refs, corroboration,
                  keys, revoked, runtime_rows, barred>>
  BY <1>1 DEF evidence, registry
<1>3. /\ pc[r] = "persist" /\ pc' \in [Request -> Place] /\ r \in current /\ pc'[r] = "persist"
      /\ \A q \in Request : q # r => pc'[q] = pc[q]
      /\ \A q \in Submission : Extended(q)' <=> Extended(q)
      /\ \A q \in Submission : q # r => (Counted(q)' <=> Counted(q))
      /\ ProgressInv' /\ ShareInv' /\ RecordedInv' /\ EarlierInv'
      /\ AcceptedEvidenceIsFinal'
  <2>1. pc[r] = "persist"
    BY <1>1 DEF Moves
  <2> QED
    BY <1>1, <1>2, <2>1, LaterSection
<1>4. TypeOK'
  <2>1. Head(unsaved[r]) \in Event /\ Tail(unsaved[r]) \in Seq(Event)
    BY <1>1, HeadTailProperties
  <2>2. RowKey(Head(unsaved[r])) \in Agent \X Session \X Nat
    BY <2>1 DEF RowKey, Event
  <2>3. unsaved' \in [Submission -> Seq(Event)] /\ event_rows' \subseteq Agent \X Session \X Nat
    BY <1>1, <2>1, <2>2 DEF Inv, TypeOK
  <2>4. faults' \in 0..MaxFaults
    BY <1>1, ProvenanceIngestAssumption DEF Inv, TypeOK, StoreFails
  <2>5. \A local \in {seen', verified', unsaved', all'} : local \in [Submission -> Seq(Event)]
    BY <1>1, <2>3 DEF Inv, TypeOK
  <2> QED
    BY <1>1, <1>2, <1>3, <2>3, <2>4, <2>5 DEF Inv, TypeOK, Place
<1>5. \A q \in Submission : Counted(q)' <=> Counted(q)
  BY <1>1, <1>3 DEF Counted
<1>6. EveryEventIsCounted'
  BY <1>1, <1>2, <1>3, <1>4, <1>5, CountKept DEF Inv, TypeOK, EvidenceInv, ShareInv
<1>7. CommitInv' /\ RefCommitsToHistory'
  <2>1. \A q \in Submission : pc'[q] = pc[q]
    BY <1>3 DEF Submission
  <2> QED
    BY <1>1, <1>2, <2>1 DEF Inv, EvidenceInv, CommitInv, RefCommitsToHistory
<1>8. BarredInv'
  BY <1>1, <1>3, SubmitStep
<1> QED
  BY <1>3, <1>4, <1>6, <1>7, <1>8 DEF Inv, EvidenceInv

LEMMA CountRejectedInv == ASSUME Inv, NEW r \in Request, CountRejected(r) PROVE Inv'
<1> DEFINE a == req[r].agent
<1>1. /\ r \in Submission /\ a \in Agent /\ Moves(r, "persist", "ref")
      /\ provenance_rejected' = [provenance_rejected EXCEPT ![a] = @ + Rejected(r)]
      /\ UNCHANGED <<registry, provenance, evidence_refs, corroboration, event_rows,
                     seen, verified, unsaved, all, faults, restarts, cut, current, earlier>>
  BY SubmissionOf DEF CountRejected, locals, history
<1>2. UNCHANGED <<keys, revoked, runtime_rows, barred>>
  BY <1>1 DEF registry
<1>3. /\ pc[r] = "persist" /\ pc' \in [Request -> Place] /\ r \in current /\ pc'[r] = "ref"
      /\ \A q \in Request : q # r => pc'[q] = pc[q]
      /\ \A q \in Submission : Extended(q)' <=> Extended(q)
      /\ \A q \in Submission : q # r => (Counted(q)' <=> Counted(q))
      /\ ProgressInv' /\ ShareInv' /\ RecordedInv' /\ EarlierInv'
      /\ AcceptedEvidenceIsFinal'
  <2>1. pc[r] = "persist"
    BY <1>1 DEF Moves
  <2> QED
    BY <1>1, <2>1, LaterSection
<1>4. \A q \in Submission : Rejected(q) \in Nat
  <2> SUFFICES ASSUME NEW q \in Submission PROVE Rejected(q) \in Nat
    OBVIOUS
  <2>1. Len(req[q].events) \in Nat /\ Len(verified[q]) \in Nat
    BY Bodies, LenProperties DEF Inv, TypeOK
  <2> QED
    BY <2>1 DEF Rejected, Inv, EvidenceInv, ShareInv
<1>5. /\ provenance_rejected' \in [Agent -> Nat]
      /\ provenance_rejected'[a] = provenance_rejected[a] + Rejected(r)
      /\ \A b \in Agent : b # a => provenance_rejected'[b] = provenance_rejected[b]
  <2> DEFINE n == Rejected(r)
  <2>1. n \in Nat /\ provenance_rejected \in [Agent -> Nat]
    BY <1>1, <1>4 DEF Inv, TypeOK
  <2> HIDE DEF n
  <2>2. provenance_rejected' = [provenance_rejected EXCEPT ![a] = @ + n]
    BY <1>1 DEF n
  <2> QED
    BY <1>1, <2>1, <2>2 DEF n
<1>6. TypeOK'
  <2>1. \A local \in {seen', verified', unsaved', all'} : local \in [Submission -> Seq(Event)]
    BY <1>1 DEF Inv, TypeOK
  <2> QED
    BY <1>1, <1>2, <1>3, <1>5, <2>1 DEF Inv, TypeOK, Place
<1>7. EveryEventIsCounted'
  <2> SUFFICES ASSUME NEW b \in Agent
               PROVE  /\ Len(provenance[b]) =
                           SumOver([q \in Submission |-> Len(verified[q])], Submission)[ExtendedOf(b)']
                      /\ provenance_rejected'[b] =
                           SumOver([q \in Submission |-> Rejected(q)], Submission)[CountedOf(b)']
    BY <1>1 DEF EveryEventIsCounted, Rejected
  <2> DEFINE f == [q \in Submission |-> Rejected(q)]
             T == CountedOf(b)
  <2>1. /\ Len(provenance[b]) =
              SumOver([q \in Submission |-> Len(verified[q])], Submission)[ExtendedOf(b)]
        /\ provenance_rejected[b] = SumOver(f, Submission)[T]
    BY DEF Inv, EvidenceInv, EveryEventIsCounted
  <2>2. ExtendedOf(b)' = ExtendedOf(b)
    BY <1>3 DEF ExtendedOf
  <2>3. f \in [Submission -> Nat] /\ f[r] = Rejected(r) /\ IsFiniteSet(Submission)
    BY <1>1, <1>4, Bodies
  <2>4. CASE b = a
    <3>1. CountedOf(b)' = T \cup {r} /\ r \in Submission \ T /\ T \in SUBSET Submission
      BY <1>1, <1>3, <2>4 DEF CountedOf, Counted
    <3> HIDE DEF f, T
    <3>2. SumOver(f, Submission)[T \cup {r}] = SumOver(f, Submission)[T] + f[r]
      BY <2>3, <3>1, SumOverFacts
    <3>3. provenance_rejected'[b] = SumOver(f, Submission)[CountedOf(b)']
      BY <1>5, <2>1, <2>3, <2>4, <3>1, <3>2
    <3> QED
      BY <2>1, <2>2, <3>3 DEF f
  <2>5. CASE b # a
    <3>1. CountedOf(b)' = CountedOf(b)
      BY <1>1, <1>3, <2>5 DEF CountedOf, Counted
    <3> QED
      BY <1>5, <2>1, <2>2, <2>5, <3>1
  <2> QED
    BY <2>4, <2>5
<1>8. CommitInv' /\ RefCommitsToHistory'
  <2>1. \A q \in Submission : q # r => pc'[q] = pc[q]
    BY <1>3 DEF Submission
  <2> QED
    BY <1>1, <1>3, <2>1 DEF Inv, EvidenceInv, CommitInv, RefCommitsToHistory
<1>9. BarredInv'
  BY <1>1, <1>3, SubmitStep
<1> QED
  BY <1>3, <1>6, <1>7, <1>8, <1>9 DEF Inv, EvidenceInv

LEMMA InsertRefInv == ASSUME Inv, NEW r \in Request, InsertRef(r) PROVE Inv'
<1> DEFINE a == req[r].agent
<1>1. /\ r \in Submission /\ a \in Agent /\ Moves(r, "ref", "ingest") /\ all[r] \in Seq(Event)
      /\ evidence_refs' = [evidence_refs EXCEPT ![a] = all[r]]
      /\ UNCHANGED <<registry, provenance, provenance_rejected, corroboration, event_rows,
                     seen, verified, unsaved, all, faults, restarts, cut, current, earlier>>
  BY SubmissionOf DEF InsertRef, Commitment, locals, history
<1>2. UNCHANGED <<keys, revoked, runtime_rows, barred>>
  BY <1>1 DEF registry
<1>3. /\ pc[r] = "ref" /\ pc' \in [Request -> Place] /\ r \in current /\ pc'[r] = "ingest"
      /\ \A q \in Request : q # r => pc'[q] = pc[q]
      /\ \A q \in Submission : Extended(q)' <=> Extended(q)
      /\ \A q \in Submission : q # r => (Counted(q)' <=> Counted(q))
      /\ ProgressInv' /\ ShareInv' /\ RecordedInv' /\ EarlierInv'
      /\ AcceptedEvidenceIsFinal'
  <2>1. pc[r] = "ref"
    BY <1>1 DEF Moves
  <2> QED
    BY <1>1, <2>1, LaterSection
<1>4. /\ evidence_refs' \in [Agent -> Seq(Event)] /\ evidence_refs'[a] = all[r]
      /\ \A b \in Agent : b # a => evidence_refs'[b] = evidence_refs[b]
  BY <1>1 DEF Inv, TypeOK
<1>5. TypeOK'
  <2>1. \A local \in {seen', verified', unsaved', all'} : local \in [Submission -> Seq(Event)]
    BY <1>1 DEF Inv, TypeOK
  <2> QED
    BY <1>1, <1>2, <1>3, <1>4, <2>1 DEF Inv, TypeOK, Place
<1>6. EveryEventIsCounted'
  <2>1. \A q \in Submission : Counted(q)' <=> Counted(q)
    BY <1>1, <1>3 DEF Counted
  <2>2. verified' \in [Submission -> Seq(Event)]
    BY <1>1 DEF Inv, TypeOK
  <2> QED
    BY <1>1, <1>3, <2>1, <2>2, CountKept DEF Inv, EvidenceInv, ShareInv
<1>7. CommitInv'
  <2>1. \A q \in Submission : q # r => pc'[q] = pc[q]
    BY <1>3 DEF Submission
  <2> QED
    BY <1>1, <1>3, <2>1 DEF Inv, EvidenceInv, CommitInv
<1>8. RefCommitsToHistory'
  <2>1. IsPrefix(all[r], provenance[a])
    BY <1>1, <1>3 DEF Inv, EvidenceInv, CommitInv, Moves
  <2> QED
    BY <1>1, <1>4, <2>1 DEF Inv, EvidenceInv, RefCommitsToHistory
<1>9. BarredInv'
  BY <1>1, <1>3, SubmitStep
<1> QED
  BY <1>3, <1>5, <1>6, <1>7, <1>8, <1>9 DEF Inv, EvidenceInv

LEMMA IngestSummaryInv == ASSUME Inv, NEW r \in Request, IngestSummary(r) PROVE Inv'
<1> DEFINE a == req[r].agent
<1>1. /\ r \in Submission /\ a \in Agent /\ Moves(r, "ingest", "done") /\ all[r] \in Seq(Event)
      /\ provenance[a] \in Seq(Event)
      /\ corroboration' = [corroboration EXCEPT ![a] = Len(all[r])]
      /\ all' = [all EXCEPT ![r] = <<>>]
      /\ UNCHANGED <<registry, provenance, provenance_rejected, evidence_refs, event_rows,
                     seen, verified, unsaved, faults, restarts, cut, current, earlier>>
  BY SubmissionOf DEF IngestSummary, history
<1>2. UNCHANGED <<keys, revoked, runtime_rows, barred>>
  BY <1>1 DEF registry
<1>3. /\ pc[r] = "ingest" /\ pc' \in [Request -> Place] /\ r \in current /\ pc'[r] = "done"
      /\ \A q \in Request : q # r => pc'[q] = pc[q]
      /\ \A q \in Submission : Extended(q)' <=> Extended(q)
      /\ \A q \in Submission : q # r => (Counted(q)' <=> Counted(q))
      /\ ProgressInv' /\ ShareInv' /\ RecordedInv' /\ EarlierInv'
      /\ AcceptedEvidenceIsFinal'
  <2>1. pc[r] = "ingest"
    BY <1>1 DEF Moves
  <2> QED
    BY <1>1, <2>1, LaterSection
<1>4. /\ corroboration' \in [Agent -> Nat] /\ corroboration'[a] = Len(all[r])
      /\ \A b \in Agent : b # a => corroboration'[b] = corroboration[b]
  BY <1>1, LenProperties DEF Inv, TypeOK
<1>5. /\ all' \in [Submission -> Seq(Event)]
      /\ \A q \in Submission : q # r => all'[q] = all[q]
  <2>1. <<>> \in Seq(Event)
    OBVIOUS
  <2> QED
    BY <1>1, <2>1 DEF Inv, TypeOK
<1>6. TypeOK'
  <2>1. \A local \in {seen', verified', unsaved', all'} : local \in [Submission -> Seq(Event)]
    BY <1>1, <1>5 DEF Inv, TypeOK
  <2> QED
    BY <1>1, <1>2, <1>3, <1>4, <2>1 DEF Inv, TypeOK, Place
<1>7. EveryEventIsCounted'
  <2>1. \A q \in Submission : Counted(q)' <=> Counted(q)
    BY <1>1, <1>3 DEF Counted
  <2>2. verified' \in [Submission -> Seq(Event)]
    BY <1>1 DEF Inv, TypeOK
  <2> QED
    BY <1>1, <1>3, <2>1, <2>2, CountKept DEF Inv, EvidenceInv, ShareInv
<1>8. CommitInv'
  <2>1. \A q \in Submission : q # r => pc'[q] = pc[q]
    BY <1>3 DEF Submission
  <2> QED
    BY <1>1, <1>3, <1>5, <2>1 DEF Inv, EvidenceInv, CommitInv
<1>9. RefCommitsToHistory'
  <2>1. IsPrefix(all[r], provenance[a])
    BY <1>1, <1>3 DEF Inv, EvidenceInv, CommitInv, Moves
  <2>2. Len(all[r]) <= Len(provenance[a])
    BY <2>1 DEF IsPrefix
  <2> QED
    BY <1>1, <1>4, <2>2 DEF Inv, EvidenceInv, RefCommitsToHistory
<1>10. BarredInv'
  BY <1>1, <1>3, SubmitStep
<1> QED
  BY <1>3, <1>6, <1>7, <1>8, <1>9, <1>10 DEF Inv, EvidenceInv

-----------------------------------------------------------------------------
(* A handler is dropped; the process restarts.                              *)

LEMMA DropInv == ASSUME Inv, NEW r \in Request, Drop(r) PROVE Inv'
<1>1. /\ cut' = cut \cup {r}
      /\ UNCHANGED <<keys, revoked, runtime_rows, barred, provenance, provenance_rejected,
                     evidence_refs, corroboration, event_rows, pc, seen, verified, unsaved,
                     all, faults, restarts, current, earlier, registry>>
  BY DEF Drop, registry, evidence, locals, history
<1>2. TypeOK'
  <2>1. \A local \in {seen', verified', unsaved', all'} : local \in [Submission -> Seq(Event)]
    BY <1>1 DEF Inv, TypeOK
  <2> QED
    BY <1>1, <2>1 DEF Inv, TypeOK
<1>3. \A q \in Submission : (Extended(q)' <=> Extended(q)) /\ (Counted(q)' <=> Counted(q))
  BY <1>1 DEF Extended, Counted
<1>4. EveryEventIsCounted'
  BY <1>1, <1>2, <1>3, CountKept DEF Inv, TypeOK, EvidenceInv, ShareInv
<1>5. ProgressInv' /\ ShareInv' /\ CommitInv'
  BY <1>1 DEF Inv, EvidenceInv, ProgressInv, ShareInv, CommitInv
<1>6. RecordedInv' /\ EarlierInv'
  <2>1. current \subseteq Submission
    BY DEF Inv, TypeOK
  <2>2. RecordedInv'
    BY <1>1, <1>3 DEF Inv, EvidenceInv, RecordedInv
  <2>3. \A s \in current : \A q \in earlier[s] \cap current : Extended(q)' <=> Extended(q)
    BY <1>3, <2>1
  <2>4. EarlierInv'
    BY <1>1, <2>3 DEF Inv, EvidenceInv, EarlierInv
  <2> QED
    BY <2>2, <2>4
<1>7. RefCommitsToHistory' /\ AcceptedEvidenceIsFinal'
  BY <1>1 DEF Inv, EvidenceInv, RefCommitsToHistory, AcceptedEvidenceIsFinal
<1>8. BarredInv'
  BY <1>1, SubmitStep
<1> QED
  BY <1>2, <1>4, <1>5, <1>6, <1>7, <1>8 DEF Inv, EvidenceInv

LEMMA RestartInv == ASSUME Inv, Restart PROVE Inv'
<1>1. /\ restarts < MaxRestarts /\ restarts' = restarts + 1
      /\ cut' = cut \cup {r \in Request : pc[r] \in InFlight}
      /\ \/ /\ keys' = [t \in Runtime |-> IF Live(t) THEN runtime_rows[t].key ELSE NoKey]
            /\ faults' = faults
         \/ StoreFails /\ keys' = [t \in Runtime |-> NoKey]
      /\ revoked' = {}
      /\ barred' = [t \in Runtime |-> IF barred[t] = "stored" THEN "stored" ELSE "no"]
      /\ provenance' = [a \in Agent |-> <<>>] /\ provenance_rejected' = [a \in Agent |-> 0]
      /\ evidence_refs' = [a \in Agent |-> <<>>] /\ corroboration' = [a \in Agent |-> 0]
      /\ current' = {}
      /\ UNCHANGED <<runtime_rows, event_rows, pc, seen, verified, unsaved, all, earlier>>
  BY DEF Restart, locals
<1>2. TypeOK'
  <2>1. \A local \in {seen', verified', unsaved', all'} : local \in [Submission -> Seq(Event)]
    BY <1>1 DEF Inv, TypeOK
  <2>2. keys' \in [Runtime -> Key \cup {NoKey}]
    BY <1>1 DEF Inv, TypeOK, Row
  <2>3. faults' \in 0..MaxFaults /\ restarts' \in 0..MaxRestarts
    BY <1>1, ProvenanceIngestAssumption DEF Inv, TypeOK, StoreFails
  <2>4. /\ provenance' \in [Agent -> Seq(Event)] /\ evidence_refs' \in [Agent -> Seq(Event)]
        /\ provenance_rejected' \in [Agent -> Nat] /\ corroboration' \in [Agent -> Nat]
    <3>1. <<>> \in Seq(Event)
      OBVIOUS
    <3> QED
      BY <1>1, <3>1
  <2>5. barred' \in [Runtime -> {"no", "memory", "stored"}]
    BY <1>1
  <2> QED
    BY <1>1, <2>1, <2>2, <2>3, <2>4, <2>5 DEF Inv, TypeOK
<1>3. \A q \in Submission : ~ Extended(q)' /\ ~ Counted(q)'
  BY <1>1 DEF Extended, Counted
<1>4. EveryEventIsCounted'
  <2> SUFFICES ASSUME NEW a \in Agent
               PROVE  /\ Len(provenance'[a]) =
                           SumOver([q \in Submission |-> Len(verified[q])], Submission)[ExtendedOf(a)']
                      /\ provenance_rejected'[a] =
                           SumOver([q \in Submission |-> Rejected(q)], Submission)[CountedOf(a)']
    BY <1>1 DEF EveryEventIsCounted, Rejected
  <2> DEFINE f == [q \in Submission |-> Len(verified[q])]
             u == [q \in Submission |-> Rejected(q)]
  <2>1. ExtendedOf(a)' = {} /\ CountedOf(a)' = {}
    BY <1>3 DEF ExtendedOf, CountedOf
  <2>2. \A q \in Submission : Len(verified[q]) \in Nat /\ Len(req[q].events) \in Nat
                              /\ Len(verified[q]) <= Len(req[q].events)
    BY Bodies, LenProperties DEF Inv, TypeOK, EvidenceInv, ShareInv
  <2>3. f \in [Submission -> Nat] /\ u \in [Submission -> Nat] /\ IsFiniteSet(Submission)
    BY <2>2, Bodies DEF Rejected
  <2>4. SumOver(f, Submission)[{}] = 0 /\ SumOver(u, Submission)[{}] = 0
    <3> HIDE DEF f, u
    <3> QED
      BY <2>3, SumOverEmpty
  <2>5. Len(provenance'[a]) = 0 /\ provenance_rejected'[a] = 0
    BY <1>1
  <2> QED
    BY <2>1, <2>4, <2>5
<1>5. ProgressInv'
  <2> SUFFICES ASSUME NEW r \in Submission
               PROVE  /\ \A q \in earlier[r] : pc[q] # "idle"
                      /\ pc[r] \in InFlight => r \in cut'
    BY <1>1 DEF ProgressInv
  <2> QED
    BY <1>1 DEF Inv, EvidenceInv, ProgressInv, Submission
<1>6. ShareInv'
  BY <1>1 DEF Inv, EvidenceInv, ShareInv
<1>7. CommitInv'
  BY <1>1 DEF CommitInv, InFlight, Submission
<1>8. RecordedInv' /\ EarlierInv' /\ AcceptedEvidenceIsFinal'
  BY <1>1, <1>3 DEF RecordedInv, EarlierInv, AcceptedEvidenceIsFinal
<1>9. RefCommitsToHistory'
  <2>1. <<>> \in Seq(Event) /\ Len(<<>>) = 0
    OBVIOUS
  <2>2. IsPrefix(<<>>, <<>>)
    BY <2>1, PrefixFacts
  <2> QED
    BY <1>1, <2>1, <2>2 DEF RefCommitsToHistory
<1>10. BarredInv'
  <2> SUFFICES ASSUME NEW t \in Runtime, barred'[t] # "no"
               PROVE  keys'[t] = NoKey /\ ~ Registering(t)' /\ ~ Live(t)'
    BY <1>1 DEF BarredInv
  <2>1. ~ Live(t) /\ ~ Live(t)'
    BY <1>1 DEF Inv, BarredInv, Live
  <2>2. keys'[t] = NoKey
    BY <1>1, <2>1
  <2>3. ~ Registering(t)'
    BY <1>1 DEF Registering, InFlight
  <2> QED
    BY <2>1, <2>2, <2>3
<1> QED
  BY <1>2, <1>4, <1>5, <1>6, <1>7, <1>8, <1>9, <1>10 DEF Inv, EvidenceInv

-----------------------------------------------------------------------------
LEMMA InitInv == Init => Inv
<1> SUFFICES ASSUME Init PROVE Inv
  OBVIOUS
<1>1. <<>> \in Seq(Event) /\ Len(<<>>) = 0 /\ MaxFaults \in Nat /\ MaxRestarts \in Nat
  BY ProvenanceIngestAssumption
<1>2. TypeOK
  <2>1. \A local \in {seen, verified, unsaved, all} : local \in [Submission -> Seq(Event)]
    BY <1>1 DEF Init
  <2>2. runtime_rows \in [Runtime -> Row]
    <3> DEFINE row == [key |-> NoKey, revoked |-> FALSE]
    <3>1. row \in Row
      BY Zenon DEF Row
    <3>2. runtime_rows = [t \in Runtime |-> row]
      BY DEF Init
    <3> HIDE DEF row
    <3> QED
      BY <3>1, <3>2
  <2>3. /\ provenance \in [Agent -> Seq(Event)] /\ evidence_refs \in [Agent -> Seq(Event)]
        /\ provenance_rejected \in [Agent -> Nat] /\ corroboration \in [Agent -> Nat]
    BY <1>1 DEF Init
  <2>4. /\ keys \in [Runtime -> Key \cup {NoKey}] /\ barred \in [Runtime -> {"no", "memory", "stored"}]
        /\ pc \in [Request -> InFlight \cup {"idle", "done"}]
        /\ earlier \in [Submission -> SUBSET Submission]
    BY DEF Init
  <2>5. /\ faults \in 0..MaxFaults /\ restarts \in 0..MaxRestarts /\ revoked = {}
        /\ event_rows = {} /\ cut = {} /\ current = {}
    BY <1>1 DEF Init
  <2> QED
    BY <2>1, <2>2, <2>3, <2>4, <2>5 DEF TypeOK
<1>3. \A q \in Submission : ~ Extended(q) /\ ~ Counted(q) /\ verified[q] = <<>>
  BY DEF Init, Extended, Counted
<1>4. EveryEventIsCounted
  <2> SUFFICES ASSUME NEW a \in Agent
               PROVE  /\ Len(provenance[a]) =
                           SumOver([q \in Submission |-> Len(verified[q])], Submission)[ExtendedOf(a)]
                      /\ provenance_rejected[a] =
                           SumOver([q \in Submission |-> Rejected(q)], Submission)[CountedOf(a)]
    BY DEF EveryEventIsCounted
  <2> DEFINE f == [q \in Submission |-> Len(verified[q])]
             u == [q \in Submission |-> Rejected(q)]
  <2>1. ExtendedOf(a) = {} /\ CountedOf(a) = {}
    BY <1>3 DEF ExtendedOf, CountedOf
  <2>2. \A q \in Submission : Len(req[q].events) \in Nat
    BY Bodies, LenProperties
  <2>3. f \in [Submission -> Nat] /\ u \in [Submission -> Nat] /\ IsFiniteSet(Submission)
    BY <1>1, <1>3, <2>2, Bodies DEF Rejected
  <2>4. SumOver(f, Submission)[{}] = 0 /\ SumOver(u, Submission)[{}] = 0
    <3> HIDE DEF f, u
    <3> QED
      BY <2>3, SumOverEmpty
  <2>5. Len(provenance[a]) = 0 /\ provenance_rejected[a] = 0
    BY <1>1 DEF Init
  <2> QED
    BY <2>1, <2>4, <2>5
<1>5. ProgressInv /\ CommitInv /\ EarlierInv /\ AcceptedEvidenceIsFinal /\ RecordedInv
  BY <1>3 DEF Init, ProgressInv, CommitInv, EarlierInv, AcceptedEvidenceIsFinal, RecordedInv,
              InFlight, Submission
<1>6. ShareInv
  <2>1. \A q \in Submission : Len(req[q].events) \in Nat
    BY Bodies, LenProperties
  <2> QED
    BY <1>1, <1>3, <2>1 DEF ShareInv
<1>7. RefCommitsToHistory
  <2>1. IsPrefix(<<>>, <<>>)
    BY <1>1, PrefixFacts
  <2> QED
    BY <1>1, <2>1 DEF Init, RefCommitsToHistory
<1>8. BarredInv
  BY DEF Init, BarredInv
<1> QED
  BY <1>2, <1>4, <1>5, <1>6, <1>7, <1>8 DEF Inv, EvidenceInv

LEMMA StepInv == Inv /\ [Next]_vars => Inv'
<1> SUFFICES ASSUME Inv, [Next]_vars PROVE Inv'
  OBVIOUS
<1>1. CASE UNCHANGED vars
  <2>1. UNCHANGED <<evidence, locals, history, cut, pc, registry, event_rows, faults, restarts>>
    BY <1>1 DEF vars
  <2>2. EvidenceInv'
    BY <2>1, RegistryStep
  <2>3. BarredInv'
    BY <2>1, SubmitStep
  <2>4. TypeOK'
    BY <2>1 DEF Inv, TypeOK, evidence, locals, history, registry
  <2> QED
    BY <2>2, <2>3, <2>4 DEF Inv
<1>2. ASSUME NEW r \in Request, Handler(r) PROVE Inv'
  BY <1>2, RegisterRuntimeInv, PersistRuntimeInv, RevokeRuntimeInv, PersistRevocationInv,
     ReadAcceptedInv, VerifyBatchInv, ExtendInv, PersistEventInv, CountRejectedInv,
     InsertRefInv, IngestSummaryInv DEF Handler
<1>3. ASSUME NEW r \in Request, Drop(r) PROVE Inv'
  BY <1>3, DropInv
<1>4. CASE Restart
  BY <1>4, RestartInv
<1> QED
  BY <1>1, <1>2, <1>3, <1>4 DEF Next

LEMMA Invariance == Spec => []Inv
  BY InitInv, StepInv, PTL DEF Spec

-----------------------------------------------------------------------------
\* Every variable keeps its type; what verify_batch passes are events, and no
\* more of them than the batch had.
THEOREM IngestTypeCorrect == Spec => []TypeOK
<1>1. Inv => TypeOK
  BY DEF Inv
<1> QED
  BY <1>1, Invariance, PTL

\* An agent's evidence holds as many events as its submissions of this process
\* verified, and its rejections are all the others they brought: overlapping
\* submissions lose nothing (submit_provenance extends and counts under locks).
THEOREM EventsAreCounted == Spec => []EveryEventIsCounted
<1>1. Inv => EveryEventIsCounted
  BY DEF Inv, EvidenceInv
<1> QED
  BY <1>1, Invariance, PTL

\* An evidence reference commits to a history that the evidence still extends,
\* and the scorer credits no more than was accepted, in whatever order the
\* sections that write them run (submit_provenance).
THEOREM RefsCommitToHistory == Spec => []RefCommitsToHistory
<1>1. Inv => RefCommitsToHistory
  BY DEF Inv, EvidenceInv
<1> QED
  BY <1>1, Invariance, PTL

\* What one submission brought into memory none that arrives later is accepted
\* for again, whether or not its handler came to an end (seed_seen, verify).
THEOREM EvidenceIsFinal == Spec => []AcceptedEvidenceIsFinal
<1>1. Inv => AcceptedEvidenceIsFinal
  BY DEF Inv, EvidenceInv
<1> QED
  BY <1>1, Invariance, PTL

\* No batch gains an event of a revoked runtime; once the revocation is stored,
\* not even after a restart (register_runtime, revoke_runtime, hydrate).
THEOREM RevokedRuntimesAreOut == Spec => RevokedRuntimeIsOut
<1>1. Inv /\ [Next]_vars =>
        [\A r \in Submission : verified'[r] # verified[r] =>
            \A i \in DOMAIN verified'[r] : barred[verified'[r][i].runtime] = "no"]_vars
  <2> SUFFICES ASSUME Inv, [Next]_vars, NEW r \in Submission, verified'[r] # verified[r],
                      NEW i \in DOMAIN verified'[r]
               PROVE  barred[verified'[r][i].runtime] = "no"
    OBVIOUS
  <2> DEFINE p == Passing(req[r].agent, seen[r], req[r].events)
  <2>1. PICK q \in Request : VerifyBatch(q)
    <3>1. ASSUME NEW q \in Request, Handler(q) PROVE VerifyBatch(q)
      BY <3>1 DEF Handler, locals, RegisterRuntime, PersistRuntime, RevokeRuntime,
                  PersistRevocation, ReadAccepted, Extend, PersistEvent, CountRejected,
                  InsertRef, IngestSummary
    <3>2. ASSUME NEW q \in Request PROVE ~ Drop(q)
      BY DEF Drop, locals
    <3>3. ~ Restart /\ ~ UNCHANGED vars
      BY DEF Restart, locals, vars
    <3> QED
      BY <3>1, <3>2, <3>3 DEF Next
  <2>2. q = r /\ verified'[r] = p
    BY <2>1 DEF VerifyBatch, Inv, TypeOK
  <2>3. seen[r] \in Seq(Event) /\ req[r].events \in Seq(Event)
    BY Bodies DEF Inv, TypeOK
  <2>4. p \in Seq(Event) /\ Authentic(req[r].agent, p[i])
    BY <2>2, <2>3, PassingFacts
  <2> HIDE DEF p
  <2>5. p[i] \in Event
    BY <2>2, <2>4, ElementOfSeq, LenProperties
  <2>6. /\ p[i].runtime \in Runtime /\ p[i].key \in Key
        /\ p[i].runtime \notin revoked /\ keys[p[i].runtime] = p[i].key
    BY <2>4, <2>5 DEF Event, Authentic
  <2> QED
    BY <2>2, <2>6, ProvenanceIngestAssumption DEF Inv, BarredInv
<1> QED
  BY <1>1, Invariance, PTL DEF Spec, RevokedRuntimeIsOut
=============================================================================
