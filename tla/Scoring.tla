------------------------------ MODULE Scoring ------------------------------
(***************************************************************************)
(* The behavioural score of one agent: what ReputationService keeps of its *)
(* receipts, and the score that `detail` computes from them.               *)
(*                                                                         *)
(* Time counts days, and an event is of the last 24 hours when it is of    *)
(* this day.  The code's floating point is here arithmetic in thousandths, *)
(* rounded down; of the decay of an event's weight, a power of one half,   *)
(* it matters that no event has more weight than a new one.                *)
(***************************************************************************)
EXTENDS Integers, Sequences, FiniteSetsExt, Totals

CONSTANTS
    Counterparty, Unnamed,   \* Unnamed: an event without a counterparty
    Events, Weights,         \* that may be ingested; of provenance summaries
    Saturation, ProvenanceSaturation, MaxEvents,   \* of ScoringConfig
    Decay,                   \* Decay[age]: the weight of an event of that age
    MaxTotal, Horizon        \* bounds: events ingested; days

Event == [minor : Nat, settled : BOOLEAN, violated : BOOLEAN,
          counterparty : Counterparty \cup {Unnamed}]

ScoringAssumption ==
    /\ Unnamed \notin Counterparty /\ IsFiniteSet(Counterparty)
    /\ Events \subseteq Event /\ Weights \subseteq Nat
    /\ {Saturation, ProvenanceSaturation, MaxEvents} \subseteq Nat \ {0}
    /\ {MaxTotal, Horizon} \subseteq Nat
    /\ Decay \in [0 .. Horizon -> Nat \ {0}]
    /\ \A age \in 0 .. Horizon : Decay[age] <= Decay[0]

\* ScoringConfig::default, in points and in thousandths.
Tolerance == 4
VelocityPenalty == 150
ConcentrationPenalty == 120
ViolationPenalty == 400
ProvenanceBonus == 200

VARIABLES
    now,
    agent,     \* its AgentStats, its related counterparties and its provenance
    earned     \* history: what was settled with each counterparty, ever

vars == <<now, agent, earned>>

\* events: the last MaxEvents, each with the time it is of; the counts are of all
\* events ever; provenance is the weighted_total of its ProvenanceSummary.
AgentStats == [events : Seq([e : Event, at : Nat]), total : Nat, successes : Nat,
               violations : Nat, related : SUBSET Counterparty, provenance : Nat]

TypeOK ==
    /\ now \in Nat
    /\ agent \in AgentStats /\ Len(agent.events) <= MaxEvents
    /\ earned \in [Counterparty \cup {Unnamed} -> Nat]

Init ==
    /\ now = 0
    /\ agent = [events |-> <<>>, total |-> 0, successes |-> 0, violations |-> 0,
                related |-> {}, provenance |-> 0]
    /\ earned = [c \in Counterparty \cup {Unnamed} |-> 0]

-----------------------------------------------------------------------------
(* detail, of an AgentStats a.                                              *)

\* The integer root of n, at most 1000, bit by bit.
WithBit(n, r, bit) == IF (r + bit) * (r + bit) <= n THEN r + bit ELSE r
Upper(n) == WithBit(n, WithBit(n, WithBit(n, WithBit(n, WithBit(n, 0, 512), 256), 128), 64), 32)
Lower(n, r) == WithBit(n, WithBit(n, WithBit(n, WithBit(n, WithBit(n, r, 16), 8), 4), 2), 1)
Root(n) == Min({1000, Lower(n, Upper(n))})

\* provenance_bonus_bps, in thousandths.
Bonus(a) ==
    (Root((a.provenance * 1000000) \div ProvenanceSaturation) * ProvenanceBonus) \div 1000

\* decay_weight, in units of which Decay[0] make one.
DecayWeight(at) == Decay[now - at]

\* A wrong discount: nobody is related.
NothingIsWash(a, i) == FALSE

IsWash(a, i) == a.events[i].e.counterparty \in a.related

Counted(a) == {i \in DOMAIN a.events : ~IsWash(a, i)}
Settled(a) == {i \in Counted(a) : a.events[i].e.settled}
Violated(a) == {i \in Counted(a) : a.events[i].e.violated}
Minors(a) == [i \in DOMAIN a.events |-> a.events[i].e.minor]
Weighted(a) == [i \in DOMAIN a.events |-> Minors(a)[i] * DecayWeight(a.events[i].at)]
Value(a, is) == SumOver(Weighted(a), DOMAIN a.events)[is]

\* Weighted by value; by count when no event has one.
Compliance(a, total, settled) ==
    IF total > 0 THEN (settled * 1000) \div total
    ELSE IF a.total > 0 THEN (a.successes * 1000) \div a.total ELSE 0

\* Square root of the value settled, with its bonus, against the saturation.
Depth(a, settled) == Root((settled * (1000 + Bonus(a)) * 1000) \div (Saturation * Decay[0]))

Violations(a, total, violated) ==
    IF total > 0 /\ violated > 0 THEN (violated * ViolationPenalty) \div total
    ELSE IF a.violations > 0 THEN (a.violations * ViolationPenalty) \div a.total
    ELSE 0

\* velocity_penalty: the largest of the last 24 hours against the mean of all before,
\* whatever their counterparty.
Velocity(a) ==
    LET trailing == {i \in DOMAIN a.events : a.events[i].at < now}
        recent_max == Max({0} \cup {a.events[i].e.minor : i \in DOMAIN a.events \ trailing})
        sum == SumOver(Minors(a), DOMAIN a.events)[trailing]
        ratio == (recent_max * 1000 * Cardinality(trailing)) \div sum
    IN  IF Cardinality(trailing) < 3 \/ recent_max = 0 \/ sum = 0 THEN 0
        ELSE Max({0, Min({((ratio - Tolerance * 1000) * 30) \div 1000, VelocityPenalty})})

\* The Herfindahl index of the settled value by counterparty, above one half.
Concentration(a, settled) ==
    LET with == [c \in Counterparty |->
                    Value(a, {i \in Settled(a) : a.events[i].e.counterparty = c})]
        squares == [c \in Counterparty |-> with[c] * with[c]]
        hhi == (SumOver(squares, Counterparty)[Counterparty] * 1000) \div (settled * settled)
    IN  IF settled = 0 THEN 0 ELSE Max({0, ((hhi - 500) * ConcentrationPenalty) \div 500})

\* detail(did).score.
Score(a) ==
    LET total == Value(a, Counted(a))
        settled == Value(a, Settled(a))
        violated == Value(a, Violated(a))
    IN  Max({0, (Compliance(a, total, settled) * Depth(a, settled)) \div 1000
                - Violations(a, total, violated) - Velocity(a) - Concentration(a, settled)})

-----------------------------------------------------------------------------
\* A wrong outcome: whatever was not a violation counts as settled.
SettlesUnlessViolated(e) == ~e.violated

\* ReceiptOutcome::Success.
Settles(e) == e.settled

\* ingest of an event of a time that is not in the future; the oldest one makes room.
Ingested(a, e, at) ==
    LET record == [e |-> [e EXCEPT !.settled = Settles(e)], at |-> at]
    IN  [a EXCEPT !.events = IF Len(@) = MaxEvents THEN Append(Tail(@), record)
                                                   ELSE Append(@, record),
                  !.total = @ + 1,
                  !.successes = @ + (IF Settles(e) THEN 1 ELSE 0),
                  !.violations = @ + (IF e.violated THEN 1 ELSE 0)]

Ingest(e, at) ==
    /\ agent.total < MaxTotal
    /\ agent' = Ingested(agent, e, at)
    /\ earned' = IF e.settled THEN [earned EXCEPT ![e.counterparty] = @ + e.minor] ELSE earned
    /\ UNCHANGED now

MarkRelatedCounterparty(c) ==
    /\ agent' = [agent EXCEPT !.related = @ \cup {c}]
    /\ UNCHANGED <<now, earned>>

IngestProvenance(weighted_total) ==
    /\ agent' = [agent EXCEPT !.provenance = weighted_total]
    /\ UNCHANGED <<now, earned>>

Tick ==
    /\ now < Horizon /\ now' = now + 1
    /\ UNCHANGED <<agent, earned>>

Next ==
    \/ \E e \in Events, at \in 0 .. now : Ingest(e, at)
    \/ \E c \in Counterparty : MarkRelatedCounterparty(c)
    \/ \E w \in Weights : IngestProvenance(w)
    \/ Tick

Spec == Init /\ [][Next]_vars

-----------------------------------------------------------------------------
(* Properties.                                                              *)

\* Standing is earned: with everything an agent ever settled with others than its
\* own principal's, its score is at most the square root of that, against the
\* saturation, and a fifth more for its provenance; neither the number of events,
\* nor how they are dated, nor related counterparties add to it.
StandingIsEarned ==
    LET all == Counterparty \cup {Unnamed}
    IN  \A score \in {Score(agent)} :
            score * score * Saturation
                <= SumOver(earned, all)[all \ agent.related] * (1000 + ProvenanceBonus) * 1000

\* The score after one more event.
ScoreAfter(e, at) == Score(Ingested(agent, e, at))

\* A draw that fails now, of an agent that never violated its mandate, does not
\* raise its score, as long as no older event makes room for it.
FailureNeverRaises ==
    \A e \in Events :
        ~e.settled /\ ~e.violated /\ agent.violations = 0 /\ Len(agent.events) < MaxEvents
        => ScoreAfter(e, now) <= Score(agent)

\* scorer.rs: volume with counterparties under the same principal counts for nothing.
WashEarnsNothing ==
    \A e \in Events, at \in 0 .. now :
        e.counterparty \in agent.related => ScoreAfter(e, at) <= Score(agent)
=============================================================================
