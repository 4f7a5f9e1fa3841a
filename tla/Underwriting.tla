---------------------------- MODULE Underwriting ----------------------------
(***************************************************************************)
(* The underwriting decision (byz-underwrite/src/engine.rs), a pure        *)
(* function of a principal's standing, an agent's reputation and the limit *)
(* it was issued before.  Amounts are minor units of one currency.         *)
(*                                                                         *)
(* The code computes in u128, from ceilings far below its range, so its    *)
(* saturating operations never saturate and the numbers here are plain.    *)
(* Fee, collateral, guarantee and the decision's reasons are left out: no  *)
(* later decision reads them.                                              *)
(***************************************************************************)
EXTENDS Integers

CONSTANTS
    ceiling,              \* KycTier::ceiling
    cold_start_floor,     \* KycTier::cold_start_floor
    MaxIncreaseBps,       \* the fields of UnderwritingConfig
    MinAbsoluteStep,
    ExperienceMultiple,
    MinScoreToEarn,
    NoPrincipal,          \* reputation binds the agent to no principal
    NoLimit               \* no limit was issued before

KycTier == {"unverified", "basic", "verified", "institutional"}

\* The single-draw shares of the four letter bands of RiskTier, in basis
\* points; the lowest is the share of an agent with no score.
LowestShareBps == 1000

\* `underwrite` refuses an unverified principal whatever its ceiling; the
\* last conjunct is what UnderwritingConfig asks of experience_multiple.
ASSUME UnderwritingAssumption ==
    /\ ceiling \in [KycTier -> Nat]
    /\ cold_start_floor \in [KycTier -> Nat]
    /\ MaxIncreaseBps \in Nat
    /\ MinAbsoluteStep \in Nat \ {0}
    /\ MinScoreToEarn \in Nat
    /\ ExperienceMultiple \in Nat
    /\ ExperienceMultiple * LowestShareBps > 10000
    /\ NoLimit \notin Nat

AtMost(x, bound) == IF x > bound THEN bound ELSE x
AtLeast(x, floor) == IF x < floor THEN floor ELSE x

\* Money::scale_bps rounds up.
ScaleBps(x, bps) == (x * bps + 9999) \div 10000

SingleShareBps(score) ==
    CASE score > 750 -> 4000
      [] score > 500 /\ score <= 750 -> 3000
      [] score > 250 /\ score <= 500 -> 2000
      [] score <= 250 -> LowestShareBps

-----------------------------------------------------------------------------
(* The controls, in the order in which the code applies them.               *)

\* A wrong gate: the outcome of sanctions screening is not read.
PassesUnscreened(st, rep) ==
    /\ st.kyc_tier # "unverified"
    /\ rep.principal_ref \in {NoPrincipal, st.principal_ref}

\* Gate 1, standing.  An agent that reputation binds to no principal passes.
Passes(st, rep) ==
    /\ st.kyc_tier # "unverified"
    /\ st.sanctions_clear
    /\ rep.principal_ref \in {NoPrincipal, st.principal_ref}

\* Linear in the score.
Earned(st, rep) ==
    IF rep.score < MinScoreToEarn THEN 0
    ELSE (ceiling[st.kyc_tier] * AtMost(rep.score, 1000)) \div 1000

\* A wrong cap: the multiple that lands on the present window.
ExperienceCapTooTight(w, st, rep) ==
    IF rep.largest_single > 0
    THEN AtMost(w, AtLeast(rep.largest_single * 10, cold_start_floor[st.kyc_tier]))
    ELSE w

ExperienceCap(w, st, rep) ==
    IF ExperienceMultiple > 0 /\ rep.largest_single > 0
    THEN AtMost(w, AtLeast(rep.largest_single * ExperienceMultiple,
                           cold_start_floor[st.kyc_tier]))
    ELSE w

\* Principal consolidation: each agent's share of the principal's ceiling.
Share(st) == ceiling[st.kyc_tier] \div AtLeast(st.agent_count, 1)

\* How far one decision may raise a limit.
Allowed(prev) ==
    AtLeast((prev * (10000 + MaxIncreaseBps)) \div 10000, prev + MinAbsoluteStep)

RateCap(w, prev) == IF prev = NoLimit THEN w ELSE AtMost(w, Allowed(prev))

\* What standing and behaviour deserve before the three last caps.
Deserved(st, rep) == AtLeast(cold_start_floor[st.kyc_tier], Earned(st, rep))

WindowFor(st, rep, prev) ==
    LET experienced == ExperienceCap(Deserved(st, rep), st, rep)
        within == AtMost(AtMost(experienced, ceiling[st.kyc_tier]), Share(st))
    IN  RateCap(within, prev)

\* st: PrincipalStanding; rep: ReputationDetail; prev: the previous lim_window.
Underwrite(st, rep, prev) ==
    LET w == WindowFor(st, rep, prev)
        refused == [lim_single |-> 0, lim_window |-> 0]
    IN  IF ~ Passes(st, rep) \/ w = 0 THEN refused
        ELSE [lim_single |-> ScaleBps(w, SingleShareBps(rep.score)),
              lim_window |-> w]

\* A decision is issued exactly when its window is not zero.
IsIssued(decision) == decision.lim_window > 0
=============================================================================
