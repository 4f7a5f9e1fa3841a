-------------------------- MODULE Issuance_proofs --------------------------
(***************************************************************************)
(* What holds of every limit issued, for any agents, principals, requests, *)
(* tiers and configurations, however handlers interleave, are dropped or   *)
(* cut off by restarts, and whatever store calls fail.                     *)
(*                                                                         *)
(* The inductive invariant follows values to where they come from.  Each   *)
(* standing that memory, a row or a handler holds was registered for that  *)
(* agent (Backed), and each previous limit they hold was issued to it      *)
(* (Issued).  Both facts, once true, remain true (Stable), so that a       *)
(* handler may act on a value long after it read it.  A second invariant,  *)
(* StandInv, says which registration of the agent it is.                   *)
(***************************************************************************)
EXTENDS Issuance, FiniteSetTheorems, TLAPS

-----------------------------------------------------------------------------
(* What every decision of the underwriter guarantees, whatever the tiers,  *)
(* the configuration, the history and the previous limit.                  *)

\* The inputs a decision is made on.
StandingFields(st) ==
    /\ st.kyc_tier \in KycTier
    /\ st.sanctions_clear \in BOOLEAN
    /\ st.agent_count \in Nat \ {0}

ReputationFields(rep) ==
    /\ rep.score \in 0..1000
    /\ rep.largest_single \in Nat

Inputs(st, rep, prev) ==
    /\ StandingFields(st)
    /\ ReputationFields(rep)
    /\ prev \in Nat \cup {NoLimit}

\* A product of naturals is monotonic in its second factor.
LEMMA ProductGrows ==
    ASSUME NEW k \in Nat, NEW x \in Nat, NEW y \in Nat, x <= y
    PROVE  k * x <= k * y
<1>1. PICK z \in Nat : y = x + z
    <2>1. y - x \in Nat /\ y = x + (y - x)
        OBVIOUS
    <2> QED BY <2>1
<1>2. k * y = k * x + k * z
    BY <1>1
<1>3. k * z \in Nat /\ k * x \in Nat
    OBVIOUS
<1> QED BY <1>2, <1>3

\* The part of a natural that a share in basis points rounds up to.
LEMMA ShareOfWindow ==
    ASSUME NEW w \in Nat, w > 0, NEW bps \in Nat, bps >= 1, bps <= 10000
    PROVE  ScaleBps(w, bps) \in Nat /\ ScaleBps(w, bps) > 0 /\ ScaleBps(w, bps) <= w
<1> DEFINE s == w * bps
<1>1. s \in Nat /\ s >= w
    <2>1. w * 1 <= w * bps
        BY ProductGrows
    <2> QED BY <2>1
<1>2. s <= w * 10000
    BY ProductGrows
<1> HIDE DEF s
<1>3. /\ (s + 9999) \div 10000 \in Nat
      /\ (s + 9999) \div 10000 > 0
      /\ (s + 9999) \div 10000 <= w
    BY <1>1, <1>2
<1> QED BY <1>3 DEF ScaleBps, s

LEMMA ShareIsBps ==
    ASSUME NEW score \in Nat
    PROVE  /\ SingleShareBps(score) \in Nat
           /\ SingleShareBps(score) >= 1000
           /\ SingleShareBps(score) <= 4000
BY DEF SingleShareBps, LowestShareBps

\* The n-th part of a natural, n times, is at most the whole.
LEMMA PartsMakeNoMore ==
    ASSUME NEW c \in Nat, NEW n \in Nat \ {0}
    PROVE  (c \div n) \in Nat /\ n * (c \div n) <= c /\ (c \div n) <= c
<1>1. (c \div n) \in Int /\ (c % n) \in 0..(n - 1) /\ c = n * (c \div n) + (c % n)
    OBVIOUS
<1>2. (c \div n) \in Nat
    OBVIOUS
<1>3. n * (c \div n) <= c
    <2> DEFINE p == n * (c \div n)
               m == c % n
    <2>1. p \in Int /\ m \in Nat /\ c = p + m
        BY <1>1, <1>2
    <2> HIDE DEF p, m
    <2>2. p <= c
        BY <2>1
    <2> QED BY <2>2 DEF p
<1>4. 1 * (c \div n) <= n * (c \div n)
    BY <1>2, ProductGrows
<1> QED BY <1>2, <1>3, <1>4

-----------------------------------------------------------------------------
(* The parts of the window, each in the range the next one needs.           *)

LEMMA DeservedIsNat ==
    ASSUME NEW st, NEW rep, StandingFields(st), ReputationFields(rep)
    PROVE  Deserved(st, rep) \in Nat
<1>1. ceiling[st.kyc_tier] \in Nat /\ cold_start_floor[st.kyc_tier] \in Nat
    BY UnderwritingAssumption DEF StandingFields
<1>2. AtMost(rep.score, 1000) \in Nat
    BY SMTT(40) DEF ReputationFields, AtMost
<1>3. Earned(st, rep) \in Nat
    <2> DEFINE p == ceiling[st.kyc_tier] * AtMost(rep.score, 1000)
    <2>1. p \in Nat
        BY <1>1, <1>2
    <2> HIDE DEF p
    <2>2. p \div 1000 \in Nat
        BY <2>1
    <2> QED BY <2>2 DEF Earned, p
<1> QED BY <1>1, <1>3 DEF Deserved, AtLeast

LEMMA ShareIsPart ==
    ASSUME NEW st, StandingFields(st)
    PROVE  /\ Share(st) \in Nat
           /\ st.agent_count * Share(st) <= ceiling[st.kyc_tier]
           /\ Share(st) <= ceiling[st.kyc_tier]
<1>1. ceiling[st.kyc_tier] \in Nat
    BY UnderwritingAssumption DEF StandingFields
<1>2. st.agent_count \in Nat \ {0} /\ AtLeast(st.agent_count, 1) = st.agent_count
    BY DEF StandingFields, AtLeast
<1> QED BY <1>1, <1>2, PartsMakeNoMore DEF Share

LEMMA AllowedGrows ==
    ASSUME NEW prev \in Nat
    PROVE  Allowed(prev) \in Nat /\ Allowed(prev) > prev
<1> DEFINE p == prev * (10000 + MaxIncreaseBps)
<1>1. p \in Nat
    BY UnderwritingAssumption
<1> HIDE DEF p
<1>2. p \div 10000 \in Nat
    BY <1>1
<1>3. Allowed(prev) = AtLeast(p \div 10000, prev + MinAbsoluteStep)
    BY DEF Allowed, p
<1> QED BY <1>2, <1>3, UnderwritingAssumption DEF AtLeast

\* The window before the rate cap: what is deserved, after the experience cap,
\* within the ceiling and the share.
Unhurried(st, rep) ==
    AtMost(AtMost(ExperienceCap(Deserved(st, rep), st, rep), ceiling[st.kyc_tier]),
           Share(st))

LEMMA UnhurriedIsShared ==
    ASSUME NEW st, NEW rep, StandingFields(st), ReputationFields(rep)
    PROVE  Unhurried(st, rep) \in Nat /\ Unhurried(st, rep) <= Share(st)
<1>1. ceiling[st.kyc_tier] \in Nat /\ cold_start_floor[st.kyc_tier] \in Nat
    BY UnderwritingAssumption DEF StandingFields
<1>2. rep.largest_single * ExperienceMultiple \in Nat
    BY UnderwritingAssumption DEF ReputationFields
<1>3. ExperienceCap(Deserved(st, rep), st, rep) \in Nat
    BY <1>1, <1>2, DeservedIsNat DEF ExperienceCap, AtMost, AtLeast
<1>4. Share(st) \in Nat
    BY ShareIsPart
<1> QED BY <1>1, <1>3, <1>4 DEF Unhurried, AtMost

LEMMA WindowIsCapped ==
    ASSUME NEW st, NEW rep, NEW prev, Inputs(st, rep, prev)
    PROVE  /\ WindowFor(st, rep, prev) \in Nat
           /\ WindowFor(st, rep, prev) <= Share(st)
           /\ prev # NoLimit => WindowFor(st, rep, prev) <= Allowed(prev)
<1>1. Unhurried(st, rep) \in Nat /\ Unhurried(st, rep) <= Share(st)
    BY UnhurriedIsShared DEF Inputs
<1>2. WindowFor(st, rep, prev) = RateCap(Unhurried(st, rep), prev)
    BY DEF WindowFor, Unhurried
<1>3. Share(st) \in Nat
    BY ShareIsPart DEF Inputs
<1>4. CASE prev = NoLimit
    BY <1>1, <1>2, <1>4 DEF RateCap
<1>5. CASE prev # NoLimit
    <2>1. Allowed(prev) \in Nat
        BY <1>5, AllowedGrows DEF Inputs
    <2> QED BY <1>1, <1>2, <1>3, <1>5, <2>1 DEF RateCap, AtMost
<1> QED BY <1>4, <1>5

-----------------------------------------------------------------------------
\* Whatever its inputs, the underwriter issues only to a principal that passed
\* the gates; all the agents it counts, each at this limit, stay within the
\* principal's ceiling; the limit is one step at most above the previous one;
\* and a single draw is some of the window and no more than it.
THEOREM DecisionIsBounded ==
    ASSUME NEW st, NEW rep, NEW prev, Inputs(st, rep, prev),
           NEW d, d = Underwrite(st, rep, prev)
    PROVE  /\ d \in [lim_single : Nat, lim_window : Nat]
           /\ st.agent_count * d.lim_window <= ceiling[st.kyc_tier]
           /\ d.lim_window <= ceiling[st.kyc_tier]
           /\ prev # NoLimit => d.lim_window <= Allowed(prev)
           /\ d.lim_single <= d.lim_window
           /\ IsIssued(d) => Passes(st, rep) /\ d.lim_single > 0
<1> DEFINE w == WindowFor(st, rep, prev)
           bps == SingleShareBps(rep.score)
<1>1. w \in Nat /\ w <= Share(st) /\ (prev # NoLimit => w <= Allowed(prev))
    BY WindowIsCapped
<1>2. /\ st.agent_count \in Nat \ {0}
      /\ rep.score \in Nat
      /\ ceiling[st.kyc_tier] \in Nat
    BY SMTT(40), UnderwritingAssumption DEF Inputs, StandingFields, ReputationFields
<1>3. /\ Share(st) \in Nat
      /\ st.agent_count * Share(st) <= ceiling[st.kyc_tier]
      /\ Share(st) <= ceiling[st.kyc_tier]
    BY ShareIsPart DEF Inputs
<1>4. st.agent_count * w <= ceiling[st.kyc_tier]
    <2>1. st.agent_count * w <= st.agent_count * Share(st)
        BY <1>1, <1>2, <1>3, ProductGrows
    <2>2. st.agent_count * w \in Nat /\ st.agent_count * Share(st) \in Nat
        BY <1>1, <1>2, <1>3
    <2> QED BY <1>2, <1>3, <2>1, <2>2
<1>5. w <= ceiling[st.kyc_tier]
    BY <1>1, <1>2, <1>3
<1>6. bps \in Nat /\ bps >= 1 /\ bps <= 10000
    BY <1>2, ShareIsBps
<1>7. prev # NoLimit => Allowed(prev) \in Nat
    BY AllowedGrows DEF Inputs
<1>8. CASE ~ Passes(st, rep) \/ w = 0
    <2>1. d = [lim_single |-> 0, lim_window |-> 0]
        BY <1>8 DEF Underwrite
    <2>2. st.agent_count * 0 = 0
        BY <1>2
    <2> QED BY <1>2, <1>7, <2>1, <2>2 DEF IsIssued
<1>9. CASE Passes(st, rep) /\ w # 0
    <2>1. d = [lim_single |-> ScaleBps(w, bps), lim_window |-> w]
        BY <1>9 DEF Underwrite
    <2> HIDE DEF w, bps
    <2>2. w \in Nat /\ w > 0
        BY <1>1, <1>9
    <2>3. ScaleBps(w, bps) \in Nat /\ ScaleBps(w, bps) > 0 /\ ScaleBps(w, bps) <= w
        BY <1>6, <2>2, ShareOfWindow
    <2> QED BY <1>1, <1>4, <1>5, <1>9, <2>1, <2>3 DEF IsIssued
<1> QED BY <1>8, <1>9

-----------------------------------------------------------------------------
\* UnderwritingConfig asks that experience_multiple times the lowest single
\* share exceed the whole.  It is then enough for growth: an agent that has
\* completed a draw as large as the lowest band lets it make from its previous
\* limit is issued more than that limit, unless its score and standing, or its
\* share of the ceiling, allow no more.
THEOREM ExperienceLeavesRoom ==
    ASSUME NEW st, NEW rep, NEW prev, Inputs(st, rep, prev),
           prev \in Nat, prev # NoLimit,
           Passes(st, rep),
           rep.largest_single > 0,
           rep.largest_single >= ScaleBps(prev, LowestShareBps)
    PROVE  \/ Underwrite(st, rep, prev).lim_window > prev
           \/ Underwrite(st, rep, prev).lim_window
                 >= AtMost(Deserved(st, rep), Share(st))
<1> DEFINE largest == rep.largest_single
           cap == largest * ExperienceMultiple
           floor == cold_start_floor[st.kyc_tier]
           top == ceiling[st.kyc_tier]
           w == WindowFor(st, rep, prev)
<1>1. /\ largest \in Nat \ {0} /\ ExperienceMultiple \in Nat
      /\ floor \in Nat /\ top \in Nat
    BY UnderwritingAssumption DEF Inputs, StandingFields, ReputationFields
<1>2. ExperienceMultiple >= 11
    BY <1>1, UnderwritingAssumption DEF LowestShareBps
<1>3. largest * 10 >= prev
    <2>1. ((prev * 1000 + 9999) \div 10000) * 10 >= prev
        OBVIOUS
    <2>2. ScaleBps(prev, 1000) \in Nat /\ ScaleBps(prev, 1000) * 10 >= prev
        BY <2>1 DEF ScaleBps
    <2> QED BY <1>1, <2>2 DEF LowestShareBps
<1>4. cap \in Nat /\ cap > prev
    <2>1. largest * 11 <= largest * ExperienceMultiple
        BY <1>1, <1>2, ProductGrows
    <2>2. cap \in Nat /\ cap >= largest * 11
        BY <1>1, <2>1
    <2> HIDE DEF cap
    <2> QED BY <1>1, <1>3, <2>2
<1>5. Deserved(st, rep) \in Nat /\ Share(st) \in Nat /\ Share(st) <= top
    BY DeservedIsNat, ShareIsPart DEF Inputs
<1>6. /\ Unhurried(st, rep) \in Nat
      /\ \/ Unhurried(st, rep) > prev
         \/ Unhurried(st, rep) >= AtMost(Deserved(st, rep), Share(st))
    <2>1. ExperienceCap(Deserved(st, rep), st, rep)
            = AtMost(Deserved(st, rep), AtLeast(cap, floor))
        BY <1>1, <1>2 DEF ExperienceCap
    <2> HIDE DEF cap, floor, top
    <2>2. Unhurried(st, rep)
            = AtMost(AtMost(AtMost(Deserved(st, rep), AtLeast(cap, floor)), top), Share(st))
        BY <2>1 DEF Unhurried, top
    <2> QED BY <1>1, <1>4, <1>5, <2>2 DEF AtMost, AtLeast
<1>7. w \in Nat /\ (w > prev \/ w >= AtMost(Deserved(st, rep), Share(st)))
    <2>1. w = AtMost(Unhurried(st, rep), Allowed(prev))
        BY DEF WindowFor, RateCap, Unhurried
    <2>2. Allowed(prev) \in Nat /\ Allowed(prev) > prev
        BY AllowedGrows
    <2> HIDE DEF w
    <2> QED BY <1>5, <1>6, <2>1, <2>2 DEF AtMost
<1>8. Underwrite(st, rep, prev).lim_window = w
    BY DEF Underwrite
<1> QED BY <1>7, <1>8

-----------------------------------------------------------------------------
(* What the inductive invariant is made of.                                *)


Place == InFlight \cup {"idle", "done", "dropped"}

LocalState == [st : Standing \cup {NoStanding}, rep : Reputation,
               prev : Nat \cup {NoLimit}, dec : Decision,
               prn : Principal \cup {NoPrincipal},
               signed_at : Nat, faulted : BOOLEAN]

\* A registration of agent a that has begun carries what standing st says.
Backed(st, a) ==
    st # NoStanding =>
        \E q \in Request :
            /\ req[q].kind = "register" /\ req[q].agent = a
            /\ pc[q] # "idle"
            /\ req[q].principal = st.principal_ref
            /\ req[q].kyc_tier = st.kyc_tier
            /\ req[q].sanctions_clear = st.sanctions_clear

\* Agent a was issued an attestation with window limit w.
Issued(w, a) ==
    w # NoLimit =>
        \E s \in Request : /\ local[s].signed_at > 0
                           /\ req[s].agent = a
                           /\ local[s].dec.lim_window = w

\* What memory and the store hold.
SharedInv ==
    \A a \in Agent :
        /\ Backed(standings[a], a)
        /\ Backed(standing_rows[a], a)
        /\ Issued(last_limits[a], a)
        /\ limit_rows[a] # NoLimit => Issued(limit_rows[a].lim_window, a)

\* A limit that was issued and stored precedes request q.
Preceded(q) ==
    \E p \in before[q] : local[p].signed_at > 0 /\ req[p].agent = req[q].agent

\* The decision that a handler is about to sign, or has signed.
Gated(q) ==
    /\ local[q].st # NoStanding
    /\ local[q].st.sanctions_clear /\ local[q].st.kyc_tier # "unverified"
    /\ Window(q) <= ceiling[local[q].st.kyc_tier]

\* Where a handler stands tells what it holds.
PlaceInv(q) ==
    /\ pc[q] \in {"count", "insert", "persist_standing"} => req[q].kind = "register"
    /\ pc[q] \in {"cache_standing", "detail", "previous", "fetch_previous",
                  "cache_previous", "decide"} => local[q].st # NoStanding
    /\ pc[q] = "cache_previous" => local[q].prev # NoLimit
    /\ local[q].signed_at > 0 => pc[q] \in {"remember", "persist_limit", "done", "dropped"}
    /\ pc[q] \in {"remember", "persist_limit"} => local[q].signed_at > 0

\* A limit that was signed, and answered with every store call, has its row.
StoredInv(q) ==
    pc[q] = "done" /\ ~ local[q].faulted /\ local[q].signed_at > 0
        => limit_rows[req[q].agent] # NoLimit

\* The growth of a limit that follows another one is capped.
CappedInv(q) ==
    ~ local[q].faulted /\ Preceded(q) =>
        /\ pc[q] = "decide" => local[q].prev # NoLimit
        /\ pc[q] = "sign" => \E s \in Request :
                                /\ local[s].signed_at > 0
                                /\ req[s].agent = req[q].agent
                                /\ Window(q) <= Allowed(Window(s))

RequestInv(q) ==
    /\ Backed(local[q].st, req[q].agent)
    /\ Issued(local[q].prev, req[q].agent)
    /\ pc[q] = "sign" \/ local[q].signed_at > 0 => Gated(q)
    /\ PlaceInv(q)
    /\ StoredInv(q)
    /\ \A p \in before[q] : pc[p] = "done" /\ ~ local[p].faulted
    /\ CappedInv(q)

IInv == TypeOK /\ SharedInv /\ \A q \in Request : RequestInv(q)

\* What no step undoes.
Stable ==
    /\ \A q \in Request :
          /\ pc[q] # "idle" => pc'[q] # "idle"
          /\ local[q].signed_at > 0 =>
                local'[q].signed_at > 0 /\ local'[q].dec = local[q].dec
          /\ pc[q] = "done" => pc'[q] = "done" /\ local'[q] = local[q]
    /\ \A a \in Agent : limit_rows[a] # NoLimit => limit_rows'[a] # NoLimit

-----------------------------------------------------------------------------
(* What handlers hold.                                                      *)

\* Every request is about an agent.
LEMMA RequestAgent ==
    ASSUME NEW r \in Request
    PROVE  /\ req[r].agent \in Agent
           /\ req[r].kind = "register" =>
                 /\ req[r].principal \in Principal
                 /\ req[r].kyc_tier \in KycTier
                 /\ req[r].sanctions_clear \in BOOLEAN
           /\ req[r].kind = "settle" => req[r].amount \in Nat
    BY IssuanceAssumption DEF RegisterBody, IssueBody, SettleBody

\* The types of what handlers hold, under the names used here.
LEMMA TypeOfLocal ==
    ASSUME TypeOK
    PROVE  local \in [Request -> LocalState] /\ pc \in [Request -> Place]
    BY DEF TypeOK, LocalState, Place

\* The updates that handlers make of what they hold.
LEMMA HoldStanding ==
    ASSUME NEW l \in LocalState, NEW s \in Standing \cup {NoStanding},
           NEW m, m = [l EXCEPT !.st = s]
    PROVE  /\ m \in LocalState
           /\ m.st = s /\ m.rep = l.rep /\ m.prev = l.prev /\ m.dec = l.dec
           /\ m.prn = l.prn /\ m.signed_at = l.signed_at /\ m.faulted = l.faulted
    BY DEF LocalState

LEMMA HoldReputation ==
    ASSUME NEW l \in LocalState, NEW s \in Reputation,
           NEW m, m = [l EXCEPT !.rep = s]
    PROVE  /\ m \in LocalState
           /\ m.st = l.st /\ m.rep = s /\ m.prev = l.prev /\ m.dec = l.dec
           /\ m.prn = l.prn /\ m.signed_at = l.signed_at /\ m.faulted = l.faulted
    BY DEF LocalState

LEMMA HoldPrevious ==
    ASSUME NEW l \in LocalState, NEW s \in Nat \cup {NoLimit},
           NEW m, m = [l EXCEPT !.prev = s]
    PROVE  /\ m \in LocalState
           /\ m.st = l.st /\ m.rep = l.rep /\ m.prev = s /\ m.dec = l.dec
           /\ m.prn = l.prn /\ m.signed_at = l.signed_at /\ m.faulted = l.faulted
    BY DEF LocalState

LEMMA HoldDecision ==
    ASSUME NEW l \in LocalState, NEW s \in Decision,
           NEW m, m = [l EXCEPT !.dec = s]
    PROVE  /\ m \in LocalState
           /\ m.st = l.st /\ m.rep = l.rep /\ m.prev = l.prev /\ m.dec = s
           /\ m.prn = l.prn /\ m.signed_at = l.signed_at /\ m.faulted = l.faulted
    BY DEF LocalState

LEMMA HoldFault ==
    ASSUME NEW l \in LocalState,
           NEW m, m = [l EXCEPT !.faulted = TRUE]
    PROVE  /\ m \in LocalState
           /\ m.st = l.st /\ m.rep = l.rep /\ m.prev = l.prev /\ m.dec = l.dec
           /\ m.prn = l.prn /\ m.signed_at = l.signed_at /\ m.faulted = TRUE
    BY DEF LocalState

\* A handler that holds nothing.
LEMMA BlankFields ==
    /\ Blank \in LocalState
    /\ Blank.st = NoStanding /\ Blank.prev = NoLimit
    /\ Blank.signed_at = 0 /\ Blank.faulted = FALSE
    BY DEF Blank, LocalState, Reputation, Decision

\* Both counts of a principal's agents are naturals, and the row of an agent
\* counts the agent.
LEMMA Counts ==
    ASSUME TypeOK
    PROVE  /\ \A p \in Principal : AtLeast(Cardinality(members[p]), 1) \in Nat \ {0}
           /\ \A a \in Agent : standing_rows[a] # NoStanding => RowCount(a) \in Nat \ {0}
<1>1. \A S \in SUBSET Agent : IsFiniteSet(S) /\ Cardinality(S) \in Nat
    BY IssuanceAssumption, FS_Subset, FS_CardinalityType
<1>2. ASSUME NEW p \in Principal
      PROVE  AtLeast(Cardinality(members[p]), 1) \in Nat \ {0}
    <2>1. members[p] \in SUBSET Agent
        BY DEF TypeOK
    <2> QED BY <1>1, <2>1 DEF AtLeast
<1>3. ASSUME NEW a \in Agent, standing_rows[a] # NoStanding
      PROVE  RowCount(a) \in Nat \ {0}
    <2> DEFINE S == {b \in Agent : /\ standing_rows[b] # NoStanding
                                   /\ standing_rows[b].principal_ref
                                        = standing_rows[a].principal_ref}
    <2>1. S \in SUBSET Agent /\ a \in S
        BY <1>3
    <2>2. IsFiniteSet(S) /\ Cardinality(S) \in Nat
        BY <1>1, <2>1
    <2>3. Cardinality(S) # 0
        BY <2>1, <2>2, FS_EmptySet
    <2> QED BY <2>2, <2>3 DEF RowCount
<1> QED BY <1>2, <1>3

-----------------------------------------------------------------------------
(* One step of one handler.                                                 *)

\* A request whose handler did not move keeps its invariant.
LEMMA OthersKeep ==
    ASSUME TypeOK, Stable, NEW q \in Request, RequestInv(q),
           pc'[q] = pc[q], local'[q] = local[q], before'[q] = before[q]
    PROVE  RequestInv(q)'
<1> DEFINE a == req[q].agent
<1>0. a \in Agent
    BY RequestAgent
<1>1. Backed(local[q].st, a)'
    BY DEF RequestInv, Backed, Stable
<1>2. Issued(local[q].prev, a)'
    BY DEF RequestInv, Issued, Stable
<1>3. (pc[q] = "sign" \/ local[q].signed_at > 0 => Gated(q))'
    BY DEF RequestInv, Gated, Window
<1>4. PlaceInv(q)'
    BY DEF RequestInv, PlaceInv
<1>5. StoredInv(q)'
    BY <1>0 DEF RequestInv, StoredInv, Stable
<1>6. before[q] \in SUBSET Request
    BY DEF TypeOK
<1>7. (\A p \in before[q] : pc[p] = "done" /\ ~ local[p].faulted)'
    BY <1>6 DEF RequestInv, Stable
<1>8. Preceded(q)' => Preceded(q)
    BY <1>6 DEF RequestInv, Preceded, Stable
<1>9. CappedInv(q)'
    <2>1. ASSUME ~ local[q].faulted, Preceded(q), pc[q] = "sign"
          PROVE  \E s \in Request : /\ local'[s].signed_at > 0
                                    /\ req[s].agent = req[q].agent
                                    /\ Window(q)' <= Allowed(Window(s)')
        <3>1. PICK s \in Request : /\ local[s].signed_at > 0
                                   /\ req[s].agent = req[q].agent
                                   /\ Window(q) <= Allowed(Window(s))
            BY <2>1 DEF RequestInv, CappedInv
        <3>2. local'[s].signed_at > 0 /\ Window(s)' = Window(s) /\ Window(q)' = Window(q)
            BY <3>1 DEF Stable, Window
        <3> QED BY <3>1, <3>2
    <2>2. ASSUME ~ local[q].faulted, Preceded(q), pc[q] = "decide"
          PROVE  local[q].prev # NoLimit
        BY <2>2 DEF RequestInv, CappedInv
    <2> HIDE DEF a
    <2> QED BY <1>8, <2>1, <2>2 DEF CappedInv, Window, Allowed, AtLeast
<1> QED BY <1>1, <1>2, <1>3, <1>4, <1>5, <1>7, <1>9 DEF RequestInv

\* What a step of the handler of r has to show: that the shared maps change to
\* values that come from where they should, and that r has its invariant.
LEMMA OneHandler ==
    ASSUME IInv, NEW r \in Request, NEW l \in LocalState, NEW where \in Place,
           pc[r] # "done", where # "idle",
           Goto(r, where), local' = [local EXCEPT ![r] = l],
           local[r].signed_at > 0 => l.signed_at > 0 /\ l.dec = local[r].dec,
           \A a \in Agent : limit_rows[a] # NoLimit => limit_rows'[a] # NoLimit,
           \A q \in Request \ {r} : before'[q] = before[q]
    PROVE  /\ Stable
           /\ pc' \in [Request -> Place] /\ pc'[r] = where
           /\ local' \in [Request -> LocalState] /\ local'[r] = l
           /\ RequestInv(r)' => \A q \in Request : RequestInv(q)'
<1>1. local \in [Request -> LocalState] /\ pc \in [Request -> Place]
    BY TypeOfLocal DEF IInv
<1>2. /\ pc' \in [Request -> Place] /\ pc'[r] = where
      /\ \A q \in Request \ {r} : pc'[q] = pc[q]
    BY <1>1 DEF Goto
<1>3. /\ local' \in [Request -> LocalState] /\ local'[r] = l
      /\ \A q \in Request \ {r} : local'[q] = local[q]
    BY <1>1
<1>4. Stable
    BY <1>2, <1>3 DEF Stable
<1>5. ASSUME NEW q \in Request \ {r}
      PROVE  RequestInv(q)'
    BY <1>2, <1>3, <1>4, OthersKeep DEF IInv
<1> QED BY <1>2, <1>3, <1>4, <1>5

\* The shared maps keep their invariant when each entry is what it was or comes
\* from where it should.
LEMMA SharedAfter ==
    ASSUME SharedInv, Stable,
           \A a \in Agent :
              /\ standings'[a] = standings[a] \/ Backed(standings[a], a)'
              /\ standing_rows'[a] = standing_rows[a] \/ Backed(standing_rows[a], a)'
              /\ last_limits'[a] = last_limits[a] \/ Issued(last_limits[a], a)'
              /\ limit_rows'[a] = limit_rows[a] \/ Issued(limit_rows[a].lim_window, a)'
    PROVE  SharedInv'
<1> SUFFICES ASSUME NEW a \in Agent
             PROVE  (/\ Backed(standings[a], a)
                     /\ Backed(standing_rows[a], a)
                     /\ Issued(last_limits[a], a)
                     /\ limit_rows[a] # NoLimit => Issued(limit_rows[a].lim_window, a))'
    BY DEF SharedInv
<1>1. Backed(standings[a], a)'
    BY DEF SharedInv, Backed, Stable
<1>2. Backed(standing_rows[a], a)'
    BY DEF SharedInv, Backed, Stable
<1>3. Issued(last_limits[a], a)'
    BY DEF SharedInv, Issued, Stable
<1>4. (limit_rows[a] # NoLimit => Issued(limit_rows[a].lim_window, a))'
    BY DEF SharedInv, Issued, Stable
<1> QED BY <1>1, <1>2, <1>3, <1>4

\* A handler that has signed nothing and is not about to, before and after its
\* step, has its invariant when what it holds comes from where it should.
LEMMA EarlyKeeps ==
    ASSUME IInv, Stable, NEW r \in Request,
           pc[r] \notin {"sign", "remember", "persist_limit", "done", "dropped"},
           pc'[r] \notin {"sign", "remember", "persist_limit"},
           local'[r].signed_at = local[r].signed_at,
           local'[r].st = local[r].st \/ Backed(local[r].st, req[r].agent)',
           local'[r].prev = local[r].prev \/ Issued(local[r].prev, req[r].agent)',
           \A p \in before'[r] : p \in Request /\ pc[p] = "done" /\ ~ local[p].faulted,
           pc'[r] \in {"count", "insert", "persist_standing"} => req[r].kind = "register",
           pc'[r] \in {"cache_standing", "detail", "previous", "fetch_previous",
                       "cache_previous", "decide"} => local'[r].st # NoStanding,
           pc'[r] = "cache_previous" => local'[r].prev # NoLimit,
           pc'[r] = "decide" /\ ~ local'[r].faulted /\ Preceded(r)'
               => local'[r].prev # NoLimit
    PROVE  RequestInv(r)'
<1>1. ~ (local'[r].signed_at > 0)
    BY DEF IInv, RequestInv, PlaceInv
<1>2. Backed(local[r].st, req[r].agent)'
    BY DEF IInv, RequestInv, Backed, Stable
<1>3. Issued(local[r].prev, req[r].agent)'
    BY DEF IInv, RequestInv, Issued, Stable
<1>4. (pc[r] = "sign" \/ local[r].signed_at > 0 => Gated(r))'
    BY <1>1
<1>5. PlaceInv(r)'
    BY <1>1 DEF PlaceInv
<1>6. StoredInv(r)'
    BY <1>1 DEF StoredInv
<1>7. (\A p \in before[r] : pc[p] = "done" /\ ~ local[p].faulted)'
    BY DEF Stable
<1>8. CappedInv(r)'
    BY DEF CappedInv
<1> QED BY <1>2, <1>3, <1>4, <1>5, <1>6, <1>7, <1>8 DEF RequestInv

-----------------------------------------------------------------------------
(* register_principal.                                                      *)

\* Binding makes the registration one that has begun.
LEMMA BindKeeps ==
    ASSUME IInv, NEW r \in Request, Bind(r), restarts' = restarts,
           raced' \subseteq Request
    PROVE  IInv'
<1> USE DEF IInv, memory, rows
<1>1. local \in [Request -> LocalState] /\ pc \in [Request -> Place]
    BY TypeOfLocal
<1>2. local' = [local EXCEPT ![r] = local[r]] /\ local[r] \in LocalState
    BY <1>1 DEF Bind
<1>3. pc[r] = "idle" /\ Goto(r, "count") /\ req[r].kind = "register"
    BY DEF Bind, Arrive
<1>4. /\ before' \in [Request -> SUBSET Request]
      /\ \A q \in Request \ {r} : before'[q] = before[q]
      /\ \A p \in before'[r] : p \in Request /\ pc[p] = "done" /\ ~ local[p].faulted
    BY DEF Bind, Arrive, Answered, TypeOK
<1>5. /\ Stable
      /\ pc' \in [Request -> Place] /\ pc'[r] = "count"
      /\ local' \in [Request -> LocalState] /\ local'[r] = local[r]
      /\ RequestInv(r)' => \A q \in Request : RequestInv(q)'
    BY <1>2, <1>3, <1>4, OneHandler DEF Place, InFlight, Bind
<1>6. TypeOK'
    <2>1. bound' \in [Agent -> Principal \cup {NoPrincipal}]
        BY <1>3, RequestAgent DEF TypeOK, Bind
    <2>2. members' \in [Principal -> SUBSET Agent]
        BY <1>3, RequestAgent DEF TypeOK, Bind
    <2> QED BY <1>4, <1>5, <2>1, <2>2 DEF TypeOK, Bind, LocalState, Place
<1>7. SharedInv'
    BY <1>5, SharedAfter DEF Bind
<1>8. RequestInv(r)'
    BY <1>3, <1>4, <1>5, EarlyKeeps
<1> QED BY <1>5, <1>6, <1>7, <1>8

\* The standing that is built says what its own registration says.
LEMMA CountKeeps ==
    ASSUME IInv, NEW r \in Request, Count(r), restarts' = restarts,
           raced' \subseteq Request
    PROVE  IInv'
<1> USE DEF IInv, memory, rows, reputation
<1> DEFINE s == [principal_ref |-> req[r].principal,
                 kyc_tier |-> req[r].kyc_tier,
                 sanctions_clear |-> req[r].sanctions_clear,
                 agent_count |-> AtLeast(Cardinality(members[req[r].principal]), 1)]
           l == [local[r] EXCEPT !.st = s]
<1>1. local \in [Request -> LocalState] /\ pc \in [Request -> Place]
    BY TypeOfLocal
<1>2. pc[r] = "count" /\ Goto(r, "insert") /\ req[r].kind = "register"
    BY DEF Count, RequestInv, PlaceInv
<1>3. s \in Standing
    BY <1>2, RequestAgent, Counts DEF Standing
<1>4. /\ l \in LocalState /\ l.st = s /\ l.prev = local[r].prev
      /\ l.signed_at = local[r].signed_at /\ l.dec = local[r].dec
    <2> HIDE DEF s
    <2> QED BY <1>1, <1>3, HoldStanding
<1>5. local' = [local EXCEPT ![r] = l] /\ before' = before
    BY DEF Count, Hold
<1>6. req[r].principal = s.principal_ref /\ req[r].kyc_tier = s.kyc_tier
      /\ req[r].sanctions_clear = s.sanctions_clear
    OBVIOUS
<1> HIDE DEF s, l
<1>7. /\ Stable
      /\ pc' \in [Request -> Place] /\ pc'[r] = "insert"
      /\ local' \in [Request -> LocalState] /\ local'[r] = l
      /\ RequestInv(r)' => \A q \in Request : RequestInv(q)'
    BY <1>2, <1>4, <1>5, OneHandler DEF Place, InFlight, Count
<1>8. TypeOK'
    BY <1>7 DEF TypeOK, Count, LocalState, Place
<1>9. SharedInv'
    BY <1>7, SharedAfter DEF Count
<1>10. Backed(local[r].st, req[r].agent)'
    BY <1>2, <1>4, <1>6, <1>7 DEF Backed
<1>11. \A p \in before'[r] : p \in Request /\ pc[p] = "done" /\ ~ local[p].faulted
    BY <1>5 DEF RequestInv, TypeOK
<1>12. RequestInv(r)'
    BY <1>2, <1>4, <1>7, <1>10, <1>11, EarlyKeeps
<1> QED BY <1>7, <1>8, <1>9, <1>12

\* Memory receives the standing of a registration of that agent.
LEMMA InsertKeeps ==
    ASSUME IInv, NEW r \in Request, Insert(r), restarts' = restarts,
           raced' \subseteq Request
    PROVE  IInv'
<1> USE DEF IInv, memory, rows, reputation
<1>1. local \in [Request -> LocalState] /\ pc \in [Request -> Place]
    BY TypeOfLocal
<1>2. /\ pc[r] = "insert" /\ Goto(r, "persist_standing") /\ req[r].kind = "register"
      /\ local' = local /\ before' = before
    BY DEF Insert, RequestInv, PlaceInv
<1>3. local' = [local EXCEPT ![r] = local[r]] /\ local[r] \in LocalState
    BY <1>1, <1>2
<1>4. /\ Stable
      /\ pc' \in [Request -> Place] /\ pc'[r] = "persist_standing"
      /\ local' \in [Request -> LocalState] /\ local'[r] = local[r]
      /\ RequestInv(r)' => \A q \in Request : RequestInv(q)'
    BY <1>2, <1>3, OneHandler DEF Place, InFlight, Insert
<1>5. /\ req[r].agent \in Agent
      /\ standings' = [standings EXCEPT ![req[r].agent] = local[r].st]
      /\ local[r].st \in Standing \cup {NoStanding}
    BY <1>3, RequestAgent DEF Insert, LocalState
<1>6. TypeOK'
    BY <1>4, <1>5 DEF TypeOK, Insert, LocalState, Place
<1>7. ASSUME NEW a \in Agent
      PROVE  standings'[a] = standings[a] \/ Backed(standings[a], a)'
    <2>1. CASE a = req[r].agent
        BY SMTT(40), <1>4, <1>5, <2>1 DEF TypeOK, RequestInv, Backed, Stable
    <2> QED BY <1>5, <2>1 DEF TypeOK
<1>8. SharedInv'
    BY <1>4, <1>7, SharedAfter DEF Insert
<1>9. \A p \in before'[r] : p \in Request /\ pc[p] = "done" /\ ~ local[p].faulted
    BY <1>2 DEF RequestInv, TypeOK
<1>10. RequestInv(r)'
    BY <1>2, <1>4, <1>9, EarlyKeeps
<1> QED BY <1>4, <1>6, <1>8, <1>10

\* So does the row, or nothing changes.
LEMMA PersistStandingKeeps ==
    ASSUME IInv, NEW r \in Request, PersistStanding(r), restarts' = restarts,
           raced' \subseteq Request
    PROVE  IInv'
<1> USE DEF IInv, memory, rows, reputation
<1> DEFINE l == local'[r]
<1>1. local \in [Request -> LocalState] /\ pc \in [Request -> Place]
    BY TypeOfLocal
<1>2. pc[r] = "persist_standing" /\ Goto(r, "done") /\ before' = before
    BY DEF PersistStanding
<1>3. /\ l \in LocalState /\ l.st = local[r].st /\ l.prev = local[r].prev
      /\ l.signed_at = local[r].signed_at /\ l.dec = local[r].dec
      /\ local' = [local EXCEPT ![r] = l]
    <2>1. CASE local' = local
        BY <1>1, <2>1
    <2>2. CASE Hold(r, [local[r] EXCEPT !.faulted = TRUE])
        <3> DEFINE m == [local[r] EXCEPT !.faulted = TRUE]
        <3>1. /\ m \in LocalState /\ m.st = local[r].st /\ m.prev = local[r].prev
              /\ m.signed_at = local[r].signed_at /\ m.dec = local[r].dec
            BY <1>1, HoldFault
        <3>2. local' = [local EXCEPT ![r] = m]
            BY <2>2 DEF Hold
        <3> HIDE DEF m
        <3> QED BY <1>1, <3>1, <3>2
    <2> QED BY <2>1, <2>2 DEF PersistStanding
<1> HIDE DEF l
<1>4. /\ Stable
      /\ pc' \in [Request -> Place] /\ pc'[r] = "done"
      /\ local' \in [Request -> LocalState] /\ local'[r] = l
      /\ RequestInv(r)' => \A q \in Request : RequestInv(q)'
    BY <1>2, <1>3, OneHandler DEF Place, InFlight, PersistStanding
<1>5. /\ req[r].agent \in Agent
      /\ \/ standing_rows' = standing_rows
         \/ standing_rows' = [standing_rows EXCEPT ![req[r].agent] = local[r].st]
      /\ local[r].st \in Standing \cup {NoStanding}
      /\ faults' \in 0..MaxFaults
    <2>1. faults' \in 0..MaxFaults
        BY IssuanceAssumption DEF PersistStanding, Fault, TypeOK
    <2> QED BY <1>1, <2>1, RequestAgent DEF PersistStanding, LocalState
<1>6. TypeOK'
    BY <1>2, <1>4, <1>5 DEF TypeOK, PersistStanding, LocalState, Place
<1>7. ASSUME NEW a \in Agent
      PROVE  standing_rows'[a] = standing_rows[a] \/ Backed(standing_rows[a], a)'
    <2>1. Backed(local[r].st, req[r].agent)'
        BY <1>3, <1>4 DEF RequestInv, Backed, Stable
    <2>2. \/ standing_rows'[a] = standing_rows[a]
          \/ a = req[r].agent /\ standing_rows'[a] = local'[r].st
        BY <1>3, <1>4, <1>5 DEF TypeOK
    <2> QED BY <2>1, <2>2 DEF Backed
<1>8. SharedInv'
    BY <1>4, <1>7, SharedAfter DEF PersistStanding
<1>9. \A p \in before'[r] : p \in Request /\ pc[p] = "done" /\ ~ local[p].faulted
    BY <1>2 DEF RequestInv, TypeOK
<1>10. RequestInv(r)'
    BY <1>2, <1>3, <1>4, <1>9, EarlyKeeps
<1> QED BY <1>4, <1>6, <1>8, <1>10

-----------------------------------------------------------------------------
(* issue_limit, up to the decision.                                         *)

\* What precedes a request for a limit has been answered.
LEMMA BeginKeeps ==
    ASSUME IInv, NEW r \in Request, Begin(r), restarts' = restarts,
           raced' \subseteq Request
    PROVE  IInv'
<1> USE DEF IInv, memory, rows, reputation
<1>1. local \in [Request -> LocalState] /\ pc \in [Request -> Place]
    BY TypeOfLocal
<1>2. local' = [local EXCEPT ![r] = local[r]] /\ local[r] \in LocalState
    BY <1>1 DEF Begin
<1>3. pc[r] = "idle" /\ Goto(r, "standing")
    BY DEF Begin, Arrive
<1>4. /\ before' \in [Request -> SUBSET Request]
      /\ \A q \in Request \ {r} : before'[q] = before[q]
      /\ \A p \in before'[r] : p \in Request /\ pc[p] = "done" /\ ~ local[p].faulted
    BY DEF Begin, Arrive, Answered, TypeOK
<1>5. /\ Stable
      /\ pc' \in [Request -> Place] /\ pc'[r] = "standing"
      /\ local' \in [Request -> LocalState] /\ local'[r] = local[r]
      /\ RequestInv(r)' => \A q \in Request : RequestInv(q)'
    BY <1>2, <1>3, <1>4, OneHandler DEF Place, InFlight, Begin
<1>6. TypeOK'
    BY <1>4, <1>5 DEF TypeOK, Begin, LocalState, Place
<1>7. SharedInv'
    BY <1>5, SharedAfter DEF Begin
<1>8. RequestInv(r)'
    BY <1>3, <1>4, <1>5, EarlyKeeps
<1> QED BY <1>5, <1>6, <1>7, <1>8

\* A standing read from memory is backed.
LEMMA ReadStandingKeeps ==
    ASSUME IInv, NEW r \in Request, ReadStanding(r), restarts' = restarts,
           raced' \subseteq Request
    PROVE  IInv'
<1> USE DEF IInv, memory, rows, reputation
<1> DEFINE s == standings[req[r].agent]
           l == [local[r] EXCEPT !.st = s]
           where == IF s = NoStanding THEN "fetch_standing" ELSE "detail"
<1>1. local \in [Request -> LocalState] /\ pc \in [Request -> Place]
    BY TypeOfLocal
<1>2. /\ pc[r] = "standing" /\ Goto(r, where) /\ before' = before
      /\ local' = [local EXCEPT ![r] = l]
    BY DEF ReadStanding, Hold
<1>3. s \in Standing \cup {NoStanding} /\ Backed(s, req[r].agent)
    BY RequestAgent DEF TypeOK, SharedInv
<1>4. where \in Place /\ where \in {"fetch_standing", "detail"}
      /\ (where = "detail" => s # NoStanding)
    BY DEF Place, InFlight
<1> HIDE DEF s, where
<1>5. /\ l \in LocalState /\ l.st = s /\ l.prev = local[r].prev
      /\ l.signed_at = local[r].signed_at /\ l.dec = local[r].dec
    BY <1>1, <1>3, HoldStanding
<1> HIDE DEF l
<1>6. /\ Stable
      /\ pc' \in [Request -> Place] /\ pc'[r] = where
      /\ local' \in [Request -> LocalState] /\ local'[r] = l
      /\ RequestInv(r)' => \A q \in Request : RequestInv(q)'
    BY <1>2, <1>4, <1>5, OneHandler DEF ReadStanding
<1>7. TypeOK'
    BY <1>2, <1>6 DEF TypeOK, ReadStanding, LocalState, Place
<1>8. SharedInv'
    BY <1>6, SharedAfter DEF ReadStanding
<1>9. \A p \in before'[r] : p \in Request /\ pc[p] = "done" /\ ~ local[p].faulted
    BY <1>2 DEF RequestInv, TypeOK
<1>10. Backed(local[r].st, req[r].agent)'
    BY <1>3, <1>5, <1>6 DEF Backed, Stable
<1>11. RequestInv(r)'
    BY <1>2, <1>4, <1>5, <1>6, <1>9, <1>10, EarlyKeeps
<1> QED BY <1>6, <1>7, <1>8, <1>11

\* A fetched row is backed; counting anew changes nothing that backs it.
LEMMA FetchStandingKeeps ==
    ASSUME IInv, NEW r \in Request, FetchStanding(r), restarts' = restarts,
           raced' \subseteq Request
    PROVE  IInv'
<1> USE DEF IInv, memory, rows, reputation
<1> DEFINE a == req[r].agent
           row == standing_rows[a]
           s == [row EXCEPT !.agent_count = RowCount(a)]
           l == local'[r]
           where == pc'[r]
<1>1. local \in [Request -> LocalState] /\ pc \in [Request -> Place]
    BY TypeOfLocal
<1>2. pc[r] = "fetch_standing" /\ before' = before /\ a \in Agent
    BY RequestAgent DEF FetchStanding
<1>3. ASSUME row # NoStanding
      PROVE  /\ s \in Standing /\ s.principal_ref = row.principal_ref
             /\ s.kyc_tier = row.kyc_tier /\ s.sanctions_clear = row.sanctions_clear
             /\ Backed(row, a)
    <2>1. row \in Standing /\ RowCount(a) \in Nat \ {0} /\ Backed(row, a)
        BY <1>2, <1>3, Counts DEF TypeOK, SharedInv
    <2> HIDE DEF row
    <2> QED BY <2>1 DEF Standing
<1>4. /\ l \in LocalState /\ l.prev = local[r].prev
      /\ l.signed_at = local[r].signed_at /\ l.dec = local[r].dec
      /\ local' = [local EXCEPT ![r] = l]
      /\ where \in {"cache_standing", "done"} /\ Goto(r, where)
      /\ \/ l.st = local[r].st /\ where = "done"
         \/ row # NoStanding /\ l.st = s
    <2>1. CASE local' = local /\ Goto(r, "done")
        BY <1>1, <2>1 DEF Goto
    <2>2. CASE row # NoStanding /\ Hold(r, [local[r] EXCEPT !.st = s]) /\ Goto(r, "cache_standing")
        <3> DEFINE m == [local[r] EXCEPT !.st = s]
        <3> HIDE DEF s
        <3>1. /\ m \in LocalState /\ m.st = s /\ m.prev = local[r].prev
              /\ m.signed_at = local[r].signed_at /\ m.dec = local[r].dec
            BY <1>1, <1>3, <2>2, HoldStanding
        <3>2. local' = [local EXCEPT ![r] = m]
            BY <2>2 DEF Hold
        <3> HIDE DEF m
        <3> QED BY <1>1, <2>2, <3>1, <3>2 DEF Goto
    <2> QED BY <2>1, <2>2 DEF FetchStanding
<1> HIDE DEF l, where, s
<1>5. /\ Stable
      /\ pc' \in [Request -> Place] /\ pc'[r] = where
      /\ local' \in [Request -> LocalState] /\ local'[r] = l
      /\ RequestInv(r)' => \A q \in Request : RequestInv(q)'
    BY <1>2, <1>4, OneHandler DEF Place, InFlight, FetchStanding
<1>6. faults' \in 0..MaxFaults
    BY IssuanceAssumption DEF FetchStanding, Fault, TypeOK
<1>7. TypeOK'
    BY <1>2, <1>5, <1>6 DEF TypeOK, FetchStanding, LocalState, Place
<1>8. SharedInv'
    BY <1>5, SharedAfter DEF FetchStanding
<1>9. \A p \in before'[r] : p \in Request /\ pc[p] = "done" /\ ~ local[p].faulted
    BY <1>2 DEF RequestInv, TypeOK
<1>10. local'[r].st = local[r].st \/ Backed(local[r].st, req[r].agent)'
    BY <1>3, <1>4, <1>5 DEF Backed, Stable
<1>11. where = "cache_standing" => l.st # NoStanding
    BY <1>3, <1>4, IssuanceAssumption
<1>12. RequestInv(r)'
    BY <1>2, <1>4, <1>5, <1>9, <1>10, <1>11, EarlyKeeps
<1> QED BY <1>5, <1>7, <1>8, <1>12

\* What was backed when it was fetched is backed when it is cached.
LEMMA CacheStandingKeeps ==
    ASSUME IInv, NEW r \in Request, CacheStanding(r), restarts' = restarts,
           raced' \subseteq Request
    PROVE  IInv'
<1> USE DEF IInv, memory, rows, reputation
<1>1. local \in [Request -> LocalState] /\ pc \in [Request -> Place]
    BY TypeOfLocal
<1>2. /\ pc[r] = "cache_standing" /\ Goto(r, "detail") /\ local[r].st # NoStanding
      /\ local' = local /\ before' = before
    BY DEF CacheStanding, RequestInv, PlaceInv
<1>3. local' = [local EXCEPT ![r] = local[r]] /\ local[r] \in LocalState
    BY <1>1, <1>2
<1>4. /\ Stable
      /\ pc' \in [Request -> Place] /\ pc'[r] = "detail"
      /\ local' \in [Request -> LocalState] /\ local'[r] = local[r]
      /\ RequestInv(r)' => \A q \in Request : RequestInv(q)'
    BY <1>2, <1>3, OneHandler DEF Place, InFlight, CacheStanding
<1>5. /\ req[r].agent \in Agent
      /\ standings' = [standings EXCEPT ![req[r].agent] = local[r].st]
      /\ local[r].st \in Standing \cup {NoStanding}
    BY <1>3, RequestAgent DEF CacheStanding, LocalState
<1>6. TypeOK'
    BY <1>4, <1>5 DEF TypeOK, CacheStanding, LocalState, Place
<1>7. ASSUME NEW a \in Agent
      PROVE  standings'[a] = standings[a] \/ Backed(standings[a], a)'
    <2>1. CASE a = req[r].agent
        BY SMTT(40), <1>4, <1>5, <2>1 DEF TypeOK, RequestInv, Backed, Stable
    <2> QED BY <1>5, <2>1 DEF TypeOK
<1>8. SharedInv'
    BY <1>4, <1>7, SharedAfter DEF CacheStanding
<1>9. \A p \in before'[r] : p \in Request /\ pc[p] = "done" /\ ~ local[p].faulted
    BY <1>2 DEF RequestInv, TypeOK
<1>10. RequestInv(r)'
    BY <1>2, <1>4, <1>9, EarlyKeeps
<1> QED BY <1>4, <1>6, <1>8, <1>10

\* Reputation is read; nothing else is.
LEMMA ReadDetailKeeps ==
    ASSUME IInv, NEW r \in Request, ReadDetail(r), restarts' = restarts,
           raced' \subseteq Request
    PROVE  IInv'
<1> USE DEF IInv, memory, rows, reputation
<1>1. local \in [Request -> LocalState] /\ pc \in [Request -> Place]
    BY TypeOfLocal
<1>2. /\ pc[r] = "detail" /\ Goto(r, "previous") /\ local[r].st # NoStanding
      /\ before' = before
    BY DEF ReadDetail, RequestInv, PlaceInv
<1>3. PICK rep \in Reputation : local' = [local EXCEPT ![r] = [local[r] EXCEPT !.rep = rep]]
    <2>1. req[r].agent \in Agent
        BY RequestAgent
    <2>2. PICK s \in (IF largest_single[req[r].agent] = 0 THEN {0} ELSE Score) :
             Hold(r, [local[r] EXCEPT !.rep =
                        [principal_ref |-> bound[req[r].agent], score |-> s,
                         largest_single |-> largest_single[req[r].agent]]])
        BY DEF ReadDetail
    <2>3. [principal_ref |-> bound[req[r].agent], score |-> s,
           largest_single |-> largest_single[req[r].agent]] \in Reputation
        BY <2>1, <2>2 DEF Reputation, TypeOK
    <2> QED BY <2>2, <2>3 DEF Hold
<1> DEFINE l == [local[r] EXCEPT !.rep = rep]
<1>4. /\ l \in LocalState /\ l.st = local[r].st /\ l.prev = local[r].prev
      /\ l.signed_at = local[r].signed_at /\ l.dec = local[r].dec
    BY <1>1, HoldReputation
<1>5. local' = [local EXCEPT ![r] = l]
    BY <1>3
<1> HIDE DEF l
<1>6. /\ Stable
      /\ pc' \in [Request -> Place] /\ pc'[r] = "previous"
      /\ local' \in [Request -> LocalState] /\ local'[r] = l
      /\ RequestInv(r)' => \A q \in Request : RequestInv(q)'
    BY <1>2, <1>4, <1>5, OneHandler DEF Place, InFlight, ReadDetail
<1>7. TypeOK'
    BY <1>6 DEF TypeOK, ReadDetail, LocalState, Place
<1>8. SharedInv'
    BY <1>6, SharedAfter DEF ReadDetail
<1>9. \A p \in before'[r] : p \in Request /\ pc[p] = "done" /\ ~ local[p].faulted
    BY <1>2 DEF RequestInv, TypeOK
<1>10. RequestInv(r)'
    BY <1>2, <1>4, <1>6, <1>9, EarlyKeeps
<1> QED BY <1>6, <1>7, <1>8, <1>10

\* A limit that precedes request r has its row when r is decided.
LEMMA PrecededHasRow ==
    ASSUME IInv, NEW r \in Request, Preceded(r)
    PROVE  limit_rows[req[r].agent] # NoLimit
<1>1. PICK p \in before[r] : local[p].signed_at > 0 /\ req[p].agent = req[r].agent
    BY DEF Preceded
<1>2. p \in Request /\ pc[p] = "done" /\ ~ local[p].faulted
    BY <1>1 DEF IInv, TypeOK, RequestInv
<1> QED BY <1>1, <1>2 DEF IInv, RequestInv, StoredInv

\* What precedes a request that has arrived does not change.
LEMMA PrecededStays ==
    ASSUME IInv, Stable, NEW r \in Request, before' = before, Preceded(r)'
    PROVE  Preceded(r)
<1>1. PICK p \in before[r] : local'[p].signed_at > 0 /\ req[p].agent = req[r].agent
    BY DEF Preceded
<1>2. p \in Request /\ pc[p] = "done"
    BY <1>1 DEF IInv, TypeOK, RequestInv
<1> QED BY <1>1, <1>2 DEF Preceded, Stable

\* A previous limit found in memory was issued to the agent.
LEMMA ReadPreviousKeeps ==
    ASSUME IInv, NEW r \in Request, ReadPrevious(r), restarts' = restarts,
           raced' \subseteq Request
    PROVE  IInv'
<1> USE DEF IInv, memory, rows, reputation
<1> DEFINE v == last_limits[req[r].agent]
           l == [local[r] EXCEPT !.prev = v]
           where == IF v = NoLimit THEN "fetch_previous" ELSE "decide"
<1>1. local \in [Request -> LocalState] /\ pc \in [Request -> Place]
    BY TypeOfLocal
<1>2. /\ pc[r] = "previous" /\ Goto(r, where) /\ before' = before
      /\ local[r].st # NoStanding
      /\ local' = [local EXCEPT ![r] = l]
    BY DEF ReadPrevious, Hold, RequestInv, PlaceInv
<1>3. v \in Nat \cup {NoLimit} /\ Issued(v, req[r].agent)
    BY RequestAgent DEF TypeOK, SharedInv
<1>4. where \in Place /\ where \in {"fetch_previous", "decide"}
      /\ (where = "decide" => v # NoLimit)
    BY DEF Place, InFlight
<1> HIDE DEF v, where
<1>5. /\ l \in LocalState /\ l.st = local[r].st /\ l.prev = v
      /\ l.signed_at = local[r].signed_at /\ l.dec = local[r].dec
    BY <1>1, <1>3, HoldPrevious
<1> HIDE DEF l
<1>6. /\ Stable
      /\ pc' \in [Request -> Place] /\ pc'[r] = where
      /\ local' \in [Request -> LocalState] /\ local'[r] = l
      /\ RequestInv(r)' => \A q \in Request : RequestInv(q)'
    BY <1>2, <1>4, <1>5, OneHandler DEF ReadPrevious
<1>7. TypeOK'
    BY <1>2, <1>6 DEF TypeOK, ReadPrevious, LocalState, Place
<1>8. SharedInv'
    BY <1>6, SharedAfter DEF ReadPrevious
<1>9. \A p \in before'[r] : p \in Request /\ pc[p] = "done" /\ ~ local[p].faulted
    BY <1>2 DEF RequestInv, TypeOK
<1>10. Issued(local[r].prev, req[r].agent)'
    BY <1>3, <1>5, <1>6 DEF Issued, Stable
<1>11. RequestInv(r)'
    BY <1>2, <1>4, <1>5, <1>6, <1>9, <1>10, EarlyKeeps
<1> QED BY <1>6, <1>7, <1>8, <1>11

\* No row means that nothing precedes the request, unless the call failed.
LEMMA FetchPreviousKeeps ==
    ASSUME IInv, NEW r \in Request, FetchPrevious(r), restarts' = restarts,
           raced' \subseteq Request
    PROVE  IInv'
<1> USE DEF IInv, memory, rows, reputation
<1> DEFINE a == req[r].agent
           row == limit_rows[a]
           l == local'[r]
           where == pc'[r]
<1>1. local \in [Request -> LocalState] /\ pc \in [Request -> Place]
    BY TypeOfLocal
<1>2. /\ pc[r] = "fetch_previous" /\ before' = before /\ a \in Agent
      /\ local[r].st # NoStanding
    BY RequestAgent DEF FetchPrevious, RequestInv, PlaceInv
<1>3. row # NoLimit => /\ row.lim_window \in Nat /\ row.lim_window # NoLimit
                       /\ Issued(row.lim_window, a)
    BY <1>2, UnderwritingAssumption DEF TypeOK, SharedInv, LimitRow
<1>4. /\ l \in LocalState /\ l.st = local[r].st
      /\ l.signed_at = local[r].signed_at /\ l.dec = local[r].dec
      /\ local' = [local EXCEPT ![r] = l]
      /\ where \in {"cache_previous", "decide"} /\ Goto(r, where)
      /\ \/ row # NoLimit /\ l.prev = row.lim_window /\ where = "cache_previous"
         \/ /\ where = "decide" /\ l.prev = local[r].prev
            /\ row = NoLimit \/ l.faulted
    <2>1. CASE local' = local /\ Goto(r, "decide") /\ row = NoLimit
        BY <1>1, <2>1 DEF Goto
    <2>2. CASE row # NoLimit /\ Hold(r, [local[r] EXCEPT !.prev = row.lim_window])
               /\ Goto(r, "cache_previous")
        <3> DEFINE m == [local[r] EXCEPT !.prev = row.lim_window]
        <3> HIDE DEF row
        <3>1. /\ m \in LocalState /\ m.st = local[r].st /\ m.prev = row.lim_window
              /\ m.signed_at = local[r].signed_at /\ m.dec = local[r].dec
            BY <1>1, <1>3, <2>2, HoldPrevious
        <3>2. local' = [local EXCEPT ![r] = m]
            BY <2>2 DEF Hold
        <3> HIDE DEF m
        <3> QED BY <1>1, <2>2, <3>1, <3>2 DEF Goto
    <2>3. CASE Hold(r, [local[r] EXCEPT !.faulted = TRUE]) /\ Goto(r, "decide")
        <3> DEFINE m == [local[r] EXCEPT !.faulted = TRUE]
        <3>1. /\ m \in LocalState /\ m.st = local[r].st /\ m.prev = local[r].prev
              /\ m.signed_at = local[r].signed_at /\ m.dec = local[r].dec
              /\ m.faulted = TRUE
            BY <1>1, HoldFault
        <3>2. local' = [local EXCEPT ![r] = m]
            BY <2>3 DEF Hold
        <3> HIDE DEF m
        <3> QED BY <1>1, <2>3, <3>1, <3>2 DEF Goto
    <2> QED BY <2>1, <2>2, <2>3 DEF FetchPrevious
<1> HIDE DEF l, where
<1>5. /\ Stable
      /\ pc' \in [Request -> Place] /\ pc'[r] = where
      /\ local' \in [Request -> LocalState] /\ local'[r] = l
      /\ RequestInv(r)' => \A q \in Request : RequestInv(q)'
    BY <1>2, <1>4, OneHandler DEF Place, InFlight, FetchPrevious
<1>6. faults' \in 0..MaxFaults
    BY IssuanceAssumption DEF FetchPrevious, Fault, TypeOK
<1>7. TypeOK'
    BY <1>2, <1>5, <1>6 DEF TypeOK, FetchPrevious, LocalState, Place
<1>8. SharedInv'
    BY <1>5, SharedAfter DEF FetchPrevious
<1>9. \A p \in before'[r] : p \in Request /\ pc[p] = "done" /\ ~ local[p].faulted
    BY <1>2 DEF RequestInv, TypeOK
<1>10. local'[r].prev = local[r].prev \/ Issued(local[r].prev, req[r].agent)'
    BY <1>3, <1>4, <1>5 DEF Issued, Stable
<1>11. where = "decide" /\ ~ l.faulted => ~ Preceded(r)'
    BY <1>2, <1>4, <1>5, PrecededHasRow, PrecededStays
<1>12. where = "cache_previous" => l.prev # NoLimit
    BY <1>3, <1>4
<1>13. RequestInv(r)'
    BY <1>2, <1>4, <1>5, <1>9, <1>10, <1>11, <1>12, EarlyKeeps
<1> QED BY <1>5, <1>7, <1>8, <1>13

\* What was issued when it was fetched is issued when it is cached.
LEMMA CachePreviousKeeps ==
    ASSUME IInv, NEW r \in Request, CachePrevious(r), restarts' = restarts,
           raced' \subseteq Request
    PROVE  IInv'
<1> USE DEF IInv, memory, rows, reputation
<1>1. local \in [Request -> LocalState] /\ pc \in [Request -> Place]
    BY TypeOfLocal
<1>2. /\ pc[r] = "cache_previous" /\ Goto(r, "decide") /\ local[r].st # NoStanding
      /\ local[r].prev # NoLimit /\ local' = local /\ before' = before
    BY DEF CachePrevious, RequestInv, PlaceInv
<1>3. local' = [local EXCEPT ![r] = local[r]] /\ local[r] \in LocalState
    BY <1>1, <1>2
<1>4. /\ Stable
      /\ pc' \in [Request -> Place] /\ pc'[r] = "decide"
      /\ local' \in [Request -> LocalState] /\ local'[r] = local[r]
      /\ RequestInv(r)' => \A q \in Request : RequestInv(q)'
    BY <1>2, <1>3, OneHandler DEF Place, InFlight, CachePrevious
<1>5. /\ req[r].agent \in Agent
      /\ last_limits' = [last_limits EXCEPT ![req[r].agent] = local[r].prev]
      /\ local[r].prev \in Nat \cup {NoLimit}
    BY <1>3, RequestAgent DEF CachePrevious, LocalState
<1>6. TypeOK'
    BY <1>4, <1>5 DEF TypeOK, CachePrevious, LocalState, Place
<1>7. ASSUME NEW a \in Agent
      PROVE  last_limits'[a] = last_limits[a] \/ Issued(last_limits[a], a)'
    <2>1. CASE a = req[r].agent
        BY SMTT(40), <1>4, <1>5, <2>1 DEF TypeOK, RequestInv, Issued, Stable
    <2> QED BY <1>5, <2>1 DEF TypeOK
<1>8. SharedInv'
    BY <1>4, <1>7, SharedAfter DEF CachePrevious
<1>9. \A p \in before'[r] : p \in Request /\ pc[p] = "done" /\ ~ local[p].faulted
    BY <1>2 DEF RequestInv, TypeOK
<1>10. RequestInv(r)'
    BY <1>2, <1>4, <1>9, EarlyKeeps
<1> QED BY <1>4, <1>6, <1>8, <1>10

-----------------------------------------------------------------------------
(* issue_limit, from the decision on.                                       *)

\* An issued decision passes the gates and is within the ceiling, and one step
\* at most above the previous limit it was given.
LEMMA DecisionOf ==
    ASSUME IInv, NEW r \in Request, local[r].st # NoStanding,
           NEW d, d = Underwrite(local[r].st, local[r].rep, local[r].prev)
    PROVE  /\ d \in Decision
           /\ d.lim_window <= ceiling[local[r].st.kyc_tier]
           /\ local[r].prev # NoLimit => d.lim_window <= Allowed(local[r].prev)
           /\ IsIssued(d) => /\ local[r].st.sanctions_clear
                             /\ local[r].st.kyc_tier # "unverified"
<1>1. local[r] \in LocalState
    BY TypeOfLocal DEF IInv
<1>2. Inputs(local[r].st, local[r].rep, local[r].prev)
    <2>1. local[r].st \in Standing /\ local[r].rep \in Reputation
          /\ local[r].prev \in Nat \cup {NoLimit}
        BY <1>1 DEF LocalState
    <2>2. local[r].rep.score \in 0..1000
        <3>1. \A s \in Score \cup {0} : s \in 0..1000
            BY IssuanceAssumption
        <3>2. local[r].rep.score \in Score \cup {0}
            BY <2>1 DEF Reputation
        <3> QED BY ONLY <3>1, <3>2
    <2> QED BY <2>1, <2>2 DEF Inputs, StandingFields, ReputationFields, Standing, Reputation
<1> QED BY <1>2, DecisionIsBounded DEF Decision, Passes

\* The decision is gated by the standing, and capped by the previous limit.
LEMMA DecideKeeps ==
    ASSUME IInv, NEW r \in Request, Decide(r), restarts' = restarts,
           raced' \subseteq Request
    PROVE  IInv'
<1> USE DEF IInv, memory, rows, reputation
<1> DEFINE d == Underwrite(local[r].st, local[r].rep, local[r].prev)
<1>1. local \in [Request -> LocalState] /\ pc \in [Request -> Place]
    BY TypeOfLocal
<1>2. /\ pc[r] = "decide" /\ before' = before /\ local[r].st # NoStanding
      /\ ~ (local[r].signed_at > 0)
    BY DEF Decide, RequestInv, PlaceInv
<1>3. /\ d \in Decision
      /\ d.lim_window <= ceiling[local[r].st.kyc_tier]
      /\ local[r].prev # NoLimit => d.lim_window <= Allowed(local[r].prev)
      /\ IsIssued(d) => local[r].st.sanctions_clear /\ local[r].st.kyc_tier # "unverified"
    <2> HIDE DEF IInv
    <2> QED BY <1>2, DecisionOf
<1>4. \A p \in before'[r] : p \in Request /\ pc[p] = "done" /\ ~ local[p].faulted
    BY <1>2 DEF RequestInv, TypeOK
<1>5. CASE IsIssued(d)
    <2> DEFINE l == [local[r] EXCEPT !.dec = d]
    <2>1. /\ Goto(r, "sign") /\ local' = [local EXCEPT ![r] = l]
          /\ mandates' = [mandates EXCEPT ![req[r].agent] = d]
        BY <1>5 DEF Decide, Hold
    <2> HIDE DEF d
    <2>2. /\ l \in LocalState /\ l.st = local[r].st /\ l.prev = local[r].prev
          /\ l.signed_at = local[r].signed_at /\ l.dec = d /\ l.faulted = local[r].faulted
        BY <1>1, <1>3, HoldDecision
    <2> HIDE DEF l
    <2>3. /\ Stable
          /\ pc' \in [Request -> Place] /\ pc'[r] = "sign"
          /\ local' \in [Request -> LocalState] /\ local'[r] = l
          /\ RequestInv(r)' => \A q \in Request : RequestInv(q)'
        BY <1>2, <2>1, <2>2, OneHandler DEF Place, InFlight, Decide
    <2>4. TypeOK'
        BY <1>3, <2>1, <2>3, RequestAgent DEF TypeOK, Decide, LocalState, Place
    <2>5. SharedInv'
        BY <2>3, SharedAfter DEF Decide
    <2>6. Backed(local[r].st, req[r].agent)'
        BY <2>2, <2>3 DEF RequestInv, Backed, Stable
    <2>7. Issued(local[r].prev, req[r].agent)'
        BY <2>2, <2>3 DEF RequestInv, Issued, Stable
    <2>8. Gated(r)'
        BY <1>2, <1>3, <1>5, <2>2, <2>3 DEF Gated, Window
    <2>9. PlaceInv(r)' /\ StoredInv(r)'
        BY <1>2, <2>2, <2>3 DEF PlaceInv, StoredInv
    <2>10. ASSUME ~ local'[r].faulted, Preceded(r)'
           PROVE  \E s \in Request : /\ local'[s].signed_at > 0
                                     /\ req[s].agent = req[r].agent
                                     /\ Window(r)' <= Allowed(Window(s)')
        <3>1. Preceded(r)
            BY <1>2, <2>3, <2>10, PrecededStays
        <3>2. local[r].prev # NoLimit
            BY <1>2, <2>2, <2>3, <2>10, <3>1 DEF RequestInv, CappedInv
        <3>3. PICK s \in Request : /\ local[s].signed_at > 0
                                   /\ req[s].agent = req[r].agent
                                   /\ local[s].dec.lim_window = local[r].prev
            BY <3>2 DEF RequestInv, Issued
        <3>4. local'[s].signed_at > 0 /\ Window(s)' = local[r].prev
            BY <2>3, <3>3 DEF Stable, Window
        <3>5. Window(r)' = d.lim_window
            BY <2>2, <2>3 DEF Window
        <3> QED BY <1>3, <3>2, <3>3, <3>4, <3>5
    <2>11. CappedInv(r)'
        BY <2>3, <2>10 DEF CappedInv, Window, Allowed, AtLeast
    <2>12. RequestInv(r)'
        BY <1>4, <2>3, <2>6, <2>7, <2>8, <2>9, <2>11 DEF RequestInv, Stable
    <2> QED BY <2>3, <2>4, <2>5, <2>12
<1>6. CASE ~ IsIssued(d)
    <2>1. Goto(r, "done") /\ local' = [local EXCEPT ![r] = Blank] /\ mandates' = mandates
        BY <1>6 DEF Decide, Hold
    <2>2. /\ Stable
          /\ pc' \in [Request -> Place] /\ pc'[r] = "done"
          /\ local' \in [Request -> LocalState] /\ local'[r] = Blank
          /\ RequestInv(r)' => \A q \in Request : RequestInv(q)'
        BY <1>2, <2>1, BlankFields, OneHandler DEF Place, InFlight, Decide
    <2>3. TypeOK'
        BY <2>1, <2>2 DEF TypeOK, Decide, LocalState, Place
    <2>4. SharedInv'
        BY <2>2, SharedAfter DEF Decide
    <2>5. local[r].signed_at = 0
        BY <1>1, <1>2 DEF LocalState
    <2>6. Backed(local[r].st, req[r].agent)' /\ Issued(local[r].prev, req[r].agent)'
        BY <2>2, BlankFields DEF Backed, Issued
    <2>7. RequestInv(r)'
        BY <1>2, <1>4, <2>2, <2>5, <2>6, BlankFields, EarlyKeeps
    <2> QED BY <2>2, <2>3, <2>4, <2>7
<1> QED BY <1>5, <1>6

\* Signing makes the decision one that was issued.
LEMMA SignKeeps ==
    ASSUME IInv, NEW r \in Request, Sign(r), restarts' = restarts,
           raced' \subseteq Request
    PROVE  IInv'
<1> USE DEF IInv, memory, rows, reputation
<1> DEFINE prn == PrincipalOf(req[r].agent)
           l == [local[r] EXCEPT !.prn = prn, !.signed_at = signed + 1]
<1>1. local \in [Request -> LocalState] /\ pc \in [Request -> Place]
    BY TypeOfLocal
<1>2. /\ pc[r] = "sign" /\ Goto(r, "remember") /\ before' = before
      /\ signed \in Nat /\ signed' = signed + 1
      /\ local' = [local EXCEPT ![r] = l]
      /\ ~ (local[r].signed_at > 0)
    BY DEF Sign, Hold, TypeOK, RequestInv, PlaceInv
<1>3. /\ l \in LocalState /\ l.st = local[r].st /\ l.prev = local[r].prev
      /\ l.signed_at = signed + 1 /\ l.dec = local[r].dec
    <2>1. prn \in Principal \cup {NoPrincipal}
        BY RequestAgent DEF PrincipalOf, TypeOK, Standing
    <2>2. local[r] \in LocalState /\ signed + 1 \in Nat
        BY <1>1, <1>2
    <2> HIDE DEF prn, IInv
    <2> QED BY <2>1, <2>2 DEF LocalState
<1> HIDE DEF l
<1>4. /\ Stable
      /\ pc' \in [Request -> Place] /\ pc'[r] = "remember"
      /\ local' \in [Request -> LocalState] /\ local'[r] = l
      /\ RequestInv(r)' => \A q \in Request : RequestInv(q)'
    BY <1>2, <1>3, OneHandler DEF Place, InFlight, Sign
<1>5. TypeOK'
    BY <1>2, <1>4 DEF TypeOK, Sign, LocalState, Place
<1>6. SharedInv'
    BY <1>4, SharedAfter DEF Sign
<1>7. Backed(local[r].st, req[r].agent)' /\ Issued(local[r].prev, req[r].agent)'
    <2>1. Backed(local[r].st, req[r].agent)'
        BY <1>3, <1>4 DEF RequestInv, Backed, Stable
    <2>2. Issued(local[r].prev, req[r].agent)'
        BY <1>3, <1>4 DEF RequestInv, Issued, Stable
    <2> QED BY <2>1, <2>2
<1>8. Gated(r)'
    BY <1>2, <1>3, <1>4 DEF RequestInv, Gated, Window
<1>9. PlaceInv(r)' /\ StoredInv(r)' /\ CappedInv(r)'
    BY <1>2, <1>3, <1>4 DEF PlaceInv, StoredInv, CappedInv
<1>10. (\A p \in before[r] : pc[p] = "done" /\ ~ local[p].faulted)'
    BY <1>2, <1>4 DEF RequestInv, TypeOK, Stable
<1>11. RequestInv(r)'
    BY <1>7, <1>8, <1>9, <1>10 DEF RequestInv
<1> QED BY <1>4, <1>5, <1>6, <1>11

\* A handler that has signed keeps its invariant as long as it holds what it
\* signed, and has stored it when it answers.
LEMMA SignedKeeps ==
    ASSUME IInv, Stable, NEW r \in Request, before' = before,
           local[r].signed_at > 0,
           local'[r].st = local[r].st, local'[r].prev = local[r].prev,
           pc'[r] \in {"persist_limit", "done", "dropped"},
           StoredInv(r)'
    PROVE  RequestInv(r)'
<1> USE DEF IInv
<1>1. Backed(local[r].st, req[r].agent)'
    BY DEF RequestInv, Backed, Stable
<1>2. Issued(local[r].prev, req[r].agent)'
    BY DEF RequestInv, Issued, Stable
<1>3. local'[r].signed_at > 0 /\ local'[r].dec = local[r].dec
    BY DEF Stable
<1>4. Gated(r)'
    BY <1>3 DEF RequestInv, Gated, Window
<1>5. PlaceInv(r)' /\ CappedInv(r)'
    BY <1>3 DEF PlaceInv, CappedInv
<1>6. (\A p \in before[r] : pc[p] = "done" /\ ~ local[p].faulted)'
    BY DEF RequestInv, TypeOK, Stable
<1> QED BY <1>1, <1>2, <1>4, <1>5, <1>6 DEF RequestInv

\* Memory receives a limit that was issued.
LEMMA RememberKeeps ==
    ASSUME IInv, NEW r \in Request, Remember(r), restarts' = restarts,
           raced' \subseteq Request
    PROVE  IInv'
<1> USE DEF IInv, memory, rows, reputation
<1>1. local \in [Request -> LocalState] /\ pc \in [Request -> Place]
    BY TypeOfLocal
<1>2. /\ pc[r] = "remember" /\ Goto(r, "persist_limit") /\ local' = local
      /\ before' = before /\ local[r].signed_at > 0
    BY DEF Remember, RequestInv, PlaceInv
<1>3. local' = [local EXCEPT ![r] = local[r]] /\ local[r] \in LocalState
    BY <1>1, <1>2
<1>4. /\ Stable
      /\ pc' \in [Request -> Place] /\ pc'[r] = "persist_limit"
      /\ local' \in [Request -> LocalState] /\ local'[r] = local[r]
      /\ RequestInv(r)' => \A q \in Request : RequestInv(q)'
    BY <1>2, <1>3, OneHandler DEF Place, InFlight, Remember
<1>5. /\ req[r].agent \in Agent
      /\ last_limits' = [last_limits EXCEPT ![req[r].agent] = local[r].dec.lim_window]
      /\ local[r].dec.lim_window \in Nat
    BY <1>3, RequestAgent DEF Remember, LocalState, Decision
<1>6. TypeOK'
    BY <1>4, <1>5 DEF TypeOK, Remember, LocalState, Place
<1>7. ASSUME NEW a \in Agent
      PROVE  last_limits'[a] = last_limits[a] \/ Issued(last_limits[a], a)'
    <2>1. CASE a = req[r].agent
        BY <1>2, <1>5, <2>1 DEF TypeOK, Issued
    <2> QED BY <1>5, <2>1 DEF TypeOK
<1>8. SharedInv'
    BY <1>4, <1>7, SharedAfter DEF Remember
<1>9. RequestInv(r)'
    BY <1>2, <1>4, SignedKeeps DEF StoredInv
<1> QED BY <1>4, <1>6, <1>8, <1>9

\* The row receives a limit that was issued, or the handler met a fault.
LEMMA PersistLimitKeeps ==
    ASSUME IInv, NEW r \in Request, PersistLimit(r), restarts' = restarts,
           raced' \subseteq Request
    PROVE  IInv'
<1> USE DEF IInv, memory, rows, reputation
<1> DEFINE a == req[r].agent
           l == local'[r]
           latest == LatestRow(limit_rows[a], r)
<1>1. local \in [Request -> LocalState] /\ pc \in [Request -> Place]
    BY TypeOfLocal
<1>2. /\ pc[r] = "persist_limit" /\ Goto(r, "done") /\ before' = before
      /\ local[r].signed_at > 0 /\ a \in Agent
    BY RequestAgent DEF PersistLimit, RequestInv, PlaceInv
<1>3. /\ l \in LocalState /\ l.st = local[r].st /\ l.prev = local[r].prev
      /\ l.signed_at = local[r].signed_at /\ l.dec = local[r].dec
      /\ local' = [local EXCEPT ![r] = l]
      /\ \/ limit_rows' = [limit_rows EXCEPT ![a] = latest]
         \/ limit_rows' = limit_rows /\ l.faulted
    <2>1. CASE local' = local /\ limit_rows' = [limit_rows EXCEPT ![a] = latest]
        BY <1>1, <2>1
    <2>2. CASE Hold(r, [local[r] EXCEPT !.faulted = TRUE]) /\ limit_rows' = limit_rows
        <3> DEFINE m == [local[r] EXCEPT !.faulted = TRUE]
        <3>1. /\ m \in LocalState /\ m.st = local[r].st /\ m.prev = local[r].prev
              /\ m.signed_at = local[r].signed_at /\ m.dec = local[r].dec
              /\ m.faulted = TRUE
            BY <1>1, HoldFault
        <3>2. local' = [local EXCEPT ![r] = m]
            BY <2>2 DEF Hold
        <3> HIDE DEF m
        <3> QED BY <1>1, <2>2, <3>1, <3>2
    <2> QED BY <2>1, <2>2 DEF PersistLimit
<1> HIDE DEF l
<1>4. /\ latest \in LimitRow /\ latest # NoLimit
      /\ Issued(latest.lim_window, a)
    <2>1. CASE limit_rows[a] # NoLimit /\ latest = limit_rows[a]
        BY <1>2, <2>1 DEF TypeOK, SharedInv
    <2>2. CASE latest = [issued_at |-> local[r].signed_at,
                         lim_window |-> local[r].dec.lim_window]
        <3>1. local[r].signed_at \in Nat /\ local[r].dec.lim_window \in Nat
            BY <1>1 DEF LocalState, Decision
        <3>2. latest.lim_window = local[r].dec.lim_window
              /\ latest \in LimitRow
            BY <2>2, <3>1 DEF LimitRow
        <3>3. latest # NoLimit
            BY <3>2, IssuanceAssumption
        <3> HIDE DEF latest
        <3> QED BY <1>2, <3>2, <3>3 DEF Issued
    <2> QED BY <2>1, <2>2 DEF LatestRow
<1> HIDE DEF latest
<1>5. \A b \in Agent : limit_rows[b] # NoLimit => limit_rows'[b] # NoLimit
    BY <1>3, <1>4 DEF TypeOK
<1>6. /\ Stable
      /\ pc' \in [Request -> Place] /\ pc'[r] = "done"
      /\ local' \in [Request -> LocalState] /\ local'[r] = l
      /\ RequestInv(r)' => \A q \in Request : RequestInv(q)'
    BY <1>2, <1>3, <1>5, OneHandler DEF Place, InFlight, PersistLimit
<1>7. limit_rows' \in [Agent -> LimitRow \cup {NoLimit}]
    BY <1>2, <1>3, <1>4 DEF TypeOK
<1>8. faults' \in 0..MaxFaults
    BY IssuanceAssumption DEF PersistLimit, Fault, TypeOK
<1>9. TypeOK'
    BY <1>2, <1>6, <1>7, <1>8 DEF TypeOK, PersistLimit, LocalState, Place
<1>10. ASSUME NEW b \in Agent
       PROVE  limit_rows'[b] = limit_rows[b] \/ Issued(limit_rows[b].lim_window, b)'
    <2>1. Issued(latest.lim_window, a) => \/ latest.lim_window = NoLimit
                                          \/ \E s \in Request :
                                                /\ local'[s].signed_at > 0
                                                /\ req[s].agent = a
                                                /\ local'[s].dec.lim_window = latest.lim_window
        BY <1>6 DEF Issued, Stable
    <2>2. CASE b = a /\ limit_rows'[a] = latest
        BY <1>4, <2>1, <2>2 DEF Issued
    <2>3. limit_rows'[b] = limit_rows[b] \/ (b = a /\ limit_rows'[a] = latest)
        BY <1>2, <1>3 DEF TypeOK
    <2> QED BY <2>2, <2>3
<1>11. SharedInv'
    BY <1>6, <1>10, SharedAfter DEF PersistLimit
<1>12. StoredInv(r)'
    BY <1>2, <1>3, <1>4, <1>6 DEF StoredInv, TypeOK
<1>13. RequestInv(r)'
    BY <1>2, <1>3, <1>6, <1>12, SignedKeeps
<1> QED BY <1>6, <1>9, <1>11, <1>13

-----------------------------------------------------------------------------
(* Settlements, dropped handlers and restarts.                              *)

\* A settlement changes what later decisions are made on, and no fact about earlier ones.
LEMMA IngestKeeps ==
    ASSUME IInv, NEW r \in Request, Ingest(r), restarts' = restarts,
           raced' \subseteq Request
    PROVE  IInv'
<1> USE DEF IInv, memory, rows, reputation
<1>1. local \in [Request -> LocalState] /\ pc \in [Request -> Place]
    BY TypeOfLocal
<1>2. /\ pc[r] = "idle" /\ Goto(r, "done") /\ local' = local /\ before' = before
      /\ req[r].agent \in Agent /\ req[r].amount \in Nat
    BY RequestAgent DEF Ingest
<1>3. local' = [local EXCEPT ![r] = local[r]] /\ local[r] \in LocalState
    BY <1>1, <1>2
<1>4. /\ Stable
      /\ pc' \in [Request -> Place] /\ pc'[r] = "done"
      /\ local' \in [Request -> LocalState] /\ local'[r] = local[r]
      /\ RequestInv(r)' => \A q \in Request : RequestInv(q)'
    BY <1>2, <1>3, OneHandler DEF Place, InFlight, Ingest
<1>5. largest_single' \in [Agent -> Nat]
    BY <1>2 DEF TypeOK, Ingest, AtLeast
<1>6. TypeOK'
    BY <1>4, <1>5 DEF TypeOK, Ingest, LocalState, Place
<1>7. SharedInv'
    BY <1>4, SharedAfter DEF Ingest
<1>8. \A p \in before'[r] : p \in Request /\ pc[p] = "done" /\ ~ local[p].faulted
    BY <1>2 DEF RequestInv, TypeOK
<1>9. RequestInv(r)'
    BY <1>2, <1>4, <1>8, EarlyKeeps
<1> QED BY <1>4, <1>6, <1>7, <1>9

\* Handlers that are cut off keep what they signed and nothing else.
LEMMA CutKeeps ==
    ASSUME IInv, NEW R \in SUBSET Request, \A r \in R : pc[r] \in InFlight,
           pc' = [r \in Request |-> IF r \in R THEN "dropped" ELSE pc[r]],
           local' = Forgotten(R), before' = before, limit_rows' = limit_rows
    PROVE  /\ Stable
           /\ pc' \in [Request -> Place] /\ local' \in [Request -> LocalState]
           /\ \A q \in Request : RequestInv(q)'
<1> USE DEF IInv
<1>1. local \in [Request -> LocalState] /\ pc \in [Request -> Place]
    BY TypeOfLocal
<1>2. \A q \in Request :
         /\ q \notin R => pc'[q] = pc[q] /\ local'[q] = local[q]
         /\ q \in R => /\ pc'[q] = "dropped"
                       /\ \/ local'[q] = local[q] /\ local[q].signed_at # 0
                          \/ local'[q] = Blank /\ local[q].signed_at = 0
    BY DEF Forgotten
<1>3. pc' \in [Request -> Place] /\ local' \in [Request -> LocalState]
    BY <1>1, BlankFields DEF Forgotten, Place
<1>4. Stable
    <2>1. \A q \in R : pc[q] # "done"
        BY DEF InFlight
    <2> QED BY <1>1, <1>2, <2>1 DEF Stable, LocalState
<1>5. ASSUME NEW q \in Request
      PROVE  RequestInv(q)'
    <2>1. CASE q \notin R
        BY <1>2, <1>4, <2>1, OthersKeep
    <2>2. CASE q \in R /\ local'[q] = local[q] /\ local[q].signed_at # 0
        <3>1. local[q].signed_at > 0
            BY <1>1, <2>2 DEF LocalState
        <3> QED BY <1>2, <1>4, <2>2, <3>1, SignedKeeps DEF StoredInv
    <2>3. CASE q \in R /\ local'[q] = Blank /\ local[q].signed_at = 0
        <3>1. Backed(local[q].st, req[q].agent)' /\ Issued(local[q].prev, req[q].agent)'
            BY <2>3, BlankFields DEF Backed, Issued
        <3>2. \A p \in before[q] : p \in Request /\ pc'[p] = "done" /\ ~ local'[p].faulted
            BY <1>4 DEF RequestInv, TypeOK, Stable
        <3>3. PlaceInv(q)' /\ StoredInv(q)' /\ CappedInv(q)'
            BY <1>2, <2>3, BlankFields DEF PlaceInv, StoredInv, CappedInv
        <3>4. (pc[q] = "sign" \/ local[q].signed_at > 0 => Gated(q))'
            BY <1>2, <2>3, BlankFields
        <3> QED BY <3>1, <3>2, <3>3, <3>4 DEF RequestInv
    <2> QED BY <1>2, <2>1, <2>2, <2>3
<1> QED BY <1>3, <1>4, <1>5

\* A dropped handler is one cut off.
LEMMA DropKeeps ==
    ASSUME IInv, NEW r \in Request, Drop(r), restarts' = restarts,
           raced' \subseteq Request
    PROVE  IInv'
<1> USE DEF memory, rows, reputation
<1>1. /\ pc' = [q \in Request |-> IF q \in {r} THEN "dropped" ELSE pc[q]]
      /\ local' = Forgotten({r}) /\ pc[r] \in InFlight
    BY TypeOfLocal DEF IInv, Drop, Goto
<1>2. /\ Stable
      /\ pc' \in [Request -> Place] /\ local' \in [Request -> LocalState]
      /\ \A q \in Request : RequestInv(q)'
    BY <1>1, CutKeeps DEF Drop
<1>3. TypeOK'
    BY <1>2 DEF IInv, TypeOK, Drop, LocalState, Place
<1>4. SharedInv'
    BY <1>2, SharedAfter DEF IInv, Drop
<1> QED BY <1>2, <1>3, <1>4 DEF IInv

\* A restart cuts off every handler and empties memory.
LEMMA RestartKeeps ==
    ASSUME IInv, Restart
    PROVE  IInv'
<1> USE DEF memory, rows, reputation
<1> DEFINE R == {r \in Request : pc[r] \in InFlight}
<1>1. /\ pc' = [q \in Request |-> IF q \in R THEN "dropped" ELSE pc[q]]
      /\ local' = Forgotten(R)
    BY DEF Restart
<1>2. /\ Stable
      /\ pc' \in [Request -> Place] /\ local' \in [Request -> LocalState]
      /\ \A q \in Request : RequestInv(q)'
    BY <1>1, CutKeeps DEF Restart
<1>3. restarts' \in 0..MaxRestarts
    BY IssuanceAssumption DEF IInv, TypeOK, Restart
<1>4. TypeOK'
    BY <1>2, <1>3 DEF IInv, TypeOK, Restart, LocalState, Place
<1>5. \A a \in Agent : /\ Backed(standings[a], a)'
                       /\ Issued(last_limits[a], a)'
    BY DEF Restart, Backed, Issued
<1>6. SharedInv'
    BY <1>2, <1>5, SharedAfter DEF IInv, Restart
<1> QED BY <1>2, <1>4, <1>6 DEF IInv

-----------------------------------------------------------------------------
(* The invariant, and the theorems that follow from it.                     *)

\* Nothing is held and nothing has been issued at the start.
LEMMA IInvInit ==
    ASSUME Init
    PROVE  IInv
<1>1. TypeOK
    BY IssuanceAssumption, BlankFields DEF Init, TypeOK, LocalState
<1>2. SharedInv
    BY DEF Init, SharedInv, Backed, Issued
<1>3. ASSUME NEW q \in Request
      PROVE  RequestInv(q)
    <2>1. pc[q] = "idle" /\ local[q] = Blank /\ before[q] = {}
        BY DEF Init
    <2> QED BY <2>1, BlankFields
            DEF RequestInv, Backed, Issued, PlaceInv, StoredInv, CappedInv
<1> QED BY <1>1, <1>2, <1>3 DEF IInv

\* Every step keeps the invariant, one lemma per action.
LEMMA IInvStep ==
    ASSUME IInv, [Next]_vars
    PROVE  IInv'
<1>1. CASE UNCHANGED vars
    BY <1>1 DEF IInv, TypeOK, SharedInv, RequestInv, Backed, Issued, Gated, Window,
                PlaceInv, StoredInv, CappedInv, Preceded,
                vars, reputation, memory, rows
<1>2. CASE Restart
    BY <1>2, RestartKeeps
<1>3. ASSUME NEW r \in Request, Handle(r)
      PROVE  IInv'
    <2>1. raced' \subseteq Request
        BY <1>3 DEF Handle, RecordRaces, IInv, TypeOK
    <2> QED BY <1>3, <2>1, BindKeeps, CountKeeps, InsertKeeps, PersistStandingKeeps,
       BeginKeeps, ReadStandingKeeps, FetchStandingKeeps, CacheStandingKeeps,
       ReadDetailKeeps, ReadPreviousKeeps, FetchPreviousKeeps, CachePreviousKeeps,
       DecideKeeps, SignKeeps, RememberKeeps, PersistLimitKeeps,
       IngestKeeps, DropKeeps
       DEF Handle
<1> QED BY <1>1, <1>2, <1>3 DEF Next

\* The invariant holds throughout.
LEMMA SpecIInv == Spec => []IInv
<1>1. Init => IInv
    BY IInvInit
<1>2. IInv /\ [Next]_vars => IInv'
    BY IInvStep
<1> QED BY <1>1, <1>2, PTL DEF Spec

\* The state of registration and issuance has its type, with any number of
\* agents, principals, requests, failed calls and restarts.
THEOREM IssuanceTypeCorrect == Spec => []TypeOK
<1>1. IInv => TypeOK
    BY DEF IInv
<1> QED BY SpecIInv, <1>1, PTL

\* A handler signs in one place only.
LEMMA OnlySignSigns ==
    ASSUME IInv, Next, NEW r \in Request,
           local'[r].signed_at > 0, ~ (local[r].signed_at > 0)
    PROVE  pc[r] = "sign"
<1> USE DEF memory, rows, reputation
<1>1. local \in [Request -> LocalState]
    BY TypeOfLocal DEF IInv
<1>2. CASE Restart
    BY <1>1, <1>2, BlankFields DEF Restart, Forgotten
<1>3. ASSUME NEW q \in Request, Handle(q)
      PROVE  q = r /\ Sign(r)
    <2>1. \A l : local' = [local EXCEPT ![q] = l] => l.signed_at # local[q].signed_at
        BY <1>1
    <2>2. \A l : local' = [local EXCEPT ![q] = l] =>
              q = r /\ l.signed_at # local[r].signed_at
        BY <1>1
    <2>3. local' # local
        OBVIOUS
    <2>4. \A x : /\ [local[q] EXCEPT !.st = x].signed_at = local[q].signed_at
                 /\ [local[q] EXCEPT !.rep = x].signed_at = local[q].signed_at
                 /\ [local[q] EXCEPT !.prev = x].signed_at = local[q].signed_at
                 /\ [local[q] EXCEPT !.dec = x].signed_at = local[q].signed_at
                 /\ [local[q] EXCEPT !.faulted = x].signed_at = local[q].signed_at
        BY <1>1 DEF LocalState
    <2>5. ~ Count(q) /\ ~ PersistStanding(q)
        BY <2>1, <2>3, <2>4 DEF Count, PersistStanding, Hold
    <2>6. ~ ReadStanding(q) /\ ~ FetchStanding(q) /\ ~ ReadDetail(q)
        BY ZenonT(60), <2>1, <2>3, <2>4 DEF ReadStanding, FetchStanding, ReadDetail, Hold
    <2>7. ~ ReadPrevious(q) /\ ~ FetchPrevious(q) /\ ~ PersistLimit(q)
        BY <2>1, <2>3, <2>4 DEF ReadPrevious, FetchPrevious, PersistLimit, Hold
    <2>8. ~ Decide(q)
        <3>1. ~ (local' = [local EXCEPT ![q] = Blank])
            BY <1>1, BlankFields
        <3> QED BY <2>1, <2>4, <3>1 DEF Decide, Hold
    <2>9. ~ Drop(q)
        BY <1>1, BlankFields DEF Drop, Forgotten
    <2>10. /\ ~ Bind(q) /\ ~ Insert(q) /\ ~ Begin(q) /\ ~ CacheStanding(q)
           /\ ~ CachePrevious(q) /\ ~ Remember(q) /\ ~ Ingest(q)
        BY <2>3 DEF Bind, Insert, Begin, CacheStanding, CachePrevious, Remember, Ingest
    <2>11. Sign(q)
        BY <1>3, <2>5, <2>6, <2>7, <2>8, <2>9, <2>10 DEF Handle
    <2> QED BY <2>2, <2>11 DEF Sign, Hold
<1> QED BY <1>2, <1>3 DEF Next, Sign

\* A limit issued after another one of the agent was signed and stored is one
\* step at most above a limit the agent was issued before, with any number of
\* restarts, races and dropped handlers in between.
THEOREM GrowthSurvivesRestart == Spec => RateCapSurvivesRestart
<1>1. IInv /\ [Next]_vars =>
        [\A r \in NewlySigned :
            /\ ~ local[r].faulted
            /\ SignedFor(r) \cap before[r] # {}
            => \E s \in SignedFor(r) : Window(r) <= Allowed(Window(s))]_vars
    <2> SUFFICES ASSUME IInv, [Next]_vars, NEW r \in NewlySigned,
                        ~ local[r].faulted, SignedFor(r) \cap before[r] # {}
                 PROVE  \E s \in SignedFor(r) : Window(r) <= Allowed(Window(s))
        OBVIOUS
    <2>1. r \in Request /\ local'[r].signed_at > 0 /\ ~ (local[r].signed_at > 0)
        BY DEF NewlySigned, Signed
    <2>2. pc[r] = "sign"
        <3>1. CASE Next
            BY <2>1, <3>1, OnlySignSigns
        <3>2. CASE UNCHANGED vars
            BY <2>1, <3>2 DEF vars
        <3> QED BY <3>1, <3>2
    <2>3. Preceded(r)
        BY DEF SignedFor, Signed, Preceded
    <2>4. PICK s \in Request : /\ local[s].signed_at > 0
                               /\ req[s].agent = req[r].agent
                               /\ Window(r) <= Allowed(Window(s))
        BY <2>1, <2>2, <2>3 DEF IInv, RequestInv, CappedInv
    <2>5. s \in SignedFor(r)
        BY <2>4 DEF SignedFor, Signed
    <2> QED BY <2>4, <2>5
<1> QED BY SpecIInv, <1>1, PTL DEF Spec, RateCapSurvivesRestart

-----------------------------------------------------------------------------
(* The registration in force.                                               *)
(*                                                                         *)
(* Once a registration has stored its standing, everything that memory,    *)
(* the row and later handlers hold for its agent says what it said, unless *)
(* it raced with the caching of an older row; and a standing once in memory *)
(* stays there until a restart, which cuts off whoever relied on it.       *)

\* A standing says what registration q said.
Agrees(st, q) ==
    /\ st.principal_ref = req[q].principal
    /\ st.kyc_tier = req[q].kyc_tier
    /\ st.sanctions_clear = req[q].sanctions_clear

AgreesOrNone(st, q) == st = NoStanding \/ Agrees(st, q)

\* Every other registration of the agent was over before q, or has not begun;
\* and q did not race.
Firm(q) ==
    /\ req[q].kind = "register" /\ q \notin raced
    /\ \A p \in Request \ {q} :
          req[p].kind = "register" /\ req[p].agent = req[q].agent
            => pc[p] = "idle" \/ p \in before[q]

Stored(q) == pc[q] = "done" /\ ~ local[q].faulted

\* A handler that holds the standing it read from memory.
Relying == {"detail", "previous", "fetch_previous", "cache_previous", "decide", "sign"}

\* What a handler holds of standings.
HoldsInv(r) ==
    /\ req[r].kind # "issue" =>
          /\ pc[r] \in {"idle", "count", "insert", "persist_standing", "done", "dropped"}
          /\ local[r].signed_at = 0
    /\ pc[r] = "idle" => local[r].st = NoStanding /\ local[r].signed_at = 0
    /\ pc[r] \in {"insert", "persist_standing"} =>
          local[r].st # NoStanding /\ Agrees(local[r].st, r)
    /\ pc[r] \in Relying => standings[req[r].agent] # NoStanding

\* What request r has of a registration q stored before it.
FollowsInv(q, r) ==
    req[r].kind = "issue" /\ q \in before[r] =>
        /\ AgreesOrNone(local[r].st, q)
        /\ local[r].signed_at > 0 => local[r].prn = req[q].principal

\* What follows from a registration.
FirmInv(q) ==
    Firm(q) =>
        /\ pc[q] = "persist_standing" =>
              /\ Agrees(standings[req[q].agent], q)
              /\ \A f \in Request : req[f].agent = req[q].agent => pc[f] # "cache_standing"
        /\ Stored(q) =>
              /\ AgreesOrNone(standings[req[q].agent], q)
              /\ AgreesOrNone(standing_rows[req[q].agent], q)
              /\ \A f \in Request : req[f].agent = req[q].agent =>
                    /\ pc[f] = "cache_standing" => Agrees(local[f].st, q)
                    /\ FollowsInv(q, f)

StandInv == \A q \in Request : HoldsInv(q) /\ FirmInv(q)

\* What a step of the handler of r shows: that it keeps what follows from each
\* firm registration of its agent.
KeepsFor(q, r) ==
    LET a == req[r].agent
    IN  /\ pc[q] = "persist_standing" => Agrees(standings'[a], q)
        /\ Stored(q) =>
              /\ AgreesOrNone(standings'[a], q)
              /\ AgreesOrNone(standing_rows'[a], q)
              /\ pc'[r] = "cache_standing" => Agrees(local'[r].st, q)
              /\ FollowsInv(q, r)'

\* A handler moves from one place to another, with what it holds.
Moves(r, l, where) ==
    /\ Goto(r, where)
    /\ local' = [local EXCEPT ![r] = l]
    /\ RecordRaces
    /\ \A x \in Request \ {r} : before'[x] = before[x]

LEMMA MovedTo ==
    ASSUME IInv, NEW r \in Request, NEW l, NEW where, Moves(r, l, where)
    PROVE  /\ pc'[r] = where /\ local'[r] = l
           /\ \A x \in Request \ {r} : pc'[x] = pc[x] /\ local'[x] = local[x]
                                       /\ before'[x] = before[x]
           /\ raced \subseteq raced'
           /\ \A q, f \in Request :
                 pc'[q] = "persist_standing" /\ pc'[f] = "cache_standing"
                 /\ req[f].agent = req[q].agent => q \in raced'
<1>1. local \in [Request -> LocalState] /\ pc \in [Request -> Place]
    BY TypeOfLocal DEF IInv
<1> QED BY <1>1 DEF Moves, Goto, RecordRaces

\* A registration that has begun is firm after a step only if it was before.
LEMMA FirmBefore ==
    ASSUME IInv, NEW r \in Request, NEW l, NEW where, Moves(r, l, where), where # "idle",
           NEW q \in Request \ {r}, Firm(q)'
    PROVE  Firm(q)
<1>1. /\ raced \subseteq raced' /\ before'[q] = before[q]
      /\ \A x \in Request \ {r} : pc'[x] = pc[x]
      /\ pc'[r] = where
    BY MovedTo
<1>2. ASSUME NEW p \in Request \ {q},
             req[p].kind = "register", req[p].agent = req[q].agent
      PROVE  pc[p] = "idle" \/ p \in before[q]
    <2>1. pc'[p] = "idle" \/ p \in before'[q]
        BY <1>2 DEF Firm
    <2> QED BY <1>1, <2>1
<1> QED BY <1>1, <1>2 DEF Firm

LEMMA StandAfter ==
    ASSUME IInv, StandInv, NEW r \in Request, NEW l, NEW where,
           Moves(r, l, where), where # "idle",
           \A b \in Agent : standings'[b] = standings[b]
                            \/ (b = req[r].agent /\ standings'[b] # NoStanding),
           \A b \in Agent \ {req[r].agent} : standing_rows'[b] = standing_rows[b],
           \A q \in Request \ {r} :
              Firm(q) /\ req[q].agent = req[r].agent => KeepsFor(q, r),
           HoldsInv(r)', FirmInv(r)'
    PROVE  StandInv'
<1>1. /\ pc'[r] = where /\ local'[r] = l
      /\ \A x \in Request \ {r} : pc'[x] = pc[x] /\ local'[x] = local[x]
                                  /\ before'[x] = before[x]
      /\ raced \subseteq raced'
      /\ \A q, f \in Request :
            pc'[q] = "persist_standing" /\ pc'[f] = "cache_standing"
            /\ req[f].agent = req[q].agent => q \in raced'
    BY MovedTo
<1>2. \A x \in Request : req[x].agent \in Agent
    BY RequestAgent
<1>3. ASSUME NEW q \in Request \ {r}
      PROVE  HoldsInv(q)'
    <2>1. HoldsInv(q) /\ pc'[q] = pc[q] /\ local'[q] = local[q] /\ req[q].agent \in Agent
        BY <1>1, <1>2 DEF StandInv
    <2>2. standings[req[q].agent] # NoStanding => standings'[req[q].agent] # NoStanding
        BY <2>1
    <2> QED BY <2>1, <2>2 DEF HoldsInv, Agrees
<1>4. ASSUME NEW q \in Request \ {r}, Firm(q)'
      PROVE  /\ pc'[q] = "persist_standing" =>
                  /\ Agrees(standings'[req[q].agent], q)
                  /\ \A f \in Request : req[f].agent = req[q].agent => pc'[f] # "cache_standing"
             /\ Stored(q)' =>
                  /\ AgreesOrNone(standings'[req[q].agent], q)
                  /\ AgreesOrNone(standing_rows'[req[q].agent], q)
                  /\ \A f \in Request : req[f].agent = req[q].agent =>
                        /\ pc'[f] = "cache_standing" => Agrees(local'[f].st, q)
                        /\ FollowsInv(q, f)'
    <2> DEFINE a == req[q].agent
    <2>1. Firm(q) /\ q \notin raced' /\ a \in Agent
        BY <1>2, <1>4, FirmBefore DEF Firm
    <2>2. pc'[q] = pc[q] /\ (Stored(q)' <=> Stored(q))
        BY <1>1 DEF Stored
    <2>3. a = req[r].agent => KeepsFor(q, r)
        BY <2>1
    <2>4. a # req[r].agent => /\ standings'[a] = standings[a]
                              /\ standing_rows'[a] = standing_rows[a]
        BY <2>1
    <2>5. FirmInv(q)
        BY DEF StandInv
    <2>6. ASSUME pc'[q] = "persist_standing"
          PROVE  /\ Agrees(standings'[a], q)
                 /\ \A f \in Request : req[f].agent = a => pc'[f] # "cache_standing"
        <3>1. Agrees(standings'[a], q)
            BY <2>1, <2>2, <2>3, <2>4, <2>5, <2>6 DEF FirmInv, KeepsFor
        <3> QED BY <1>1, <2>1, <2>6, <3>1
    <2>7. ASSUME Stored(q)'
          PROVE  /\ AgreesOrNone(standings'[a], q)
                 /\ AgreesOrNone(standing_rows'[a], q)
        BY <2>1, <2>2, <2>3, <2>4, <2>5, <2>7 DEF FirmInv, KeepsFor
    <2>8. ASSUME Stored(q)', NEW f \in Request, req[f].agent = a
          PROVE  /\ pc'[f] = "cache_standing" => Agrees(local'[f].st, q)
                 /\ FollowsInv(q, f)'
        <3>1. CASE f = r
            BY <2>2, <2>3, <2>8, <3>1 DEF KeepsFor
        <3>2. CASE f # r
            <4>1. /\ pc[f] = "cache_standing" => Agrees(local[f].st, q)
                  /\ FollowsInv(q, f)
                BY <2>1, <2>2, <2>5, <2>8 DEF FirmInv
            <4>2. pc'[f] = pc[f] /\ local'[f] = local[f] /\ before'[f] = before[f]
                BY <1>1, <3>2
            <4> QED BY <4>1, <4>2 DEF FollowsInv, AgreesOrNone, Agrees
        <3> QED BY <3>1, <3>2
    <2> QED BY <2>6, <2>7, <2>8
<1>5. ASSUME NEW q \in Request \ {r}
      PROVE  FirmInv(q)'
    BY <1>4 DEF FirmInv, AgreesOrNone, Agrees
<1> QED BY <1>3, <1>5 DEF StandInv

\* A step that leaves standings and rows alone, and what its handler holds of
\* standings, or after which the handler holds none.
LEMMA QuietKeeps ==
    ASSUME IInv, StandInv, NEW r \in Request, NEW l, NEW where, Moves(r, l, where),
           standings' = standings, standing_rows' = standing_rows,
           before'[r] = before[r] \/ (l.st = NoStanding /\ l.signed_at = 0),
           l.st = local[r].st \/ l.st = NoStanding,
           l.signed_at # 0 => l.signed_at = local[r].signed_at /\ l.prn = local[r].prn,
           where \notin {"idle", "insert", "persist_standing", "cache_standing"},
           where \in Relying => pc[r] \in Relying,
           where = "done" => req[r].kind # "register",
           req[r].kind # "issue" => where \in {"count", "done", "dropped"}
                                    /\ l.signed_at = 0
    PROVE  StandInv'
<1>1. pc'[r] = where /\ local'[r] = l
    BY MovedTo
<1>2. HoldsInv(r)'
    BY <1>1 DEF StandInv, HoldsInv
<1>3. FirmInv(r)'
    BY <1>1 DEF FirmInv, Firm, Stored
<1>4. ASSUME NEW q \in Request \ {r}, Firm(q), req[q].agent = req[r].agent
      PROVE  KeepsFor(q, r)
    <2>1. /\ pc[q] = "persist_standing" => Agrees(standings[req[r].agent], q)
          /\ Stored(q) => /\ AgreesOrNone(standings[req[r].agent], q)
                          /\ AgreesOrNone(standing_rows[req[r].agent], q)
                          /\ FollowsInv(q, r)
        BY <1>4 DEF StandInv, FirmInv
    <2>2. Stored(q) => FollowsInv(q, r)'
        <3>1. CASE l.st = NoStanding /\ l.signed_at = 0
            BY <1>1, <3>1 DEF FollowsInv, AgreesOrNone
        <3>2. CASE before'[r] = before[r]
            BY <1>1, <2>1, <3>2 DEF FollowsInv, AgreesOrNone, Agrees
        <3> QED BY <3>1, <3>2
    <2> QED BY <1>1, <2>1, <2>2 DEF KeepsFor
<1> QED BY <1>2, <1>3, <1>4, StandAfter

\* A registration that is under way leaves no other one of its agent firm.
LEMMA OneRegisters ==
    ASSUME IInv, NEW r \in Request, req[r].kind = "register",
           pc[r] \notin {"idle", "done"},
           NEW q \in Request \ {r}, req[q].agent = req[r].agent
    PROVE  ~ Firm(q)
BY DEF IInv, RequestInv, Firm

LEMMA CountStands ==
    ASSUME IInv, StandInv, NEW r \in Request, Count(r), RecordRaces
    PROVE  StandInv'
<1> DEFINE s == [principal_ref |-> req[r].principal,
                 kyc_tier |-> req[r].kyc_tier,
                 sanctions_clear |-> req[r].sanctions_clear,
                 agent_count |-> AtLeast(Cardinality(members[req[r].principal]), 1)]
           l == [local[r] EXCEPT !.st = s]
<1>1. local \in [Request -> LocalState] /\ pc[r] = "count" /\ req[r].kind = "register"
    BY TypeOfLocal DEF IInv, Count, RequestInv, PlaceInv
<1>2. s \in Standing
    BY <1>1, RequestAgent, Counts DEF Standing, IInv
<1>3. s # NoStanding /\ Agrees(s, r)
    BY <1>2, IssuanceAssumption DEF Agrees
<1>4. local' = [local EXCEPT ![r] = l] /\ Goto(r, "insert")
    BY DEF Count, Hold
<1> HIDE DEF s
<1>5. l.st = s /\ l.signed_at = local[r].signed_at
    BY <1>1, <1>2, HoldStanding
<1> HIDE DEF l
<1>6. Moves(r, l, "insert") /\ standings' = standings /\ standing_rows' = standing_rows
    BY <1>4 DEF Moves, Count, memory, rows
<1>7. pc'[r] = "insert" /\ local'[r] = l
    BY <1>6, MovedTo
<1>8. HoldsInv(r)'
    BY <1>1, <1>3, <1>5, <1>7 DEF StandInv, HoldsInv, Agrees, Relying
<1>9. FirmInv(r)'
    BY <1>7 DEF FirmInv, Stored
<1>10. \A q \in Request \ {r} :
          Firm(q) /\ req[q].agent = req[r].agent => KeepsFor(q, r)
    BY <1>1, OneRegisters
<1> QED BY <1>6, <1>8, <1>9, <1>10, StandAfter

LEMMA InsertStands ==
    ASSUME IInv, StandInv, NEW r \in Request, Insert(r), RecordRaces
    PROVE  StandInv'
<1> DEFINE a == req[r].agent
<1>1. /\ local \in [Request -> LocalState] /\ pc[r] = "insert"
      /\ req[r].kind = "register" /\ a \in Agent
    BY TypeOfLocal, RequestAgent DEF IInv, Insert, RequestInv, PlaceInv
<1>2. local[r].st # NoStanding /\ Agrees(local[r].st, r) /\ local[r].signed_at = 0
    BY <1>1 DEF StandInv, HoldsInv
<1>3. /\ standings' = [standings EXCEPT ![a] = local[r].st]
      /\ standing_rows' = standing_rows /\ local' = local
    BY DEF Insert, rows
<1>4. Moves(r, local[r], "persist_standing")
    BY <1>1, <1>3 DEF Moves, Insert
<1>5. /\ \A b \in Agent \ {a} : standings'[b] = standings[b]
      /\ standings'[a] = local[r].st
    BY <1>1, <1>3 DEF IInv, TypeOK
<1>6. /\ pc'[r] = "persist_standing" /\ local'[r] = local[r]
      /\ \A f \in Request :
            pc'[f] = "cache_standing" /\ req[f].agent = a => r \in raced'
    BY <1>4, MovedTo
<1>7. HoldsInv(r)'
    BY <1>1, <1>2, <1>6 DEF HoldsInv, Agrees, Relying
<1>8. FirmInv(r)'
    <2>1. Agrees(standings'[a], r)
        BY <1>2, <1>5
    <2>2. ~ Stored(r)'
        BY <1>6 DEF Stored
    <2>3. Firm(r)' => r \notin raced'
        BY DEF Firm
    <2> QED BY <1>6, <2>1, <2>2, <2>3 DEF FirmInv, Agrees
<1>9. \A q \in Request \ {r} :
          Firm(q) /\ req[q].agent = req[r].agent => KeepsFor(q, r)
    BY <1>1, OneRegisters
<1> QED BY <1>1, <1>2, <1>3, <1>4, <1>5, <1>7, <1>8, <1>9, StandAfter

LEMMA PersistStandingStands ==
    ASSUME IInv, StandInv, NEW r \in Request, PersistStanding(r), RecordRaces
    PROVE  StandInv'
<1> DEFINE a == req[r].agent
<1>1. /\ local \in [Request -> LocalState] /\ pc[r] = "persist_standing"
      /\ req[r].kind = "register" /\ a \in Agent
    BY TypeOfLocal, RequestAgent DEF IInv, PersistStanding, RequestInv, PlaceInv
<1>2. local[r].st # NoStanding /\ Agrees(local[r].st, r) /\ local[r].signed_at = 0
    BY <1>1 DEF StandInv, HoldsInv
<1>3. PICK l \in LocalState :
          /\ local' = [local EXCEPT ![r] = l] /\ l.signed_at = 0
          /\ l.faulted \/ standing_rows'[a] = local[r].st
          /\ \A b \in Agent \ {a} : standing_rows'[b] = standing_rows[b]
    <2>1. CASE local' = local
               /\ standing_rows' = [standing_rows EXCEPT ![a] = local[r].st]
        <3>1. local' = [local EXCEPT ![r] = local[r]]
            BY <1>1, <2>1
        <3> QED BY <1>1, <1>2, <2>1, <3>1 DEF IInv, TypeOK
    <2>2. CASE Hold(r, [local[r] EXCEPT !.faulted = TRUE]) /\ standing_rows' = standing_rows
        <3> DEFINE m == [local[r] EXCEPT !.faulted = TRUE]
        <3>1. m \in LocalState /\ m.signed_at = 0 /\ m.faulted
            BY <1>1, <1>2, HoldFault
        <3>2. local' = [local EXCEPT ![r] = m]
            BY <2>2 DEF Hold
        <3> HIDE DEF m
        <3> QED BY <2>2, <3>1, <3>2
    <2> QED BY <2>1, <2>2 DEF PersistStanding
<1>4. Moves(r, l, "done") /\ standings' = standings /\ before' = before
    BY <1>3 DEF Moves, PersistStanding, memory
<1>5. /\ pc'[r] = "done" /\ local'[r] = l /\ raced \subseteq raced'
      /\ \A x \in Request \ {r} : pc'[x] = pc[x]
    BY <1>4, MovedTo
<1>6. HoldsInv(r)'
    BY <1>1, <1>3, <1>5 DEF HoldsInv, Relying
<1>7. ASSUME Firm(r)', Stored(r)'
      PROVE  /\ AgreesOrNone(standings'[a], r)
             /\ AgreesOrNone(standing_rows'[a], r)
             /\ \A f \in Request : req[f].agent = a =>
                   pc'[f] # "cache_standing" /\ FollowsInv(r, f)'
    <2>1. Firm(r)
        BY <1>4, <1>5, <1>7 DEF Firm
    <2>2. /\ Agrees(standings[a], r)
          /\ \A f \in Request : req[f].agent = a => pc[f] # "cache_standing"
        BY <1>1, <2>1 DEF StandInv, FirmInv
    <2>3. standing_rows'[a] = local[r].st
        BY <1>3, <1>5, <1>7 DEF Stored
    <2>4. \A f \in Request : r \notin before'[f]
        BY <1>1, <1>4 DEF IInv, RequestInv
    <2> QED BY <1>2, <1>4, <1>5, <2>2, <2>3, <2>4 DEF AgreesOrNone, FollowsInv
<1>8. FirmInv(r)'
    BY <1>5, <1>7 DEF FirmInv, AgreesOrNone, Agrees
<1>9. \A q \in Request \ {r} :
          Firm(q) /\ req[q].agent = req[r].agent => KeepsFor(q, r)
    BY <1>1, OneRegisters
<1> QED BY <1>3, <1>4, <1>6, <1>8, <1>9, StandAfter

LEMMA ReadStandingStands ==
    ASSUME IInv, StandInv, NEW r \in Request, ReadStanding(r), RecordRaces
    PROVE  StandInv'
<1> DEFINE a == req[r].agent
           s == standings[a]
           l == [local[r] EXCEPT !.st = s]
           where == IF s = NoStanding THEN "fetch_standing" ELSE "detail"
<1>1. /\ local \in [Request -> LocalState] /\ pc[r] = "standing"
      /\ a \in Agent /\ s \in Standing \cup {NoStanding}
    BY TypeOfLocal, RequestAgent DEF IInv, ReadStanding, TypeOK
<1>2. req[r].kind = "issue"
    BY <1>1 DEF StandInv, HoldsInv
<1>3. local' = [local EXCEPT ![r] = l] /\ Goto(r, where)
    BY DEF ReadStanding, Hold
<1>4. l.st = s /\ l.signed_at = local[r].signed_at /\ l.prn = local[r].prn
    <2> HIDE DEF s
    <2> QED BY <1>1, HoldStanding
<1> HIDE DEF l
<1>5. /\ standings' = standings /\ standing_rows' = standing_rows /\ before' = before
      /\ Moves(r, l, where)
    BY <1>3 DEF Moves, ReadStanding, memory, rows
<1>6. pc'[r] = where /\ local'[r] = l
    BY <1>5, MovedTo
<1>7. HoldsInv(r)'
    BY <1>2, <1>5, <1>6 DEF HoldsInv, Relying
<1>8. FirmInv(r)'
    BY <1>2 DEF FirmInv, Firm
<1>9. ASSUME NEW q \in Request \ {r}, Firm(q), req[q].agent = a
      PROVE  KeepsFor(q, r)
    <2>1. /\ pc[q] = "persist_standing" => Agrees(standings[a], q)
          /\ Stored(q) => /\ AgreesOrNone(standings[a], q)
                          /\ AgreesOrNone(standing_rows[a], q)
                          /\ FollowsInv(q, r)
        BY <1>9 DEF StandInv, FirmInv
    <2>2. Stored(q) => FollowsInv(q, r)'
        BY <1>4, <1>5, <1>6, <2>1 DEF FollowsInv, AgreesOrNone, Agrees
    <2> QED BY <1>5, <1>6, <2>1, <2>2 DEF KeepsFor
<1> QED BY <1>5, <1>7, <1>8, <1>9, StandAfter

LEMMA FetchStandingStands ==
    ASSUME IInv, StandInv, NEW r \in Request, FetchStanding(r), RecordRaces
    PROVE  StandInv'
<1> DEFINE a == req[r].agent
           row == standing_rows[a]
           s == [row EXCEPT !.agent_count = RowCount(a)]
           l == [local[r] EXCEPT !.st = s]
<1>1. /\ local \in [Request -> LocalState] /\ pc[r] = "fetch_standing"
      /\ a \in Agent /\ row \in Standing \cup {NoStanding}
    BY TypeOfLocal, RequestAgent DEF IInv, FetchStanding, TypeOK
<1>2. req[r].kind = "issue"
    BY <1>1 DEF StandInv, HoldsInv
<1>3. /\ standings' = standings /\ standing_rows' = standing_rows /\ before' = before
    BY DEF FetchStanding, memory, rows
<1>4. CASE local' = local /\ Goto(r, "done")
    <2>1. local' = [local EXCEPT ![r] = local[r]]
        BY <1>1, <1>4
    <2>2. Moves(r, local[r], "done")
        BY <1>3, <1>4, <2>1 DEF Moves
    <2> QED BY <1>2, <1>3, <2>2, QuietKeeps DEF Relying
<1>5. CASE row # NoStanding /\ local' = [local EXCEPT ![r] = l] /\ Goto(r, "cache_standing")
    <2>1. s \in Standing
        BY <1>1, <1>5, Counts DEF Standing, IInv
    <2>2. \A q \in Request : Agrees(row, q) => Agrees(s, q)
        BY <1>1, <1>5 DEF Standing, Agrees
    <2> HIDE DEF s
    <2>3. l.st = s /\ l.signed_at = local[r].signed_at /\ l.prn = local[r].prn
        BY <1>1, <2>1, HoldStanding
    <2> HIDE DEF l
    <2>4. Moves(r, l, "cache_standing")
        BY <1>3, <1>5 DEF Moves
    <2>5. pc'[r] = "cache_standing" /\ local'[r] = l
        BY <2>4, MovedTo
    <2>6. HoldsInv(r)'
        BY <1>2, <2>5 DEF HoldsInv, Relying
    <2>7. FirmInv(r)'
        BY <1>2 DEF FirmInv, Firm
    <2>8. ASSUME NEW q \in Request \ {r}, Firm(q), req[q].agent = a
          PROVE  KeepsFor(q, r)
        <3>1. /\ pc[q] = "persist_standing" => Agrees(standings[a], q)
              /\ Stored(q) => /\ AgreesOrNone(standings[a], q)
                              /\ AgreesOrNone(row, q)
                              /\ FollowsInv(q, r)
            BY <2>8 DEF StandInv, FirmInv
        <3>2. Stored(q) => Agrees(s, q)
            BY <1>5, <2>2, <3>1 DEF AgreesOrNone
        <3>3. Stored(q) => FollowsInv(q, r)'
            BY <1>3, <2>3, <2>5, <3>1, <3>2 DEF FollowsInv, AgreesOrNone, Agrees
        <3> QED BY <1>3, <2>3, <2>5, <3>1, <3>2, <3>3 DEF KeepsFor
    <2> QED BY <1>3, <2>4, <2>6, <2>7, <2>8, StandAfter
<1> QED BY <1>4, <1>5 DEF FetchStanding, Hold

LEMMA CacheStandingStands ==
    ASSUME IInv, StandInv, NEW r \in Request, CacheStanding(r), RecordRaces
    PROVE  StandInv'
<1> DEFINE a == req[r].agent
<1>1. /\ local \in [Request -> LocalState] /\ pc[r] = "cache_standing" /\ a \in Agent
      /\ local[r].st # NoStanding
    BY TypeOfLocal, RequestAgent DEF IInv, CacheStanding, RequestInv, PlaceInv
<1>2. req[r].kind = "issue"
    BY <1>1 DEF StandInv, HoldsInv
<1>3. /\ standings' = [standings EXCEPT ![a] = local[r].st]
      /\ standing_rows' = standing_rows /\ local' = local /\ before' = before
    BY DEF CacheStanding, rows
<1>4. Moves(r, local[r], "detail")
    BY <1>1, <1>3 DEF Moves, CacheStanding
<1>5. /\ \A b \in Agent \ {a} : standings'[b] = standings[b]
      /\ standings'[a] = local[r].st
    BY <1>1, <1>3 DEF IInv, TypeOK
<1>6. pc'[r] = "detail" /\ local'[r] = local[r]
    BY <1>4, MovedTo
<1>7. HoldsInv(r)'
    BY <1>1, <1>2, <1>5, <1>6 DEF HoldsInv
<1>8. FirmInv(r)'
    BY <1>2 DEF FirmInv, Firm
<1>9. ASSUME NEW q \in Request \ {r}, Firm(q), req[q].agent = a
      PROVE  KeepsFor(q, r)
    <2>1. /\ pc[q] # "persist_standing"
          /\ Stored(q) => /\ AgreesOrNone(standing_rows[a], q)
                          /\ Agrees(local[r].st, q)
                          /\ FollowsInv(q, r)
        BY <1>1, <1>9 DEF StandInv, FirmInv
    <2>2. Stored(q) => FollowsInv(q, r)'
        BY <1>3, <2>1 DEF FollowsInv, AgreesOrNone, Agrees
    <2> QED BY <1>3, <1>5, <1>6, <2>1, <2>2 DEF KeepsFor, AgreesOrNone
<1> QED BY <1>1, <1>3, <1>4, <1>5, <1>7, <1>8, <1>9, StandAfter

LEMMA SignStands ==
    ASSUME IInv, StandInv, NEW r \in Request, Sign(r), RecordRaces
    PROVE  StandInv'
<1> DEFINE a == req[r].agent
           l == [local[r] EXCEPT !.prn = PrincipalOf(a), !.signed_at = signed + 1]
<1>1. /\ local \in [Request -> LocalState] /\ pc[r] = "sign" /\ a \in Agent
    BY TypeOfLocal, RequestAgent DEF IInv, Sign
<1>2. req[r].kind = "issue" /\ standings[a] # NoStanding
    BY <1>1 DEF StandInv, HoldsInv, Relying
<1>3. /\ standings' = standings /\ standing_rows' = standing_rows /\ before' = before
      /\ local' = [local EXCEPT ![r] = l] /\ Goto(r, "remember")
    BY DEF Sign, Hold, memory, rows
<1>4. l.st = local[r].st /\ l.prn = standings[a].principal_ref
    BY <1>1, <1>2 DEF LocalState, PrincipalOf
<1> HIDE DEF l
<1>5. Moves(r, l, "remember")
    BY <1>3 DEF Moves
<1>6. pc'[r] = "remember" /\ local'[r] = l
    BY <1>5, MovedTo
<1>7. HoldsInv(r)'
    BY <1>2, <1>6 DEF HoldsInv, Relying
<1>8. FirmInv(r)'
    BY <1>2 DEF FirmInv, Firm
<1>9. ASSUME NEW q \in Request \ {r}, Firm(q), req[q].agent = a
      PROVE  KeepsFor(q, r)
    <2>1. /\ pc[q] = "persist_standing" => Agrees(standings[a], q)
          /\ Stored(q) => /\ AgreesOrNone(standings[a], q)
                          /\ AgreesOrNone(standing_rows[a], q)
                          /\ FollowsInv(q, r)
        BY <1>9 DEF StandInv, FirmInv
    <2>2. Stored(q) => l.prn = req[q].principal
        BY <1>2, <1>4, <2>1 DEF AgreesOrNone, Agrees
    <2>3. Stored(q) => FollowsInv(q, r)'
        BY <1>3, <1>4, <1>6, <2>1, <2>2 DEF FollowsInv, AgreesOrNone, Agrees
    <2> QED BY <1>3, <1>6, <2>1, <2>3 DEF KeepsFor
<1> QED BY <1>3, <1>5, <1>7, <1>8, <1>9, StandAfter

\* The sections that leave standings alone.
LEMMA QuietStands ==
    ASSUME IInv, StandInv, NEW r \in Request, RecordRaces,
           \/ Bind(r) \/ Begin(r) \/ ReadDetail(r) \/ ReadPrevious(r)
           \/ FetchPrevious(r) \/ CachePrevious(r) \/ Decide(r)
           \/ Remember(r) \/ PersistLimit(r) \/ Ingest(r) \/ Drop(r)
    PROVE  StandInv'
<1> USE DEF memory, rows, reputation
<1>1. local \in [Request -> LocalState] /\ local = [local EXCEPT ![r] = local[r]]
    BY TypeOfLocal DEF IInv
<1>2. HoldsInv(r)
    BY DEF StandInv
<1>3. standings' = standings /\ standing_rows' = standing_rows
    BY DEF Bind, Begin, ReadDetail, ReadPrevious, FetchPrevious, CachePrevious, Decide,
           Remember, PersistLimit, Ingest, Drop
<1>4. ASSUME Bind(r) \/ Begin(r)
      PROVE  StandInv'
    <2>1. pc[r] = "idle" /\ local' = local
        BY <1>4 DEF Bind, Begin, Arrive
    <2>2. \A q \in Request \ {r} : before'[q] = before[q]
        BY <1>4 DEF Bind, Begin, Arrive, IInv, TypeOK
    <2>3. local[r].st = NoStanding /\ local[r].signed_at = 0
        BY <1>2, <2>1 DEF HoldsInv
    <2>4. PICK where \in {"count", "standing"} :
             /\ Goto(r, where)
             /\ req[r].kind # "issue" => where = "count"
        BY <1>4 DEF Bind, Begin
    <2>5. Moves(r, local[r], where)
        BY <1>1, <2>1, <2>2, <2>4 DEF Moves
    <2> QED BY <1>3, <2>3, <2>4, <2>5, QuietKeeps DEF Relying
<1>5. ASSUME Ingest(r)
      PROVE  StandInv'
    <2>1. /\ pc[r] = "idle" /\ local' = local /\ before' = before /\ Goto(r, "done")
          /\ req[r].kind = "settle"
        BY <1>5 DEF Ingest
    <2>2. local[r].st = NoStanding /\ local[r].signed_at = 0
        BY <1>2, <2>1 DEF HoldsInv
    <2>3. Moves(r, local[r], "done")
        BY <1>1, <2>1 DEF Moves
    <2> QED BY <1>3, <2>1, <2>2, <2>3, QuietKeeps DEF Relying
<1>6. ASSUME ReadDetail(r) \/ ReadPrevious(r) \/ FetchPrevious(r) \/ CachePrevious(r)
             \/ Decide(r) \/ Remember(r) \/ PersistLimit(r)
      PROVE  StandInv'
    <2>1. /\ pc[r] \in {"detail", "previous", "fetch_previous", "cache_previous", "decide",
                        "remember", "persist_limit"}
          /\ before' = before
        BY <1>6 DEF ReadDetail, ReadPrevious, FetchPrevious, CachePrevious, Decide,
                    Remember, PersistLimit
    <2>2. req[r].kind = "issue"
        BY <1>2, <2>1 DEF HoldsInv
    <2>3. PICK where \in {"previous", "fetch_previous", "decide", "cache_previous", "sign",
                          "done", "persist_limit"} :
             /\ Goto(r, where)
             /\ where \in Relying => pc[r] \in Relying
        <3>1. ASSUME ReadDetail(r) \/ FetchPrevious(r) \/ CachePrevious(r) \/ Decide(r)
                     \/ Remember(r) \/ PersistLimit(r)
              PROVE  \E w \in {"previous", "fetch_previous", "decide", "cache_previous",
                               "sign", "done", "persist_limit"} :
                        /\ Goto(r, w)
                        /\ w \in Relying => pc[r] \in Relying
            BY <3>1 DEF ReadDetail, FetchPrevious, CachePrevious, Decide,
                        Remember, PersistLimit, Relying
        <3>2. ASSUME ReadPrevious(r)
              PROVE  \E w \in {"fetch_previous", "decide"} :
                        /\ Goto(r, w)
                        /\ w \in Relying => pc[r] \in Relying
            BY <3>2 DEF ReadPrevious, Relying
        <3> QED BY <1>6, <3>1, <3>2
    <2>4. PICK l : /\ local' = [local EXCEPT ![r] = l]
                   /\ l.st = local[r].st \/ l.st = NoStanding
                   /\ l.signed_at # 0 => l.signed_at = local[r].signed_at
                                         /\ l.prn = local[r].prn
        <3>1. ASSUME local' = local
              PROVE  \E l : /\ local' = [local EXCEPT ![r] = l]
                            /\ l.st = local[r].st
                            /\ l.signed_at = local[r].signed_at
                            /\ l.prn = local[r].prn
            BY <1>1, <3>1
        <3>2. ASSUME Hold(r, Blank)
              PROVE  \E l : /\ local' = [local EXCEPT ![r] = l]
                            /\ l.st = NoStanding /\ l.signed_at = 0
            BY <3>2, BlankFields DEF Hold
        <3>3. ASSUME NEW x, \/ local' = [local EXCEPT ![r] = [local[r] EXCEPT !.rep = x]]
                            \/ local' = [local EXCEPT ![r] = [local[r] EXCEPT !.prev = x]]
                            \/ local' = [local EXCEPT ![r] = [local[r] EXCEPT !.dec = x]]
                            \/ local' = [local EXCEPT ![r] = [local[r] EXCEPT !.faulted = x]]
              PROVE  \E l : /\ local' = [local EXCEPT ![r] = l]
                            /\ l.st = local[r].st
                            /\ l.signed_at = local[r].signed_at
                            /\ l.prn = local[r].prn
            BY <1>1, <3>3 DEF LocalState
        <3>4. ASSUME ReadDetail(r)
              PROVE  \E x : local' = [local EXCEPT ![r] = [local[r] EXCEPT !.rep = x]]
            BY <3>4, Zenon DEF ReadDetail, Hold
        <3>5. ASSUME ReadPrevious(r) \/ FetchPrevious(r)
              PROVE  \/ local' = local
                     \/ \E x : local' = [local EXCEPT ![r] = [local[r] EXCEPT !.prev = x]]
                     \/ \E x : local' = [local EXCEPT ![r] = [local[r] EXCEPT !.faulted = x]]
            BY <3>5, Zenon DEF ReadPrevious, FetchPrevious, Hold
        <3>6. ASSUME Decide(r)
              PROVE  \/ Hold(r, Blank)
                     \/ \E x : local' = [local EXCEPT ![r] = [local[r] EXCEPT !.dec = x]]
            BY <3>6, Zenon DEF Decide, Hold
        <3>7. ASSUME CachePrevious(r) \/ Remember(r) \/ PersistLimit(r)
              PROVE  \/ local' = local
                     \/ \E x : local' = [local EXCEPT ![r] = [local[r] EXCEPT !.faulted = x]]
            BY <3>7, Zenon DEF CachePrevious, Remember, PersistLimit, Hold
        <3> QED BY <1>6, <3>1, <3>2, <3>3, <3>4, <3>5, <3>6, <3>7
    <2>5. Moves(r, l, where)
        BY <2>1, <2>3, <2>4 DEF Moves
    <2> QED BY <1>3, <2>1, <2>2, <2>3, <2>4, <2>5, QuietKeeps
<1>7. ASSUME Drop(r)
      PROVE  StandInv'
    <2> DEFINE l == IF local[r].signed_at = 0 THEN Blank ELSE local[r]
    <2>1. Goto(r, "dropped") /\ before' = before /\ local' = Forgotten({r})
          /\ pc[r] \in InFlight
        BY <1>7 DEF Drop
    <2>2. local' = [local EXCEPT ![r] = l]
        BY <1>1, <2>1 DEF Forgotten
    <2>3. Moves(r, l, "dropped")
        BY <2>1, <2>2 DEF Moves
    <2>4. /\ l.st = local[r].st \/ l.st = NoStanding
          /\ l.signed_at # 0 => l = local[r]
          /\ req[r].kind # "issue" => l.signed_at = 0
        BY <1>2, BlankFields DEF HoldsInv
    <2> HIDE DEF l
    <2> QED BY <1>3, <2>1, <2>3, <2>4, QuietKeeps DEF Relying
<1> QED BY <1>4, <1>5, <1>6, <1>7

LEMMA RestartStands ==
    ASSUME IInv, StandInv, Restart
    PROVE  StandInv'
<1> DEFINE R == {r \in Request : pc[r] \in InFlight}
<1>1. /\ standings' = [a \in Agent |-> NoStanding]
      /\ standing_rows' = standing_rows /\ before' = before /\ raced' = raced
    BY DEF Restart, rows
<1>2. \A q \in Request :
         /\ q \notin R => pc'[q] = pc[q] /\ local'[q] = local[q]
         /\ q \in R => /\ pc'[q] = "dropped"
                       /\ \/ local'[q] = local[q]
                          \/ local'[q] = Blank
    BY DEF Restart, Forgotten
<1>3. \A q \in Request : pc'[q] \notin InFlight
    BY <1>2 DEF InFlight
<1>4. \A q \in Request : pc'[q] = "idle" <=> pc[q] = "idle"
    BY <1>2 DEF InFlight
<1>5. ASSUME NEW q \in Request
      PROVE  HoldsInv(q)'
    <2>1. /\ HoldsInv(q)
          /\ pc[q] \in Place
        BY TypeOfLocal DEF StandInv, IInv
    <2>2. pc'[q] \in {"idle", "done", "dropped"}
        BY <1>2, <2>1 DEF Place
    <2>3. local'[q] = local[q] \/ local'[q].signed_at = 0
        BY <1>2, BlankFields
    <2>4. pc'[q] = "idle" => pc[q] = "idle" /\ local'[q] = local[q]
        BY <1>2, <1>4
    <2> QED BY <2>1, <2>2, <2>3, <2>4 DEF HoldsInv, Relying
<1>6. ASSUME NEW q \in Request, Firm(q)', Stored(q)'
      PROVE  /\ AgreesOrNone(standings'[req[q].agent], q)
             /\ AgreesOrNone(standing_rows'[req[q].agent], q)
             /\ \A f \in Request : req[f].agent = req[q].agent =>
                   pc'[f] # "cache_standing" /\ FollowsInv(q, f)'
    <2>1. Firm(q)
        BY <1>1, <1>4, <1>6 DEF Firm
    <2>2. Stored(q)
        BY <1>2, <1>6 DEF Stored, InFlight
    <2>3. FirmInv(q) /\ req[q].agent \in Agent
        BY RequestAgent DEF StandInv
    <2>4. \A f \in Request : pc'[f] # "cache_standing"
        BY <1>3 DEF InFlight
    <2>5. ASSUME NEW f \in Request, req[f].agent = req[q].agent
          PROVE  FollowsInv(q, f)'
        <3>1. FollowsInv(q, f)
            BY <2>1, <2>2, <2>3, <2>5 DEF FirmInv
        <3> QED BY <1>1, <1>2, <3>1, BlankFields DEF FollowsInv, AgreesOrNone, Agrees
    <2> QED BY <1>1, <2>1, <2>2, <2>3, <2>4, <2>5 DEF FirmInv, AgreesOrNone
<1>7. ASSUME NEW q \in Request
      PROVE  FirmInv(q)'
    <2>1. pc'[q] # "persist_standing"
        BY <1>3 DEF InFlight
    <2> QED BY <1>6, <2>1 DEF FirmInv, AgreesOrNone, Agrees
<1> QED BY <1>5, <1>7 DEF StandInv

LEMMA StandInit ==
    ASSUME Init
    PROVE  StandInv
BY BlankFields DEF Init, StandInv, HoldsInv, FirmInv, Stored, FollowsInv, AgreesOrNone, Relying

LEMMA StandStep ==
    ASSUME IInv, StandInv, [Next]_vars
    PROVE  StandInv'
<1>1. CASE UNCHANGED vars
    BY <1>1 DEF StandInv, HoldsInv, FirmInv, Firm, Stored, FollowsInv, AgreesOrNone, Agrees,
                vars, memory, rows
<1>2. CASE Restart
    BY <1>2, RestartStands
<1>3. ASSUME NEW r \in Request, Handle(r)
      PROVE  StandInv'
    <2>1. RecordRaces
        BY <1>3 DEF Handle
    <2> QED BY <1>3, <2>1, CountStands, InsertStands, PersistStandingStands,
               ReadStandingStands, FetchStandingStands, CacheStandingStands,
               SignStands, QuietStands
            DEF Handle
<1> QED BY <1>1, <1>2, <1>3 DEF Next

\* Whoever asks for a limit is decided on the registration in force: an older
\* standing of the agent, kept in memory or in the row, fetched by another
\* handler or left behind by a restart, does not gate it, unless that
\* registration raced with the caching of an older row.
THEOREM StandingsInForceGate == Spec => []StandingInForceGates
<1>1. Init => StandInv
    BY StandInit
<1>2. IInv /\ StandInv /\ [Next]_vars => StandInv'
    BY StandStep
<1>3. IInv /\ StandInv => StandingInForceGates
    <2> SUFFICES ASSUME IInv, StandInv, NEW r \in Signed, NEW q \in Registrations(r),
                        InForce(q, r), q \notin raced
                 PROVE  IsGatedBy(r, q)
        BY DEF StandingInForceGates
    <2>1. /\ r \in Request /\ local[r].signed_at > 0 /\ Gated(r)
          /\ q \in Request /\ req[q].kind = "register" /\ req[q].agent = req[r].agent
          /\ q \in before[r]
        BY DEF Signed, Registrations, InForce, IInv, RequestInv
    <2>2. Stored(q)
        BY <2>1 DEF IInv, RequestInv, Stored
    <2>3. Firm(q)
        BY <2>1 DEF InForce, Registrations, Firm
    <2>4. req[r].kind = "issue"
        <3>1. HoldsInv(r)
            BY <2>1 DEF StandInv
        <3> QED BY <2>1, <3>1 DEF HoldsInv
    <2>5. /\ AgreesOrNone(local[r].st, q)
          /\ local[r].prn = req[q].principal
        BY <2>1, <2>2, <2>3, <2>4 DEF StandInv, FirmInv, FollowsInv
    <2> QED BY <2>1, <2>5 DEF Gated, AgreesOrNone, Agrees, IsGatedBy
<1> QED BY SpecIInv, <1>1, <1>2, <1>3, PTL DEF Spec
=============================================================================
