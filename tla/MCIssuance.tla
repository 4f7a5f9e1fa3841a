----------------------------- MODULE MCIssuance -----------------------------
(***************************************************************************)
(* x1 registers agent a1 under a principal of the verified tier, x4 under  *)
(* another one of the basic tier, and x2 after a screening that failed; x3 *)
(* registers a second agent.  i1, i2 and i3 ask for limits; g1 is a draw   *)
(* as large as a1's first limit allows, and g2 a larger one.  The ceilings *)
(* and the floors keep the shape of KycTier's: a floor is a small part of  *)
(* its ceiling, and its lowest single share one minor unit.                *)
(***************************************************************************)
EXTENDS Issuance, TLC

CONSTANTS a1, a2, p1, p2, x1, x2, x3, x4, i1, i2, i3, g1, g2

MCCeiling == [t \in KycTier |-> CASE t = "unverified" -> 0
                                   [] t = "basic" -> 20
                                   [] OTHER -> 40]
MCFloor == [t \in KycTier |-> CASE t = "unverified" -> 0
                                 [] t = "basic" -> 5
                                 [] OTHER -> 10]

\* Two requests with the same body.
MCSymmetry == Permutations({i1, i2})

\* One registration clears the agent; of the two that may follow it, one at a
\* time is enough; and the draw comes once there is a limit to draw on.
MCBounded ==
    /\ pc[x1] # "idle" \/ {x2, x4} \subseteq {r \in Request : pc[r] = "idle"}
    /\ pc[x2] = "idle" \/ pc[x4] = "idle"
    /\ pc[g1] = "idle" \/ signed > 0

MCReq ==
    LET Register(a, p, tier, clear) ==
            [kind |-> "register", agent |-> a, principal |-> p,
             kyc_tier |-> tier, sanctions_clear |-> clear]
    IN  [r \in Request |->
            CASE r = x1 -> Register(a1, p1, "verified", TRUE)
              [] r = x2 -> Register(a1, p1, "verified", FALSE)
              [] r = x3 -> Register(a2, p1, "verified", TRUE)
              [] r = x4 -> Register(a1, p2, "basic", TRUE)
              [] r \in {i1, i2} -> [kind |-> "issue", agent |-> a1]
              [] r = i3 -> [kind |-> "issue", agent |-> a2]
              [] r = g1 -> [kind |-> "settle", agent |-> a1, amount |-> 1]
              [] r = g2 -> [kind |-> "settle", agent |-> a1, amount |-> 2]]
=============================================================================
