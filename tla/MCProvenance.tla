---------------------------- MODULE MCProvenance ----------------------------
(***************************************************************************)
(* One agent, one runtime that is registered with k1 and revoked.  s1 is   *)
(* submitted, with an event that another key signed, and retried as s2     *)
(* with the next event and one of another agent.                           *)
(***************************************************************************)
EXTENDS ProvenanceIngest

CONSTANTS a1, a2, t1, x1, k1, k2, p1, v1, s1, s2

MCReq ==
    LET E(a, k, n) == [agent |-> a, runtime |-> t1, key |-> k, session |-> x1,
                       seq |-> n]
        Submit(events) == [kind |-> "submit", agent |-> a1, events |-> events]
    IN  [r \in Request |->
            CASE r = p1 -> [kind |-> "register", runtime |-> t1, key |-> k1]
              [] r = v1 -> [kind |-> "revoke", runtime |-> t1]
              [] r = s1 -> Submit(<<E(a1, k1, 1), E(a1, k2, 2)>>)
              [] r = s2 -> Submit(<<E(a1, k1, 1), E(a1, k1, 2), E(a2, k1, 3)>>)]
=============================================================================
