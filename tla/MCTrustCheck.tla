---------------------------- MODULE MCTrustCheck ----------------------------
(***************************************************************************)
(* One agent.  m1 is a mandate its operator creates and v1 revokes; m2 is  *)
(* the one that comes with an issued limit.  k1 and k2 are payments that   *)
(* fit the cap alone but not together; only k1 names its counterparty.     *)
(***************************************************************************)
EXTENDS TrustCheck, TLC

CONSTANTS a1, p1, m1, m2, v1, k1, k2

MCGraphEdges == [a \in Agent |-> [total |-> 0, successes |-> 0]]

MCReq ==
    LET Check(amount, cp) == [kind |-> "check", agent |-> a1, action |-> Payment,
                              amount |-> amount, counterparty |-> cp]
    IN  [r \in Request |->
            CASE r = m1 -> [kind |-> "create", agent |-> a1, whitelist |-> {p1},
                            actions |-> {Payment}, per_tx_cap |-> 2, daily_cap |-> 3,
                            valid_for |-> 2]
              [] r = m2 -> [kind |-> "limit", agent |-> a1, actions |-> {},
                            lim_single |-> 2, lim_window |-> 3]
              [] r = v1 -> [kind |-> "revoke", id |-> m1]
              [] r = k1 -> Check(2, p1)
              [] r = k2 -> Check(2, Unstated)]
=============================================================================
