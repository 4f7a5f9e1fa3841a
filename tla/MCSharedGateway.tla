-------------------------- MODULE MCSharedGateway --------------------------
(***************************************************************************)
(* Two gateways.  v1 goes to g1 and is retried, as v2, at g2; v3 is a draw *)
(* whose action is out of scope, and s1 settles v1 at g2.                  *)
(***************************************************************************)
EXTENDS SharedGateway

CONSTANTS g1, g2, a1, k1, k2, v1, v2, v3, s1

MCReq ==
    LET Verify(g, key, amount, scope) ==
            [kind |-> "verify", gateway |-> g, key |-> key, agent |-> a1,
             amount |-> amount, lim_single |-> 2, lim_window |-> 3,
             window_secs |-> 1, exp |-> 1, admitted |-> TRUE, in_scope |-> scope]
    IN  [r \in Request |->
            CASE r = v1 -> Verify(g1, k1, 2, TRUE)
              [] r = v2 -> Verify(g2, k1, 2, TRUE)
              [] r = v3 -> Verify(g1, NoKey, 1, FALSE)
              [] r = s1 -> [kind |-> "settle", gateway |-> g2, key |-> k2,
                            agent |-> a1, amount |-> 2, settled |-> TRUE]]
=============================================================================
