----------------------------- MODULE MCReceipts -----------------------------
(***************************************************************************)
(* Two receipts of two agents into batches of two, one forced seal, and    *)
(* one auditor who asks about every agent, one receipt a page.             *)
(***************************************************************************)
EXTENDS Receipts, TLC

CONSTANTS a1, a2, c1, c2, s1, q1

MCReq ==
    [r \in Request |->
        CASE r = c1 -> [kind |-> "create", agent |-> a1]
          [] r = c2 -> [kind |-> "create", agent |-> a2]
          [] r = s1 -> [kind |-> "seal"]
          [] r = q1 -> [kind |-> "audit", agent |-> AnyAgent, batch |-> AnyBatch, limit |-> 1]]
=============================================================================
