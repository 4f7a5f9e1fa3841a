--------------------------- MODULE MCDrawGateway ---------------------------
(***************************************************************************)
(* One agent of one principal.  v1 and v2 are a draw and its retry; s1, a  *)
(* settlement of more than was drawn, comes under the key that authorised  *)
(* the draw, and u1, without a key, releases a part of it.                 *)
(***************************************************************************)
EXTENDS DrawGateway

CONSTANTS a1, p1, k1, v1, v2, s1, u1

ReqWith(lim_window) ==
    [r \in Request |->
        IF r = s1
        THEN [kind |-> "settle", key |-> k1, agent |-> a1, amount |-> 3,
              settled |-> TRUE]
        ELSE IF r = u1
        THEN [kind |-> "settle", key |-> NoKey, agent |-> a1, amount |-> 1,
              settled |-> FALSE]
        ELSE [kind |-> "verify", key |-> k1, agent |-> a1, principal |-> p1,
              amount |-> 2, genuine |-> TRUE, lim_single |-> 3,
              lim_window |-> lim_window, nbf |-> 0, exp |-> 1, in_scope |-> TRUE]]

\* The draw and its retry do not fit in the window together.
MCReqTight == ReqWith(3)
\* They do.
MCReqLoose == ReqWith(4)
=============================================================================
