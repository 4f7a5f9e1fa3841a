---------------------------- MODULE MCDrawLedger ----------------------------
(***************************************************************************)
(* Two agents; agent a1 presents two attestations with different limits,   *)
(* one of which expires while its draws are open.                          *)
(***************************************************************************)
EXTENDS DrawLedger

CONSTANTS a1, a2, d1, d2, d3, d4, d5

MCOffer ==
    LET Of(a, amount, single, win, nbf, exp, scope) ==
            [agent |-> a, amount |-> amount, lim_single |-> single,
             lim_window |-> win, nbf |-> nbf, exp |-> exp, in_scope |-> scope]
    IN  [d \in {d1, d2, d3, d4, d5} |->
            CASE d = d1 -> Of(a1, 2, 2, 4, 0, 9, TRUE)
              [] d = d2 -> Of(a1, 1, 2, 4, 0, 3, TRUE)
              [] d = d3 -> Of(a1, 2, 3, 3, 1, 9, TRUE)
              [] d = d4 -> Of(a1, 3, 3, 5, 0, 9, TRUE)
              [] d = d5 -> Of(a2, 1, 1, 1, 0, 9, FALSE)]
=============================================================================
