--------------------------- MODULE CapacityAccount ---------------------------
(***************************************************************************)
(* What a ledger of draws promises, with no counters and no clock: a draw  *)
(* is authorised at most once and resolved at most once, and it is         *)
(* authorised only when everything its agent still owes or has spent in    *)
(* the present window leaves room for it under the limit it presents.      *)
(* Value leaves the account in two ways only: an open draw is released,    *)
(* or the window that its settlement counted in ends.                      *)
(***************************************************************************)
EXTENDS Naturals, Totals

CONSTANTS Agent, Draw,
          offer   \* offer[d]: the agent, amount and limits draw d presents

VARIABLE phase    \* phase[d]: how far draw d has come

Phase == {"new", "refused", "open", "spent", "aged", "released"}

Amount == [d \in Draw |-> offer[d].amount]
Of(a, p) == {d \in Draw : offer[d].agent = a /\ phase[d] = p}

\* Everything that counts against agent a's window.
Committed(a) ==
    SumOver(Amount, Draw)[Of(a, "open")] + SumOver(Amount, Draw)[Of(a, "spent")]

TypeOK == phase \in [Draw -> Phase]

Init == phase = [d \in Draw |-> "new"]

Reserve(d) ==
    /\ phase[d] = "new"
    /\ offer[d].amount <= offer[d].lim_single
    /\ Committed(offer[d].agent) + offer[d].amount <= offer[d].lim_window
    /\ phase' = [phase EXCEPT ![d] = "open"]

Refuse(d) ==
    /\ phase[d] = "new"
    /\ phase' = [phase EXCEPT ![d] = "refused"]

Settle(d) ==
    /\ phase[d] = "open"
    /\ phase' = [phase EXCEPT ![d] = "spent"]

Release(d) ==
    /\ phase[d] = "open"
    /\ phase' = [phase EXCEPT ![d] = "released"]

\* The windows of the agents in S end: what they had spent no longer counts,
\* what they have open still does.
Roll(S) ==
    phase' = [d \in Draw |-> IF offer[d].agent \in S /\ phase[d] = "spent"
                             THEN "aged" ELSE phase[d]]

Next == \/ \E d \in Draw : Reserve(d) \/ Refuse(d) \/ Settle(d) \/ Release(d)
        \/ \E S \in SUBSET Agent : Roll(S)

Spec == Init /\ [][Next]_phase
=============================================================================
