-------------------------- MODULE ForgetfulAccount --------------------------
(***************************************************************************)
(* What a window of exposure promises that callers reach through a store,  *)
(* with no handlers, keys, times to live or failures: each request gets    *)
(* one attempt, a draw is reserved only if everything the account then     *)
(* holds leaves room for it, and a reservation is given back at most once, *)
(* by its own draw.  The account may at any instant forget all it holds of *)
(* an agent, at risk or spent, but never a part of it.                     *)
(***************************************************************************)
EXTENDS Naturals

CONSTANTS Agent, Draw, Settlement,
          offer   \* offer[r]: agent and amount of draw or settlement r, the
                  \* limits a draw presents and what a settlement reports

VARIABLES
    risk, used,   \* what the account holds of each agent
    tried,        \* requests whose one attempt is over
    held          \* draws that were reserved and not given back

Init ==
    /\ risk = [a \in Agent |-> 0]
    /\ used = [a \in Agent |-> 0]
    /\ tried = {}
    /\ held = {}

Reserve(d) ==
    LET a == offer[d].agent
    IN  /\ d \notin tried
        /\ offer[d].amount <= offer[d].lim_single
        /\ risk[a] + used[a] + offer[d].amount <= offer[d].lim_window
        /\ risk' = [risk EXCEPT ![a] = @ + offer[d].amount]
        /\ tried' = tried \cup {d}
        /\ held' = held \cup {d}
        /\ UNCHANGED used

\* What is taken back is never more than what is at risk: the account may have
\* forgotten the reservation.
TakeBack(r) ==
    risk' = [risk EXCEPT ![offer[r].agent] =
                IF offer[r].amount < @ THEN @ - offer[r].amount ELSE 0]

GiveBack(d) ==
    /\ d \in held
    /\ TakeBack(d)
    /\ held' = held \ {d}
    /\ UNCHANGED <<used, tried>>

Resolve(s) ==
    /\ s \notin tried
    /\ TakeBack(s)
    /\ used' = IF offer[s].settled
               THEN [used EXCEPT ![offer[s].agent] = @ + offer[s].amount]
               ELSE used
    /\ tried' = tried \cup {s}
    /\ UNCHANGED held

\* Requests that are refused, answered from a cache, dropped or cut off.
GiveUp ==
    /\ tried' \in SUBSET (Draw \cup Settlement)
    /\ tried \subseteq tried'
    /\ UNCHANGED <<risk, used, held>>

\* The account forgets the agents in S.
Forget(S) ==
    /\ risk' = [a \in Agent |-> IF a \in S THEN 0 ELSE risk[a]]
    /\ used' = [a \in Agent |-> IF a \in S THEN 0 ELSE used[a]]
    /\ UNCHANGED <<tried, held>>

Next ==
    \/ GiveUp
    \/ \E d \in Draw : Reserve(d) \/ GiveBack(d)
    \/ \E s \in Settlement : Resolve(s)
    \/ \E S \in SUBSET Agent : Forget(S)

Spec == Init /\ [][Next]_<<risk, used, tried, held>>
=============================================================================
