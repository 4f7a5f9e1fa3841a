------------------------------ MODULE Mandates ------------------------------
(***************************************************************************)
(* Spend mandates: how one is built, the store that keeps them in memory   *)
(* (MandateStore), and the compliance check of the mandate engine, which   *)
(* reads the exposure that draws and spends leave in the same ledger.      *)
(***************************************************************************)
EXTENDS ExposureWindow, FiniteSets

CONSTANTS
    Agent, MandateId, ActionType, Counterparty,
    Payment,      \* ActionType::Payment
    NoMandate,    \* no mandate, or no id of one
    Unstated      \* a check that names no amount, or no counterparty

Mandate == [agent : Agent, whitelist : SUBSET Counterparty,
            actions : SUBSET ActionType, per_tx_cap : Minor, daily_cap : Minor,
            valid_from : Nat, valid_until : Nat]

Book == [mandates : [MandateId -> Mandate \cup {NoMandate}],
         agent_index : [Agent -> MandateId \cup {NoMandate}]]

ASSUME MandateAssumption ==
    /\ Payment \in ActionType
    /\ NoMandate \notin Mandate /\ NoMandate \notin MandateId
    /\ Unstated \notin Minor /\ Unstated \notin Counterparty

-----------------------------------------------------------------------------
(* MandateBuilder.                                                          *)

\* What `create_mandate` asks the builder for: the operator's own numbers.
Typed(b, now) ==
    [agent |-> b.agent, whitelist |-> b.whitelist, actions |-> b.actions,
     per_tx_cap |-> b.per_tx_cap, daily_cap |-> b.daily_cap,
     valid_from |-> now, valid_until |-> now + b.valid_for]

\* from_decision: the caps are the decision's limits, the scope falls back to
\* payments, and the whitelist issue_limit passes is empty.
FromDecision(d, now) ==
    [agent |-> d.agent, whitelist |-> {},
     actions |-> IF d.actions = {} THEN {Payment} ELSE d.actions,
     per_tx_cap |-> d.lim_single, daily_cap |-> d.lim_window,
     valid_from |-> now, valid_until |-> now + WindowSecs]

-----------------------------------------------------------------------------
(* MandateStore.                                                            *)

EmptyBook == [mandates |-> [i \in MandateId |-> NoMandate],
              agent_index |-> [a \in Agent |-> NoMandate]]

\* The newest mandate of an agent is the one its checks run under.
Inserted(book, i, m) ==
    [mandates |-> [book.mandates EXCEPT ![i] = m],
     agent_index |-> [book.agent_index EXCEPT ![m.agent] = i]]

ForAgent(book, a) ==
    IF book.agent_index[a] = NoMandate THEN NoMandate
    ELSE book.mandates[book.agent_index[a]]

\* The agent's index entry goes with the mandate, whichever mandate of the
\* agent it pointed to.  An unknown id changes nothing.
Removed(book, i) ==
    IF book.mandates[i] = NoMandate THEN book
    ELSE [mandates |-> [book.mandates EXCEPT ![i] = NoMandate],
          agent_index |-> [book.agent_index EXCEPT
                             ![book.mandates[i].agent] = NoMandate]]

-----------------------------------------------------------------------------
(* MandateEngine.                                                           *)

IsActive(m, now) == m.valid_from <= now /\ now <= m.valid_until

\* The sum of the exposure, or what is settled where the sum overflows.
AlreadyCommitted(w, now) ==
    LET s == Snapshot(w, now)
    IN  IF s.at_risk + s.window_used > MaxMinor THEN s.window_used
        ELSE s.at_risk + s.window_used

\* A wrong cap: the amount is held against the daily cap on its own.
WithinCapsAlone(m, w, now, amount) ==
    amount <= m.per_tx_cap /\ amount <= m.daily_cap

WithinCaps(m, w, now, amount) ==
    /\ amount <= m.per_tx_cap
    /\ SatAdd(AlreadyCommitted(w, now), amount, MaxMinor) <= m.daily_cap

\* MandateEngine::check, of the mandate found for the agent.
Complies(m, w, now, c) ==
    /\ m # NoMandate
    /\ IsActive(m, now)
    /\ c.action \in m.actions
    /\ c.counterparty # Unstated => c.counterparty \in m.whitelist
    /\ c.amount # Unstated => WithinCaps(m, w, now, c.amount)

\* record_spend: a commitment that settles at once.
RecordSpend(w, now, amount) == RecordSettled(RecordCommit(w, now, amount), now, amount)
=============================================================================
