----------------------------- MODULE DrawLedger -----------------------------
(***************************************************************************)
(* The in-memory exposure ledger behind the mandate engine's write lock,   *)
(* driven by the two handlers that use it: `verify_limit`, which reads,    *)
(* decides and reserves in one critical section, and `settle_draw`.        *)
(*                                                                         *)
(* A client settles a draw once, with the amount the gateway reported as   *)
(* effective; what happens when a request is retried, cancelled or raced   *)
(* is the subject of module DrawGateway.                                   *)
(***************************************************************************)
EXTENDS Attestation, Totals, FiniteSets

CONSTANTS
    Agent,
    Draw,
    offer,     \* offer[d]: the draw and the attestation presented with it
    MaxTime    \* bound on the clock

Offer == [agent : Agent, amount : Minor, lim_single : Minor,
          lim_window : WindowLimit, nbf : Nat, exp : Nat,
          in_scope : BOOLEAN]

ASSUME LedgerAssumption ==
    /\ offer \in [Draw -> Offer]
    /\ IsFiniteSet(Draw)
    /\ Cardinality(Draw) <= MaxCount
    /\ MaxTime \in Nat

VARIABLES
    now,       \* Utc::now()
    windows,   \* InMemoryExposureLedger::windows
    status,    \* what the client of each draw has been told of it
    counted    \* history: the draws that agent's window_used stands for

vars == <<now, windows, status, counted>>

Status == {"new", "refused", "open", "settled", "released"}

TypeOK ==
    /\ now \in 0..MaxTime
    /\ windows \in [Agent -> Window \cup {NoWindow}]
    /\ status \in [Draw -> Status]
    /\ counted \in [Agent -> SUBSET Draw]

Init ==
    /\ now = 0
    /\ windows = [a \in Agent |-> NoWindow]
    /\ status = [d \in Draw |-> "new"]
    /\ counted = [a \in Agent |-> {}]

\* The draws that the history counts once the window has been refreshed.
StillCounted(a) ==
    IF windows[a] # NoWindow /\ Elapsed(windows[a], now) THEN {} ELSE counted[a]

-----------------------------------------------------------------------------
Exposure(a) == Snapshot(windows[a], now)

Permitted(d) == Permits(offer[d], Exposure(offer[d].agent), now)

\* verify_limit without a store: one write guard around the decision.
Authorise(d) ==
    LET a == offer[d].agent
    IN  /\ status[d] = "new"
        /\ \/ /\ Permitted(d)
              /\ windows' = [windows EXCEPT
                               ![a] = RecordCommit(@, now, offer[d].amount)]
              /\ status' = [status EXCEPT ![d] = "open"]
              /\ counted' = [counted EXCEPT ![a] = StillCounted(a)]
           \/ /\ ~ Permitted(d)
              /\ status' = [status EXCEPT ![d] = "refused"]
              /\ UNCHANGED <<windows, counted>>
        /\ UNCHANGED now

\* settle_draw with `settled: true`: engine.record_settled.
Settle(d) ==
    LET a == offer[d].agent
    IN  /\ status[d] = "open"
        /\ windows' = [windows EXCEPT
                         ![a] = RecordSettled(@, now, offer[d].amount)]
        /\ status' = [status EXCEPT ![d] = "settled"]
        /\ counted' = [counted EXCEPT ![a] = StillCounted(a) \cup {d}]
        /\ UNCHANGED now

\* settle_draw with `settled: false`: engine.record_released.
Release(d) ==
    LET a == offer[d].agent
    IN  /\ status[d] = "open"
        /\ windows' = [windows EXCEPT
                         ![a] = RecordReleased(@, now, offer[d].amount)]
        /\ status' = [status EXCEPT ![d] = "released"]
        /\ counted' = [counted EXCEPT ![a] = StillCounted(a)]
        /\ UNCHANGED now

Tick ==
    /\ now < MaxTime
    /\ now' = now + 1
    /\ UNCHANGED <<windows, status, counted>>

Next == \/ \E d \in Draw : Authorise(d) \/ Settle(d) \/ Release(d)
        \/ Tick

Spec == Init /\ [][Next]_vars

-----------------------------------------------------------------------------
Amount == [d \in Draw |-> offer[d].amount]
Worth == SumOver(Amount, Draw)
OpenDraws(a) == {d \in Draw : offer[d].agent = a /\ status[d] = "open"}

\* Everything the gateway sees counting against agent a, at this instant.
Committed(a) == Exposure(a).at_risk + Exposure(a).window_used

\* The books balance: whatever was settled, released or rolled in between, the
\* counters an agent's exposure is read from are exactly its unresolved draws
\* and the draws settled in the present window.  Guards the hazard of a roll,
\* a clamp or a missed refresh leaving value in neither or in both counters.
BooksBalance ==
    \A a \in Agent :
        /\ Exposure(a).at_risk = Worth[OpenDraws(a)]
        /\ Exposure(a).window_used = Worth[StillCounted(a)]
        /\ Exposure(a).open_draws = Cardinality(OpenDraws(a))

\* The sum that verify_limit compares with the limit always fits in a u64, so
\* the `unwrap_or(zero)` that would read a full window as an empty one, and
\* the saturation that would lose value, are never reached by these handlers.
SumIsRepresentable == \A a \in Agent : Committed(a) <= MaxMinor

\* Exposure grows only when a draw is authorised, and then never past the
\* limit of the attestation that draw presented, whatever smaller or larger
\* limits other draws of the agent were authorised under.
GrowsOnlyWithinLimit ==
    [][\A a \in Agent : Committed(a)' > Committed(a) =>
          \E d \in Draw : /\ offer[d].agent = a
                          /\ status[d] = "new" /\ status'[d] = "open"
                          /\ Committed(a)' <= offer[d].lim_window]_vars

\* Settled value stops counting only because its window ended, not because a
\* later draw, settlement or release of the agent rewrote the entry.
SpentCountsForItsWindow ==
    [][\A a \in Agent : Exposure(a).window_used' < Exposure(a).window_used =>
          now' - windows[a].window_start > WindowSecs]_vars

-----------------------------------------------------------------------------
(* The ledger implements CapacityAccount.  A settled draw is "spent" while   *)
(* the window read at this instant counts it: the account's roll happens     *)
(* when the clock passes the boundary, though the entry is rewritten later.  *)

PhaseOf(d) ==
    IF status[d] # "settled" THEN status[d]
    ELSE IF d \in StillCounted(offer[d].agent) THEN "spent"
    ELSE "aged"

Account == INSTANCE CapacityAccount WITH phase <- [d \in Draw |-> PhaseOf(d)]

\* The counters, the clamps and the lazy roll keep the account's promise.
AccountSpec == Account!Spec
=============================================================================
