--------------------------- MODULE ExposureWindow ---------------------------
(***************************************************************************)
(* One agent's exposure window and the operations of the in-memory ledger  *)
(* on it (byz-mandate/src/exposure.rs).  Time is the value of Utc::now()   *)
(* at the call, in ticks; amounts are minor units.                         *)
(***************************************************************************)
EXTENDS Integers

CONSTANTS
    MaxMinor,     \* u64::MAX, the largest amount of minor units
    MaxCount,     \* u32::MAX, the largest count of open draws
    WindowSecs,   \* InMemoryExposureLedger::window_secs
    NoWindow      \* the agent has no entry in the ledger's map

Minor == 0..MaxMinor

Window == [at_risk : Minor, window_used : Minor, window_start : Nat,
           open_draws : 0..MaxCount]

ASSUME WindowAssumption ==
    /\ MaxMinor \in Nat
    /\ MaxCount \in Nat
    /\ WindowSecs \in Nat
    /\ NoWindow \notin Window

\* Unsigned saturating arithmetic.
SatAdd(a, b, max) == IF a + b > max THEN max ELSE a + b

SatSub(a, b) == IF b > a THEN 0 ELSE a - b

NewWindow(now) ==
    [at_risk |-> 0, window_used |-> 0, window_start |-> now, open_draws |-> 0]

Elapsed(w, now) == now - w.window_start > WindowSecs

-----------------------------------------------------------------------------
(* The write side: `entry` creates or refreshes the window, and the three *)
(* record_* operations move value through it.                             *)

\* A wrong roll: it forgets what is still outstanding.
RefreshDropsRisk(w, now) == IF Elapsed(w, now) THEN NewWindow(now) ELSE w

\* A wrong roll: every write starts a window of its own.
RefreshAtEveryWrite(w, now) == [w EXCEPT !.window_used = 0, !.window_start = now]

Refresh(w, now) ==
    IF Elapsed(w, now)
    THEN [w EXCEPT !.window_used = 0, !.window_start = now]
    ELSE w

\* A wrong entry: it hands out a window that was never rolled.
EntryStale(w, now) == IF w = NoWindow THEN NewWindow(now) ELSE w

Entry(w, now) == IF w = NoWindow THEN NewWindow(now) ELSE Refresh(w, now)

RecordCommit(w, now, amount) ==
    LET e == Entry(w, now)
    IN  [e EXCEPT !.at_risk = SatAdd(@, amount, MaxMinor),
                  !.open_draws = SatAdd(@, 1, MaxCount)]

\* A wrong settlement: value is counted as used but never leaves `at_risk`.
RecordSettledKeepsRisk(w, now, amount) ==
    LET e == Entry(w, now)
    IN  [e EXCEPT !.window_used = SatAdd(@, amount, MaxMinor),
                  !.open_draws = SatSub(@, 1)]

\* A wrong settlement: what has settled no longer counts at all.
RecordSettledUncounted(w, now, amount) ==
    LET e == Entry(w, now)
    IN  [e EXCEPT !.at_risk = SatSub(@, amount),
                  !.open_draws = SatSub(@, 1)]

RecordSettled(w, now, amount) ==
    LET e == Entry(w, now)
    IN  [e EXCEPT !.at_risk = SatSub(@, amount),
                  !.window_used = SatAdd(@, amount, MaxMinor),
                  !.open_draws = SatSub(@, 1)]

RecordReleased(w, now, amount) ==
    LET e == Entry(w, now)
    IN  [e EXCEPT !.at_risk = SatSub(@, amount),
                  !.open_draws = SatSub(@, 1)]

-----------------------------------------------------------------------------
(* The read side: `snapshot` rolls a copy, so a stale window never reports *)
(* value that has aged out.                                                *)

Snapshot(w, now) ==
    IF w = NoWindow THEN NewWindow(now)
    ELSE [at_risk      |-> w.at_risk,
          window_used  |-> IF Elapsed(w, now) THEN 0 ELSE w.window_used,
          window_start |-> IF Elapsed(w, now) THEN now ELSE w.window_start,
          open_draws   |-> w.open_draws]

\* ExposureSnapshot::total_committed().unwrap_or(zero), as verify_limit calls
\* it: the sum is checked, and one that does not fit in a u64 reads as zero.
TotalCommitted(s) ==
    IF s.at_risk + s.window_used > MaxMinor THEN 0
    ELSE s.at_risk + s.window_used
=============================================================================
