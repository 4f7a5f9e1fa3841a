---------------------------- MODULE Attestation ----------------------------
(***************************************************************************)
(* What a presented limit attestation permits (byz-common/src/limits.rs).  *)
(* `o` is one request: the draw together with the attestation's fields.    *)
(* The scope checks (chain, asset class, counterparty class, action) are   *)
(* pure functions of the request, so their outcome is the field in_scope.  *)
(***************************************************************************)
EXTENDS ExposureWindow

\* A window limit is at most the principal's ceiling, far below u64::MAX.  At
\* u64::MAX itself the saturating sum in `permits` could not exceed it.
WindowLimit == 0..(MaxMinor - 1)

\* is_valid_at: both ends of the validity period are inside it.
ValidAt(o, now) == o.nbf <= now /\ now <= o.exp

\* A wrong reading of the window: outstanding draws are not counted.
PermitsIgnoresRisk(o, s, now) ==
    /\ ValidAt(o, now)
    /\ o.in_scope
    /\ o.amount <= o.lim_single
    /\ SatAdd(s.window_used, o.amount, MaxMinor) <= o.lim_window

\* `permits`, with the window_used that verify_limit computes from the agent's
\* exposure snapshot s.
Permits(o, s, now) ==
    /\ ValidAt(o, now)
    /\ o.in_scope
    /\ o.amount <= o.lim_single
    /\ SatAdd(TotalCommitted(s), o.amount, MaxMinor) <= o.lim_window
=============================================================================
