---------------------------- MODULE SharedWindow ----------------------------
(***************************************************************************)
(* One agent's exposure hash in Redis and the two scripts that change it   *)
(* (byz-store/src/redis_store/exposure.rs).  Redis runs a script           *)
(* atomically.  The window is the hash's time to live: when it is over,    *)
(* the whole hash is gone.                                                 *)
(***************************************************************************)
EXTENDS Integers

CONSTANTS NoHash,   \* the key does not exist
          NoTtl     \* the key exists and never expires (TTL = -1)

Hash == [at_risk : Nat, window_used : Nat, open_draws : Nat,
         expires : Nat \cup {NoTtl}]

ASSUME SharedWindowAssumption == NoTtl \notin Nat /\ NoHash \notin Hash

\* What a command sees of the key: an expired key does not exist.
Seen(h, now) ==
    IF h # NoHash /\ h.expires # NoTtl /\ now >= h.expires THEN NoHash ELSE h

\* What HGET of a missing key or field reads, and what the first write makes.
Fields(h, now) ==
    IF Seen(h, now) = NoHash
    THEN [at_risk |-> 0, window_used |-> 0, open_draws |-> 0, expires |-> NoTtl]
    ELSE h

HashTotal(h, now) == Fields(h, now).at_risk + Fields(h, now).window_used

\* A wrong reading of the window: outstanding draws are not counted.
OutcomeIgnoresRisk(h, o, now) ==
    IF o.amount > o.lim_single THEN "single"
    ELSE IF Fields(h, now).window_used + o.amount > o.lim_window THEN "window"
    ELSE "reserved"

\* COMMIT_SCRIPT, its decision.
Outcome(h, o, now) ==
    IF o.amount > o.lim_single THEN "single"
    ELSE IF HashTotal(h, now) + o.amount > o.lim_window THEN "window"
    ELSE "reserved"

\* A wrong expiry: only a key that did not exist gets one.
ReserveExpiringNewKey(h, o, now) ==
    [Fields(h, now) EXCEPT
        !.at_risk = @ + o.amount, !.open_draws = @ + 1,
        !.expires = IF Seen(h, now) = NoHash THEN now + o.window_secs ELSE @]

\* COMMIT_SCRIPT, what it writes when it reserves.
Reserve(h, o, now) ==
    [Fields(h, now) EXCEPT
        !.at_risk = @ + o.amount, !.open_draws = @ + 1,
        !.expires = IF @ = NoTtl THEN now + o.window_secs ELSE @]

\* A wrong resolution: nothing keeps the value at risk from going below zero.
ResolveUnclamped(h, amount, settled, now) ==
    [Fields(h, now) EXCEPT
        !.at_risk = @ - amount,
        !.open_draws = IF @ > 0 THEN @ - 1 ELSE 0,
        !.window_used = IF settled THEN @ + amount ELSE @]

\* RESOLVE_SCRIPT.  It writes the hash even when the key does not exist, and
\* sets no expiry.
ResolveScript(h, amount, settled, now) ==
    [Fields(h, now) EXCEPT
        !.at_risk = @ - (IF amount < @ THEN amount ELSE @),
        !.open_draws = IF @ > 0 THEN @ - 1 ELSE 0,
        !.window_used = IF settled THEN @ + amount ELSE @]
=============================================================================
