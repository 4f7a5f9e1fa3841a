--------------------------- MODULE SharedGateway ---------------------------
(***************************************************************************)
(* The draw endpoints of several gateways that share one store: exposure   *)
(* is decided in Redis, everything else is each gateway's own memory.      *)
(* A Redis call may fail before it takes effect or after (the reply is     *)
(* lost); a handler may be dropped at an await; a gateway may restart.     *)
(*                                                                         *)
(* Signature and revocation, the subject of DrawGateway, are here the      *)
(* field `admitted` of a request.  Amounts are small: the i64 range of the *)
(* scripts' HINCRBY is never left.                                         *)
(***************************************************************************)
EXTENDS SharedWindow, FiniteSets

CONSTANTS
    Gateway, Agent,
    Key, NoKey,
    Request,
    req,                              \* req[r]: the body of request r
    MaxTime,                          \* bound on the clock
    MaxFaults,                        \* bound on failed store calls
    MaxRestarts,                      \* bound on gateway restarts
    MaxMinor, MaxCount, WindowSecs,   \* of each gateway's own ledger
    NoWindow, NoEntry

VerifyBody == [kind : {"verify"}, gateway : Gateway, key : Key \cup {NoKey},
               agent : Agent, amount : Nat, lim_single : Nat, lim_window : Nat,
               window_secs : Nat \ {0}, exp : Nat, admitted : BOOLEAN,
               in_scope : BOOLEAN]
SettleBody == [kind : {"settle"}, gateway : Gateway, key : Key \cup {NoKey},
               agent : Agent, amount : Nat, settled : BOOLEAN]

ASSUME SharedGatewayAssumption ==
    /\ req \in [Request -> VerifyBody \cup SettleBody]
    /\ IsFiniteSet(Request)
    /\ MaxTime \in Nat /\ MaxFaults \in Nat /\ MaxRestarts \in Nat

\* Each gateway's own in-memory ledger, and its rows in Postgres.
Ledger == INSTANCE ExposureWindow

VARIABLES
    now,
    hash,      \* Redis: byz:exposure:<agent>
    windows,   \* each gateway's mandate_engine ledger
    saved,     \* Postgres: agent_exposure
    cache,     \* each gateway's idempotency cache
    scored,    \* settlements whose outcome the gateway's scorer holds
    pc, answer,
    faults, restarts,
    reserved,  \* history: requests for which Redis reserved capacity
    held,      \* history: those whose reservation was not given back by
               \* their own handler
    faulted    \* history: requests that met a failed store call or were cut off

handlers == <<pc, answer>>
stores == <<hash, saved>>
local == <<windows, cache, scored>>
history == <<reserved, held, faulted>>
vars == <<now, stores, local, handlers, faults, restarts, history>>

InFlight == {"check", "commit", "rollback", "resolve", "record", "persist", "put"}
Answer == {"none", "permitted", "refused", "resolved", "unauthorised",
           "unavailable", "error"}

ASSUME NoEntryAssumption == NoEntry \notin Answer

TypeOK ==
    /\ now \in 0..MaxTime
    /\ hash \in [Agent -> Hash \cup {NoHash}]
    /\ windows \in [Gateway -> [Agent -> Ledger!Window \cup {NoWindow}]]
    /\ saved \in [Agent -> Ledger!Window \cup {NoWindow}]
    /\ cache \in [Gateway -> [Key -> Answer \cup {NoEntry}]]
    /\ pc \in [Request -> InFlight \cup {"idle", "done", "dropped"}]
    /\ answer \in [Request -> Answer]
    /\ faults \in 0..MaxFaults /\ restarts \in 0..MaxRestarts
    /\ held \subseteq reserved
    /\ \A h \in {scored, reserved, faulted} : h \subseteq Request

Init ==
    /\ now = 0
    /\ hash = [a \in Agent |-> NoHash]
    /\ windows = [g \in Gateway |-> [a \in Agent |-> NoWindow]]
    /\ saved = [a \in Agent |-> NoWindow]
    /\ cache = [g \in Gateway |-> [k \in Key |-> NoEntry]]
    /\ scored = {}
    /\ pc = [r \in Request |-> "idle"]
    /\ answer = [r \in Request |-> "none"]
    /\ faults = 0 /\ restarts = 0
    /\ reserved = {} /\ held = {} /\ faulted = {}

-----------------------------------------------------------------------------
Goto(r, where, what) ==
    /\ pc' = [pc EXCEPT ![r] = where]
    /\ answer' = [answer EXCEPT ![r] = what]

\* A store call of request r fails.
Fault(r) ==
    /\ faults < MaxFaults
    /\ faults' = faults + 1
    /\ faulted' = faulted \cup {r}

NoFault == UNCHANGED <<faults, faulted>>
NoReserve == UNCHANGED <<reserved, held>>

\* The cache of the gateway that serves the request.  (Expiry of entries is
\* left to DrawGateway: a day is longer than these behaviours.)
Found(r) == IF req[r].key = NoKey THEN NoEntry ELSE cache[req[r].gateway][req[r].key]

Lookup(r) ==
    /\ pc[r] = "idle"
    /\ \/ /\ Found(r) # NoEntry
          /\ Goto(r, "done", IF req[r].kind = "verify" /\ Found(r) = "resolved"
                             THEN "error" ELSE Found(r))
       \/ /\ Found(r) = NoEntry
          /\ Goto(r, IF req[r].kind = "verify" THEN "check" ELSE "resolve", "none")
    /\ NoFault /\ NoReserve
    /\ UNCHANGED <<stores, local>>

\* verify_limit: signature, validity and revocation.
Check(r) ==
    /\ pc[r] = "check"
    /\ \/ /\ req[r].admitted /\ now <= req[r].exp
          /\ Goto(r, "commit", "none")
       \/ /\ ~ req[r].admitted \/ now > req[r].exp
          /\ Goto(r, "done", "unauthorised")
    /\ NoFault /\ NoReserve
    /\ UNCHANGED <<stores, local>>

\* `permits` with zero amounts: validity and scope only.
InScope(r) == now <= req[r].exp /\ req[r].in_scope

\* The script runs in Redis on behalf of r.
RunCommit(r) ==
    LET a == req[r].agent
    IN  IF Outcome(hash[a], req[r], now) = "reserved"
        THEN /\ hash' = [hash EXCEPT ![a] = Reserve(@, req[r], now)]
             /\ reserved' = reserved \cup {r}
             /\ held' = held \cup {r}
        ELSE /\ UNCHANGED hash
             /\ NoReserve

\* A wrong handling of a failed call: the draw is decided on the gateway's own
\* ledger instead, which knows of no commitment.
CommitFallsBack(r) ==
    LET a == req[r].agent
    IN  /\ pc[r] = "commit"
        /\ \/ /\ RunCommit(r)
              /\ Goto(r, "put", IF Outcome(hash[a], req[r], now) = "reserved"
                                THEN "permitted" ELSE "refused")
              /\ NoFault
           \/ /\ Fault(r)
              /\ Goto(r, "put", "permitted")
              /\ NoReserve
              /\ UNCHANGED hash
        /\ UNCHANGED <<saved, local>>

\* verify_limit: try_commit, and what follows it up to the next await.
Commit(r) ==
    LET permitted == Outcome(hash[req[r].agent], req[r], now) = "reserved"
    IN  /\ pc[r] = "commit"
        /\ \/ /\ RunCommit(r)
              /\ NoFault
              /\ CASE permitted /\ InScope(r) -> Goto(r, "put", "permitted")
                   [] permitted /\ ~ InScope(r) -> Goto(r, "rollback", "refused")
                   [] ~ permitted -> Goto(r, "put", "refused")
           \/ \* the reply is lost: refused, though Redis may have reserved
              /\ RunCommit(r)
              /\ Fault(r)
              /\ Goto(r, "done", "unavailable")
           \/ \* the call never reaches Redis
              /\ Fault(r)
              /\ Goto(r, "done", "unavailable")
              /\ NoReserve
              /\ UNCHANGED hash
        /\ UNCHANGED <<saved, local>>

\* A wrong rollback: the response goes out without waiting for Redis.
RollbackForgotten(r) ==
    /\ pc[r] = "rollback"
    /\ Goto(r, "put", answer[r])
    /\ NoFault /\ NoReserve
    /\ UNCHANGED <<stores, local>>

\* A draw out of scope gives its reservation back; a failure is ignored.
Rollback(r) ==
    LET a == req[r].agent
    IN  /\ pc[r] = "rollback"
        /\ Goto(r, "put", answer[r])
        /\ \/ /\ hash' = [hash EXCEPT
                            ![a] = ResolveScript(@, req[r].amount, FALSE, now)]
              /\ held' = held \ {r}
              /\ NoFault
              /\ UNCHANGED reserved
           \/ /\ Fault(r)
              /\ NoReserve
              /\ UNCHANGED hash
        /\ UNCHANGED <<saved, local>>

\* settle_draw: resolve in Redis; a failure is logged and the handler goes on.
Resolve(r) ==
    LET a == req[r].agent
    IN  /\ pc[r] = "resolve"
        /\ Goto(r, "record", "none")
        /\ NoReserve
        /\ \/ /\ hash' = [hash EXCEPT ![a] =
                            ResolveScript(@, req[r].amount, req[r].settled, now)]
              /\ NoFault
           \/ /\ Fault(r)
              /\ UNCHANGED hash
        /\ UNCHANGED <<saved, local>>

\* settle_draw: the gateway's own ledger, then its scorer.  Nothing here reads
\* one without the other in between.
Record(r) ==
    LET g == req[r].gateway
        a == req[r].agent
    IN  /\ pc[r] = "record"
        /\ windows' = [windows EXCEPT ![g][a] =
                         IF req[r].settled
                         THEN Ledger!RecordSettled(@, now, req[r].amount)
                         ELSE Ledger!RecordReleased(@, now, req[r].amount)]
        /\ scored' = scored \cup {r}
        /\ Goto(r, "persist", "none")
        /\ NoFault /\ NoReserve
        /\ UNCHANGED <<stores, cache>>

\* settle_draw: persist_exposure writes what the gateway's ledger shows now.
Persist(r) ==
    LET a == req[r].agent
    IN  /\ pc[r] = "persist"
        /\ Goto(r, "put", "resolved")
        /\ NoReserve
        /\ \/ /\ saved' = [saved EXCEPT ![a] =
                             Ledger!Snapshot(windows[req[r].gateway][a], now)]
              /\ NoFault
           \/ /\ Fault(r)
              /\ UNCHANGED saved
        /\ UNCHANGED <<hash, local>>

Put(r) ==
    /\ pc[r] = "put"
    /\ cache' = IF req[r].key = NoKey THEN cache
                ELSE [cache EXCEPT ![req[r].gateway][req[r].key] = answer[r]]
    /\ Goto(r, "done", answer[r])
    /\ NoFault /\ NoReserve
    /\ UNCHANGED <<stores, windows, scored>>

\* The handler's future is dropped; in "commit" and "resolve" the command may
\* already be on its way, which is the lost reply of those actions.
Drop(r) ==
    /\ pc[r] \in InFlight
    /\ Goto(r, "dropped", "none")
    /\ faulted' = faulted \cup {r}
    /\ NoReserve
    /\ UNCHANGED <<stores, local, faults>>

Handle(r) ==
    /\ \/ Lookup(r) \/ Check(r) \/ Commit(r) \/ Rollback(r) \/ Resolve(r)
       \/ Record(r) \/ Persist(r) \/ Put(r) \/ Drop(r)
    /\ UNCHANGED <<now, restarts>>

\* A gateway restarts: its memory is gone, and hydrate imports the saved rows.
Restart(g) ==
    /\ restarts < MaxRestarts
    /\ restarts' = restarts + 1
    /\ windows' = [windows EXCEPT ![g] = saved]
    /\ cache' = [cache EXCEPT ![g] = [k \in Key |-> NoEntry]]
    /\ LET cut == {r \in Request : req[r].gateway = g /\ pc[r] \in InFlight}
       IN  /\ pc' = [r \in Request |-> IF r \in cut THEN "dropped" ELSE pc[r]]
           /\ answer' = [r \in Request |-> IF r \in cut THEN "none" ELSE answer[r]]
           /\ faulted' = faulted \cup cut
    /\ scored' = {r \in scored : req[r].gateway # g}
    /\ UNCHANGED <<now, stores, faults, reserved, held>>

Tick ==
    /\ now < MaxTime
    /\ now' = now + 1
    /\ UNCHANGED <<stores, local, handlers, faults, restarts, history>>

Next == \/ \E r \in Request : Handle(r)
        \/ \E g \in Gateway : Restart(g)
        \/ Tick

Spec == Init /\ [][Next]_vars

-----------------------------------------------------------------------------
NewlyReserved == reserved' \ reserved

\* Whichever gateway asks, and whatever calls of other gateways are in flight,
\* a reservation is made only if everything the shared window then counts,
\* this draw included, is within the limit the draw presented.
ReservesWithinLimit ==
    [][\A r \in NewlyReserved :
          HashTotal(hash[req[r].agent], now)' <= req[r].lim_window]_vars

\* An outage never authorises: a client is told "permitted" only if Redis
\* reserved capacity for a request with its key or for the request itself.
OutageFailsClosed ==
    \A r \in Request : req[r].kind = "verify" /\ answer[r] = "permitted" =>
        \E s \in reserved : \/ s = r
                            \/ req[s].key = req[r].key /\ req[r].key # NoKey

\* A draw refused for its scope after Redis reserved for it holds nothing when
\* the refusal is sent, unless the call that gives it back failed.
RefusalHoldsNothing ==
    \A r \in held : pc[r] = "done" /\ answer[r] = "refused" => r \in faulted

\* Capacity at risk is never stuck in a window that does not end, also when a
\* settlement that came after the window's end made the key again.
RiskAlwaysExpires ==
    \A a \in Agent : LET h == Seen(hash[a], now)
                     IN  h # NoHash /\ h.at_risk > 0 => h.expires # NoTtl

-----------------------------------------------------------------------------
\* exposure.rs:78-79 says that the window rolls forward by expiry; the window
\* that a late settlement of a reserved draw writes never does.
WindowRollsByExpiry ==
    \A a \in Agent :
        reserved # {} /\ Seen(hash[a], now) # NoHash /\ HashTotal(hash[a], now) > 0
        => hash[a].expires # NoTtl

\* exposure.rs:80-81 says that an unresolved commitment is capacity already
\* spoken for: with no settlement sent, what is held still counts.
HeldIsSpokenFor ==
    \A r \in held :
        (\A s \in Request : req[s].kind = "settle" => pc[s] = "idle")
        => HashTotal(hash[req[r].agent], now) >= req[r].amount

-----------------------------------------------------------------------------
(* The store implements ForgetfulAccount.  The account holds what a command  *)
(* would now read of an agent's hash; a request has had its attempt when its *)
(* script ran or can no longer run.                                          *)

Draws == {r \in Request : req[r].kind = "verify"}
Settlements == {r \in Request : req[r].kind = "settle"}

AtRisk == [a \in Agent |-> Fields(hash[a], now).at_risk]
Used == [a \in Agent |-> Fields(hash[a], now).window_used]
Tried == {r \in Request : pc[r] \notin {"idle", "check", "commit", "resolve"}}

Account == INSTANCE ForgetfulAccount
              WITH Draw <- Draws, Settlement <- Settlements, offer <- req,
                   risk <- AtRisk, used <- Used, tried <- Tried, held <- held

\* Gateways that interleave, lose calls and replies, drop handlers and restart,
\* and scripts that find an expired hash, keep the account's promise.
SharedAccountSpec == Account!Spec
=============================================================================
