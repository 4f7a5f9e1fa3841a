---------------------------- MODULE DrawGateway ----------------------------
(***************************************************************************)
(* The draw endpoints of one gateway running without a store: handlers of  *)
(* concurrent requests, their idempotency keys, revocation, and handlers   *)
(* that are dropped between two awaits, because TimeoutLayer gave up on    *)
(* them or the client went away.                                           *)
(*                                                                         *)
(* A handler is a sequence of critical sections, one per lock it takes;    *)
(* each is an action, and any other handler may run between two of them.   *)
(* A retry is another request with the same key and body.  Nothing here    *)
(* survives a restart, so restarts are left to the modules with a store.   *)
(***************************************************************************)
EXTENDS Attestation, FiniteSets

CONSTANTS
    Agent, Principal,
    Key, NoKey,   \* idempotency keys, and the absence of one
    Request,
    req,          \* req[r]: the body of request r
    KeyTtl,       \* IdempotencyCache::ttl
    MaxTime,      \* bound on the clock
    MaxRevokes,   \* bound on the number of calls of revoke_limits
    Never,        \* no cutoff is registered
    NoEntry       \* the cache has no entry

Subject == Agent \cup Principal

VerifyBody == [kind : {"verify"}, key : Key \cup {NoKey}, agent : Agent,
               principal : Principal, amount : Minor, genuine : BOOLEAN,
               lim_single : Minor, lim_window : WindowLimit,
               nbf : Nat, exp : Nat, in_scope : BOOLEAN]
SettleBody == [kind : {"settle"}, key : Key \cup {NoKey}, agent : Agent,
               amount : Minor, settled : BOOLEAN]

Answer == {"none", "permitted", "refused", "resolved", "unauthorised", "error"}
Entries == [response : Answer, stored_at : Nat]

ASSUME GatewayAssumption ==
    /\ req \in [Request -> VerifyBody \cup SettleBody]
    /\ IsFiniteSet(Request)
    /\ KeyTtl \in Nat /\ MaxTime \in Nat /\ MaxRevokes \in Nat
    /\ Never \notin Nat /\ NoEntry \notin Entries

VARIABLES
    now,       \* Utc::now() and Instant::now(), which advance together
    windows,   \* AppState::mandate_engine, its ledger
    cutoffs,   \* AppState::revocations
    cache,     \* AppState::idempotency
    outcomes,  \* AppState::reputation: draw outcomes ingested, per agent
    pc,        \* where the handler of each request stands
    answer,    \* the response it has computed, sent when pc is "done"
    revokes,   \* calls of revoke_limits so far, for the bound
    applied,   \* history: requests that committed or resolved exposure
    drawn,     \* history: what an agent drew in its window, less what it released
    answered,  \* history: when a handler last answered under each key
    late,      \* history: requests that arrived within KeyTtl of such an answer
    livable    \* history: requests in flight whose attestation was unrevoked
               \* at some instant since they arrived

handlers == <<pc, answer>>
history == <<applied, drawn, answered, late>>
vars == <<now, windows, cutoffs, cache, outcomes, pc, answer, revokes,
          applied, drawn, answered, late, livable>>

InFlight == {"check", "decide", "resolve", "score", "put"}

TypeOK ==
    /\ now \in 0..MaxTime
    /\ windows \in [Agent -> Window \cup {NoWindow}]
    /\ cutoffs \in [Subject -> Nat \cup {Never}]
    /\ cache \in [Key -> Entries \cup {NoEntry}]
    /\ outcomes \in [Agent -> Nat]
    /\ pc \in [Request -> InFlight \cup {"idle", "done", "dropped"}]
    /\ answer \in [Request -> Answer]
    /\ revokes \in 0..MaxRevokes
    /\ drawn \in [Agent -> Nat]
    /\ answered \in [Key -> Nat \cup {Never}]
    /\ \A h \in {applied, late, livable} : h \subseteq Request

Init ==
    /\ now = 0
    /\ windows = [a \in Agent |-> NoWindow]
    /\ cutoffs = [s \in Subject |-> Never]
    /\ cache = [k \in Key |-> NoEntry]
    /\ outcomes = [a \in Agent |-> 0]
    /\ pc = [r \in Request |-> "idle"]
    /\ answer = [r \in Request |-> "none"]
    /\ revokes = 0
    /\ answered = [k \in Key |-> Never]
    /\ applied = {} /\ late = {} /\ livable = {}
    /\ drawn = [a \in Agent |-> 0]

Exposure(a) == Snapshot(windows[a], now)

-----------------------------------------------------------------------------
(* The revocation registry (byz-underwrite/src/revocation.rs).              *)

\* One cutoff kills what was issued before it, once it has arrived.
Cuts(s, r) == /\ cutoffs[s] # Never
              /\ now >= cutoffs[s] /\ req[r].nbf < cutoffs[s]

Revoked(r) == Cuts(req[r].agent, r) \/ Cuts(req[r].principal, r)

\* revoke_limits, for an agent or a principal, now or at a scheduled instant.
\* A registered cutoff only moves forward.
Revoke(s, effective_from) ==
    /\ revokes < MaxRevokes
    /\ revokes' = revokes + 1
    /\ cutoffs' = [cutoffs EXCEPT
                     ![s] = IF @ = Never \/ effective_from > @
                            THEN effective_from ELSE @]
    /\ UNCHANGED <<now, windows, cache, outcomes, handlers, history>>

-----------------------------------------------------------------------------
(* The idempotency cache (byz-gateway/src/idempotency.rs).                  *)

Live(e) == e # NoEntry /\ now - e.stored_at <= KeyTtl

Hit(r) == req[r].key # NoKey /\ Live(cache[req[r].key])

\* A wrong put: evicting what has expired forgets to insert the new answer
\* when the key was already present.
StoredOnlyOnce(r) ==
    IF req[r].key = NoKey THEN cache
    ELSE [k \in Key |->
            IF k = req[r].key /\ cache[k] = NoEntry
            THEN [response |-> answer[r], stored_at |-> now]
            ELSE IF Live(cache[k]) THEN cache[k] ELSE NoEntry]

\* `put` evicts every expired entry and inserts the answer.
Stored(r) ==
    IF req[r].key = NoKey THEN cache
    ELSE [k \in Key |->
            IF k = req[r].key THEN [response |-> answer[r], stored_at |-> now]
            ELSE IF Live(cache[k]) THEN cache[k] ELSE NoEntry]

\* A wrong replay: what is missing from the cached response is defaulted.
ReplayedLeniently(r) ==
    IF req[r].kind = "verify" THEN "permitted" ELSE cache[req[r].key].response

\* What a handler makes of a cached response.  verify_limit parses it as a
\* VerifyLimitResponse, which a settlement's response is not; settle_draw
\* returns whatever it finds.
Replayed(r) ==
    LET found == cache[req[r].key].response
    IN  IF req[r].kind = "verify" /\ found = "resolved" THEN "error" ELSE found

-----------------------------------------------------------------------------
(* The handlers.                                                            *)

Goto(r, where, what) ==
    /\ pc' = [pc EXCEPT ![r] = where]
    /\ answer' = [answer EXCEPT ![r] = what]

\* Everything a handler may touch but the named parts stays as it is.
SameBooks == UNCHANGED <<windows, outcomes, applied, drawn>>
SameCache == UNCHANGED <<cache, answered, late>>

\* First section of both handlers: the read of the cache.
Lookup(r) ==
    /\ pc[r] = "idle"
    /\ \/ Hit(r) /\ Goto(r, "done", Replayed(r))
       \/ /\ ~ Hit(r)
          /\ Goto(r, IF req[r].kind = "verify" THEN "check" ELSE "resolve", "none")
    /\ late' = IF /\ req[r].key # NoKey
                  /\ answered[req[r].key] # Never
                  /\ now - answered[req[r].key] <= KeyTtl
               THEN late \cup {r} ELSE late
    /\ SameBooks
    /\ UNCHANGED <<cache, answered>>

\* A wrong check: a valid signature is enough.
CheckSignatureOnly(r) ==
    /\ pc[r] = "check"
    /\ \/ /\ ~ (req[r].genuine /\ ValidAt(req[r], now))
          /\ Goto(r, "done", "unauthorised")
       \/ /\ req[r].genuine /\ ValidAt(req[r], now)
          /\ Goto(r, "decide", "none")
    /\ SameBooks /\ SameCache

\* AttestationIssuer::verify: the signature and the validity period.
Verified(r) == req[r].genuine /\ ValidAt(req[r], now)

\* verify_limit: the attestation, then the registry under its read lock.
Check(r) ==
    /\ pc[r] = "check"
    /\ \/ /\ ~ Verified(r) \/ Revoked(r)
          /\ Goto(r, "done", "unauthorised")
       \/ /\ Verified(r) /\ ~ Revoked(r)
          /\ Goto(r, "decide", "none")
    /\ SameBooks /\ SameCache

\* What the agent had drawn in the window that a write finds open now.
DrawnInWindow(a) ==
    IF windows[a] = NoWindow \/ Elapsed(windows[a], now) THEN 0 ELSE drawn[a]

\* verify_limit: read, decide and reserve under the engine's write guard.
\* Without a key there is no further await before the response.
Decide(r) ==
    LET a == req[r].agent
        next == IF req[r].key = NoKey THEN "done" ELSE "put"
    IN  /\ pc[r] = "decide"
        /\ \/ /\ Permits(req[r], Exposure(a), now)
              /\ windows' = [windows EXCEPT ![a] = RecordCommit(@, now, req[r].amount)]
              /\ applied' = applied \cup {r}
              /\ drawn' = [drawn EXCEPT ![a] = DrawnInWindow(a) + req[r].amount]
              /\ Goto(r, next, "permitted")
           \/ /\ ~ Permits(req[r], Exposure(a), now)
              /\ Goto(r, next, "refused")
              /\ UNCHANGED <<windows, applied, drawn>>
        /\ SameCache
        /\ UNCHANGED outcomes

\* settle_draw: the engine's write guard.  The amount is the client's; it is
\* not matched with any commitment.
Resolve(r) ==
    LET a == req[r].agent
    IN  /\ pc[r] = "resolve"
        /\ windows' = [windows EXCEPT
                         ![a] = IF req[r].settled
                                THEN RecordSettled(@, now, req[r].amount)
                                ELSE RecordReleased(@, now, req[r].amount)]
        /\ applied' = applied \cup {r}
        /\ drawn' = [drawn EXCEPT
                       ![a] = IF req[r].settled THEN DrawnInWindow(a)
                              ELSE SatSub(DrawnInWindow(a), req[r].amount)]
        /\ Goto(r, "score", "none")
        /\ SameCache
        /\ UNCHANGED outcomes

\* settle_draw: the outcome reaches the scorer, then the response is built
\* from a fresh read of the exposure.
Score(r) ==
    /\ pc[r] = "score"
    /\ outcomes' = [outcomes EXCEPT ![req[r].agent] = @ + 1]
    /\ Goto(r, "put", "resolved")
    /\ SameCache
    /\ UNCHANGED <<windows, applied, drawn>>

\* Last section of both handlers: the answer is remembered, then sent.
Put(r) ==
    /\ pc[r] = "put"
    /\ cache' = Stored(r)
    /\ answered' = IF req[r].key = NoKey THEN answered
                   ELSE [answered EXCEPT ![req[r].key] = now]
    /\ Goto(r, "done", answer[r])
    /\ SameBooks
    /\ UNCHANGED late

Step(r) == Lookup(r) \/ Check(r) \/ Decide(r) \/ Resolve(r) \/ Score(r) \/ Put(r)

\* The future of a handler is dropped at an await: nothing it has done is
\* undone, and what it had not yet done never happens.
Drop(r) ==
    /\ pc[r] \in InFlight
    /\ Goto(r, "dropped", "none")
    /\ SameBooks /\ SameCache

Tick ==
    /\ now < MaxTime
    /\ now' = now + 1
    /\ UNCHANGED <<windows, cutoffs, cache, outcomes, handlers, revokes, history>>

RecordLivable ==
    livable' = {r \in Request :
                  /\ pc'[r] \in InFlight /\ req[r].kind = "verify"
                  /\ (r \in livable \/ ~ Revoked(r)')}

Handle(act) ==
    /\ act
    /\ UNCHANGED <<now, cutoffs, revokes>>
    /\ RecordLivable

Next == \/ \E r \in Request : Handle(Step(r)) \/ Handle(Drop(r))
        \/ \E s \in Subject : \E t \in {now, now + 1} : Revoke(s, t) /\ RecordLivable
        \/ Tick /\ RecordLivable

Spec == Init /\ [][Next]_vars

-----------------------------------------------------------------------------
Committed(a) == Exposure(a).at_risk + Exposure(a).window_used
NewlyApplied == applied' \ applied

\* Whatever handlers ran between its sections, a draw is committed only if
\* everything then counting against its agent, the draw included, is within
\* the limit it presented.  (README: two concurrent draws each see an empty
\* window.)
DecidesOnWholeWindow ==
    [][\A r \in NewlyApplied : req[r].kind = "verify" =>
          Committed(req[r].agent)' <= req[r].lim_window]_vars

\* A client is told "permitted" only if a draw was committed under its request
\* or its key, and "resolved" only if a settlement was applied under them.
AnswersAreBacked ==
    \A r \in Request :
        <<req[r].kind, answer[r]>> \in {<<"verify", "permitted">>, <<"settle", "resolved">>}
        => \E s \in applied : /\ req[s].kind = req[r].kind
                              /\ (s = r \/ (req[s].key = req[r].key /\ req[r].key # NoKey))

\* A draw that arrives when its attestation is revoked, and finds it revoked
\* ever after, commits nothing, however long its handler is suspended.
RevokedOnArrivalNeverDraws ==
    [][\A r \in NewlyApplied : req[r].kind = "verify" => r \in livable]_vars

\* Once a handler has answered under a key, a request with that key that
\* arrives within the key's lifetime moves no exposure, even when handlers
\* that arrived earlier are still running or time has evicted other keys.
AnsweredKeyIsFinal == [][NewlyApplied \cap late = {}]_vars

\* In one window an agent is permitted no more than the limit it presents,
\* what it released aside: no settlement makes room for a draw, whether it
\* is larger than what was drawn, sent twice, or matches no draw at all.
SettlingFreesNothing ==
    [][\A r \in NewlyApplied : req[r].kind = "verify" =>
          drawn'[req[r].agent] <= req[r].lim_window]_vars

-----------------------------------------------------------------------------
\* limits.rs:344 and the README say this of a keyed retry; the code does not
\* keep it when the first handler is dropped after it committed, or when both
\* look the key up before either has stored its answer.
AppliedOncePerKey ==
    \A r, s \in applied :
        r # s /\ req[r].key = req[s].key /\ req[r].key # NoKey =>
            req[r].kind # req[s].kind

\* revocation.rs says that a killed credential comes back only by lifting the
\* revocation, an act no handler performs; a later cutoff brings it back.
KilledStaysKilled ==
    [][\A r \in Request : req[r].kind = "verify" /\ Revoked(r) => Revoked(r)']_vars
=============================================================================
