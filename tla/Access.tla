------------------------------- MODULE Access -------------------------------
(***************************************************************************)
(* Who may call the gateway, and how often: the API-key middleware with    *)
(* the keys of the store and of the environment, the token buckets behind  *)
(* it, and the routes that make, list and revoke keys.                     *)
(*                                                                         *)
(* A key is its row's number; its hash is as good as the key.  Every call  *)
(* to the store is a step of its own, and may fail before or after it took *)
(* effect.                                                                 *)
(***************************************************************************)
EXTENDS Integers, FiniteSetsExt

CONSTANTS
    Request, req,     \* req[r]: the body of request r
    Operator, Default, \* operators; the one of an environment key
    EnvKey, NoToken,  \* BYZ_API_KEYS, plain or hashed; no Bearer header
    MaxKeys,          \* rows of api_keys
    Capacity,         \* rate_limit_per_min
    Minute, TickMs, RefillMs, \* 60 000; a tick of the clock; 100
    Word,             \* 2^32
    Forever, NoRow,
    MaxTime, MaxFaults \* bounds

Key == 1 .. MaxKeys
Token == Key \cup EnvKey \cup {NoToken}

CallBody == [kind : {"call", "list"}, token : Token]
CreateBody == [kind : {"create"}, token : Token, lifetime : Nat \cup {Forever}]
RevokeBody == [kind : {"revoke"}, token : Token, id : Key]

AccessAssumption ==
    /\ req \in [Request -> CallBody \cup CreateBody \cup RevokeBody]
    /\ Default \in Operator /\ EnvKey \cap Nat = {} /\ NoToken \notin Key
    /\ Forever \notin Nat
    /\ {Capacity, Minute, TickMs, RefillMs, Word, MaxKeys} \subseteq Nat \ {0}
    /\ {MaxTime, MaxFaults} \subseteq Nat

VARIABLES
    now,        \* in ticks
    has_store,  \* AppState::store is Some
    api_keys,   \* Postgres
    buckets,    \* RateLimiter::buckets
    pc, answer,
    caller,     \* the operator_id that the middleware put into the request
    admitted,   \* history: requests let through, by bucket, since its first
    born,       \* history: when a bucket was made
    faults

Row == [operator : Operator, expires_at : Nat \cup {Forever}, revoked : BOOLEAN]
NoBucket == [tokens |-> 0, last |-> -1]

vars == <<now, has_store, api_keys, buckets, pc, answer, caller, admitted, born, faults>>

TypeOK ==
    /\ now \in Nat /\ faults \in Nat
    /\ has_store \in BOOLEAN
    /\ api_keys \in [Key -> Row \cup {NoRow}]
    /\ buckets \in [Token -> [tokens : 0 .. Capacity, last : Nat \cup {-1}]]
    /\ pc \in [Request -> {"idle", "limit", "handler", "done"}]
    /\ answer \in [Request -> {"none", "ok", "unauthorized", "too_many", "unavailable", "error"}]
    /\ caller \in [Request -> Operator \cup {NoRow}]
    /\ admitted \in [Token -> Nat] /\ born \in [Token -> Nat]

\* One row is there from the start, of an operator other than the default one.
Init ==
    /\ now = 0 /\ faults = 0
    /\ has_store \in BOOLEAN
    /\ \E o \in Operator \ {Default}, until \in {0, Forever} :
          api_keys = [k \in Key |-> IF k = 1 THEN [operator |-> o, expires_at |-> until,
                                                   revoked |-> FALSE]
                                    ELSE NoRow]
    /\ buckets = [t \in Token |-> NoBucket]
    /\ pc = [r \in Request |-> "idle"]
    /\ answer = [r \in Request |-> "none"]
    /\ caller = [r \in Request |-> NoRow]
    /\ admitted = [t \in Token |-> 0] /\ born = [t \in Token |-> 0]

-----------------------------------------------------------------------------
Reply(r, what) ==
    /\ pc' = [pc EXCEPT ![r] = "done"]
    /\ answer' = [answer EXCEPT ![r] = what]

Fault == faults < MaxFaults /\ faults' = faults + 1

(* require_api_key.                                                         *)

Pass(r, operator) ==
    /\ pc' = [pc EXCEPT ![r] = "limit"]
    /\ caller' = [caller EXCEPT ![r] = operator]
    /\ UNCHANGED answer

\* ApiKeyRepository::validate.
Validates(token) ==
    /\ token \in Key /\ api_keys[token] # NoRow
    /\ ~api_keys[token].revoked
    /\ api_keys[token].expires_at # Forever => now <= api_keys[token].expires_at

\* The environment's keys; without any, and without a store, everybody is let in.
FallBack(r) ==
    IF (EnvKey = {} /\ ~has_store) \/ req[r].token \in EnvKey
    THEN Pass(r, Default)
    ELSE Reply(r, "unauthorized") /\ UNCHANGED caller

Authenticate(r) ==
    LET token == req[r].token
    IN  /\ pc[r] = "idle"
        /\ \/ /\ has_store /\ Validates(token)
              /\ Pass(r, api_keys[token].operator)
              /\ UNCHANGED faults
           \/ has_store /\ ~Validates(token) /\ FallBack(r) /\ UNCHANGED faults
           \/ has_store /\ Fault /\ FallBack(r)
           \/ ~has_store /\ FallBack(r) /\ UNCHANGED faults
        /\ UNCHANGED <<now, has_store, api_keys, buckets, admitted, born>>

-----------------------------------------------------------------------------
(* per_key_rate_limit.                                                      *)

\* A wrong refill: the clock of a bucket stays where it was.
RefilledAgain(b) ==
    LET elapsed == (now - b.last) * TickMs
        refill == IF elapsed < RefillMs THEN 0
                  ELSE (((elapsed % Word) * Capacity) % Word) \div Minute
    IN  [b EXCEPT !.tokens = Min({@ + refill, Capacity})]

\* Bucket::try_consume, before it takes a token.  Milliseconds are cut to 32 bits,
\* and so is the product; what is left of a refill's fraction is lost.
Refilled(b) ==
    LET elapsed == (now - b.last) * TickMs
        refill == IF elapsed < RefillMs THEN 0
                  ELSE (((elapsed % Word) * Capacity) % Word) \div Minute
    IN  IF refill = 0 THEN b
        ELSE [tokens |-> Min({b.tokens + refill, Capacity}), last |-> now]

\* RateLimiter::check of the bucket of a token, made at its first request.
Limit(r) ==
    LET t == req[r].token
        b == IF buckets[t] = NoBucket THEN [tokens |-> Capacity, last |-> now]
             ELSE Refilled(buckets[t])
    IN  /\ pc[r] = "limit"
        /\ born' = IF buckets[t] = NoBucket THEN [born EXCEPT ![t] = now] ELSE born
        /\ \/ /\ b.tokens > 0
              /\ buckets' = [buckets EXCEPT ![t] = [b EXCEPT !.tokens = @ - 1]]
              /\ admitted' = [admitted EXCEPT ![t] = @ + 1]
              /\ pc' = [pc EXCEPT ![r] = "handler"]
              /\ UNCHANGED answer
           \/ /\ b.tokens = 0
              /\ buckets' = [buckets EXCEPT ![t] = b]
              /\ Reply(r, "too_many")
              /\ UNCHANGED admitted
        /\ UNCHANGED <<now, has_store, api_keys, caller, faults>>

-----------------------------------------------------------------------------
(* routes/keys.rs.                                                          *)

Handling(r, kind) == pc[r] = "handler" /\ req[r].kind = kind

\* Anything else the gateway serves, and every key route without a store.
Serve(r) ==
    /\ pc[r] = "handler"
    /\ \/ req[r].kind = "call" /\ Reply(r, "ok")
       \/ req[r].kind # "call" /\ ~has_store /\ Reply(r, "unavailable")
    /\ UNCHANGED <<now, has_store, api_keys, buckets, caller, admitted, born, faults>>

\* ApiKeyRepository::create: a fresh key, for the operator of the caller.
CreateKey(r) ==
    LET until == IF req[r].lifetime = Forever THEN Forever ELSE now + req[r].lifetime
        With(k) == [api_keys EXCEPT ![k] = [operator |-> caller[r], expires_at |-> until,
                                            revoked |-> FALSE]]
    IN  /\ Handling(r, "create") /\ has_store
        /\ \E k \in {j \in Key : api_keys[j] = NoRow} :
            \/ api_keys' = With(k) /\ Reply(r, "ok") /\ UNCHANGED faults
            \/ Fault /\ api_keys' \in {api_keys, With(k)} /\ Reply(r, "error")
        /\ UNCHANGED <<now, has_store, buckets, caller, admitted, born>>

ListKeys(r) ==
    /\ Handling(r, "list") /\ has_store
    /\ \/ Reply(r, "ok") /\ UNCHANGED faults
       \/ Fault /\ Reply(r, "error")
    /\ UNCHANGED <<now, has_store, api_keys, buckets, caller, admitted, born>>

\* The row that ApiKeyRepository::revoke updates.
Revocable(k, operator) ==
    api_keys[k] # NoRow /\ ~api_keys[k].revoked /\ api_keys[k].operator = operator

RevokeKey(r) ==
    LET k == req[r].id
        Revoked == [api_keys EXCEPT ![k].revoked = TRUE]
    IN  /\ Handling(r, "revoke") /\ has_store
        /\ \/ /\ Revocable(k, caller[r])
              /\ \/ api_keys' = Revoked /\ Reply(r, "ok") /\ UNCHANGED faults
                 \/ Fault /\ api_keys' \in {api_keys, Revoked} /\ Reply(r, "error")
           \/ /\ ~Revocable(k, caller[r])
              /\ Reply(r, "error") /\ UNCHANGED <<api_keys, faults>>
        /\ UNCHANGED <<now, has_store, buckets, caller, admitted, born>>

Tick ==
    /\ now < MaxTime /\ now' = now + 1
    /\ UNCHANGED <<has_store, api_keys, buckets, pc, answer, caller, admitted, born, faults>>

\* A client sends the next request like one that was answered.
Again(r) ==
    /\ pc[r] = "done" /\ req[r].kind = "call"
    /\ pc' = [pc EXCEPT ![r] = "idle"]
    /\ answer' = [answer EXCEPT ![r] = "none"]
    /\ caller' = [caller EXCEPT ![r] = NoRow]
    /\ UNCHANGED <<now, has_store, api_keys, buckets, admitted, born, faults>>

Next ==
    \/ \E r \in Request :
        \/ Authenticate(r) \/ Limit(r) \/ Serve(r)
        \/ CreateKey(r) \/ ListKeys(r) \/ RevokeKey(r) \/ Again(r)
    \/ Tick

Spec == Init /\ [][Next]_vars

-----------------------------------------------------------------------------
(* Properties.                                                              *)

\* From the first request of a token on, no more requests are let through than
\* the capacity and what `capacity` a minute adds to it, however requests and
\* refills are spaced, and however often the product wraps.
RateIsBounded ==
    \A t \in Token : buckets[t] # NoBucket =>
        admitted[t] <= Capacity + (Capacity * (now - born[t]) * TickMs) \div Minute

=============================================================================
