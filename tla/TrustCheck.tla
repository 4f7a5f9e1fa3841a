----------------------------- MODULE TrustCheck -----------------------------
(***************************************************************************)
(* POST /v1/trust-check of a gateway with a store, the handlers that       *)
(* create, issue and revoke the mandates it enforces, the background job   *)
(* that keeps threshold proofs fresh, and restarts.                        *)
(*                                                                         *)
(* A check reads the mandate under one lock, asks Redis, then Neo4j, then  *)
(* memory whether the agent's score meets the threshold, answers, and      *)
(* leaves the recording of the spend to a task of its own.  Of a score,    *)
(* whether it meets the threshold is kept; of a PassToken, its mandate and *)
(* its expiry.                                                             *)
(***************************************************************************)
EXTENDS Mandates, Totals

CONSTANTS
    Request,
    req,            \* req[r]: the body of request r; a mandate's id is its request
    GraphEdges,     \* per agent, the transactions Neo4j holds; no handler adds one
    Threshold,      \* ReputationConfig::default_threshold
    TokenLife,      \* seconds a PassToken is valid
    ProofLife,      \* VerifiedThreshold: seconds between proving and expiry
    CacheTtl,       \* RedisConfig::proof_cache_ttl_secs
    RequestTimeout, \* TimeoutLayer
    ProvingTime,    \* bound on how long a proof takes
    MaxTime, MaxFaults, MaxRestarts, MaxMoves,  \* bounds
    Never, NoProof

CreateBody == [kind : {"create"}, agent : Agent, whitelist : SUBSET Counterparty,
               actions : SUBSET ActionType, per_tx_cap : Minor, daily_cap : Minor,
               valid_for : Nat]
LimitBody == [kind : {"limit"}, agent : Agent, actions : SUBSET ActionType,
              lim_single : Minor, lim_window : Minor]
RevokeBody == [kind : {"revoke"}, id : MandateId]
CheckBody == [kind : {"check"}, agent : Agent, action : ActionType,
              amount : Minor \cup {Unstated}, counterparty : Counterparty \cup {Unstated}]

ASSUME TrustAssumption ==
    /\ req \in [Request -> CreateBody \cup LimitBody \cup RevokeBody \cup CheckBody]
    /\ MandateId = {r \in Request : req[r].kind \in {"create", "limit"}}
    /\ IsFiniteSet(Request)
    /\ GraphEdges \in [Agent -> [total : Nat, successes : Nat]]
    /\ {Threshold, TokenLife, ProofLife, CacheTtl, RequestTimeout, ProvingTime,
        MaxTime, MaxFaults, MaxRestarts, MaxMoves} \subseteq Nat
    /\ Never \notin Nat /\ NoProof \notin Nat

VARIABLES
    now,
    book,      \* AppState::mandate_engine, its MandateStore
    windows,   \* AppState::mandate_engine, its ledger
    rows,      \* Postgres: what each mandate's row says
    meets,     \* per agent, AppState::reputation's score meets the threshold
    cached,    \* Redis: when the cached proof of an agent expires
    proving,   \* the refresh job: since when it has been proving for an agent
    pc, answer,
    since,     \* when request r, in flight, arrived
    under,     \* the mandate its check was compliant with
    token,     \* when the PassToken it was answered with expires
    spawned,   \* checks whose spend is left to a task that has not run yet
    moves, faults, restarts,
    revoked_at,  \* history: when a revocation of the mandate was answered
    met_at,      \* history: when the agent's score last met the threshold
    overlap      \* history: the spends recorded since r's check read the ledger

handlers == <<pc, answer, since, under, token>>
reputation == <<meets, cached, proving, moves>>
vars == <<now, book, windows, rows, reputation, handlers, spawned, faults,
          restarts, revoked_at, met_at, overlap>>

InFlight == {"row", "book", "cache", "graph", "memory"}
Answer == {"none", "created", "revoked", "not_found", "error", "PASS", "FLAG", "BLOCK"}
Checks == {r \in Request : req[r].kind = "check"}

TypeOK ==
    /\ now \in Nat
    /\ book \in Book
    /\ windows \in [Agent -> Window \cup {NoWindow}]
    /\ rows \in [MandateId -> {"absent", "live", "revoked"}]
    /\ meets \in [Agent -> BOOLEAN]
    /\ cached \in [Agent -> Nat \cup {NoProof}]
    /\ proving \in [Agent -> Nat \cup {Never}]
    /\ pc \in [Request -> InFlight \cup {"idle", "done", "dropped"}]
    /\ answer \in [Request -> Answer]
    /\ since \in [Request -> Nat]
    /\ under \in [Request -> MandateId \cup {NoMandate}]
    /\ token \in [Request -> Nat \cup {Never}]
    /\ spawned \subseteq Checks
    /\ moves \in Nat /\ faults \in Nat /\ restarts \in Nat
    /\ revoked_at \in [MandateId -> Nat \cup {Never}]
    /\ met_at \in [Agent -> Nat \cup {Never}]
    /\ overlap \in [Request -> SUBSET Checks]

Init ==
    /\ now = 0
    /\ book = EmptyBook
    /\ windows = [a \in Agent |-> NoWindow]
    /\ rows = [i \in MandateId |-> "absent"]
    /\ meets = [a \in Agent |-> FALSE]
    /\ cached = [a \in Agent |-> NoProof]
    /\ proving = [a \in Agent |-> Never]
    /\ pc = [r \in Request |-> "idle"]
    /\ answer = [r \in Request |-> "none"]
    /\ since = [r \in Request |-> 0]
    /\ under = [r \in Request |-> NoMandate]
    /\ token = [r \in Request |-> Never]
    /\ spawned = {}
    /\ moves = 0 /\ faults = 0 /\ restarts = 0
    /\ revoked_at = [i \in MandateId |-> Never]
    /\ met_at = [a \in Agent |-> Never]
    /\ overlap = [r \in Request |-> {}]

-----------------------------------------------------------------------------
Arrive(r) == pc[r] = "idle"
Resume(r, where) == pc[r] = where

Goto(r, where) ==
    /\ pc' = [pc EXCEPT ![r] = where]
    /\ since' = IF pc[r] = "idle" THEN [since EXCEPT ![r] = now] ELSE since
    /\ UNCHANGED answer

Reply(r, what) ==
    /\ pc' = [pc EXCEPT ![r] = "done"]
    /\ since' = [since EXCEPT ![r] = 0]
    /\ answer' = [answer EXCEPT ![r] = what]

\* A call to Postgres, Redis or Neo4j fails.
Fault == faults < MaxFaults /\ faults' = faults + 1

NoToken == UNCHANGED <<under, token, spawned, overlap>>

-----------------------------------------------------------------------------
(* create_mandate, and the mandate that issue_limit stores.                 *)

\* MandateRepository::insert.
RowInserted(i) == [rows EXCEPT ![i] = "live"]

\* The row first: without it the mandate does not reach memory.
CreateRow(r) ==
    /\ req[r].kind = "create" /\ Arrive(r)
    /\ \/ rows' = RowInserted(r) /\ Goto(r, "book") /\ UNCHANGED faults
       \/ Fault /\ Reply(r, "error") /\ UNCHANGED rows
    /\ NoToken
    /\ UNCHANGED <<book, windows, revoked_at>>

CreateInBook(r) ==
    /\ req[r].kind = "create" /\ Resume(r, "book")
    /\ book' = Inserted(book, r, Typed(req[r], since[r]))
    /\ Reply(r, "created")
    /\ NoToken
    /\ UNCHANGED <<windows, rows, faults, revoked_at>>

\* issue_limit writes no row for its mandate.
IssueInBook(r) ==
    /\ req[r].kind = "limit" /\ Arrive(r)
    /\ book' = Inserted(book, r, FromDecision(req[r], now))
    /\ Reply(r, "created")
    /\ NoToken
    /\ UNCHANGED <<windows, rows, faults, revoked_at>>

-----------------------------------------------------------------------------
(* revoke_mandate.  Only an id that has been answered can be named.         *)

\* MandateRepository::revoke, of a row that is not revoked yet.
RowRevoked(i) == [rows EXCEPT ![i] = "revoked"]

\* A row that is absent or already revoked, and a call that fails, are all
\* answered 404, before memory is touched.
RevokeRow(r) ==
    LET i == req[r].id
    IN  /\ req[r].kind = "revoke" /\ answer[i] = "created" /\ Arrive(r)
        /\ \/ /\ rows[i] = "live"
              /\ rows' = RowRevoked(i)
              /\ Goto(r, "book") /\ UNCHANGED faults
           \/ rows[i] # "live" /\ Reply(r, "not_found") /\ UNCHANGED <<rows, faults>>
           \/ Fault /\ Reply(r, "not_found") /\ UNCHANGED rows
        /\ NoToken
        /\ UNCHANGED <<book, windows, revoked_at>>

\* A wrong revocation: only the row is marked.
RevokeInStoreOnly(r) ==
    /\ req[r].kind = "revoke" /\ Resume(r, "book")
    /\ revoked_at' = [revoked_at EXCEPT ![req[r].id] = now]
    /\ Reply(r, "revoked")
    /\ NoToken
    /\ UNCHANGED <<book, windows, rows, faults>>

RevokeInBook(r) ==
    /\ req[r].kind = "revoke" /\ Resume(r, "book")
    /\ book' = Removed(book, req[r].id)
    /\ revoked_at' = [revoked_at EXCEPT ![req[r].id] = now]
    /\ Reply(r, "revoked")
    /\ NoToken
    /\ UNCHANGED <<windows, rows, faults>>

-----------------------------------------------------------------------------
(* trust_check.                                                             *)

\* Step 1, under the engine's read lock.
CheckMandate(r) ==
    LET a == req[r].agent
    IN  /\ req[r].kind = "check" /\ Arrive(r)
        /\ \/ /\ Complies(ForAgent(book, a), windows[a], now, req[r])
              /\ under' = [under EXCEPT ![r] = book.agent_index[a]]
              /\ Goto(r, "cache")
           \/ /\ ~ Complies(ForAgent(book, a), windows[a], now, req[r])
              /\ Reply(r, "BLOCK") /\ UNCHANGED under
        /\ UNCHANGED <<token, spawned, overlap, book, windows, rows, faults, revoked_at>>

\* Step 3 and 4: a FLAG, or a signed token and a task for the spend.
Conclude(r, ok) ==
    /\ Reply(r, IF ok THEN "PASS" ELSE "FLAG")
    /\ token' = IF ok THEN [token EXCEPT ![r] = now + TokenLife] ELSE token
    /\ spawned' = IF ok /\ req[r].amount # Unstated THEN spawned \cup {r} ELSE spawned
    /\ UNCHANGED <<under, overlap, book, windows, rows, revoked_at>>

\* get_threshold_proof: a proof that has expired is a miss.
Proven(a) == cached[a] # NoProof /\ now <= cached[a]

\* Step 2.  A cached proof that verifies is an answer.
CheckCache(r) ==
    /\ Resume(r, "cache")
    /\ \/ \E verifies \in BOOLEAN : Proven(req[r].agent) /\ Conclude(r, verifies)
          /\ UNCHANGED faults
       \/ /\ \/ ~ Proven(req[r].agent) /\ UNCHANGED faults
             \/ Fault
          /\ Goto(r, "graph") /\ NoToken
          /\ UNCHANGED <<book, windows, rows, revoked_at>>

\* compute_score: the share of successes in a thousand; 500 with no history.
ComputeScore(e) == IF e.total = 0 THEN 500 ELSE (e.successes * 1000) \div e.total

CheckGraph(r) ==
    /\ Resume(r, "graph")
    /\ \/ Conclude(r, ComputeScore(GraphEdges[req[r].agent]) >= Threshold) /\ UNCHANGED faults
       \/ Fault /\ Goto(r, "memory") /\ NoToken /\ UNCHANGED <<book, windows, rows, revoked_at>>

MeetsThreshold(a) == meets[a]

CheckMemory(r) ==
    /\ Resume(r, "memory")
    /\ Conclude(r, MeetsThreshold(req[r].agent))
    /\ UNCHANGED faults

\* The spawned task, under the engine's write lock.
Charge(r) ==
    LET a == req[r].agent
    IN  /\ r \in spawned
        /\ windows' = [windows EXCEPT ![a] = RecordSpend(@, now, req[r].amount)]
        /\ spawned' = spawned \ {r}
        /\ overlap' = [q \in Request |->
                         IF ~ (pc[q] \in InFlight \/ q \in spawned \ {r}) THEN {}
                         ELSE IF req[q].kind = "check" /\ req[q].agent = a
                              THEN overlap[q] \cup {r} ELSE overlap[q]]
        /\ UNCHANGED <<book, rows, pc, answer, since, under, token, faults, revoked_at>>

Step(r) ==
    \/ CreateRow(r) \/ CreateInBook(r) \/ IssueInBook(r)
    \/ RevokeRow(r) \/ RevokeInBook(r)
    \/ CheckMandate(r) \/ CheckCache(r) \/ CheckGraph(r) \/ CheckMemory(r)

\* The handler is dropped at an await, by TimeoutLayer or by its client.
Drop(r) ==
    /\ pc[r] \in InFlight
    /\ pc' = [pc EXCEPT ![r] = "dropped"]
    /\ since' = [since EXCEPT ![r] = 0]
    /\ UNCHANGED <<answer, under, token, spawned, overlap, book, windows,
                   rows, faults, revoked_at>>

-----------------------------------------------------------------------------
(* The score, and the job that proves it.                                   *)

\* What is ingested elsewhere moves an agent's score across the threshold.
ScoreMoves(a) ==
    /\ moves < MaxMoves /\ moves' = moves + 1
    /\ meets' = [meets EXCEPT ![a] = ~ @]
    /\ UNCHANGED <<cached, proving>>

\* run_once reads the score, and starts a proof for one that meets the
\* threshold; `prove` refuses any other.
StartProof(a) ==
    /\ \A b \in Agent : proving[b] = Never
    /\ meets[a]
    /\ proving' = [proving EXCEPT ![a] = now]
    /\ UNCHANGED <<meets, cached, moves>>

\* A wrong entry: it is as good as Redis keeps it, whatever the proof says.
KeptForItsTtl(proof) == now + CacheTtl

\* set_threshold_proof: an entry serves until the proof or the entry expires.
Kept(proof) == IF now + CacheTtl < proof THEN now + CacheTtl ELSE proof

\* The proof's life starts when it is finished, not when its score was read.
FinishProof(a) ==
    /\ proving[a] # Never
    /\ cached' = [cached EXCEPT ![a] = Kept(now + ProofLife)]
    /\ proving' = [proving EXCEPT ![a] = Never]
    /\ UNCHANGED <<meets, moves>>

\* The prover or the write to the cache fails; both are only logged.
LoseProof(a) ==
    /\ proving[a] # Never
    /\ proving' = [proving EXCEPT ![a] = Never]
    /\ UNCHANGED <<meets, cached, moves>>

-----------------------------------------------------------------------------
\* No handler outlives TimeoutLayer, and no proof takes longer than ProvingTime.
Tick ==
    /\ now < MaxTime
    /\ \A r \in Request : pc[r] \in InFlight => now < since[r] + RequestTimeout
    /\ \A a \in Agent : proving[a] # Never => now < proving[a] + ProvingTime
    /\ now' = now + 1

\* Memory is lost; `hydrate` restores neither mandates nor what checks spent.
Restart ==
    /\ restarts < MaxRestarts /\ restarts' = restarts + 1
    /\ book' = EmptyBook
    /\ windows' = [a \in Agent |-> NoWindow]
    /\ meets' = [a \in Agent |-> FALSE]
    /\ proving' = [a \in Agent |-> Never]
    /\ pc' = [r \in Request |-> IF pc[r] \in InFlight THEN "dropped" ELSE pc[r]]
    /\ since' = [r \in Request |-> 0]
    /\ spawned' = {}
    /\ overlap' = [r \in Request |-> {}]

Remember ==
    met_at' = [a \in Agent |-> IF meets'[a] THEN now' ELSE met_at[a]]

Next ==
    /\ \/ /\ \E r \in Request : Step(r) \/ Drop(r)
          /\ UNCHANGED <<now, reputation, restarts>>
       \/ /\ \E r \in Request : Charge(r)
          /\ UNCHANGED <<now, reputation, restarts>>
       \/ /\ \E a \in Agent : ScoreMoves(a) \/ StartProof(a) \/ FinishProof(a) \/ LoseProof(a)
          /\ UNCHANGED <<now, book, windows, rows, handlers, spawned, faults, restarts,
                         revoked_at, overlap>>
       \/ /\ Tick
          /\ UNCHANGED <<book, windows, rows, reputation, handlers, spawned, faults,
                         restarts, revoked_at, overlap>>
       \/ /\ Restart
          /\ UNCHANGED <<now, rows, cached, moves, answer, under, token, faults,
                         revoked_at>>
    /\ Remember

Spec == Init /\ [][Next]_vars

-----------------------------------------------------------------------------
\* What a mandate lets its agent spend in one window.
DailyCap(i) == IF req[i].kind = "create" THEN req[i].daily_cap ELSE req[i].lim_window

Spend == [r \in Checks |-> IF req[r].amount = Unstated THEN 0 ELSE req[r].amount]

\* Once a revocation is answered, no PassToken under the mandate is valid for
\* longer than a check that had already begun could make it, whatever other
\* mandates of the agent come and go and whenever the gateway restarts.
RevocationStopsTokens ==
    \A r \in Checks :
        token[r] # Never /\ revoked_at[under[r]] # Never =>
            token[r] <= revoked_at[under[r]] + RequestTimeout + TokenLife

\* A spend takes an agent's window over the cap its check was held to by no
\* more than the spends recorded between the check and its own record.
OverspendIsOnlyOverlap ==
    [][\A r \in spawned \ spawned' : restarts' = restarts =>
          AlreadyCommitted(windows'[req[r].agent], now)
            <= DailyCap(under[r]) + SumOver(Spend, Checks)[overlap[r]]]_vars

\* A check passes only for an agent that the graph vouches for, or whose score
\* met the threshold no longer ago than a proof takes to make and then lives,
\* even when the proof outlives the process that made it.
PassHasStanding ==
    [][\A r \in Checks : token[r] = Never /\ token'[r] # Never =>
          LET a == req[r].agent
          IN  \/ ComputeScore(GraphEdges[a]) >= Threshold
              \/ met_at'[a] # Never /\ now <= met_at'[a] + ProvingTime + ProofLife]_vars

-----------------------------------------------------------------------------
\* byz-mandate/src/engine.rs:226 says that value already spoken for counts, so that concurrent
\* spends do not each see an empty window.  The code counts a spend only after
\* its check was answered, so two checks can.
DailyCapHolds ==
    \A a \in Agent : \A i \in MandateId :
        book.agent_index[a] = i => AlreadyCommitted(windows[a], now) <= DailyCap(i)
=============================================================================
