# A TLA+ model of the Byzantium gateway

Byzantium issues *credit limits* to software agents and enforces them draw by
draw. A principal is screened and registered, its agents build a history, the
underwriter turns standing and history into a limit, the gateway signs the limit
as an attestation, and every payment presents that attestation and is decided
against what the agent still owes and has already spent in its window.

This directory models the part of the program in which that promise can break:
issuing limits, deciding draws, settling them, revoking them, collecting the
evidence an attestation refers to, and what a retry, a dropped request, a lost reply,
an expired key or a restart does to each. Around it are the trust check with its
mandates, the receipts that are sealed and anchored, and the smaller components
that guard, count, sign or bill. Source
paths below are relative to `src/crates/` unless they begin with `src/`.

Contents: [inventory](#1-inventory), [modules](#2-modules-and-the-code-they-model),
[runs](#3-runs), [fairness](#4-fairness), [proofs](#5-proofs),
[disagreements found](#6-where-the-code-and-its-documents-disagree),
[what is left out](#7-what-is-not-modelled), [plan](#8-plan).

## 1. Inventory

### Components

| Component | Source | State it keeps | Operations |
|---|---|---|---|
| Exposure ledger | `byz-mandate/src/exposure.rs` | per agent: at_risk, window_used, window_start, open_draws | snapshot, record_commit, record_settled, record_released, lazy roll |
| Limit attestation | `byz-common/src/limits.rs` | none (a signed value the client holds) | permits, is_valid_at |
| Draw endpoints | `byz-gateway/src/routes/limits.rs` | none of their own: locks on the parts of `AppState` | verify_limit, settle_draw |
| Shared exposure | `byz-store/src/redis_store/exposure.rs` | a Redis hash per agent with a time to live | COMMIT_SCRIPT, RESOLVE_SCRIPT |
| Idempotency cache | `byz-gateway/src/idempotency.rs` | per process: key -> response, instant | get, put (which evicts) |
| Revocation registry | `byz-underwrite/src/revocation.rs` | cutoff per agent and per principal | revoke_agent, revoke_principal, check, lift, prune |
| Underwriter | `byz-underwrite/src/engine.rs` | none | underwrite |
| Registration and issuance | `routes/limits.rs`, `hydrate.rs` | standings, last_limits, mandates (maps in memory); rows in Postgres | register_principal, issue_limit, standing_for, previous_limit_for |
| Reputation scorer | `byz-reputation/src/scorer.rs` | per agent history, principal binding, members per principal | bind_principal, ingest, detail |
| Attestation issuer | `byz-underwrite/src/issuer.rs` | signing key | issue_with_evidence, verify |
| Durable state | `byz-gateway/src/hydrate.rs`, `byz-store` | Postgres rows | hydrate at start, persist_* after each change |
| Guarantor | `byz-underwrite/src/guarantor.rs` | committed capacity | assess, commit, release |
| Mandates and engine | `byz-mandate/src/engine.rs`, `policy.rs` | mandates, index by agent, spend | create, check, record_spend, revoke |
| Trust check | `byz-gateway/src/routes/trust.rs`, `jobs/proof_refresh.rs` | none of its own; proofs in Redis | trust_check, the proof job |
| Runtime provenance | `byz-provenance`, `routes/provenance.rs` | runtime registry, set of seen events | register_runtime, revoke_runtime, submit_provenance, verify_batch, seed_seen |
| Receipts and anchoring | `byz-receipt/src/batch.rs`, `byz-anchor`, `jobs/anchor_flush.rs`, `routes/audit.rs` | pending receipts, sealed batches, anchors | create_receipt, seal_batch, audit, the job, the flush at shutdown |
| Keystore | `byz-gateway/src/keystore.rs` | current and retired keys, a file | load_or_create, rotate, prune_retired, accepts |
| Passports | `byz-passport` | keys, delegations | set_principal_key, delegate, rotate_principal, rotate_key, revoke_key, authorizes |
| Authentication and rate limits | `middleware/auth.rs`, `middleware/rate_limit.rs`, `routes/keys.rs` | rows of keys, buckets in memory | require_api_key, rate limit, create, list and revoke keys |
| Metering and webhooks | `byz-billing`, `byz-gateway/src/webhooks.rs` | counters in memory | record, flush_to_stripe, dispatch_with_retry |
| Payment rails | `byz-rail-*`, `routes/payments.rs`, `circuit_breaker.rs` | one breaker of atomics per RPC | verify (EIP-3009, Solana, x402), a2a check and wrap |
| Other venues | `byz-tap`, `byz-rail-x402/src/limits.rs` | the x402 server's windows | sign, verify, verify and charge |
| Money | `byz-common/src/money.rs` | none (a table of rates) | convert, apply_haircut, scale_bps |
| Merkle proofs | `byz-crypto/src/merkle.rs`, `byz-identity/src/credential.rs`, `byz-proof/src/inclusion.rs` | none | root, proof, verify, disclose, SPV fold |

External or without state: signatures and hashes, the prover, the TEE client, the
SDKs, the demo, the on-chain programs.

### How they interact

`AppState` (`byz-gateway/src/state.rs`) holds every in-memory part behind its own
`tokio::sync::RwLock`. A handler takes these locks one after the other, and awaits
in between; two handlers therefore interleave lock by lock. `TimeoutLayer` drops a
handler's future at whatever await it stands at. With a store configured, draws are
decided by scripts in Redis that all replicas share, while the idempotency cache,
the standings, the last limits and the scorer stay private to each process.
Postgres rows are written after memory changes, and a failed write is logged and
forgotten. At start `hydrate` brings back runtimes, revocations and exposure;
standings and previous limits are fetched when a request misses them, and
reputation, mandates' spends and pending receipts are not brought back at all.

A trust check reads the mandate under one lock, the score from Redis, Neo4j or
memory, answers, and leaves to tasks of their own the spend, the metering and the
webhook. The rails ask the gateway's trust check over HTTP. Three jobs run beside
the handlers: proofs are refreshed, batches sealed and anchored, usage flushed to
Stripe; a signal starts a last flush of the batches while connections drain.

### What is hard, and what has to hold

- **Deciding a draw.** Reading the exposure, deciding and reserving must be one
  step, in memory and in Redis; everything outstanding must count. The counters
  must stay the sum of what they stand for through settlement, release, lazy rolls
  and clamped arithmetic.
- **Retries.** A key must replay an answer and not repeat its effect, also when the
  first handler is still running or was dropped.
- **Revocation.** It must end every draw that arrives afterwards, and stay in
  effect.
- **Outages.** A store that does not answer must refuse; what a refused draw
  reserved must be given back or expire.
- **Issuing.** No limit without screening and a tier, none on a standing that was
  replaced, none above the principal's ceiling, no jump above one step, no splitting of
  a principal into many agents, and a well-behaved agent must be able to grow, across
  races and restarts.
- **Evidence.** One event counts once, none is lost when submissions overlap, the
  reference commits to evidence that is there, and a revoked runtime contributes no
  more, whatever is restarted.
- **Trust checks.** A revoked mandate must stop tokens, also across stores that
  fail halfway; what a check let through must count against the next one; a pass must
  rest on a score that is not older than its proof.
- **Receipts.** A receipt does not stay pending; what was sealed survives an orderly
  shutdown; an auditor who walks the pages misses nothing while batches are sealed.
- **Keys.** A rotated or pruned key does not invalidate what it signed; a delegated
  key never does more than its parent; a revoked one does not come back.
- **Counting.** Rate limits, breakers, meters, windows and scores count what
  happened: not less after a race, an overflow, a rounding or a lost reply. A breaker
  opens for failures only, and once open lets nothing through for its time.

`PROJECT.json` lists each hazard at its line with the properties that watch it.

## 2. Modules and the code they model

```
Totals        ExposureWindow            SharedWindow        Underwriting
  |             |       |                    |                   |
  |         Attestation +- Mandates          |                   |
  |          /       \        |              |                   |
  +-- DrawLedger   DrawGateway|        SharedGateway          Issuance
  |      |                    |        (+ ExposureWindow as
  +-- CapacityAccount         |         each replica's ledger)
  |   (abstract)              |        ForgetfulAccount
  |                           |        (abstract)
  +---------------------- TrustCheck

ProvenanceIngest        Receipts

Delegations -- Passport        Edge, one model of: Keystore  Access  Rails
                               Outbound  Scoring  Venues  Passport
                               Revocations  Money  Merkle
```

**ExposureWindow** is one agent's entry in `InMemoryExposureLedger`, as operators:
`Entry` creates or rolls (`exposure.rs` `entry`, `refresh`), `RecordCommit`,
`RecordSettled`, `RecordReleased` are the three writes, `Snapshot` the read that
rolls a copy. Amounts saturate and clamp at the width `MaxMinor` (`u64::MAX`), and
`TotalCommitted` has the code's `unwrap_or(zero)` on overflow.

**Attestation** is `permits` and `is_valid_at`. The pure scope tests are one Boolean
of the request.

**DrawLedger** composes them as atomic operations: `Authorise` is `verify_limit`'s
write guard, `Settle` and `Release` are `settle_draw`'s. Variables: the clock
(`now`), the ledger's map (`windows`), what clients know of their draws (`status`),
and the history `counted`. It assumes a client that settles each draw once and with
the amount it drew: under that assumption the books balance, and
`CapacityAccount` is what they amount to.

**CapacityAccount** is the abstract specification: draws in phases, no counters, no
clock, no clamps. A draw is reserved only if everything open or spent in the window
leaves room. `DrawLedger!AccountSpec` maps a settled draw to "spent" as long as the
window read *now* counts it, so that the lazy rewrite in the code is a stutter.

**DrawGateway** splits the same handlers at each lock: `Lookup` (idempotency),
`Check` (signature, validity, revocation registry), `Decide` or `Resolve` (the
engine's write guard), `Score` (the scorer), `Put` (idempotency again). `Drop` is
the timeout or the disconnected client; `Revoke` is `revoke_limits`, now or
scheduled; retries are requests with the same key. No assumption is made about how
a settlement relates to a draw; the history `drawn` is what an agent drew in its window,
less what it released, whatever the clamped counters make of its settlements.

**SharedWindow / SharedGateway** are the same endpoints with a store. A Redis script
is one step; the call that carries it may fail before or after taking effect. The
window is the hash's time to live. Each gateway keeps its own ledger, cache and
scorer, writes exposure rows to Postgres (`Persist`), and loses its memory in
`Restart`, after which it imports the rows.

**ForgetfulAccount** is the abstract specification of that store: counters without keys,
times to live, handlers or failures. Each request has one attempt; a draw is reserved only
if what the account holds leaves room; a reservation is given back at most once, by its
own draw, and taking back stops at zero. Unlike `CapacityAccount` it may `Forget` an
agent, at risk and spent together, which is what the hash's expiry does (disagreement 2);
and a settlement is of an amount, not of a draw, because nothing in the code ties it to
one. `SharedGateway!SharedAccountSpec` maps the account to what a command would read of
the hash *now*, so that expiry is the tick that passes it, though the key is rewritten
later or never.

**Underwriting** is `underwrite` as a function: `Passes` (gate 1), `Earned`,
`ExperienceCap`, `Share` (principal consolidation), `RateCap`, and `SingleShareBps`
with `Money::scale_bps`, in the code's order.

**Issuance** is `register_principal` (`Bind`, `Count`, `Insert`, `PersistStanding`) and
`issue_limit` (`Begin`, `ReadStanding`, `FetchStanding`, `CacheStanding`, `ReadDetail`,
`ReadPrevious`, `FetchPrevious`, `CachePrevious`, `Decide`, `Sign`, `Remember`,
`PersistLimit`), one action per lock or store call, with failed calls, dropped handlers
and restarts, and the part of `ingest` that the experience cap reads. `Sign` looks up
the standing in memory once more, for the principal that the attestation names
(`PrincipalOf`, `input_principal_ref`: without a standing it is the empty name, and
nothing is refused). The composite score is floating point in the code and any member of
`Score` in the model; an agent without a history scores zero in both.

**ProvenanceIngest** is `routes/provenance.rs` with `RuntimeRegistry`,
`ProvenanceVerifier` and their rows. A submission is `ReadAccepted` (the replay set,
under `provenance`'s read lock), `VerifyBatch` (under the registry's), `Extend`
(under `provenance`'s write lock), one `PersistEvent` per event, `CountRejected`,
`InsertRef`, `IngestSummary`; a registration or revocation of a runtime is a change
of the registry and then of its row. A signature is the key that made it, so an event
verifies when its runtime is live with that key; the verifier's two refusals of a
used and of a falling sequence number are one test, `Fresh`, because a number above
every one that passed is a new one. The Merkle root is the sequence it commits to. A
request that was dropped stays where it was, in `cut`; a query that a dropped handler
had sent is not carried out later. After a restart the live runtimes are loaded and
the evidence is not: the rows of events are written and never read, although
`verifier.rs:145` says the replay set is seeded "from stored provenance".

**Mandates** is the mandate book as operators: what the builder makes of an
operator's numbers and of a decision, the store's insert, look-up and removal with
its index by agent, the engine's compliance check, and `RecordSpend`, which puts a
spend into the same window as draws.

**TrustCheck** is `trust_check` in its locks and awaits: `CheckMandate`,
`CheckCache`, `CheckGraph`, `CheckMemory`, and `Charge`, the task that records the
spend later. `create_mandate`, the mandate of `issue_limit` and `revoke_mandate` run
beside it with their rows; so do a score that moves across the threshold and the job
that proves it (`StartProof`, `FinishProof`, `LoseProof`). `TimeoutLayer` bounds how
long a handler lives.

**Receipts** is `create_receipt` (`CreateRow`, `AddReceipt`, `PersistBatch`,
`Assign`), `seal_batch`, an auditor who asks for one page after another, the
anchoring job with immudb's reconnects, the flush at a signal, which holds the
batcher's lock, and restarts with a store or without one. `Unbatched` rows, stored
roots and anchors are separate, because the code writes them separately. Its
specification is `ReceiptsSpec`; `Subject` are the agents that receipts name.

**Keystore** is `IssuerKeystore` and its file: `Rotate` changes memory before it writes,
a write fails or tears, `Load` reads what is there. **Revocations** is `revoke_limits`
with one row per await, a registry that is pruned, and a start that merges the rows, or
serves without them. **Access** is `require_api_key` with its fallback to the
environment, the token bucket with its 32-bit product, and the key routes. **Outbound**
is the usage meter with Stripe and the webhooks with their retries. **Rails** is the
four payment handlers with the order of their checks, and the circuit breaker atomic by
atomic; the trust check they ask is a verdict, and a charge that a task records later. A
message between agents may name no amount, and is then held against no cap and charged
to nobody. **Venues** is a limit presented to a merchant in a signed request that may be
changed on its way, and to an x402 facilitator; that the attestation is covered is, as
in the code, that its name stands anywhere in Signature-Input (`Mentioned`). **Scoring**
is `ingest` and `detail` with their penalties, in thousandths and with days as the
clock; the decay of a weight is a parameter, of which it matters that no event outweighs
a new one, and a root is computed bit by bit. **Delegations** and **Passport** are the
scopes, the chain of signed delegations and every operation on a passport, under ids
that are used again; `trail` remembers the scopes a key descends from as they were
granted, `severed` who was cut off by a revocation, and along which keys. **Money** is
one window shared by limits in several currencies, with the code's rounding. **Merkle**
is the tree, a credential's disclosure and both folds to a Bitcoin block, all three
folds being one, `Climb`: a hash is the pair it hashes, and an attribute's leaf its
name, a colon, its value and its salt in one (`LeafBytes`).

**Edge** puts these ten side by side. They share the clock and no other state, so a
behaviour is one `part`, with the variables of the others switched off; one
run then answers for all of them, and each property speaks of its own part. `MCEdge`
gives the parts their instances and narrows the behaviours to fewer that still differ:
requests arrive by one desk at a time, a merchant or a facilitator is at work and not
both, a message is signed with the first target and body, and keys are named in the order
of their use, as those are interchangeable.

**Totals** defines sums over finite sets as a recursive function, because the
proofs cite its equations; it is used by `DrawLedger`, `CapacityAccount`,
`TrustCheck`, `Rails`, `Venues`, `Money` and `Scoring`.

Definitions whose comment begins with "A wrong" are variants that a plausible bug
would produce. No specification uses them; substituted for the definition they
follow, they make the property that watches it fail. Variables marked "history" at
their declaration are written and never read by the handlers.

## 3. Runs

Every run is a module and a configuration; the MC modules only give constants their
values. All runs switch the deadlock check off because their requests are finitely
many: when all have been answered and the clock is at its bound, the system rests.

| Run | Module | What it asks |
|---|---|---|
| `draws_local` | MCDrawLedger | books, overflow, limits, window, refinement of the account |
| `gateway` | MCDrawGateway | whole-window decisions, backed answers, revocation, final keys, settlements that free nothing |
| `shared` | MCSharedGateway | limits across replicas, outages, rollbacks, expiry of risk, refinement of the account |
| `issuance` | MCIssuance | which standing a limit is decided on, growth cap across restarts, ability to grow |
| `provenance` | MCProvenance | lost or repeated evidence, references, rows, revoked runtimes |
| `trust` | MCTrustCheck | what a revocation stops, how far a cap is overrun, what a pass rests on |
| `receipts` | MCReceipts | an audit's completeness, the flush at shutdown, that nothing stays pending |
| `edge` | MCEdge | the components around the draw path, each with its own properties |
| `gateway_retry`, `shared_forgets`, `issuance_split`, `edge_units` | | disagreements 1 to 4 of section 6 |

Bounds, and why the interesting cases occur within them:

- `draws_local`: two agents, five draws, `MaxMinor = 6`, clock to 6 with a window of
  one. One agent presents two attestations with different limits, so a draw can meet
  a window that an earlier, larger limit filled; one attestation expires while
  its draws are open; the fifth draw is out of scope. Six minor units are the largest
  width at which the five draws cannot be added up without nearing the overflow, and
  the clock passes several windows.
- `gateway`: a draw, its retry and a settlement larger than the draw, all under one key,
  and a release without a key, in a window that holds one of the draws; the key lives
  one tick, the clock runs to two, so entries expire; one revocation, immediate or
  scheduled. Two overlapping handlers of one agent are enough for every race between two
  of its sections, and a third is there for the key space that draws and settlements
  share.
- `shared`: two replicas, four requests (a draw, its retry at the other replica, a
  draw out of scope, a settlement at the other replica), one failed call, one
  restart, and a clock that passes the hash's time to live twice. One fault is enough
  to distinguish "before" from "after" at every call; that several do no more is
  proved (section 5).
- `issuance`: a registration that clears the agent, and after it one that fails
  screening or one under another principal and a lower tier, two requests for a limit,
  one settlement, one fault, one restart. `MCBounded` lets that one come first, one of
  the other two after it, and the settlement once a limit is signed: two registrations
  are what it takes for an older one to pass for the newer. The tier's ceiling and floor
  keep the proportions that matter (a floor well under the ceiling; a lowest single
  share that is one unit), and the score is the highest, which is when the caps and not
  the score decide. The two requests have the same body, so they are symmetric; the run
  has no liveness property.
- `provenance`: one runtime registered and revoked, in either order; a submission with
  one event that verifies and one that does not, and a retry of it that also brings the
  next event and one of another agent; one fault, one restart. Two overlapping
  submissions are enough for every race between two of their sections, and one
  restart for every point at which memory and rows may disagree.
- `trust`: one agent, a mandate that is created and revoked and one that comes with a
  limit, two checks that fit the cap alone and not together, one fault, one restart,
  one move of the score, a clock past every lifetime. Two mandates are what it takes
  for one to take the other's index entry, two checks for an overrun.
- `receipts`: two receipts and batches of two, so that a batch may be full, sealed by
  force or sealed by the job; an auditor with one receipt a page, so that every page
  boundary is met; two faults, as many as it takes for a job to fail and a write
  with it; one restart; with a store and without.
- `edge`: the header of `MCEdge` names the instance of each part, and `AtTheDesk`,
  `OneVenue`, `NamedInOrder` and `FirstItem` say how the behaviours are narrowed. Each is
  the least in which its hazard occurs: a word that the bucket's product exceeds within the
  clock's range, a breaker that needs two failures, with two requests that are sent again
  and again, so that one is turned away or starts anew while the other is under way;
  messages with an amount and without; an odd level at every height of the tree, a chain
  of three keys, two draws that fit a limit only when their rounding is forgotten, two
  revocations that overlap.

What the passing runs show is stated above each property in the modules. In short: no
interleaving of the handlers lets a draw past the limit it presents, in memory
(`DecidesOnWholeWindow`, `AccountSpec`) or in Redis (`ReservesWithinLimit`,
`SharedAccountSpec`); no outage authorises (`OutageFailsClosed`); answers are backed by
effects (`AnswersAreBacked`), and a key that was answered repeats none
(`AnsweredKeyIsFinal`); a draw that arrives revoked and stays so never commits
(`RevokedOnArrivalNeverDraws`), and a cutoff that was stored survives prunes and
restarts (`StoredCutoffHolds`); no settlement, too large, repeated or of no draw, makes
room for another draw in its window, as only a release does (`SettlingFreesNothing`). A limit is
decided on the registration in force when it was asked for, within its ceiling and under
its principal (`StandingInForceGates`; disagreement 7 is its one exception), one step at
most above an earlier one even after a restart (`RateCapSurvivesRestart`), and never
stuck at its own cap (`LimitCanGrow`). Overlapping submissions lose no evidence
(`EveryEventIsCounted`), accept nothing that was recorded before they arrived
(`AcceptedEvidenceIsFinal`), leave references to evidence that is there
(`RefCommitsToHistory`), and admit nothing of a revoked runtime, across a restart too
(`RevokedRuntimeIsOut`).

Once a revocation of a mandate is answered, no token under it outlives the checks that
had begun (`RevocationStopsTokens`); an overrun of a daily cap is at most the overlap of
checks (`OverspendIsOnlyOverlap`); a pass rests on a score not older than its proof
(`PassHasStanding`). Walking the audit misses nothing (`WalkIsComplete`), and an orderly
shutdown keeps what was sealed (`FlushKeepsSealed`). A credential that is valid has its
key published (`OutstandingIsPublished`); a merchant accepts only what was signed, and a
swapped attestation only where it did not require it and disagreement 14 lets it
(`AcceptedAsSigned`); nobody gets more requests, value or score than was due
(`RateIsBounded`, `WindowCoversDraws`, `StandingIsEarned`, `FailureNeverRaises`); an
agent is charged for what it was let do and nothing else (`SpendIsWhatPassed`), and
billed usage balances (`UsageBalances`); a delegated key stays within all it descends
from, whatever is granted anew above it (`GrantsStayNarrow`), and a revoked one stays
out (`RevocationOutlivesReuse`); a breaker turns a call away only after its threshold of
failures, and once open lets none through for its time (`BreakersGuard`); a proof
verifies exactly where it should, and a credential that was tampered with shows the
bytes it was issued with (`ProofsVerify`).

## 4. Fairness

One specification states fairness. `Receipts!Spec`, for `PendingGetsSealed`, has weak
fairness of the anchoring job and of the flush at shutdown: the job is a loop with a
timer that ends with the process, and the flush is awaited. Its calls may still fail.
Nothing else is fair: nobody has to send a request, retry or stop the gateway, and
clocks need not advance. The mutant, a job that waits for a full batch, leaves a receipt
pending for ever.

That a draw's handler ends is not asked: its sections are always enabled in these models,
which leave out how long a lock or the store keeps it waiting, so the answer would say
nothing.

## 5. Proofs

TLAPS checks eight modules of theorems, for every value of the constants that
satisfies the named assumptions of the modules. Each inductive invariant was checked by TLC
on a run's instance before it was proved.

**LedgerLemmas** holds what several proofs need: that a snapshot reads what rewriting
the entry would make of it (`ReadSideAgrees`, which makes the lazy roll harmless), what
commits and settlements do to a window's sum, and the value of `SumOver` on the empty
set, on one element and on a set split in two, that it is a natural, and that it is
monotone (`SumOverFacts`), that it depends only on the amounts summed (`SumOverAlike`)
and that a bound on each amount bounds it (`SumOverScaled`). Recursive functions cannot
be reasoned about by the library's induction theorems here, which take an operator as a
parameter; the arguments are by minimal counterexample (`LeastNumber`): a function that
satisfies the equation up to n is extended to n + 1, and a least n without one does not
exist.

**Books_proofs** begins with `DrawLedger`, from `LedgerAssumption` (finitely many draws, at most
`MaxCount` of them, which the code's `u32` counter implies in practice) and
`WindowAssumption`. The inductive invariant is

    Inv == TypeOK /\ CountedOwn /\ BooksBalance /\ SumIsRepresentable

`BooksBalance` alone is not inductive: that a settlement's clamped subtraction
removes exactly the draw's amount needs the draw to be part of the sum it is taken
from (`BooksBalance` itself), that a saturating addition adds exactly needs
`SumIsRepresentable`, and that a roll drops exactly the settled draws of this agent
needs `CountedOwn` (the history counts only settled draws of the agent itself).
From `Inv` follow `TypeCorrect`, `BooksAlwaysBalance` and `SumAlwaysRepresentable`,
the action properties `GrowthStaysWithinLimit` (no run checks it: the account's
`Reserve` has its guard) and `SpentCounts`, and
`ImplementsAccount`: each step of the ledger is a step of the account or a
stutter, the tick that ends windows being the account's `Roll` of those agents.

Then come the books of `Receipts`, from `ReceiptsAssumption`, for any receipts, batch and
page sizes, overlapping handlers and audits, failed calls and restarts:
`ReceiptsTypeCorrect`, `KeptOnce`, `FlushKeepsSealedHolds` and `WalkIsCompleteHolds`.

    StepInv  == ReceiptsTypeOK /\ PlaceInv /\ JobInv /\ FlushInv
    KeptInv, AuditInv, each inductive with StepInv

`FlushInv` is the flush's account: what it owes is written or left to write, and only a
write that failed leaves it. `KeptInv` says that no receipt is in the batcher twice, in
one batch or in two, which the audit of memory needs because it counts what it shows.
`AuditInv` says of an auditor between two pages that nothing it was owed up to its cursor
is missing from what it saw, and nothing it saw lies beyond, whatever was stored since;
a page that is not full then leaves nothing out (`WalkIsComplete`).

**DrawGateway_proofs**, from `GatewayAssumption`: the same endpoints lock by lock, for
any number of overlapping handlers, retries, revocations and dropped handlers.

    Inv == TypeOK /\ PlaceInv /\ AnswersAreBacked /\ CacheInv /\ AnsweredInv
           /\ LateInv /\ WindowInv /\ DrawnInv

`PlaceInv` says what a handler has behind it at each section (one about to decide was
unrevoked at its check), `CacheInv` that a cached answer is backed by an effect under
its key, which `AnswersAreBacked` needs because a retry copies it, and `AnsweredInv` that an
answer stays in the cache for as long as a retry relies on it. `WindowInv` is what
makes the code's `unwrap_or(zero)` harmless: the two counters never add up beyond
what an amount can express, although no draw is matched with its settlement here.
`DrawnInv` says that they never count less than the agent drew in its window and did not
release, because a settlement adds to `window_used` at least what it takes from `at_risk`.
The theorems are `GatewayTypeCorrect`, `AnswersStayBacked`, `DrawsDecideOnWholeWindow`,
`SettlementsFreeNothing`, `RevokedDrawsNothing` and `AnsweredKeysAreFinal`.

**SharedGateway_proofs**: `ReservationsFit`, `RiskEnds`, `OutagesRefuse`,
`RefusedHoldNothing` and `SharedImplementsAccount`, for any gateways, agents, requests,
faults and restarts. The inductive invariant

    Inv == Typed /\ PlaceInv /\ HashInv /\ AnswerInv /\ HeldInv

leaves out what gateways keep in memory and in Postgres (`windows`, `saved`): nothing
a replica remembers, loses or imports can break these five, which is the point of
deciding in Redis. `HashInv` says that value at risk has an expiry, `AnswerInv` that an
answer or a cached one is vouched for by a reservation of its key, `HeldInv` that
a refused draw still holds capacity only if a call of its own failed.
`ReservationsFit` needs no history: the script compares before it adds.
`SharedImplementsAccount` is the refinement of `ForgetfulAccount`: each commit, rollback
and resolution that reaches Redis is the account's, whether or not its reply came back,
a tick is `Forget` of the agents whose hash it expires, and everything else is `GiveUp`
of requests that can no longer reach the store, or a stutter. It needs one more
invariant, `BackInv`: a handler about to give back a reservation still holds it.

**Issuance_proofs** begins with `Underwrite`, from `UnderwritingAssumption`:
`DecisionIsBounded` (gates,
ceiling, the principal's ceiling divided by the agents counted, one step above the
previous limit, single within window) and `ExperienceLeavesRoom`. The second is the
reason for the code's constant: with `experience_multiple` times the lowest single
share (20 times 10%) above the whole, an agent that completed a draw of the size it
was allowed is issued a larger limit, or already has all that its score and
share allow. It is the general form of `LimitCanGrow`.

Then, from `IssuanceAssumption`:
`IssuanceTypeCorrect`, `GrowthSurvivesRestart` and `StandingsInForceGate`, for any number of
agents, principals, requests, failed store calls, dropped handlers and restarts. The
run's bounds are not in the argument, and neither are the code's critical sections:
what makes the theorems true is where values come from. The inductive invariant

    IInv == TypeOK /\ SharedInv /\ \A q \in Request : RequestInv(q)

says that every standing held anywhere (memory, a row, a handler between two awaits)
carries what some begun registration of that agent says (`Backed`), that every
previous limit held anywhere was issued to that agent (`Issued`), that a handler
about to sign holds a decision which those two justify (`Gated`, `CappedInv`), and
that a limit answered with every store call has its row (`StoredInv`). `Stable`
collects what no step undoes; because `Backed` and `Issued` are stable, a handler
may act on a value long after it was read, which is why the stale caches of section
6 break `LimitsConsolidate` and `FailedScreeningEndsIssuance` and not this.
`GrowthSurvivesRestart` needs the rows: only a request that some stored limit
precedes is promised a capped growth, and what precedes a request was answered
before it arrived and does not change. There is one lemma per action; `CutKeeps`
serves both a dropped handler and a restart.

That some registration backs a limit does not say that it is the one in force.
`StandingsInForceGate` needs a second invariant, inductive with the first:

    StandInv == \A q \in Request : HoldsInv(q) /\ FirmInv(q)

`FirmInv` follows a registration that no other one of its agent overlaps or follows, and
that did not race: from the time it is stored, memory, the row and whoever is about to
cache a row say what it said, or nothing, and so does every handler that came later. Where
the proof needs `raced`, a handler that fetched an older row is still to cache it: that is
the race of disagreement 7, and the only one. `HoldsInv` says that a handler past its look
at memory finds a standing there until a restart cuts it off, which is why the second
look-up, of the principal, names the same one.

**ProvenanceIngest_proofs**, from `ProvenanceIngestAssumption`: `IngestTypeCorrect`,
`EventsAreCounted`, `RefsCommitToHistory`, `EvidenceIsFinal` and
`RevokedRuntimesAreOut`, for any runtimes and batches, overlapping submissions, failed
calls, dropped handlers and restarts.

    Inv == TypeOK /\ EvidenceInv /\ BarredInv

`EvidenceInv` follows a submission: before it verifies it has contributed nothing
(`ShareInv`), what it carries between sections is still a prefix of its agent's evidence
(`CommitInv`), what it extended the evidence with stays there (`RecordedInv`), and its
replay set holds what was recorded when it began (`EarlierInv`), with which the
three properties it includes are inductive. `BarredInv` says that a revoked runtime
is barred in memory, or has no row from which a restart could bring it back. What
`verify_batch` passes (`PassingFacts`) is a statement about a recursion over the
batch, by minimal counterexample again.

**TrustCheck_proofs**, from `TrustAssumption`: `TrustTypeCorrect`,
`RevocationsStopTokens`, `OverspendsAreOverlaps` and `PassesHaveStanding`, for any
agents, mandates, checks, faults, dropped handlers and restarts.

    Inv == HandlerInv /\ StandingInv

`HandlerInv` joins what the book says of its mandates (`BookInv`), that a revoked mandate
was answered before and is in the book no more (`RevokedInv`), that a check which goes
on under it had begun before (`CheckInv`), and what a check would make of its window if
it recorded its spend now: at most its cap and the spends since its check (`SpendInv`).
`StandingInv` ties a proof to the time at which the score last met the threshold.
The attempt on `OverspendsAreOverlaps` found a mistake of the model, which its run
with one agent could not show: the history of overlaps forgot those of other agents'
open checks at each charge.

**Edge_proofs**, from the assumptions of the parts, which `EdgeAssumption` collects.
`Starts` and `Steps` say that a behaviour of `Edge` starts as one of its parts and takes
only steps of that part; each part then has its inductive invariant on the
condition that it is the one:

- `KeystoreInv`: memory comes from the file and the file from memory, so it says of both
  that each attestation outstanding is covered by the active key, or by a retired one
  that is pruned only after the attestation has expired; attestations live no
  longer than retired keys are kept (`KeystoreAssumption`). Theorems:
  `KeystoreTypeCorrect`, `AttestationsStayVerifiable`.
- `CutoffsInv`: `Cuts(s, at)` says that the cutoff in memory is at least `at`, or that `at`
  is older than any attestation alive. It is what pruning leaves of "the registry
  holds what the rows hold"; the same is said of what a handler has still to write, so
  that a row never gets ahead of memory. Theorems: `RevocationsTypeCorrect`,
  `StoredCutoffsHold`.
- `UsageInv`: the books of each key, and that a check waits for the meter only after it
  was told. The proof counts the checks that wait. Theorem: `UsageAlwaysBalances`.
- `RailsInv`: what a request was charged follows from where it stands and what it was
  told (`Fits`); an agent's spend is the sum of what tasks have recorded for it
  (`BooksInv`), where the proof adds one charge to a sum over requests; a breaker counts
  no failure older than the last success (`StreakInv`), who compares its time came when
  it was at the threshold (`GateInv`), and what shut it holds until its time passes, a
  call succeeds or one resets it (`ShutInv`). Theorems: `SpendIsAlwaysWhatPassed`,
  `BreakersAlwaysGuard`.
- `RateInv`: what a bucket let through and still holds is paid for by its capacity and
  its refill. The products of a refill are nonlinear, and are taken apart into lemmas
  of one product each; a product that wraps only refills less. Theorem:
  `RateIsAlwaysBounded`.
- `VenuesInv`: whatever is changed on the way, each signature on it was made by the
  agent over what its list names; that the attestation is in that list follows from the
  merchant requiring it, or from its name standing nowhere else, and from nothing less.
  Theorem: `AcceptedIsAlwaysSigned`.
- `WindowsInv` and `MoneyInv`: each venue's count covers what was accepted or paid under
  an attestation, and the agent's window covers, draw by draw, the worth of what was
  drawn, because `div_ceil`, `convert` and the haircut never round down
  (`EffectiveCovers`, `HaircutCovers`). Theorems: `VenuesCoverPayments`, and
  `WindowsCoverDraws` for an agent whose limits are in one currency (`MaxUnits = 1`).
  The hypothesis is needed, as the code adds amounts of different currencies: that is
  finding `edge_units`, and the run `edge` makes the same restriction.
- `PassportInv`: `Above`, the chain of a key, is a recursive function whose equation
  (`AboveInDef`) is proved by minimal counterexample. `NarrowInv` says that a key's
  own scope narrows each one on its trail: `EnsureNarrows` compares a new scope with the
  delegator's own and no other, which is enough because narrowing carries over from scope
  to scope (`NarrowsThrough`), and what a scope permits, one that it narrows permits too
  (`NarrowsPermits`). `Remembered` says that the chain of a key
  that was cut off is, as far as the revoked one, the chain it had. Theorems:
  `PassportTypeCorrect`, `GrantsAlwaysStayNarrow`, `RevocationsOutliveReuse`. The last
  was false as first stated: a key between the two that is delegated to anew, under
  the new key pair, does bring the lower one back, as it should. The property now
  says so, and TLC's chains of three keys cover it.
- `ScoreInv`: no event is of a time to come, counts are bounded by the events, and
  (`EarnedInv`) what is remembered as settled with any set of counterparties was
  earned with them. `StandingIsAlwaysEarned` then follows: a penalty and compliance only
  lower a score below its depth, the root's square is at most what it is the root of
  (`Upper` and `Lower`, one bit at a time), and the weight of a new event cancels.
  For `FailuresNeverRaise`, `OneMore` relates the score's parts with and without one more
  failed event of now: compliance falls, the velocity penalty grows, the settled value
  and with it depth and concentration stay. Both are for any saturation, any decay under
  which no event outweighs a new one, and any number of events. The sums are the
  recursive `SumOver`, of which `LedgerLemmas` has the equations.
- The tree: the levels, the way up and the folded hash are recursive functions of the
  height, whose equations (`LevelDef`, `WayUpDef`, `ClimbDef`) are proved by minimal
  counterexample; `Upwards` is the induction over heights that everything else uses.
  Each level has half as many nodes, rounded up, until one is left (`LevelFacts`,
  `HeightFacts`). `OneUp` is the heart: what is joined with the sibling of node i is
  the node above exactly if it is node i, where an odd level pairs its last node with
  itself too. `ClimbFinds` carries that to the root, and `RootCommits` says that of two
  lists of one length with one root, each is the other. `RootTellsLeaves` carries that to
  credentials, of which the root determines each leaf; and a leaf determines the value once
  the name and the salt's length are known (`LeafTellsValue`), and not before. Theorem:
  `ProofsAlwaysVerify`, for any number of items; its only invariant is that items come from
  `Item`.

Model-checked only:

- liveness (`PendingGetsSealed`), which is beyond the prover;
- `LimitCanGrow` as a property of runs; its core is `ExperienceLeavesRoom`.

## 6. Where the code and its documents disagree

Four runs check a sentence of the repository that the code does not keep; `PROJECT.json`
quotes it.

1. **A keyed retry can commit twice** (`gateway_retry`, `AppliedOncePerKey`). The
   answer is stored a section after the commit; a retry that overlaps, or that
   follows a dropped handler, finds no entry. What does hold is `AnsweredKeyIsFinal`.
2. **The shared window forgets what is at risk** (`shared_forgets`,
   `HeldIsSpokenFor`). The hash's expiry ends the window and deletes `at_risk` with
   it; the in-memory ledger keeps it.
3. **Agents of one principal can exceed its ceiling together** (`issuance_split`,
   `LimitsConsolidate`). Each agent's standing keeps the count of its own registration.
   What holds for one decision, whatever count it is given, is `DecisionIsBounded`.
4. **Limits in several currencies share one counter** (`edge_units`,
   `DrawsFitTheLimit`). Each draw is converted into the currency of the limit it
   presents, and added to a window that holds minor units of other currencies. What
   holds with one currency is the same formula, checked by `edge`.

More sentences of this kind have their property, and most a configuration that shows
how it fails; the first line of each names what to run.

5. `MCDrawGatewayKilled.cfg`, `KilledStaysKilled`: replacing a cutoff in effect by a
   scheduled one lets everything through until then.
6. `MCSharedGatewayForgets.cfg` with `Request = {v1, s1}` and `INVARIANT
   WindowRollsByExpiry`: RESOLVE_SCRIPT writes the hash and sets no expiry, so a late
   settlement makes a window without an end. What does hold is `RiskAlwaysExpires`.
7. `MCIssuanceScreened.cfg`, `FailedScreeningEndsIssuance`: a standing fetched from the
   store is cached over a registration that arrived in between
   (`byz-common/src/limits.rs:101`: such a principal "cannot be issued any limit"). What
   does hold is `StandingInForceGates`, which excepts just that race.
8. `MCProvenance.cfg` with `INVARIANT CountedOnce`: the replay set is read under one lock and
   extended under a later one, so two overlapping submissions both accept an event.
   What does hold is `AcceptedEvidenceIsFinal`.
9. `MCTrustCheck.cfg` with `INVARIANT DailyCapHolds` (`byz-mandate/src/engine.rs:226`):
   a spend is recorded after its check was answered, so concurrent checks do each see
   the same room. What does hold is `OverspendIsOnlyOverlap`.
10. `MCReceiptsAnchored.cfg`, `SealedGetsAnchored` (`anchor_flush.rs:1`): only batches that the
    job itself seals are anchored. A batch that filled up or was sealed by request is
    stored and never anchored, one of the job is anchored and never stored.
    `docs/runbooks/anchor-stale.md:22` says that the job waits for a batch to fill; it
    seals whatever is pending.
11. `MCEdge.cfg` with `MaxRetirements = 2` and `INVARIANT RootIsThePrincipal`
    (`passport.rs:111`): rotating a principal key
    that was rotated before makes a second root.
12. `MCEdge.cfg` with `INVARIANT WashEarnsNothing` (`scorer.rs:777`): events with related
    counterparties still enter the counts and the mean of the velocity penalty.
    What does hold is `StandingIsEarned`.
13. `MCEdge.cfg` with `INVARIANT GoodAuthorizationIsValid`
    (`byz-rail-eip3009/src/authorization.rs:36`): the trust check that this rail and
    Solana's send names an action that does not exist and no rail, and the gateway
    cannot parse it. A good authorization is never valid, and counts against the
    breaker.
14. `MCEdge.cfg` with `INVARIANT NoSwappedLimit` (`byz-tap/src/extension.rs:91`, "a
    misconfigured verifier cannot silently accept a swapped limit"): coverage is a search
    for the header's name in the text of Signature-Input, and an entry of another label
    may have it. What does hold is `AcceptedAsSigned`.
15. `MCEdge.cfg` with `INVARIANT DelegationNarrows` (`byz-passport/src/lib.rs:20`,
    "Delegation narrows, never widens"): a key delegated to in the role of a principal
    (`passport.rs:145`) is a root (`passport.rs:213`), and no scope binds it. What does hold
    is `GrantsStayNarrow`, of every key that is no root.

Met while reading, and in the models where they matter:

- *Mandates*: `issue_limit`'s mandate has no row, so with a store it cannot be revoked;
  revoking an older mandate removes the newer one's index entry
  (`byz-mandate/src/engine.rs:60`); mandates are not hydrated. Nothing records an edge
  in Neo4j, so its score is the 500 of no history, below the threshold of 600.
- *Receipts*: sealing by request with nothing pending panics
  (`byz-crypto/src/merkle.rs:37`); the store's audit ignores the batch filter, the
  in-memory one may return one more than asked; pending receipts are lost by a restart;
  the flush runs before handlers drain.
- *Passports*: `max_total` and asset classes are carried and narrowed and never
  enforced; `effective_scope` is documented as an intersection and returns the key's
  own scope; rotating a revoked key makes a live one.
- *A2A*: a message without an amount passes and is charged to nobody
  (`byz-rail-a2a/src/message.rs:36-41`).
- *Money*: conversions are one unit too large when a product that should be whole is
  not, never too small; x402's trust check rounds cents down where its limit check
  rounds up.
- *Webhooks and Stripe*: both are delivered at least once; a lost reply bills twice.
  The gateway records every check under one key that it never registers.
- *Proofs*: the comment at `inclusion.rs:109` gives the side of the current hash, the
  code takes it for the sibling's. An empty path proves nothing. The tree of
  `[a, b, c]` has the root of `[a, b, c, c]`. A credential's leaf is a hash of name, colon,
  value and salt with nothing between the last two (`credential.rs:38-47`): a value that
  ends earlier or later in the same bytes verifies, and `DisclosesAsIssued` says no more
  than that the bytes are the ones issued.
- *Keystore*: memory changes before the file is written, and a key that never
  reached it is lost by a restart with what it signed. The gateway itself never
  rotates or prunes.

## 7. What is not modelled

- *Signatures and hashes*: a signature is who made it over what, or a Boolean; a hash is
  what it hashes. *Proofs of reputation*: when they were made and expire, not what they
  prove.
- *Floating point*: the score is in thousandths, rounded down, and its decay any table
  of weights none of which is above a new event's (a power of one half in the run);
  conversions are exact with one unit of slack. In `Issuance`, a score is any value of a
  set.
- *Fee, collateral, reasons, `available`*: no later decision reads them.
- *i64 range of the scripts' HINCRBY*: amounts are bounded far below it.
- *The expiry of idempotency entries with a store*: their lifetime is a day, and
  `DrawGateway` covers it.
- *persist_exposure* as two steps, and a start without a store other than for
  revocations and receipts.
- *BackedGuarantor*: the gateway is built with the bureau guarantor, and nothing
  calls `commit` or `release`.
- *TEE, SDKs, demo, on-chain programs*: the pinned enclave client is used by no
  handler; the rest have no state that outlives a call.
- *Formatting, parsing, metrics, logging, the export of an audit, the DID registry*:
  nothing decides on them.

## 8. Plan

What is left, in order of what matters most to the promise:

1. **Persistence**: `persist_exposure` split into its read and its write, and a gateway
   that starts without its store.
2. **Issuance over time**: how the rate cap compounds over repeated requests, and
   mandates and last limits stored in different orders by racing requests
   (`limits.rs:180`).
3. **Guarantor capacity**, once something commits to it.
