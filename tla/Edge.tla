-------------------------------- MODULE Edge --------------------------------
(***************************************************************************)
(* What surrounds the limits, in one model: the issuer's keystore, API     *)
(* keys and their rate limit, the payment rails, what a trust check leaves *)
(* behind, the behavioural score, the venues that take a limit, passports, *)
(* revocation cutoffs, currencies, and the Merkle tree.  They share the    *)
(* clock and no other state, so a behaviour is one of them: `part` says    *)
(* which, and the others are off.                                          *)
(*                                                                         *)
(* The constants are those of the components, which name what they are;    *)
(* where two components use one name for two things, it is qualified here. *)
(***************************************************************************)
EXTENDS Keystore, Merkle

CONSTANTS
    MaxFaults, Forever, None,
    AccessRequest, access_req, Operator, Default, EnvKey, NoToken, MaxKeys, Capacity,
    Minute, TickMs, RefillMs, Word, NoRow, AccessTime,
    RailsRequest, rails_req, RailsAgent, Wallet, Mint, Transactions, Threshold, ResetAfter,
    MicroPerCent, Cap, NoAgent, NoAmount, RailsTime,
    MeterKey, MaxChecks, MaxFlushes,
    Counterparty, Unnamed, Events, Weights, Saturation, ProvenanceSaturation, MaxEvents,
    Decay, MaxTotal, Horizon,
    Uri, Body, Attested, Requirements, Known, TapKeyId, HaircutBps, BpsUnit, Micros, Cents,
    MaxSent, MaxChanges, MaxPaid, VenuesTime,
    ScopeCurrency, ActionType, Chain, ScopeAsset, Unset,
    KeyId, PublicKey, Role, Scopes, Lifetimes, Acts, MaxChainDepth, MaxGrants,
    MaxRetirements, PassportTime, NoKey, NoDelegation,
    Agent, Principal, NoCutoff, MaxRevokes, RegistryTime,
    Amounts, Majors, MaxUnits, MaxDraws,
    Item, MaxItems

VARIABLES
    part,
    has_store, api_keys, buckets, caller, admitted, born,
    standing, committed, due, charges, breaker, streak, blamed, shut,
    stripe, counters, flushing, job, waiting, event, received, recorded, billed, unbilled,
    lost, flushes,
    agent, earned,
    wire, said, taken, paid, revoked, used, changes, payments,
    keys, delegations, principal_key_id, granted, retirements, trail, severed,
    serving, loaded, registry, rows, unwritten, issued, stored, revokes,
    units, at_risk, window_used, open, spent, under, draws,
    items,
    pc, answer, faults

A == INSTANCE Access WITH
    Request <- AccessRequest, req <- access_req, MaxTime <- AccessTime

R == INSTANCE Rails WITH
    Request <- RailsRequest, req <- rails_req, Agent <- RailsAgent, MaxTime <- RailsTime

O == INSTANCE Outbound WITH Key <- MeterKey

S == INSTANCE Scoring

V == INSTANCE Venues WITH KeyId <- TapKeyId, MaxTime <- VenuesTime

D == INSTANCE Passport WITH
    Currency <- ScopeCurrency, AssetClass <- ScopeAsset, MaxTime <- PassportTime

C == INSTANCE Revocations WITH MaxTime <- RegistryTime

M == INSTANCE Money WITH NoCurrency <- None

ASSUME EdgeAssumption ==
    /\ A!AccessAssumption /\ R!RailsAssumption /\ O!OutboundAssumption
    /\ S!ScoringAssumption /\ V!VenuesAssumption /\ D!PassportAssumption
    /\ C!RevocationsAssumption /\ M!MoneyAssumption
    /\ MaxItems \in Nat

-----------------------------------------------------------------------------
accessVars == <<has_store, api_keys, buckets, caller, admitted, born>>
railsVars == <<standing, committed, due, charges, breaker, streak, blamed, shut>>
outboundVars == <<stripe, counters, flushing, job, waiting, event, received, recorded, billed,
                  unbilled, lost, flushes>>
keystoreVars == <<up, active, active_since, retired, file, drawn, signed, kept>>
scoringVars == <<agent, earned>>
venuesVars == <<wire, said, taken, paid, revoked, used, changes, payments>>
passportVars == <<keys, delegations, principal_key_id, granted, retirements, trail, severed>>
registryVars == <<serving, loaded, registry, rows, unwritten, issued, stored, revokes>>
moneyVars == <<units, at_risk, window_used, open, spent, under, draws>>
handlerVars == <<pc, answer, faults>>
agentVars == <<scoringVars, venuesVars, passportVars, registryVars, moneyVars>>
serviceVars == <<accessVars, railsVars, outboundVars, keystoreVars, handlerVars>>

AccessOff ==
    /\ has_store = "off" /\ api_keys = "off" /\ buckets = "off" /\ caller = "off"
    /\ admitted = "off" /\ born = "off"
RailsOff ==
    /\ standing = "off" /\ committed = "off" /\ due = "off" /\ charges = "off"
    /\ breaker = "off" /\ streak = "off" /\ blamed = "off" /\ shut = "off"
OutboundOff ==
    /\ stripe = "off" /\ counters = "off" /\ flushing = "off" /\ job = "off"
    /\ waiting = "off" /\ event = "off" /\ received = "off" /\ recorded = "off"
    /\ billed = "off" /\ unbilled = "off" /\ lost = "off" /\ flushes = "off"
KeystoreOff ==
    /\ up = FALSE /\ active = "off" /\ active_since = "off" /\ retired = "off"
    /\ file = "off" /\ drawn = "off" /\ signed = "off" /\ kept = "off"
ScoringOff == agent = "off" /\ earned = "off"
VenuesOff ==
    /\ wire = "off" /\ said = "off" /\ taken = "off" /\ paid = "off" /\ revoked = "off"
    /\ used = "off" /\ changes = "off" /\ payments = "off"
PassportOff ==
    /\ keys = "off" /\ delegations = "off" /\ principal_key_id = "off" /\ granted = "off"
    /\ retirements = "off" /\ trail = "off" /\ severed = "off"
RegistryOff ==
    /\ serving = "off" /\ loaded = "off" /\ registry = "off" /\ rows = "off"
    /\ unwritten = "off" /\ issued = "off" /\ stored = "off" /\ revokes = "off"
MoneyOff ==
    /\ units = "off" /\ at_risk = "off" /\ window_used = "off" /\ open = "off"
    /\ spent = "off" /\ under = "off" /\ draws = "off"
AgentOff == ScoringOff /\ VenuesOff /\ PassportOff /\ RegistryOff /\ MoneyOff
HandlersOff == pc = "off" /\ answer = "off"
ClockOff == now = 0 /\ HandlersOff

ServiceOff == AccessOff /\ RailsOff /\ OutboundOff /\ KeystoreOff
IdleOff == HandlersOff /\ faults = 0

EdgeParts ==
    \/ part = "keystore" /\ Init /\ AccessOff /\ RailsOff /\ OutboundOff /\ AgentOff /\ IdleOff
    \/ part = "access" /\ A!Init /\ RailsOff /\ OutboundOff /\ KeystoreOff /\ AgentOff
    \/ part = "rails" /\ R!Init /\ AccessOff /\ OutboundOff /\ KeystoreOff /\ AgentOff
    \/ part = "outbound" /\ O!Init /\ AccessOff /\ RailsOff /\ KeystoreOff /\ AgentOff /\ ClockOff
    \/ part = "scoring" /\ S!Init /\ ServiceOff /\ VenuesOff /\ PassportOff /\ RegistryOff
                           /\ MoneyOff /\ IdleOff
    \/ part = "venues" /\ V!Init /\ ServiceOff /\ ScoringOff /\ PassportOff /\ RegistryOff
                          /\ MoneyOff /\ IdleOff
    \/ part = "passport" /\ D!Init /\ ServiceOff /\ ScoringOff /\ VenuesOff /\ RegistryOff
                            /\ MoneyOff /\ IdleOff
    \/ part = "registry" /\ C!Init /\ ServiceOff /\ ScoringOff /\ VenuesOff /\ PassportOff
                            /\ MoneyOff /\ IdleOff
    \/ part = "money" /\ M!Init /\ now = 0 /\ ServiceOff /\ ScoringOff /\ VenuesOff /\ PassportOff
                         /\ RegistryOff /\ IdleOff
    \/ part = "tree" /\ now = 0 /\ ServiceOff /\ AgentOff /\ IdleOff

EdgeInit == EdgeParts /\ items = <<>>

KeystoreNext ==
    /\ part = "keystore" /\ Next
    /\ UNCHANGED <<part, accessVars, railsVars, outboundVars, handlerVars, agentVars>>
AccessNext ==
    /\ part = "access" /\ A!Next
    /\ UNCHANGED <<part, railsVars, outboundVars, keystoreVars, agentVars>>
RailsNext ==
    /\ part = "rails" /\ R!Next
    /\ UNCHANGED <<part, accessVars, outboundVars, keystoreVars, agentVars>>
OutboundNext ==
    /\ part = "outbound" /\ O!Next
    /\ UNCHANGED <<part, accessVars, railsVars, keystoreVars, now, pc, answer, agentVars>>
ScoringNext ==
    /\ part = "scoring" /\ S!Next
    /\ UNCHANGED <<part, serviceVars, venuesVars, passportVars, registryVars, moneyVars>>
VenuesNext ==
    /\ part = "venues" /\ V!Next
    /\ UNCHANGED <<part, serviceVars, scoringVars, passportVars, registryVars, moneyVars>>
PassportNext ==
    /\ part = "passport" /\ D!Next
    /\ UNCHANGED <<part, serviceVars, scoringVars, venuesVars, registryVars, moneyVars>>
RegistryNext ==
    /\ part = "registry" /\ C!Next
    /\ UNCHANGED <<part, serviceVars, scoringVars, venuesVars, passportVars, moneyVars>>

MoneyNext ==
    /\ part = "money" /\ M!Next
    /\ UNCHANGED <<part, now, serviceVars, scoringVars, venuesVars, passportVars, registryVars>>

\* A batch, or a credential, has one more item.
TreeNext ==
    /\ part = "tree" /\ Len(items) < MaxItems
    /\ \E i \in Item : items' = Append(items, i)
    /\ UNCHANGED <<part, now, serviceVars, agentVars>>

EdgeNext ==
    \/ /\ \/ KeystoreNext \/ AccessNext \/ RailsNext
          \/ OutboundNext \/ ScoringNext \/ VenuesNext \/ PassportNext
          \/ RegistryNext \/ MoneyNext
       /\ UNCHANGED items
    \/ TreeNext

edgeVars == <<part, now, items, serviceVars, agentVars>>

EdgeSpec == EdgeInit /\ [][EdgeNext]_edgeVars

-----------------------------------------------------------------------------
\* The properties of the parts, each of its own; they are stated in their modules.
\* OutstandingIsPublished is Keystore's own, of a process that is up only there.

\* RateIsBounded of Access: no spacing of requests lets more through than the
\* capacity and its refill.
RateIsBounded == part = "access" => A!RateIsBounded

\* SpendIsWhatPassed of Rails: what an agent has spent is the price of what passed,
\* charged as often as what it was told allows.
SpendIsWhatPassed == part = "rails" => R!SpendIsWhatPassed

\* GuardsTheRail of Rails: a breaker turns a call away for failures only, and one
\* that opened holds calls back while its time lasts.
BreakersGuard == [][part = "rails" => R!GuardsTheRail]_edgeVars

\* UsageBalances of Outbound: every check is counted, billed once, or dropped with a
\* reason.
UsageBalances == part = "outbound" => O!UsageBalances

\* GoodAuthorizationIsValid of Rails: an EIP-3009 authorization with every check
\* passed is not an error when nothing failed (byz-rail-eip3009/src/authorization.rs:
\* VALID, "All checks passed; safe to relay on-chain").
GoodAuthorizationIsValid == part = "rails" => R!GoodAuthorizationIsValid

\* StandingIsEarned of Scoring: a score is no more than what was settled with others
\* than the agent's own principal's can earn.
StandingIsEarned == part = "scoring" => S!StandingIsEarned

\* FailureNeverRaises of Scoring: a draw that fails does not raise a score.
FailureNeverRaises == part = "scoring" => S!FailureNeverRaises

\* AcceptedAsSigned of Venues: what a merchant accepts is what the agent signed.
AcceptedAsSigned == part = "venues" => V!AcceptedAsSigned

\* DrawsFitTheLimit of Money: what was drawn in a window, in whatever currencies, fits
\* the limit presented last (byz-common/src/money.rs: "exactly one unit of account per
\* attestation", "converted into that unit before it is netted against the window cap").
DrawsFitTheLimit == part = "money" => M!DrawsFitTheLimit

\* What a window counts covers what was drawn: WindowCoversPayments of Venues, where
\* payments are split into micro-units, and DrawsFitTheLimit at the gateway.
WindowCoversDraws == (part = "venues" => V!WindowCoversPayments) /\ DrawsFitTheLimit

\* GrantsStayNarrow of Passport: a key may do nothing that a scope it descends from
\* forbade when it was handed on, whatever the keys above it are granted since.
GrantsStayNarrow == part = "passport" => D!GrantsStayNarrow

\* RevocationOutlivesReuse of Passport: another key pair under a revoked key's id does
\* not bring back what the revocation cut off.
RevocationOutlivesReuse == part = "passport" => D!RevocationOutlivesReuse

\* StoredCutoffHolds of Revocations: a stored cutoff refuses what was issued before it,
\* through overlapping handlers, failed writes and restarts.
StoredCutoffHolds == part = "registry" => C!StoredCutoffHolds

\* The items as attributes: values of two, after the number, and a salt.
AttributesOf(batch) ==
    [i \in DOMAIN batch |->
        [name |-> <<i>>, value |-> <<batch[i], batch[1]>>, salt |-> <<batch[Len(batch)]>>]]

\* ProvesItsItem, ProvesItsBlock and DisclosesAsIssued of Merkle: every item has a
\* proof, and the proof is of no other, in a batch, a block and a credential.
ProofsVerify ==
    part = "tree" /\ items # <<>> =>
        /\ \A i \in DOMAIN items : ProvesItsItem(items, i - 1) /\ ProvesItsBlock(items, i - 1)
        /\ DisclosesAsIssued(AttributesOf(items), {<<x, x>> : x \in Item})

\* RootIsThePrincipal of Passport, which is not so: a principal key that was rotated
\* can be rotated again, and the passport then has two roots (passport.rs:111, "The
\* root of every chain in this passport").
RootIsThePrincipal == part = "passport" => D!RootIsThePrincipal

\* WashEarnsNothing of Scoring, which is not so: an event with a related counterparty
\* has no value, but is counted in the shares that an agent without valued events is
\* judged by, and in the mean of the velocity penalty (scorer.rs:777, the test
\* wash_volume_with_related_counterparties_earns_nothing).
WashEarnsNothing == part = "scoring" => S!WashEarnsNothing

\* NoSwappedLimit of Venues, which is not so: what a merchant does not require to be
\* covered may be changed on its way if its name stands anywhere else in Signature-Input
\* (byz-tap/src/extension.rs:91, "a misconfigured verifier cannot silently accept a
\* swapped limit").
NoSwappedLimit == part = "venues" => V!NoSwappedLimit

\* DelegationNarrows of Passport, which is not so: a key delegated to in the role of a
\* principal is a root, and bound by no scope (byz-passport/src/lib.rs:20, "Delegation
\* narrows, never widens.").
DelegationNarrows == part = "passport" => D!DelegationNarrows
=============================================================================
