------------------------------ MODULE Issuance ------------------------------
(***************************************************************************)
(* How an agent comes by a limit: `register_principal` and `issue_limit`   *)
(* of one gateway with a store, the settlements its scorer learns from,    *)
(* and restarts.  Standings and previous limits are read through memory:   *)
(* a miss is fetched from the store and then cached, in three sections     *)
(* between which other handlers run.                                       *)
(*                                                                         *)
(* The score is any member of Score once the agent has a history: the      *)
(* scorer's decay and square root are not computed.  Of an attestation,    *)
(* its limits and the instant it was signed are kept.                      *)
(***************************************************************************)
EXTENDS Underwriting, FiniteSets

CONSTANTS
    Agent, Principal,
    Score,          \* composite scores an agent with a history may have
    Request,
    req,            \* req[r]: the body of request r
    NoStanding,     \* no standing is registered
    MaxFaults,      \* bound on failed store calls
    MaxRestarts     \* bound on restarts

RegisterBody == [kind : {"register"}, agent : Agent, principal : Principal,
                 kyc_tier : KycTier, sanctions_clear : BOOLEAN]
IssueBody == [kind : {"issue"}, agent : Agent]
SettleBody == [kind : {"settle"}, agent : Agent, amount : Nat \ {0}]

Standing == [principal_ref : Principal, kyc_tier : KycTier,
             sanctions_clear : BOOLEAN, agent_count : Nat \ {0}]
LimitRow == [issued_at : Nat, lim_window : Nat]

ASSUME IssuanceAssumption ==
    /\ req \in [Request -> RegisterBody \cup IssueBody \cup SettleBody]
    /\ IsFiniteSet(Request) /\ IsFiniteSet(Agent)
    /\ Score \subseteq 0..1000
    /\ NoStanding \notin Standing /\ NoLimit \notin LimitRow
    /\ MaxFaults \in Nat /\ MaxRestarts \in Nat

VARIABLES
    bound, members, largest_single,    \* AppState::reputation
    standings, last_limits, mandates,  \* AppState's maps, by agent
    standing_rows, limit_rows,         \* Postgres
    pc,        \* where the handler of each request stands
    local,     \* what it holds: standing, reputation, previous limit, decision
    signed,    \* attestations signed so far, which orders them in time
    faults, restarts,
    before,    \* history: before[r], the requests answered, with every store
               \* call they made, when r arrived; of those, a registration
               \* keeps the registrations
    raced      \* history: registrations that had put their standing in memory
               \* and not yet in its row while a standing of their agent that
               \* was fetched from the row was about to be cached

reputation == <<bound, members, largest_single>>
memory == <<standings, last_limits, mandates>>
rows == <<standing_rows, limit_rows>>
vars == <<reputation, memory, rows, pc, local, signed, faults, restarts, before,
          raced>>

Reputation == [principal_ref : Principal \cup {NoPrincipal},
               score : Score \cup {0}, largest_single : Nat]
Decision == [lim_single : Nat, lim_window : Nat]
Blank == [st |-> NoStanding,
          rep |-> [principal_ref |-> NoPrincipal, score |-> 0, largest_single |-> 0],
          prev |-> NoLimit, dec |-> [lim_single |-> 0, lim_window |-> 0],
          prn |-> NoPrincipal, signed_at |-> 0, faulted |-> FALSE]

InFlight == {"count", "insert", "persist_standing",
             "standing", "fetch_standing", "cache_standing", "detail",
             "previous", "fetch_previous", "cache_previous",
             "decide", "sign", "remember", "persist_limit"}

TypeOK ==
    /\ bound \in [Agent -> Principal \cup {NoPrincipal}]
    /\ members \in [Principal -> SUBSET Agent]
    /\ largest_single \in [Agent -> Nat]
    /\ standings \in [Agent -> Standing \cup {NoStanding}]
    /\ last_limits \in [Agent -> Nat \cup {NoLimit}]
    /\ mandates \in [Agent -> Decision \cup {NoLimit}]
    /\ standing_rows \in [Agent -> Standing \cup {NoStanding}]
    /\ limit_rows \in [Agent -> LimitRow \cup {NoLimit}]
    /\ pc \in [Request -> InFlight \cup {"idle", "done", "dropped"}]
    /\ local \in [Request -> [st : Standing \cup {NoStanding}, rep : Reputation,
                              prev : Nat \cup {NoLimit}, dec : Decision,
                              prn : Principal \cup {NoPrincipal},
                              signed_at : Nat, faulted : BOOLEAN]]
    /\ signed \in Nat
    /\ faults \in 0..MaxFaults /\ restarts \in 0..MaxRestarts
    /\ before \in [Request -> SUBSET Request]
    /\ raced \subseteq Request

Init ==
    /\ bound = [a \in Agent |-> NoPrincipal]
    /\ members = [p \in Principal |-> {}]
    /\ largest_single = [a \in Agent |-> 0]
    /\ standings = [a \in Agent |-> NoStanding]
    /\ last_limits = [a \in Agent |-> NoLimit]
    /\ mandates = [a \in Agent |-> NoLimit]
    /\ standing_rows = [a \in Agent |-> NoStanding]
    /\ limit_rows = [a \in Agent |-> NoLimit]
    /\ pc = [r \in Request |-> "idle"]
    /\ local = [r \in Request |-> Blank]
    /\ signed = 0 /\ faults = 0 /\ restarts = 0
    /\ before = [r \in Request |-> {}]
    /\ raced = {}

-----------------------------------------------------------------------------
Goto(r, where) == pc' = [pc EXCEPT ![r] = where]
Hold(r, held) == local' = [local EXCEPT ![r] = held]

\* The registrations, and the requests for a limit that were given one, that
\* have been answered with every store call they made.
Answered == {r \in Request : /\ pc[r] = "done" /\ ~ local[r].faulted
                             /\ req[r].kind = "register" \/ local[r].signed_at > 0}

Arrive(r) ==
    /\ pc[r] = "idle"
    /\ before' = [before EXCEPT ![r] =
                    {q \in Answered : req[r].kind = "issue" \/ req[q].kind = "register"}]

\* A store call of request r fails; the handler logs it and goes on.
Fault(r) == faults < MaxFaults /\ faults' = faults + 1

-----------------------------------------------------------------------------
(* register_principal.                                                      *)

\* bind_principal.  An agent bound elsewhere before stays in that set too.
Bind(r) ==
    LET a == req[r].agent
        p == req[r].principal
    IN  /\ req[r].kind = "register"
        /\ Arrive(r)
        /\ bound' = [bound EXCEPT ![a] = p]
        /\ members' = [members EXCEPT ![p] = @ \cup {a}]
        /\ Goto(r, "count")
        /\ UNCHANGED <<largest_single, memory, rows, local, signed, faults>>

\* agents_for_principal, under a lock of its own; the standing is built.
Count(r) ==
    /\ pc[r] = "count"
    /\ Hold(r, [local[r] EXCEPT !.st =
                  [principal_ref |-> req[r].principal,
                   kyc_tier |-> req[r].kyc_tier,
                   sanctions_clear |-> req[r].sanctions_clear,
                   agent_count |-> AtLeast(Cardinality(members[req[r].principal]), 1)]])
    /\ Goto(r, "insert")
    /\ UNCHANGED <<reputation, memory, rows, signed, faults, before>>

\* A wrong insert: a standing the agent already has is kept.
InsertOnlyFirst(r) ==
    /\ pc[r] = "insert"
    /\ standings' = [standings EXCEPT ![req[r].agent] =
                        IF @ = NoStanding THEN local[r].st ELSE @]
    /\ Goto(r, "persist_standing")
    /\ UNCHANGED <<reputation, last_limits, mandates, rows, local, signed, faults, before>>

Insert(r) ==
    /\ pc[r] = "insert"
    /\ standings' = [standings EXCEPT ![req[r].agent] = local[r].st]
    /\ Goto(r, "persist_standing")
    /\ UNCHANGED <<reputation, last_limits, mandates, rows, local, signed, faults, before>>

\* upsert_standing, or a failure that is only logged.
PersistStanding(r) ==
    /\ pc[r] = "persist_standing"
    /\ Goto(r, "done")
    /\ \/ /\ standing_rows' = [standing_rows EXCEPT ![req[r].agent] = local[r].st]
          /\ UNCHANGED <<local, faults>>
       \/ /\ Fault(r)
          /\ Hold(r, [local[r] EXCEPT !.faulted = TRUE])
          /\ UNCHANGED standing_rows
    /\ UNCHANGED <<reputation, memory, limit_rows, signed, before>>

-----------------------------------------------------------------------------
(* issue_limit.                                                             *)

Begin(r) ==
    /\ req[r].kind = "issue"
    /\ Arrive(r)
    /\ Goto(r, "standing")
    /\ UNCHANGED <<reputation, memory, rows, local, signed, faults>>

\* standing_for: memory.
ReadStanding(r) ==
    LET st == standings[req[r].agent]
    IN  /\ pc[r] = "standing"
        /\ Hold(r, [local[r] EXCEPT !.st = st])
        /\ Goto(r, IF st = NoStanding THEN "fetch_standing" ELSE "detail")
        /\ UNCHANGED <<reputation, memory, rows, signed, faults, before>>

\* get_standing counts the rows of the agent's principal; no count is stored.
RowCount(a) ==
    Cardinality({b \in Agent :
                   /\ standing_rows[b] # NoStanding
                   /\ standing_rows[b].principal_ref = standing_rows[a].principal_ref})

\* standing_for: the store.  No row, or no answer, ends the request.
FetchStanding(r) ==
    LET row == standing_rows[req[r].agent]
    IN  /\ pc[r] = "fetch_standing"
        /\ \/ /\ row # NoStanding
              /\ Hold(r, [local[r] EXCEPT
                            !.st = [row EXCEPT !.agent_count = RowCount(req[r].agent)]])
              /\ Goto(r, "cache_standing")
              /\ UNCHANGED faults
           \/ /\ row = NoStanding
              /\ Goto(r, "done")
              /\ UNCHANGED <<local, faults>>
           \/ /\ Fault(r)
              /\ Goto(r, "done")
              /\ UNCHANGED local
        /\ UNCHANGED <<reputation, memory, rows, signed, before>>

\* standing_for: what was fetched replaces whatever memory holds by now.
CacheStanding(r) ==
    /\ pc[r] = "cache_standing"
    /\ standings' = [standings EXCEPT ![req[r].agent] = local[r].st]
    /\ Goto(r, "detail")
    /\ UNCHANGED <<reputation, last_limits, mandates, rows, local, signed, faults, before>>

\* reputation.detail: an agent without a history scores zero.
ReadDetail(r) ==
    LET a == req[r].agent
    IN  /\ pc[r] = "detail"
        /\ \E s \in (IF largest_single[a] = 0 THEN {0} ELSE Score) :
              Hold(r, [local[r] EXCEPT !.rep =
                         [principal_ref |-> bound[a], score |-> s,
                          largest_single |-> largest_single[a]]])
        /\ Goto(r, "previous")
        /\ UNCHANGED <<reputation, memory, rows, signed, faults, before>>

\* A wrong reading of the previous limit: memory only.
ReadPreviousInMemory(r) ==
    /\ pc[r] = "previous"
    /\ Hold(r, [local[r] EXCEPT !.prev = last_limits[req[r].agent]])
    /\ Goto(r, "decide")
    /\ UNCHANGED <<reputation, memory, rows, signed, faults, before>>

\* previous_limit_for: memory.
ReadPrevious(r) ==
    LET prev == last_limits[req[r].agent]
    IN  /\ pc[r] = "previous"
        /\ Hold(r, [local[r] EXCEPT !.prev = prev])
        /\ Goto(r, IF prev = NoLimit THEN "fetch_previous" ELSE "decide")
        /\ UNCHANGED <<reputation, memory, rows, signed, faults, before>>

\* previous_limit_for: the row last issued.  Without one, or without an
\* answer, the limit is decided as an agent's first.
FetchPrevious(r) ==
    LET row == limit_rows[req[r].agent]
    IN  /\ pc[r] = "fetch_previous"
        /\ \/ /\ row # NoLimit
              /\ Hold(r, [local[r] EXCEPT !.prev = row.lim_window])
              /\ Goto(r, "cache_previous")
              /\ UNCHANGED faults
           \/ /\ row = NoLimit
              /\ Goto(r, "decide")
              /\ UNCHANGED <<local, faults>>
           \/ /\ Fault(r)
              /\ Hold(r, [local[r] EXCEPT !.faulted = TRUE])
              /\ Goto(r, "decide")
        /\ UNCHANGED <<reputation, memory, rows, signed, before>>

CachePrevious(r) ==
    /\ pc[r] = "cache_previous"
    /\ last_limits' = [last_limits EXCEPT ![req[r].agent] = local[r].prev]
    /\ Goto(r, "decide")
    /\ UNCHANGED <<reputation, standings, mandates, rows, local, signed, faults, before>>

\* underwrite, and the mandate that an issued decision stores.
Decide(r) ==
    LET dec == Underwrite(local[r].st, local[r].rep, local[r].prev)
    IN  /\ pc[r] = "decide"
        /\ \/ /\ IsIssued(dec)
              /\ Hold(r, [local[r] EXCEPT !.dec = dec])
              /\ mandates' = [mandates EXCEPT ![req[r].agent] = dec]
              /\ Goto(r, "sign")
           \/ /\ ~ IsIssued(dec)
              /\ Hold(r, Blank)
              /\ Goto(r, "done")
              /\ UNCHANGED mandates
        /\ UNCHANGED <<reputation, standings, last_limits, rows, signed, faults, before>>

\* input_principal_ref: the standing is looked up in memory once more.
PrincipalOf(a) ==
    IF standings[a] = NoStanding THEN NoPrincipal ELSE standings[a].principal_ref

\* issue_with_evidence, once the evidence and the principal have been read.
\* It refuses only a decision that is not issued, and none comes here.
Sign(r) ==
    /\ pc[r] = "sign"
    /\ signed' = signed + 1
    /\ Hold(r, [local[r] EXCEPT !.prn = PrincipalOf(req[r].agent),
                                !.signed_at = signed + 1])
    /\ Goto(r, "remember")
    /\ UNCHANGED <<reputation, memory, rows, faults, before>>

Remember(r) ==
    /\ pc[r] = "remember"
    /\ last_limits' = [last_limits EXCEPT ![req[r].agent] = local[r].dec.lim_window]
    /\ Goto(r, "persist_limit")
    /\ UNCHANGED <<reputation, standings, mandates, rows, local, signed, faults, before>>

\* The row that latest_limit would read, by the instant of issue.
LatestRow(row, r) ==
    IF row # NoLimit /\ row.issued_at > local[r].signed_at THEN row
    ELSE [issued_at |-> local[r].signed_at, lim_window |-> local[r].dec.lim_window]

PersistLimit(r) ==
    /\ pc[r] = "persist_limit"
    /\ Goto(r, "done")
    /\ \/ /\ limit_rows' = [limit_rows EXCEPT ![req[r].agent] = LatestRow(@, r)]
          /\ UNCHANGED <<local, faults>>
       \/ /\ Fault(r)
          /\ Hold(r, [local[r] EXCEPT !.faulted = TRUE])
          /\ UNCHANGED limit_rows
    /\ UNCHANGED <<reputation, memory, standing_rows, signed, before>>

-----------------------------------------------------------------------------
\* settle_draw, as far as the scorer learns from it: `ingest` keeps the
\* largest amount of any outcome.
Ingest(r) ==
    LET a == req[r].agent
    IN  /\ req[r].kind = "settle"
        /\ pc[r] = "idle"
        /\ largest_single' = [largest_single EXCEPT ![a] = AtLeast(@, req[r].amount)]
        /\ Goto(r, "done")
        /\ UNCHANGED <<bound, members, memory, rows, local, signed, faults, before>>

\* What handlers R held is gone; an attestation once signed stays a fact.
Forgotten(R) ==
    [r \in Request |-> IF r \in R /\ local[r].signed_at = 0 THEN Blank ELSE local[r]]

\* A handler's future is dropped at an await.
Drop(r) ==
    /\ pc[r] \in InFlight
    /\ Goto(r, "dropped")
    /\ local' = Forgotten({r})
    /\ UNCHANGED <<reputation, memory, rows, signed, faults, before>>

\* A row's older standing may be cached over the one that was registered.
RecordRaces ==
    raced' = raced \cup
        {q \in Request :
            /\ pc'[q] = "persist_standing"
            /\ \E f \in Request : /\ pc'[f] = "cache_standing"
                                  /\ req[f].agent = req[q].agent}

Handle(r) ==
    /\ \/ Bind(r) \/ Count(r) \/ Insert(r) \/ PersistStanding(r)
       \/ Begin(r) \/ ReadStanding(r) \/ FetchStanding(r) \/ CacheStanding(r)
       \/ ReadDetail(r) \/ ReadPrevious(r) \/ FetchPrevious(r) \/ CachePrevious(r)
       \/ Decide(r) \/ Sign(r) \/ Remember(r) \/ PersistLimit(r)
       \/ Ingest(r) \/ Drop(r)
    /\ RecordRaces
    /\ UNCHANGED restarts

\* The process restarts: the scorer, the standings, the previous limits and the
\* mandates are gone, and `hydrate` leaves standings and limits to be fetched.
Restart ==
    /\ restarts < MaxRestarts
    /\ restarts' = restarts + 1
    /\ bound' = [a \in Agent |-> NoPrincipal]
    /\ members' = [p \in Principal |-> {}]
    /\ largest_single' = [a \in Agent |-> 0]
    /\ standings' = [a \in Agent |-> NoStanding]
    /\ last_limits' = [a \in Agent |-> NoLimit]
    /\ mandates' = [a \in Agent |-> NoLimit]
    /\ LET cut == {r \in Request : pc[r] \in InFlight}
       IN  /\ pc' = [r \in Request |-> IF r \in cut THEN "dropped" ELSE pc[r]]
           /\ local' = Forgotten(cut)
    /\ UNCHANGED <<rows, signed, faults, before, raced>>

Next == \/ \E r \in Request : Handle(r)
        \/ Restart

Spec == Init /\ [][Next]_vars

-----------------------------------------------------------------------------
Signed == {r \in Request : local[r].signed_at > 0}
NewlySigned == {r \in Request : local'[r].signed_at > 0} \ Signed
Window(r) == local[r].dec.lim_window

\* The attestations signed for the agent of r.
SignedFor(r) == {s \in Signed : req[s].agent = req[r].agent}

\* Registrations of the agent of r.
Registrations(r) ==
    {q \in Request : req[q].kind = "register" /\ req[q].agent = req[r].agent}

\* Registration q of an agent is in force for request r: it was answered, and
\* stored, before r arrived, and no other registration of the agent has begun
\* since it did.
InForce(q, r) ==
    /\ q \in before[r]
    /\ \A p \in Registrations(r) \ {q} : pc[p] = "idle" \/ p \in before[q]

\* The attestation of r is what registration q allows, under its principal.
IsGatedBy(r, q) ==
    /\ req[q].sanctions_clear /\ req[q].kyc_tier # "unverified"
    /\ local[r].prn = req[q].principal
    /\ local[r].st.principal_ref = req[q].principal
    /\ local[r].st.kyc_tier = req[q].kyc_tier
    /\ Window(r) <= ceiling[req[q].kyc_tier]

\* A request for a limit is decided on the registration in force when it came,
\* and on no earlier one of the agent: not through what memory or the row kept
\* of those, not after a restart, and whatever was fetched, cached or dropped
\* meanwhile.  The one exception is a registration that raced with the caching
\* of an older row, which memory then keeps (FailedScreeningEndsIssuance).
StandingInForceGates ==
    \A r \in Signed : \A q \in Registrations(r) :
        InForce(q, r) /\ q \notin raced => IsGatedBy(r, q)

\* A restart does not reset the growth of a limit: when an attestation of the
\* agent had been signed and stored before a request arrived, the limit it is
\* issued is one step at most above a limit the agent was issued before.
RateCapSurvivesRestart ==
    [][\A r \in NewlySigned :
          /\ ~ local[r].faulted
          /\ SignedFor(r) \cap before[r] # {}
          => \E s \in SignedFor(r) : Window(r) <= Allowed(Window(s))]_vars

\* An agent that has completed a single draw as large as its last limit let
\* it never finds that limit repeated, unless its score or its principal's
\* ceiling allows no more: the experience cap never lands on the limit itself.
\* (The trap that the README describes under "A limit is earned".)
LimitCanGrow ==
    [][\A r \in NewlySigned : \A s \in SignedFor(r) :
          LET held == local[r]
          IN  /\ held.prev = Window(s)
              /\ held.rep.largest_single >= local[s].dec.lim_single
              => \/ Window(r) > Window(s)
                 \/ Window(r) >= AtMost(Deserved(held.st, held.rep), Share(held.st))]_vars

-----------------------------------------------------------------------------
\* byz-common/src/limits.rs:101-102 says this of a principal that fails screening,
\* that it "cannot be issued any limit".  The code
\* does not keep it: a standing fetched from the store before such a
\* registration is cached over the one it registered.
FailedScreeningEndsIssuance ==
    \A r \in Signed : \A q \in Registrations(r) :
        InForce(q, r) => req[q].sanctions_clear

\* limits.rs:77-78 and docs/api.md:62 say that limits consolidate at the
\* principal: two of its agents, both issued their limits after both were
\* registered, share its ceiling.  The code counts a principal's agents when
\* each of them registers, and memory keeps the count.
LimitsConsolidate ==
    \A r, s \in Signed : \A q \in Registrations(r), p \in Registrations(s) :
        /\ req[r].agent # req[s].agent
        /\ req[q].principal = req[p].principal
        /\ InForce(q, r) /\ p \in before[r]
        /\ InForce(p, s) /\ q \in before[s]
        => Window(r) + Window(s) <= ceiling[local[r].st.kyc_tier]
=============================================================================
