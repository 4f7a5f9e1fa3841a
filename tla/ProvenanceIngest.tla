------------------------- MODULE ProvenanceIngest -------------------------
(***************************************************************************)
(* Runtime provenance at one gateway with a store: registering and         *)
(* revoking the runtimes whose signatures count, and submitting batches of *)
(* signed events.  A handler is a sequence of critical sections; it may be *)
(* dropped between two of them, a store call may fail, and the process may *)
(* restart.                                                                *)
(*                                                                         *)
(* A signature is the key that made it: an event verifies when its key is  *)
(* the one registered for its runtime.  The Merkle root of an agent's      *)
(* evidence is the sequence it commits to.                                 *)
(***************************************************************************)
EXTENDS Integers, FiniteSets, SequencesExt, Totals

CONSTANTS
    Agent, Runtime, Session,
    Key, NoKey,
    Request,
    req,            \* req[r]: the body of request r
    MaxFaults,      \* bound on failed store calls
    MaxRestarts     \* bound on restarts

Event == [agent : Agent, runtime : Runtime, key : Key, session : Session,
          seq : Nat]
RegisterBody == [kind : {"register"}, runtime : Runtime, key : Key]
RevokeBody == [kind : {"revoke"}, runtime : Runtime]
SubmitBody == [kind : {"submit"}, agent : Agent, events : Seq(Event)]

ASSUME ProvenanceIngestAssumption ==
    /\ IsFiniteSet(Request)
    /\ req \in [Request -> RegisterBody \cup RevokeBody \cup SubmitBody]
    /\ NoKey \notin Key
    /\ MaxFaults \in Nat /\ MaxRestarts \in Nat

VARIABLES
    keys, revoked,         \* state.runtimes
    provenance,            \* state.provenance: accepted events, in order
    provenance_rejected,   \* state.provenance_rejected
    evidence_refs,         \* state.evidence_refs: what each root commits to
    corroboration,         \* the scorer's verified_count of each agent
    runtime_rows,          \* Postgres: provenance_runtimes, with revoked_at
    event_rows,            \* Postgres: the key of provenance_events
    pc, seen, verified, unsaved, all,   \* the handlers and their locals
    faults, restarts,
    cut,       \* handlers dropped, or lost with their process
    current,   \* history: submissions that began in this process
    earlier,   \* history: those already accepted into memory when r began
    barred     \* history: runtimes revoked and not registered since, as far
               \* as this process ("memory") or the store ("stored") knows

registry == <<keys, revoked, runtime_rows, barred>>
evidence == <<provenance, provenance_rejected, evidence_refs, corroboration>>
locals == <<seen, verified, unsaved, all>>
history == <<current, earlier>>
vars == <<registry, evidence, event_rows, pc, locals, faults, restarts, cut,
          history>>

Submission == {r \in Request : req[r].kind = "submit"}
InFlight == {"save", "verify", "extend", "persist", "ref", "ingest"}
Row == [key : Key \cup {NoKey}, revoked : BOOLEAN]

\* The unique index of provenance_events.
RowKey(e) == <<e.agent, e.session, e.seq>>
KeysOf(events) == {RowKey(events[i]) : i \in DOMAIN events}

TypeOK ==
    /\ keys \in [Runtime -> Key \cup {NoKey}] /\ revoked \subseteq Runtime
    /\ provenance \in [Agent -> Seq(Event)]
    /\ provenance_rejected \in [Agent -> Nat]
    /\ evidence_refs \in [Agent -> Seq(Event)]
    /\ corroboration \in [Agent -> Nat]
    /\ runtime_rows \in [Runtime -> Row]
    /\ event_rows \subseteq Agent \X Session \X Nat
    /\ pc \in [Request -> InFlight \cup {"idle", "done"}]
    /\ \A local \in {seen, verified, unsaved, all} :
            local \in [Submission -> Seq(Event)]
    /\ faults \in 0..MaxFaults /\ restarts \in 0..MaxRestarts
    /\ cut \subseteq Request /\ current \subseteq Submission
    /\ earlier \in [Submission -> SUBSET Submission]
    /\ barred \in [Runtime -> {"no", "memory", "stored"}]

Init ==
    /\ keys = [t \in Runtime |-> NoKey] /\ revoked = {}
    /\ provenance = [a \in Agent |-> <<>>]
    /\ provenance_rejected = [a \in Agent |-> 0]
    /\ evidence_refs = [a \in Agent |-> <<>>]
    /\ corroboration = [a \in Agent |-> 0]
    /\ runtime_rows = [t \in Runtime |-> [key |-> NoKey, revoked |-> FALSE]]
    /\ event_rows = {}
    /\ pc = [r \in Request |-> "idle"]
    /\ seen = [r \in Submission |-> <<>>]
    /\ verified = seen /\ unsaved = seen /\ all = seen
    /\ faults = 0 /\ restarts = 0 /\ cut = {}
    /\ current = {}
    /\ earlier = [r \in Submission |-> {}]
    /\ barred = [t \in Runtime |-> "no"]

\* Request r stands before section `from` and goes on to section `to`.
Moves(r, from, to) ==
    /\ pc[r] = from /\ r \notin cut
    /\ pc' = [pc EXCEPT ![r] = to]

\* A store call fails: it is logged, and the handler goes on.
StoreFails == faults < MaxFaults /\ faults' = faults + 1

-----------------------------------------------------------------------------
(***************************************************************************)
(* register_runtime and revoke_runtime: the registry, then its row.        *)
(***************************************************************************)
\* A registration that has changed the registry and not yet its row.
Registering(t) ==
    \E r \in Request \ cut :
        req[r].kind = "register" /\ req[r].runtime = t /\ pc[r] = "save"

RegisterRuntime(r) ==
    LET t == req[r].runtime IN
    /\ req[r].kind = "register" /\ Moves(r, "idle", "save")
    /\ revoked' = revoked \ {t}
    /\ keys' = [keys EXCEPT ![t] = req[r].key]
    /\ barred' = [barred EXCEPT ![t] = "no"]
    /\ UNCHANGED <<runtime_rows, evidence, event_rows, locals, faults,
                   restarts, cut, history>>

PersistRuntime(r) ==
    /\ req[r].kind = "register" /\ Moves(r, "save", "done")
    /\ \/ /\ runtime_rows' = [runtime_rows EXCEPT ![req[r].runtime] =
                                 [key |-> req[r].key, revoked |-> FALSE]]
          /\ UNCHANGED faults
       \/ StoreFails /\ UNCHANGED runtime_rows
    /\ UNCHANGED <<keys, revoked, barred, evidence, event_rows, locals,
                   restarts, cut, history>>

RevokeRuntime(r) ==
    LET t == req[r].runtime IN
    /\ req[r].kind = "revoke" /\ Moves(r, "idle", "save")
    /\ revoked' = revoked \cup {t}
    /\ barred' = [barred EXCEPT ![t] = IF Registering(t) THEN @ ELSE "memory"]
    /\ UNCHANGED <<keys, runtime_rows, evidence, event_rows, locals, faults,
                   restarts, cut, history>>

\* An UPDATE: a runtime without a row stays without one.
PersistRevocation(r) ==
    LET t == req[r].runtime IN
    /\ req[r].kind = "revoke" /\ Moves(r, "save", "done")
    /\ \/ /\ runtime_rows' = [runtime_rows EXCEPT ![t].revoked =
                                 @ \/ runtime_rows[t].key # NoKey]
          /\ barred' = [barred EXCEPT ![t] = IF @ = "memory" THEN "stored"
                                             ELSE @]
          /\ UNCHANGED faults
       \/ StoreFails /\ UNCHANGED <<runtime_rows, barred>>
    /\ UNCHANGED <<keys, revoked, evidence, event_rows, locals, restarts, cut,
                   history>>

-----------------------------------------------------------------------------
(***************************************************************************)
(* submit_provenance.                                                      *)
(***************************************************************************)
\* A wrong replay set: a verifier that knows only its own batch.
SeedNothing(a) == <<>>

\* The replay set: what the agent has already had accepted.
Seeds(a) == provenance[a]

\* Submissions of this process whose events are in memory, and those whose
\* rejections are, whether or not their handlers came to an end.
Extended(r) == r \in current /\ pc[r] \in {"persist", "ref", "ingest", "done"}
Counted(r) == r \in current /\ pc[r] \in {"ref", "ingest", "done"}
ExtendedOf(a) == {r \in Submission : Extended(r) /\ req[r].agent = a}
CountedOf(a) == {r \in Submission : Counted(r) /\ req[r].agent = a}

ReadAccepted(r) ==
    LET a == req[r].agent IN
    /\ req[r].kind = "submit" /\ Moves(r, "idle", "verify")
    /\ seen' = [seen EXCEPT ![r] = Seeds(a)]
    /\ current' = current \cup {r}
    /\ earlier' = [earlier EXCEPT ![r] = ExtendedOf(a)]
    /\ UNCHANGED <<registry, evidence, event_rows, verified, unsaved, all,
                   faults, restarts, cut>>

\* An event of this agent, signed with the live key of its runtime.
Authentic(a, e) ==
    /\ e.agent = a
    /\ e.runtime \notin revoked
    /\ keys[e.runtime] = e.key

\* A sequence number must exceed every one passed in its session: the
\* refusal of a duplicate and of a step backwards are one here.
Fresh(passed, e) ==
    \A i \in DOMAIN passed : passed[i].session = e.session => passed[i].seq < e.seq

\* verify_batch: what passes of the first n events, in the order of the batch.
Passing(a, seeds, events) ==
    LET passed[n \in 0..Len(events)] ==
            IF n = 0 THEN <<>>
            ELSE IF Authentic(a, events[n]) /\ Fresh(seeds \o passed[n - 1], events[n])
                 THEN Append(passed[n - 1], events[n]) ELSE passed[n - 1]
    IN  passed[Len(events)]

VerifyBatch(r) ==
    /\ req[r].kind = "submit" /\ Moves(r, "verify", "extend")
    /\ verified' = [verified EXCEPT ![r] =
                       Passing(req[r].agent, seen[r], req[r].events)]
    /\ seen' = [seen EXCEPT ![r] = <<>>]
    /\ UNCHANGED <<registry, evidence, event_rows, unsaved, all, faults,
                   restarts, cut, history>>

\* A wrong extension: of the evidence last committed to.
ExtendCommitted(r) == evidence_refs[req[r].agent] \o verified[r]

Extension(r) == provenance[req[r].agent] \o verified[r]

Extend(r) ==
    LET a == req[r].agent IN
    /\ req[r].kind = "submit" /\ Moves(r, "extend", "persist")
    /\ provenance' = [provenance EXCEPT ![a] = Extension(r)]
    /\ all' = [all EXCEPT ![r] = Extension(r)]
    /\ unsaved' = [unsaved EXCEPT ![r] = verified[r]]
    /\ UNCHANGED <<registry, provenance_rejected, evidence_refs, corroboration,
                   event_rows, seen, verified, faults, restarts, cut, history>>

\* One INSERT per event, ON CONFLICT DO NOTHING.
PersistEvent(r) ==
    /\ req[r].kind = "submit" /\ Moves(r, "persist", "persist")
    /\ unsaved[r] # <<>>
    /\ unsaved' = [unsaved EXCEPT ![r] = Tail(@)]
    /\ \/ /\ event_rows' = event_rows \cup {RowKey(Head(unsaved[r]))}
          /\ UNCHANGED faults
       \/ StoreFails /\ UNCHANGED event_rows
    /\ UNCHANGED <<registry, evidence, seen, verified, all, restarts, cut,
                   current, earlier>>

Saved(r) == unsaved[r] = <<>>

Rejected(r) == Len(req[r].events) - Len(verified[r])

CountRejected(r) ==
    /\ req[r].kind = "submit" /\ Moves(r, "persist", "ref")
    /\ Saved(r)
    /\ provenance_rejected' = [provenance_rejected EXCEPT ![req[r].agent] =
                                  @ + Rejected(r)]
    /\ UNCHANGED <<registry, provenance, evidence_refs, corroboration,
                   event_rows, locals, faults, restarts, cut, history>>

\* A wrong commitment: to the latest batch only.
CommitToBatch(r) == verified[r]
Commitment(r) == all[r]

InsertRef(r) ==
    /\ req[r].kind = "submit" /\ Moves(r, "ref", "ingest")
    /\ evidence_refs' = [evidence_refs EXCEPT ![req[r].agent] = Commitment(r)]
    /\ UNCHANGED <<registry, provenance, provenance_rejected, corroboration,
                   event_rows, locals, faults, restarts, cut, history>>

\* The summary replaces the last one; the answer goes out.
IngestSummary(r) ==
    /\ req[r].kind = "submit" /\ Moves(r, "ingest", "done")
    /\ corroboration' = [corroboration EXCEPT ![req[r].agent] = Len(all[r])]
    /\ all' = [all EXCEPT ![r] = <<>>]
    /\ UNCHANGED <<registry, provenance, provenance_rejected, evidence_refs,
                   event_rows, seen, verified, unsaved, faults, restarts, cut,
                   history>>

-----------------------------------------------------------------------------
\* The connection closes or the timeout layer fires: the handler stops where
\* it is.
Drop(r) ==
    /\ pc[r] \in InFlight /\ r \notin cut
    /\ cut' = cut \cup {r}
    /\ UNCHANGED <<registry, evidence, event_rows, pc, locals, faults,
                   restarts, history>>

\* A wrong filter: revoked rows are loaded too.
LiveOrRevoked(t) == runtime_rows[t].key # NoKey
Live(t) == runtime_rows[t].key # NoKey /\ ~runtime_rows[t].revoked

\* Memory is lost, the handlers with it; of all of this only the registry is
\* read back: the live rows, or none when they cannot be read.
Restart ==
    /\ restarts < MaxRestarts /\ restarts' = restarts + 1
    /\ cut' = cut \cup {r \in Request : pc[r] \in InFlight}
    /\ \/ /\ keys' = [t \in Runtime |-> IF Live(t) THEN runtime_rows[t].key
                                       ELSE NoKey]
          /\ UNCHANGED faults
       \/ StoreFails /\ keys' = [t \in Runtime |-> NoKey]
    /\ revoked' = {}
    /\ barred' = [t \in Runtime |-> IF barred[t] = "stored" THEN "stored"
                                    ELSE "no"]
    /\ provenance' = [a \in Agent |-> <<>>]
    /\ provenance_rejected' = [a \in Agent |-> 0]
    /\ evidence_refs' = [a \in Agent |-> <<>>]
    /\ corroboration' = [a \in Agent |-> 0]
    /\ current' = {}
    /\ UNCHANGED <<runtime_rows, event_rows, pc, locals, earlier>>

Handler(r) ==
    \/ RegisterRuntime(r) \/ PersistRuntime(r)
    \/ RevokeRuntime(r) \/ PersistRevocation(r)
    \/ ReadAccepted(r) \/ VerifyBatch(r) \/ Extend(r) \/ PersistEvent(r)
    \/ CountRejected(r) \/ InsertRef(r) \/ IngestSummary(r)

Next == (\E r \in Request : Handler(r) \/ Drop(r)) \/ Restart

Spec == Init /\ [][Next]_vars
-----------------------------------------------------------------------------
\* Every event a submission of this process brought is either in the agent's
\* evidence or among its rejections, once its handler has got that far: no
\* overlap of submissions loses what another one wrote (provenance.rs:135-151).
EveryEventIsCounted ==
    \A a \in Agent :
        /\ Len(provenance[a]) =
               SumOver([r \in Submission |-> Len(verified[r])], Submission)[ExtendedOf(a)]
        /\ provenance_rejected[a] =
               SumOver([r \in Submission |-> Rejected(r)], Submission)[CountedOf(a)]

\* An agent's evidence reference, the one its attestations will carry, commits
\* to a history that its evidence still extends, and the scorer never credits
\* more events than were accepted (provenance.rs:135-136, 177-194).
RefCommitsToHistory ==
    \A a \in Agent :
        /\ IsPrefix(evidence_refs[a], provenance[a])
        /\ corroboration[a] <= Len(provenance[a])

\* What a submission brought into memory is never accepted again from one that
\* arrives later, be the first one answered, dropped or still at work: a retry
\* after a timeout adds nothing (provenance.rs:100-115).
AcceptedEvidenceIsFinal ==
    \A r \in current : \A q \in earlier[r] \cap current :
        KeysOf(verified[q]) \cap KeysOf(verified[r]) = {}

\* No batch verified after a runtime was revoked, and not registered since,
\* gains an event of that runtime, and once the revocation is stored not even
\* after a restart (provenance.rs:62-71, hydrate.rs:64-78).
RevokedRuntimeIsOut ==
    [][\A r \in Submission : verified'[r] # verified[r] =>
          \A i \in DOMAIN verified'[r] :
              barred[verified'[r][i].runtime] = "no"]_vars

\* "so a resubmitted batch is rejected as replay rather than counted a second
\* time" (provenance.rs:100-103): no event is twice in an agent's evidence.
CountedOnce ==
    \A a \in Agent : \A i, j \in DOMAIN provenance[a] :
        i # j => RowKey(provenance[a][i]) # RowKey(provenance[a][j])
=============================================================================
