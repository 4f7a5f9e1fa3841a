------------------------------ MODULE Receipts ------------------------------
(***************************************************************************)
(* Liability receipts: POST /v1/receipts, the forced seal, the audit       *)
(* export, the job that anchors batches, and the flush at shutdown.        *)
(*                                                                         *)
(* A gateway has, or has not, a store: connecting to it at start may fail. *)
(* The batcher is guarded by one lock; each call to the store or to immudb *)
(* is a step of its own, and may fail before or after it took effect.      *)
(* A receipt is its id, a number, for ids are random and ordered.  A batch *)
(* is a number too; content says what every batch ever sealed holds.       *)
(***************************************************************************)
EXTENDS Integers, SequencesExt, FiniteSetsExt, Functions

CONSTANTS
    Request,
    req,             \* req[r]: the body of request r
    Subject,         \* the agents that receipts are about
    BatchSize,       \* of AppState::batcher
    MaxReceipt, MaxFaults, MaxRestarts,   \* bounds
    NoRow, Unbatched, \* of a receipt: no row, or a row without a batch
    AnyAgent, AnyBatch \* an audit that does not filter

CreateBody == [kind : {"create"}, agent : Subject]
SealBody == [kind : {"seal"}]
AuditBody == [kind : {"audit"}, agent : Subject \cup {AnyAgent}, batch : Nat \cup {AnyBatch},
              limit : Nat \ {0}]

ASSUME ReceiptsAssumption ==
    /\ req \in [Request -> CreateBody \cup SealBody \cup AuditBody]
    /\ BatchSize \in Nat \ {0}
    /\ {MaxReceipt, MaxFaults, MaxRestarts} \subseteq Nat
    /\ NoRow \notin Nat /\ Unbatched \notin Nat /\ NoRow # Unbatched
    /\ AnyAgent \notin Subject /\ AnyBatch \notin Nat

Receipt == 1 .. MaxReceipt
Attempts == 3   \* ImmudbClient::reconnect

VARIABLES
    phase,     \* "up"; the "flush" at a signal; "draining" its connections
    store,     \* AppState::store is Some
    pending,   \* ReceiptBatcher::pending
    sealed,    \* ReceiptBatcher::sealed: the batches this process has sealed
    content,   \* history: the receipts of every batch ever sealed
    rows,      \* Postgres, receipts: the batch_id of each row
    roots,     \* Postgres, receipt_batches
    anchored,  \* immudb: the batches whose root it holds
    owner,     \* the agent a receipt is about
    pc, answer,
    todo,      \* what request r has left to persist
    job,       \* the anchoring job
    closing,   \* what the flush at shutdown has left to write
    walk,      \* an auditor's pages
    faults, restarts

handlers == <<pc, answer, todo>>
tables == <<rows, roots, anchored>>
batcher == <<pending, sealed, content>>
receiptsVars ==
    <<phase, store, batcher, tables, owner, handlers, job, closing, walk,
       faults, restarts>>

Batches == 1 .. Len(content)
Stored == {i \in Receipt : rows[i] # NoRow}
InFlight == {"add", "persist", "assign"}
Nothing == [batch |-> 0, left |-> <<>>]
Idle == [at |-> "asleep", batch |-> 0, tries |-> 0, failures |-> 0]
Unopened == [after |-> 0, seen |-> {}, shown |-> 0, owed |-> {}, more |-> FALSE]

ReceiptsTypeOK ==
    /\ phase \in {"up", "flush", "draining"}
    /\ store \in BOOLEAN
    /\ pending \in Seq(Receipt)
    /\ sealed \subseteq Batches
    /\ content \in Seq(Seq(Receipt))
    /\ rows \in [Receipt -> Nat \cup {NoRow, Unbatched}]
    /\ roots \subseteq Batches /\ anchored \subseteq Batches
    /\ owner \in [Receipt -> Subject \cup {AnyAgent}]
    /\ pc \in [Request -> InFlight \cup {"idle", "page", "done", "dropped"}]
    /\ answer \in [Request -> {"none", "ok", "error", "no_reply"}]
    /\ todo \in [Request -> [batch : Nat, left : Seq(Receipt)]]
    /\ job \in [at : {"asleep", "write", "reconnect", "rewrite"}, batch : Nat,
                tries : 0 .. Attempts, failures : Nat]
    /\ closing \in [left : SUBSET Batches, owed : SUBSET Batches]
    /\ walk \in [Request -> [after : Nat, seen : SUBSET Receipt, shown : Nat,
                             owed : SUBSET Receipt, more : BOOLEAN]]
    /\ faults \in Nat /\ restarts \in Nat

ReceiptsInit ==
    /\ phase = "up"
    /\ store \in BOOLEAN
    /\ pending = <<>> /\ sealed = {} /\ content = <<>>
    /\ rows = [i \in Receipt |-> NoRow]
    /\ roots = {} /\ anchored = {}
    /\ owner = [i \in Receipt |-> AnyAgent]
    /\ pc = [r \in Request |-> "idle"]
    /\ answer = [r \in Request |-> "none"]
    /\ todo = [r \in Request |-> Nothing]
    /\ job = Idle
    /\ closing = [left |-> {}, owed |-> {}]
    /\ walk = [r \in Request |-> Unopened]
    /\ faults = 0 /\ restarts = 0

-----------------------------------------------------------------------------
\* Connections are accepted until the flush at shutdown is over.
Arrive(r) == pc[r] = "idle" /\ phase # "draining"
Resume(r, where) == pc[r] = where

Goto(r, where) == pc' = [pc EXCEPT ![r] = where] /\ UNCHANGED answer

Reply(r, what) ==
    /\ pc' = [pc EXCEPT ![r] = "done"]
    /\ answer' = [answer EXCEPT ![r] = what]

\* A call to Postgres or immudb fails, or its reply is lost.
Fault == faults < MaxFaults /\ faults' = faults + 1

\* The flush at shutdown reads the batcher's lock until it is done.
BatcherIsFree == phase # "flush"

-----------------------------------------------------------------------------
(* ReceiptBatcher.                                                          *)

\* ReceiptBatcher::seal: all that is pending becomes the next batch.
Seal(receipts) ==
    /\ content' = Append(content, receipts)
    /\ sealed' = sealed \cup {Len(content) + 1}
    /\ pending' = <<>>

\* What a handler does with the batch that it has just sealed.
Persist(r, receipts) ==
    IF store THEN /\ todo' = [todo EXCEPT ![r] = [batch |-> Len(content) + 1,
                                                  left |-> receipts]]
                  /\ Goto(r, "persist")
             ELSE Reply(r, "ok") /\ UNCHANGED todo

-----------------------------------------------------------------------------
(* create_receipt.                                                          *)

\* create_and_sign draws a fresh id; ReceiptRepository::insert.
CreateRow(r) ==
    /\ req[r].kind = "create" /\ Arrive(r)
    /\ \E i \in {j \in Receipt : owner[j] = AnyAgent} :
        /\ owner' = [owner EXCEPT ![i] = req[r].agent]
        /\ todo' = [todo EXCEPT ![r] = [batch |-> 0, left |-> <<i>>]]
        /\ \/ /\ store
              /\ rows' = [rows EXCEPT ![i] = Unbatched]
              /\ Goto(r, "add") /\ UNCHANGED faults
           \/ /\ store /\ Fault
              /\ rows' \in {rows, [rows EXCEPT ![i] = Unbatched]}
              /\ Reply(r, "error")
           \/ ~store /\ Goto(r, "add") /\ UNCHANGED <<rows, faults>>
    /\ UNCHANGED <<phase, store, batcher, roots, anchored, job, closing, walk, restarts>>

\* ReceiptBatcher::add, under its lock.
AddReceipt(r) ==
    LET receipts == Append(pending, Head(todo[r].left))
    IN  /\ req[r].kind = "create" /\ Resume(r, "add") /\ BatcherIsFree
        /\ \/ /\ Len(receipts) >= BatchSize
              /\ Seal(receipts)
              /\ Persist(r, receipts)
           \/ /\ Len(receipts) < BatchSize
              /\ pending' = receipts
              /\ Reply(r, "ok")
              /\ UNCHANGED <<sealed, content, todo>>
    /\ UNCHANGED <<phase, store, tables, owner, job, closing, walk, faults, restarts>>

\* BatchRepository::insert; a failure is only logged.
PersistBatch(r) ==
    /\ Resume(r, "persist")
    /\ \/ roots' = roots \cup {todo[r].batch} /\ UNCHANGED faults
       \/ Fault /\ roots' \in {roots, roots \cup {todo[r].batch}}
    /\ Goto(r, "assign")
    /\ UNCHANGED <<phase, store, batcher, rows, anchored, owner, todo, job, closing,
                   walk, restarts>>

\* ReceiptRepository::assign_batch of the next receipt.  The schema refuses a
\* batch_id that has no row in receipt_batches; the handler ignores errors.
Assign(r) ==
    LET b == todo[r].batch
        i == Head(todo[r].left)
        Assigned == IF rows[i] # NoRow /\ b \in roots THEN [rows EXCEPT ![i] = b] ELSE rows
    IN  /\ Resume(r, "assign")
        /\ \/ rows' = Assigned /\ UNCHANGED faults
           \/ Fault /\ rows' \in {rows, Assigned}
        /\ todo' = [todo EXCEPT ![r].left = Tail(@)]
        /\ IF Len(todo[r].left) = 1 THEN Reply(r, "ok") ELSE UNCHANGED <<pc, answer>>
        /\ UNCHANGED <<phase, store, batcher, roots, anchored, owner, job, closing, walk,
                       restarts>>

-----------------------------------------------------------------------------
(* seal_batch.                                                              *)

\* MerkleTree::new asserts that there is an item: an empty seal panics, after
\* the empty batch was taken and before anything is stored.
ForceSeal(r) ==
    /\ req[r].kind = "seal" /\ Arrive(r) /\ BatcherIsFree
    /\ \/ pending # <<>> /\ Seal(pending) /\ Persist(r, pending)
       \/ pending = <<>> /\ Reply(r, "no_reply") /\ UNCHANGED <<batcher, todo>>
    /\ UNCHANGED <<phase, store, tables, owner, job, closing, walk, faults, restarts>>

-----------------------------------------------------------------------------
(* list_receipts.  An auditor asks for one page after another.              *)

About(agent, i) == agent \in {AnyAgent, owner[i]}

\* The first n, of numbers and of places: a place is a batch and a position in it.
First(ids, n) == {i \in ids : Cardinality({j \in ids : j < i}) < n}

Before(p, q) == p[1] < q[1] \/ (p[1] = q[1] /\ p[2] < q[2])
FirstPlaces(places, n) == {p \in places : Cardinality({q \in places : Before(q, p)}) < n}

\* ReceiptRepository::list: the rows whose id is greater than the cursor's, by id.
Listed(agent, after, limit) == First({i \in Stored : i > after /\ About(agent, i)}, limit)

\* A wrong cursor: none for a page that is exactly full.
HasOverfullCursor(page, limit) == Cardinality(page) > limit

HasCursor(page, limit) == Cardinality(page) = limit

\* With a store: the batch filter is not applied, and a full page has a cursor.
AuditStore(r) ==
    LET q == req[r]
        page == Listed(q.agent, walk[r].after, q.limit)
        Read == [after |-> IF page = {} THEN 0 ELSE Max(page),
                 seen |-> walk[r].seen \cup page,
                 shown |-> walk[r].shown + Cardinality(page),
                 owed |-> IF pc[r] = "page" THEN walk[r].owed
                          ELSE {i \in Stored : About(q.agent, i)},
                 more |-> HasCursor(page, q.limit)]
    IN  /\ q.kind = "audit" /\ store /\ phase # "draining"
        /\ pc[r] \in {"idle", "page"}
        /\ \/ /\ walk' = [walk EXCEPT ![r] = Read]
              /\ IF Read.more THEN Goto(r, "page") ELSE Reply(r, "ok")
              /\ UNCHANGED faults
           \/ Fault /\ Reply(r, "error") /\ UNCHANGED walk
        /\ UNCHANGED <<phase, store, batcher, tables, owner, todo, job, closing, restarts>>

\* What this process sealed, of a batch or of all, and what is pending, of an agent.
Sealed(q) ==
    LET asked == {b \in sealed : q.batch \in {AnyBatch, b}}
        places == UNION {{b} \X DOMAIN content[b] : b \in asked}
    IN  {p \in places : About(q.agent, content[p[1]][p[2]])}
Loose(q) == {k \in DOMAIN pending : About(q.agent, pending[k])}

Receipts(places, positions) ==
    {content[p[1]][p[2]] : p \in places} \cup {pending[k] : k \in positions}

\* Without a store: what was sealed, up to the limit, then what is pending, whatever
\* its batch, and at least one of those.  No cursor.
AuditMemory(r) ==
    LET q == req[r]
        first == FirstPlaces(Sealed(q), q.limit)
        rest == First(Loose(q), Max({1, q.limit - Cardinality(first)}))
        shown == Cardinality(first) + Cardinality(rest)
    IN  /\ q.kind = "audit" /\ ~store /\ Arrive(r) /\ BatcherIsFree
        /\ walk' = [walk EXCEPT ![r] =
                [after |-> 0, seen |-> Receipts(first, rest), shown |-> shown,
                 owed |-> Receipts(Sealed(q), Loose(q)), more |-> shown >= q.limit]]
        /\ Reply(r, "ok")
        /\ UNCHANGED <<phase, store, batcher, tables, owner, todo, job, closing, faults,
                       restarts>>

-----------------------------------------------------------------------------
(* The anchoring job: anchor_flush::run_once, AnchorService::anchor and     *)
(* ImmudbClient::set.  It stores no row, and assigns no receipt.            *)

\* A wrong job, the one of docs/runbooks/anchor-stale.md: it waits for a batch
\* to reach its size.
JobWaitsForSize ==
    /\ job.at = "asleep" /\ Len(pending) >= BatchSize /\ BatcherIsFree
    /\ job' = [Idle EXCEPT !.at = "write", !.batch = Len(content) + 1]
    /\ Seal(pending)
    /\ UNCHANGED <<phase, store, tables, owner, handlers, closing, walk, faults, restarts>>

JobSeal ==
    /\ job.at = "asleep" /\ pending # <<>> /\ BatcherIsFree
    /\ job' = [Idle EXCEPT !.at = "write", !.batch = Len(content) + 1]
    /\ Seal(pending)
    /\ UNCHANGED <<phase, store, tables, owner, handlers, closing, walk, faults, restarts>>

\* ImmudbClient::set after a failed set_once: the first one makes it reconnect.
AfterFailure(j) ==
    IF j.at = "rewrite" THEN Idle
    ELSE [j EXCEPT !.at = "reconnect", !.tries = Attempts, !.failures = 1]

\* set_once, with its login.
JobWrite ==
    /\ job.at \in {"write", "rewrite"}
    /\ \/ /\ anchored' = anchored \cup {job.batch}
          /\ job' = Idle
          /\ UNCHANGED faults
       \/ /\ Fault
          /\ anchored' \in {anchored, anchored \cup {job.batch}}
          /\ job' = AfterFailure(job)
    /\ UNCHANGED <<phase, store, batcher, rows, roots, owner, handlers, closing, walk,
                   restarts>>

JobReconnect ==
    /\ job.at = "reconnect"
    /\ \/ job' = [job EXCEPT !.at = "rewrite"] /\ UNCHANGED faults
       \/ /\ Fault
          /\ job' = IF job.tries = 1 THEN Idle
                    ELSE [job EXCEPT !.tries = @ - 1, !.failures = @ + 1]
    /\ UNCHANGED <<phase, store, batcher, tables, owner, handlers, closing, walk, restarts>>

-----------------------------------------------------------------------------
(* Shutdown and restart.                                                    *)

\* SIGTERM.  flush_batches_on_shutdown takes the lock before anything else.
Signal ==
    /\ phase = "up"
    /\ IF store /\ sealed # {}
       THEN phase' = "flush" /\ closing' = [left |-> sealed, owed |-> sealed]
       ELSE phase' = "draining" /\ UNCHANGED closing
    /\ UNCHANGED <<store, batcher, tables, owner, handlers, job, walk, faults, restarts>>

\* A wrong flush: it ends with the first batch that cannot be written.
FlushUntilError ==
    LET b == Min(closing.left)
        left == closing.left \ {b}
        Close(l, o) == /\ closing' = [left |-> l, owed |-> o]
                       /\ phase' = IF l = {} THEN "draining" ELSE phase
    IN  /\ phase = "flush"
        /\ \/ roots' = roots \cup {b} /\ Close(left, closing.owed) /\ UNCHANGED faults
           \/ Fault /\ UNCHANGED roots /\ Close({}, closing.owed \ {b})
        /\ UNCHANGED <<store, batcher, rows, anchored, owner, handlers, job, walk, restarts>>

\* One batch after another; one that fails is logged, and the next one tried.
FlushOne ==
    LET b == Min(closing.left)
        left == closing.left \ {b}
        Close(l, o) == /\ closing' = [left |-> l, owed |-> o]
                       /\ phase' = IF l = {} THEN "draining" ELSE phase
    IN  /\ phase = "flush"
        /\ \/ roots' = roots \cup {b} /\ Close(left, closing.owed) /\ UNCHANGED faults
           \/ /\ Fault
              /\ roots' \in {roots, roots \cup {b}}
              /\ Close(left, closing.owed \ {b})
        /\ UNCHANGED <<store, batcher, rows, anchored, owner, handlers, job, walk, restarts>>

\* The process ends, drained or killed, and starts again.  Memory is lost,
\* what was in flight with it; connecting to the store may fail.
Restart ==
    LET InTheAir(r) == pc[r] \in InFlight \cup {"page"}
    IN  /\ restarts < MaxRestarts /\ restarts' = restarts + 1
        /\ phase' = "up"
        /\ \/ store' = TRUE /\ UNCHANGED faults
           \/ Fault /\ store' = FALSE
        /\ pending' = <<>> /\ sealed' = {}
        /\ job' = Idle
        /\ closing' = [left |-> {}, owed |-> {}]
        /\ pc' = [r \in Request |-> IF InTheAir(r) THEN "dropped" ELSE pc[r]]
        /\ todo' = [r \in Request |-> Nothing]
        /\ UNCHANGED <<content, tables, owner, answer, walk>>

\* TimeoutLayer, or a client that went away, drops a handler between two steps.
Drop(r) ==
    /\ pc[r] \in InFlight
    /\ faults < MaxFaults /\ faults' = faults + 1
    /\ pc' = [pc EXCEPT ![r] = "dropped"]
    /\ todo' = [todo EXCEPT ![r] = Nothing]
    /\ UNCHANGED <<phase, store, batcher, tables, owner, answer, job, closing, walk, restarts>>

Handle(r) == CreateRow(r) \/ AddReceipt(r) \/ PersistBatch(r) \/ Assign(r) \/ ForceSeal(r)
Audit(r) == AuditStore(r) \/ AuditMemory(r)
Job == JobSeal \/ JobWrite \/ JobReconnect

ReceiptsNext ==
    \/ \E r \in Request : Handle(r) \/ Audit(r) \/ Drop(r)
    \/ Job
    \/ Signal \/ FlushOne \/ Restart

\* The runtime polls handlers and the job again and again, and the flush runs
\* to its end; nobody has to send a request, or to stop the gateway.
ReceiptsSpec ==
    /\ ReceiptsInit /\ [][ReceiptsNext]_receiptsVars
    /\ WF_receiptsVars(Job) /\ WF_receiptsVars(FlushOne)

-----------------------------------------------------------------------------
(* Properties.                                                              *)

\* An audit whose last page was not full saw every receipt it asked about that
\* was there when it began, once, whatever was stored between its pages.
WalkIsComplete ==
    \A r \in Request :
        answer[r] = "ok" /\ req[r].kind = "audit" /\ ~walk[r].more =>
            /\ walk[r].owed \subseteq walk[r].seen
            /\ walk[r].shown = Cardinality(walk[r].seen)

\* When the flush at shutdown is over, every batch that was sealed before the
\* signal has its root stored, but for those whose own write failed.
FlushKeepsSealed == phase = "draining" => closing.owed \subseteq roots

\* A receipt in the batcher does not stay there: a batch is sealed however few
\* receipts it has, or the process ends.
PendingGetsSealed ==
    \A i \in Receipt : (i \in Range(pending)) ~> (i \notin Range(pending))

\* anchor_flush.rs: "flush sealed receipt batches to immudb".
SealedGetsAnchored ==
    \A b \in 1 .. MaxReceipt : (b \in sealed) ~> (b \in anchored)
=============================================================================
