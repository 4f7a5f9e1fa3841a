------------------------------- MODULE Rails -------------------------------
(***************************************************************************)
(* The payment rails: POST /v1/payments/{eip3009,solana,x402}/verify and   *)
(* POST /v1/a2a/check.  Each verifies what its rail brings and then asks   *)
(* the gateway's own trust check, over HTTP, about the agent; the first    *)
(* two also call an RPC node, each behind a circuit breaker of atomics.    *)
(*                                                                         *)
(* The trust check is here what a rail sees of it: a verdict, by the       *)
(* agent's standing and what is left of its daily cap, and a charge when   *)
(* it passes an amount, which a task of its own records some time later.   *)
(* A message between agents need not name an amount.                       *)
(***************************************************************************)
EXTENDS Integers, Sequences, FiniteSetsExt, Totals

CONSTANTS
    Request, req,            \* req[r]: the body of request r
    Agent, Wallet, Mint,
    Transactions,            \* what a Solana node may know under a signature
    Threshold, ResetAfter,   \* of a CircuitBreaker
    MicroPerCent,            \* 10 000
    Cap,                     \* of an agent's mandate, a day, in cents
    NoAgent,                 \* a message without a DID
    NoAmount,                \* a check, or a message, without an amount
    MaxTime, MaxFaults       \* bounds

\* A transaction: err, the accounts' keys, and the token balances before and after,
\* [index, mint, amount], by an account's index.

Eip3009Body == [rail : {"eip3009"}, from : Agent, value : Nat, valid_after : Nat,
                valid_before : Nat, signed : BOOLEAN, nonce_used : BOOLEAN]
SolanaBody == [rail : {"solana"}, from_wallet : Wallet, to_wallet : Wallet, mint : Mint,
               amount : Nat]
X402Body == [rail : {"x402"}, agent : Agent, value : Nat, required : Nat, expires_at : Nat,
             matches : BOOLEAN]  \* recipient, chain and a signature
A2ABody == [rail : {"a2a"}, from : Agent \cup {NoAgent}, to : Agent \cup {NoAgent},
            amount_cents : Nat \cup {NoAmount}]

RailsAssumption ==
    /\ req \in [Request -> Eip3009Body \cup SolanaBody \cup X402Body \cup A2ABody]
    /\ \A tx \in Transactions : tx.keys # <<>> /\ tx.keys \in Seq(Wallet)
    /\ Threshold \in Nat \ {0} /\ MicroPerCent \in Nat \ {0}
    /\ {ResetAfter, Cap, MaxTime, MaxFaults} \subseteq Nat
    /\ NoAgent \notin Agent /\ NoAmount \notin Nat
    /\ IsFiniteSet(Request)

Rpc == {"eip3009", "solana"}   \* the rails behind a breaker: cb_base_rpc, cb_solana

VARIABLES
    now,
    standing,  \* what the reputation step says of an agent
    committed, \* MandateEngine: what an agent has spent today
    due,       \* charges for request r whose task has not run yet
    breaker,   \* the two atomics of each CircuitBreaker
    pc,
    answer,    \* the verdict, and if a message comes with it
    charges,   \* history: trust checks that passed an amount for request r
    streak,    \* history: failures of an RPC rail since its last success
    blamed,    \* history: Threshold calls had failed when the call of r came
    shut,      \* history: a breaker opened, and neither has its time passed
               \* since nor has a call succeeded
    faults

spend == <<standing, committed, due, charges>>
guard == <<breaker, streak, blamed, shut>>
vars == <<now, spend, guard, pc, answer, faults>>

Unanswered == [verdict |-> "none", message |-> FALSE]

\* The results of the three verifiers and of a check between agents.
Verdicts ==
    {"none", "unavailable", "error", "EXPIRED", "NOT_YET_VALID", "INVALID_SIGNATURE",
     "NONCE_USED", "TRUST_BLOCKED", "TransactionFailed", "MintMismatch", "SenderMismatch",
     "AmountMismatch", "valid", "invalid", "PASS", "FLAG", "BLOCK"}

TypeOK ==
    /\ now \in Nat /\ faults \in Nat
    /\ standing \in [Agent -> {"PASS", "FLAG", "BLOCK"}]
    /\ committed \in [Agent -> Nat] /\ due \in [Request -> 0 .. 2]
    /\ breaker \in [Rpc -> [failures : Nat, last : Int]]
    /\ pc \in [Request -> {"idle", "gate", "half", "verify", "nonce", "trust", "wrap", "trip",
                            "done"}]
    /\ answer \in [Request -> [verdict : Verdicts, message : BOOLEAN]]
    /\ charges \in [Request -> 0 .. 2]
    /\ streak \in [Rpc -> Nat] /\ blamed \in [Request -> BOOLEAN] /\ shut \in [Rpc -> BOOLEAN]

Init ==
    /\ now = 0 /\ faults = 0
    /\ standing \in [Agent -> {"PASS", "FLAG", "BLOCK"}]
    /\ committed = [a \in Agent |-> 0] /\ due = [r \in Request |-> 0]
    /\ breaker = [b \in Rpc |-> [failures |-> 0, last |-> -ResetAfter - 1]]  \* the epoch
    /\ pc = [r \in Request |-> "idle"]
    /\ answer = [r \in Request |-> Unanswered]
    /\ charges = [r \in Request |-> 0]
    /\ streak = [b \in Rpc |-> 0]
    /\ blamed = [r \in Request |-> FALSE] /\ shut = [b \in Rpc |-> FALSE]

-----------------------------------------------------------------------------
Rail(r) == req[r].rail
Goto(r, where) == pc' = [pc EXCEPT ![r] = where] /\ UNCHANGED answer
Reply(r, verdict, message) ==
    /\ pc' = [pc EXCEPT ![r] = "done"]
    /\ answer' = [answer EXCEPT ![r] = [verdict |-> verdict, message |-> message]]
Fault == faults < MaxFaults /\ faults' = faults + 1

(* CircuitBreaker.                                                          *)

\* A wrong success: the count stays.
ForgetsSuccess(b) == UNCHANGED breaker

\* record_success, and with it whatever the verifier answered, also when no RPC
\* node was asked.
RecordSuccess(b) == breaker' = [breaker EXCEPT ![b].failures = 0]

Conclude(r, verdict) ==
    /\ RecordSuccess(Rail(r))
    /\ streak' = [streak EXCEPT ![Rail(r)] = 0]
    /\ shut' = [shut EXCEPT ![Rail(r)] = FALSE]
    /\ Reply(r, verdict, FALSE)
    /\ UNCHANGED blamed

\* record_failure, whatever failed; at the threshold, the time is a second step.
Fail(r) ==
    LET failures == breaker[Rail(r)].failures + 1
    IN  /\ breaker' = [breaker EXCEPT ![Rail(r)].failures = failures]
        /\ streak' = [streak EXCEPT ![Rail(r)] = @ + 1]
        /\ IF failures >= Threshold THEN Goto(r, "trip") ELSE Reply(r, "error", FALSE)
        /\ UNCHANGED <<blamed, shut>>

\* Until the time is there, the breaker is open on the one before; and if a call
\* is about to reset the count, or one has succeeded, it does not stay open.
Trip(r) ==
    LET b == Rail(r)
    IN  /\ pc[r] = "trip"
        /\ breaker' = [breaker EXCEPT ![b].last = now]
        /\ shut' = [shut EXCEPT ![b] =
                       \/ @
                       \/ /\ breaker[b].failures >= Threshold
                          /\ \A s \in Request : Rail(s) = b => pc[s] # "half"]
        /\ Reply(r, "error", FALSE)
        /\ UNCHANGED <<now, spend, streak, blamed, faults>>

\* is_open reads the count, and only at the threshold the time.
ReadCount(r) ==
    LET b == Rail(r)
    IN  /\ pc[r] = "idle" /\ b \in Rpc
        /\ Goto(r, IF breaker[b].failures < Threshold THEN "verify" ELSE "gate")
        /\ blamed' = [blamed EXCEPT ![r] = streak[b] >= Threshold]
        /\ UNCHANGED <<now, spend, breaker, streak, shut, faults>>

\* It compares the time with the clock.
ReadTime(r) ==
    /\ pc[r] = "gate"
    /\ IF now - breaker[Rail(r)].last > ResetAfter THEN Goto(r, "half")
                                                   ELSE Reply(r, "unavailable", FALSE)
    /\ UNCHANGED <<now, spend, guard, faults>>

\* After ResetAfter the count starts anew, whatever it is by now, and everybody is
\* let through.
ResetCount(r) ==
    /\ pc[r] = "half"
    /\ breaker' = [breaker EXCEPT ![Rail(r)].failures = 0]
    /\ Goto(r, "verify")
    /\ UNCHANGED <<now, spend, streak, blamed, shut, faults>>

-----------------------------------------------------------------------------
(* The trust check, as the rails see it.                                    *)

\* Of an agent and an amount; a check without an amount is held against no cap.
Verdict(agent, cents) ==
    IF cents # NoAmount /\ committed[agent] + cents > Cap THEN "BLOCK" ELSE standing[agent]

NoCharge == UNCHANGED <<committed, due, charges>>

\* A pass that is answered leaves the amount, if there is one, to a task.
Charged(r, agent, cents) ==
    /\ IF Verdict(agent, cents) = "PASS" /\ cents # NoAmount
       THEN due' = [due EXCEPT ![r] = @ + 1] /\ charges' = [charges EXCEPT ![r] = @ + 1]
       ELSE UNCHANGED <<due, charges>>
    /\ UNCHANGED committed

\* Who is charged for request r, and how much.
Payer(r) == IF Rail(r) = "x402" THEN req[r].agent ELSE req[r].from
Price(r) == IF Rail(r) = "x402" THEN req[r].value \div MicroPerCent ELSE req[r].amount_cents

\* The task: MandateEngine::record_spend.
RecordSpend(r) ==
    /\ due[r] > 0 /\ due' = [due EXCEPT ![r] = @ - 1]
    /\ committed' = [committed EXCEPT ![Payer(r)] = @ + Price(r)]
    /\ UNCHANGED <<now, standing, charges, guard, pc, answer, faults>>

\* The call fails: before it came through, or after, when nobody waits any more.
Unheard(r, agent, cents) == Fault /\ (NoCharge \/ Charged(r, agent, cents))

-----------------------------------------------------------------------------
(* Eip3009Verifier::verify.                                                 *)

CheckTime(r) ==
    LET q == req[r]
    IN  /\ pc[r] = "verify" /\ Rail(r) = "eip3009"
        /\ \/ now >= q.valid_before /\ Conclude(r, "EXPIRED") /\ UNCHANGED faults
           \/ /\ now < q.valid_before /\ now <= q.valid_after
              /\ Conclude(r, "NOT_YET_VALID") /\ UNCHANGED faults
           \/ /\ now < q.valid_before /\ now > q.valid_after    \* recover_signer
              /\ \/ /\ q.signed
                    /\ Goto(r, "nonce") /\ UNCHANGED <<guard, faults>>
                 \/ ~q.signed /\ Conclude(r, "INVALID_SIGNATURE") /\ UNCHANGED faults
                 \/ Fault /\ Fail(r)
        /\ UNCHANGED <<now, spend>>

CheckNonce(r) ==
    /\ pc[r] = "nonce"
    /\ \/ req[r].nonce_used /\ Conclude(r, "NONCE_USED") /\ UNCHANGED faults
       \/ ~req[r].nonce_used /\ Goto(r, "trust") /\ UNCHANGED <<guard, faults>>
       \/ Fault /\ Fail(r)
    /\ UNCHANGED <<now, spend>>

(* SolanaVerifier::verify, up to the trust check.                           *)

\* The recipient's balance of the mint, by the recipient's first index among the
\* accounts, and what it has grown by; the first account is the sender.
Status(tx, q) ==
    LET at == {i \in DOMAIN tx.keys : tx.keys[i] = q.to_wallet}
        Of(balances) == {b \in balances : at # {} /\ b.index = Min(at)}
        to == {b \in Of(tx.post) : b.mint = q.mint}
        Amount(balances) == IF balances = {} THEN 0 ELSE (CHOOSE b \in balances : TRUE).amount
        received == Max({0, Amount(to) - Amount(Of(tx.pre))})
    IN  CASE tx.err -> "TransactionFailed"
          [] ~tx.err /\ to = {} -> "MintMismatch"
          [] ~tx.err /\ to # {} /\ Head(tx.keys) # q.from_wallet -> "SenderMismatch"
          [] OTHER -> IF received = q.amount THEN "Verified" ELSE "AmountMismatch"

FetchTransaction(r) ==
    /\ pc[r] = "verify" /\ Rail(r) = "solana"
    /\ \/ \E tx \in Transactions :
            IF Status(tx, req[r]) = "Verified"
            THEN Goto(r, "trust") /\ UNCHANGED <<guard, faults>>
            ELSE Conclude(r, Status(tx, req[r])) /\ UNCHANGED faults
       \/ Fail(r) /\ UNCHANGED faults        \* no transaction of that signature
       \/ Fault /\ Fail(r)
    /\ UNCHANGED <<now, spend>>

\* Their trust check names no rail, and an action that does not exist: the gateway
\* refuses the body, in words that are not JSON, unless it refuses the caller
\* first.  The call fails, or blocks.
AskInVain(r) ==
    /\ pc[r] = "trust" /\ Rail(r) \in Rpc
    /\ \/ Fail(r)
       \/ Conclude(r, "TRUST_BLOCKED")
    /\ UNCHANGED <<now, spend, faults>>

-----------------------------------------------------------------------------
(* X402Verifier::verify.                                                    *)

\* parse_proof_header and validate_proof_format.
ProofFits(q) == now <= q.expires_at /\ q.value >= q.required /\ q.matches

CheckProof(r) ==
    /\ pc[r] = "idle" /\ Rail(r) = "x402"
    /\ IF ProofFits(req[r]) THEN Goto(r, "trust") ELSE Reply(r, "error", FALSE)
    /\ UNCHANGED <<now, spend, guard, faults>>

\* A wrong result: whatever is not blocked is allowed.
AllowsFlagged(verdict) == verdict # "BLOCK"

\* X402VerificationResult::is_allowed.
IsAllowed(verdict) == verdict = "PASS"

AskAboutPayer(r) ==
    LET verdict == Verdict(Payer(r), Price(r))
    IN  /\ pc[r] = "trust" /\ Rail(r) = "x402"
        /\ \/ /\ Charged(r, Payer(r), Price(r))
              /\ Reply(r, IF IsAllowed(verdict) THEN "valid" ELSE "invalid", FALSE)
              /\ UNCHANGED faults
           \/ Unheard(r, Payer(r), Price(r)) /\ Reply(r, "error", FALSE)
        /\ UNCHANGED <<now, standing, guard>>

-----------------------------------------------------------------------------
(* check_a2a: A2AProxy::check, and A2AProxy::wrap, which checks again.      *)

\* check of both agents, the amount with the sender; an error is a block.
CrossVerdict(r) ==
    LET from == Verdict(req[r].from, req[r].amount_cents)
        to == Verdict(req[r].to, NoAmount)
    IN  CASE {from, to} = {"PASS"} -> "PASS"
          [] {from, to} = {"PASS", "FLAG"} -> "FLAG"
          [] OTHER -> "BLOCK"

CheckMessage(r) ==
    LET q == req[r]
    IN  /\ pc[r] = "idle" /\ Rail(r) = "a2a"
        /\ \/ /\ NoAgent \in {q.from, q.to}
              /\ Reply(r, "BLOCK", FALSE) /\ NoCharge /\ UNCHANGED faults
           \/ /\ NoAgent \notin {q.from, q.to}
              /\ \/ /\ Charged(r, q.from, q.amount_cents)
                    /\ IF CrossVerdict(r) = "PASS" THEN Goto(r, "wrap")
                                                   ELSE Reply(r, CrossVerdict(r), FALSE)
                    /\ UNCHANGED faults
                 \/ Unheard(r, q.from, q.amount_cents) /\ Reply(r, "BLOCK", FALSE)
        /\ UNCHANGED <<now, standing, guard>>

\* Only an error of the second check keeps the message back, not a flag.
WrapMessage(r) ==
    LET q == req[r]
    IN  /\ pc[r] = "wrap"
        /\ \/ /\ Charged(r, q.from, q.amount_cents)
              /\ Reply(r, "PASS", CrossVerdict(r) # "BLOCK")
              /\ UNCHANGED faults
           \/ Unheard(r, q.from, q.amount_cents) /\ Reply(r, "PASS", FALSE)
        /\ UNCHANGED <<now, standing, guard>>

-----------------------------------------------------------------------------
\* The client asks again.
Again(r) ==
    /\ pc[r] = "done" /\ Rail(r) \in Rpc
    /\ pc' = [pc EXCEPT ![r] = "idle"]
    /\ answer' = [answer EXCEPT ![r] = Unanswered]
    /\ blamed' = [blamed EXCEPT ![r] = FALSE]
    /\ UNCHANGED <<now, spend, breaker, streak, shut, faults>>

\* A mandate is revoked, or a reputation falls.
StandingMoves(a) ==
    /\ standing[a] = "PASS"
    /\ \E s \in {"FLAG", "BLOCK"} : standing' = [standing EXCEPT ![a] = s]
    /\ UNCHANGED <<now, committed, due, charges, guard, pc, answer, faults>>

Tick ==
    /\ now < MaxTime /\ now' = now + 1
    /\ shut' = [b \in Rpc |-> shut[b] /\ now' - breaker[b].last <= ResetAfter]
    /\ UNCHANGED <<spend, breaker, streak, blamed, pc, answer, faults>>

Next ==
    \/ \E r \in Request :
        \/ ReadCount(r) \/ ReadTime(r) \/ ResetCount(r) \/ Trip(r)
        \/ CheckTime(r) \/ CheckNonce(r) \/ FetchTransaction(r) \/ AskInVain(r)
        \/ CheckProof(r) \/ AskAboutPayer(r)
        \/ CheckMessage(r) \/ WrapMessage(r)
        \/ RecordSpend(r) \/ Again(r)
    \/ \E a \in Agent : StandingMoves(a)
    \/ Tick

Spec == Init /\ [][Next]_vars

-----------------------------------------------------------------------------
(* Properties.                                                              *)

\* Requests that name who pays, and how much.
Priced(r) ==
    \/ Rail(r) = "x402"
    \/ /\ Rail(r) = "a2a" /\ NoAgent \notin {req[r].from, req[r].to}
       /\ req[r].amount_cents # NoAmount

\* How often a request may have been charged, by where it is and what it was told.
\* Only a lost answer leaves a charge on a payment that was not let through.  A
\* message that is held back on the recipient's account is charged to the sender
\* all the same, and one that passes is checked again when it is wrapped.
MayBeCharged(r) ==
    LET v == answer[r].verdict
    IN  CASE ~Priced(r) -> {0}
          [] Priced(r) /\ (v = "valid" \/ pc[r] = "wrap") -> {1}
          [] Priced(r) /\ v = "PASS" -> {1, 2}
          [] Priced(r) /\ v \in {"FLAG", "BLOCK"} -> {0, 1}
          [] Priced(r) /\ v = "error" -> IF faults = 0 THEN {0} ELSE {0, 1}
          [] Priced(r) /\ v \in {"none", "invalid"} /\ pc[r] # "wrap" -> {0}

\* The charges of an agent that tasks have recorded.
Recorded(a) ==
    SumOver([r \in Request |-> IF Priced(r) THEN (charges[r] - due[r]) * Price(r) ELSE 0],
            Request)[{r \in Request : Priced(r) /\ Payer(r) = a}]

\* What an agent has spent in a day is the price of what it was let do, and of
\* nothing else: a payment let through is charged once, a refused one not at all,
\* a message without an amount never, and no task records more, less, or of another.
SpendIsWhatPassed ==
    /\ \A r \in Request : charges[r] \in MayBeCharged(r)
    /\ \A a \in Agent : committed[a] = Recorded(a)

\* A call is turned away only if Threshold calls had failed since the last success
\* when it came, also if one succeeds before it is.  And a breaker that opened
\* lets no further call through while its time lasts, unless one that was already
\* under way succeeds or, late, resets the count.
GuardsTheRail ==
    \A r \in Request : Rail(r) \in Rpc =>
        /\ answer'[r] # answer[r] /\ answer'[r].verdict = "unavailable" => blamed[r]
        /\ shut[Rail(r)] /\ pc[r] \in {"idle", "gate"} => pc'[r] \notin {"half", "verify"}

\* authorization.rs: VALID is for an authorization all of whose checks passed.  One
\* that is in time, signed and fresh, of an agent that passes, is not an error when
\* nothing failed.
GoodAuthorizationIsValid ==
    \A r \in Request :
        /\ Rail(r) = "eip3009" /\ pc[r] = "done" /\ faults = 0
        /\ req[r].signed /\ ~req[r].nonce_used
        /\ standing[req[r].from] = "PASS"
        => answer[r].verdict # "error"
=============================================================================
