------------------------------ MODULE Outbound ------------------------------
(***************************************************************************)
(* What a trust check leaves behind: the usage meter, which a job flushes  *)
(* to Stripe every hour, and the webhook that tells the operator of the    *)
(* verdict.  Both are tasks that the handler starts and forgets.           *)
(*                                                                         *)
(* Stripe and the operator's endpoint are outside: a call to them may fail *)
(* before it took effect, or its answer may be lost after.                 *)
(*                                                                         *)
(* The gateway records each check under the key "default" (trust.rs:189)   *)
(* and never calls register_key, so of its own it bills nothing; a second  *)
(* key and RegisterKey are the meter's interface.                          *)
(***************************************************************************)
EXTENDS Integers, FiniteSets

CONSTANTS
    Key,              \* keys of the meter
    MaxChecks, MaxFaults, MaxFlushes \* bounds

OutboundAssumption == {MaxChecks, MaxFaults, MaxFlushes} \subseteq Nat

Delays == 3   \* attempts of dispatch_with_retry

Check == 1 .. MaxChecks

VARIABLES
    stripe,     \* a Stripe client is configured
    counters,   \* UsageMeter::counters: checks, and if a subscription is known
    flushing,   \* the keys that the running flush has left; the meter is locked
    job,        \* "asleep", or "flush"
    waiting,    \* checks whose metering task waits for the meter
    event,      \* of each check: its webhook, and the attempts to deliver it
    received,   \* the operator's endpoint: how often an event came
    recorded,   \* history: checks by key
    billed,     \* Stripe: units by key
    unbilled,   \* history: units that a flush dropped, there being no subscription
    lost,       \* history: reports that Stripe took and whose answer was lost
    faults, flushes

vars == <<stripe, counters, flushing, job, waiting, event, received, recorded, billed,
          unbilled, lost, faults, flushes>>

TypeOK ==
    /\ stripe \in BOOLEAN
    /\ counters \in [Key -> [trust_checks : Nat, subscribed : BOOLEAN]]
    /\ flushing \subseteq Key /\ job \in {"asleep", "flush"}
    /\ waiting \subseteq Check
    /\ event \in [Check -> [at : {"none", "post", "delivered", "dead"},
                            attempts : 0 .. Delays, key : Key]]
    /\ received \in [Check -> 0 .. Delays]
    /\ {recorded, billed, unbilled, lost} \subseteq [Key -> Nat]
    /\ faults \in Nat /\ flushes \in Nat

Init ==
    /\ stripe \in BOOLEAN
    /\ counters = [k \in Key |-> [trust_checks |-> 0, subscribed |-> FALSE]]
    /\ flushing = {} /\ job = "asleep"
    /\ waiting = {}
    /\ event \in [Check -> [at : {"none"}, attempts : {0}, key : Key]]
    /\ received = [c \in Check |-> 0]
    /\ recorded = [k \in Key |-> 0] /\ billed = [k \in Key |-> 0]
    /\ unbilled = [k \in Key |-> 0] /\ lost = [k \in Key |-> 0]
    /\ faults = 0 /\ flushes = 0

Plus(f, k, n) == [f EXCEPT ![k] = @ + n]
Fault == faults < MaxFaults /\ faults' = faults + 1
MeterIsFree == job = "asleep"

-----------------------------------------------------------------------------
(* UsageMeter.                                                              *)

RegisterKey(k) ==
    /\ MeterIsFree
    /\ counters' = [counters EXCEPT ![k].subscribed = TRUE]
    /\ UNCHANGED <<stripe, flushing, job, waiting, event, received, recorded, billed,
                   unbilled, lost, faults, flushes>>

\* A trust check was answered: both verdicts are told, and a pass is metered.
Checked(c) ==
    /\ event[c].at = "none"
    /\ event' = [event EXCEPT ![c].at = "post"]
    /\ \/ /\ waiting' = waiting \cup {c}
          /\ recorded' = Plus(recorded, event[c].key, 1)
       \/ UNCHANGED <<waiting, recorded>>
    /\ UNCHANGED <<stripe, counters, flushing, job, received, billed, unbilled, lost,
                   faults, flushes>>

\* UsageMeter::record, once it has the lock.
Record(c) ==
    /\ c \in waiting /\ MeterIsFree
    /\ waiting' = waiting \ {c}
    /\ counters' = [counters EXCEPT ![event[c].key].trust_checks = @ + 1]
    /\ UNCHANGED <<stripe, flushing, job, event, received, recorded, billed, unbilled, lost,
                   faults, flushes>>

\* run_billing_flush: the hour is over.
StartFlush ==
    /\ job = "asleep" /\ flushes < MaxFlushes /\ flushes' = flushes + 1
    /\ job' = "flush" /\ flushing' = Key
    /\ UNCHANGED <<stripe, counters, waiting, event, received, recorded, billed, unbilled, lost,
                   faults>>

Counted(k) == counters[k].trust_checks
Reset(k) == counters' = [counters EXCEPT ![k].trust_checks = 0]

\* A wrong report: the counter is taken before Stripe has answered.
ReportResetsFirst(k) ==
    /\ Reset(k)
    /\ \/ billed' = Plus(billed, k, Counted(k)) /\ UNCHANGED <<lost, faults>>
       \/ Fault /\ UNCHANGED <<billed, lost>>

\* StripeClient::report_usage, an increment; the counter is reset when it succeeds.
Report(k) ==
    \/ /\ billed' = Plus(billed, k, Counted(k))
       /\ Reset(k)
       /\ UNCHANGED <<lost, faults>>
    \/ Fault /\ UNCHANGED <<billed, lost, counters>>
    \/ /\ Fault
       /\ billed' = Plus(billed, k, Counted(k))
       /\ lost' = Plus(lost, k, Counted(k))
       /\ UNCHANGED counters

\* UsageMeter::flush, for one key after another, in any order.
FlushKey(k) ==
    /\ job = "flush" /\ k \in flushing
    /\ flushing' = flushing \ {k}
    /\ job' = IF flushing' = {} THEN "asleep" ELSE job
    /\ \/ /\ Counted(k) = 0
          /\ UNCHANGED <<counters, billed, unbilled, lost, faults>>
       \/ /\ Counted(k) # 0 /\ stripe /\ counters[k].subscribed
          /\ Report(k)
          /\ UNCHANGED unbilled
       \/ /\ Counted(k) # 0 /\ ~(stripe /\ counters[k].subscribed)
          /\ unbilled' = Plus(unbilled, k, Counted(k))
          /\ Reset(k)
          /\ UNCHANGED <<billed, lost, faults>>
    /\ UNCHANGED <<stripe, waiting, event, received, recorded, flushes>>

-----------------------------------------------------------------------------
(* WebhookDispatcher.                                                       *)

\* dispatch_with_retry after an attempt that failed.
AfterFailed(e) ==
    IF e.attempts + 1 = Delays THEN [e EXCEPT !.at = "dead", !.attempts = Delays]
    ELSE [e EXCEPT !.attempts = @ + 1]

\* One POST: taken and answered; not taken; or taken, with the answer lost.
Post(c) ==
    /\ event[c].at = "post"
    /\ \/ /\ received' = Plus(received, c, 1)
          /\ event' = [event EXCEPT ![c].at = "delivered"]
          /\ UNCHANGED faults
       \/ /\ Fault
          /\ received' \in {received, Plus(received, c, 1)}
          /\ event' = [event EXCEPT ![c] = AfterFailed(event[c])]
    /\ UNCHANGED <<stripe, counters, flushing, job, waiting, recorded, billed, unbilled, lost,
                   flushes>>

Task == \E c \in Check : Record(c) \/ Post(c)
Flush == StartFlush \/ \E k \in Key : FlushKey(k)

Next ==
    \/ \E k \in Key : RegisterKey(k)
    \/ \E c \in Check : Checked(c)
    \/ Flush \/ Task

Spec == Init /\ [][Next]_vars

-----------------------------------------------------------------------------
(* Properties.                                                              *)

\* No trust check is forgotten, and none is billed twice but in a report whose
\* answer was lost: what Stripe took once, what is counted, what was dropped for
\* want of a subscription and what waits for the meter are the checks of a key.
UsageBalances ==
    \A k \in Key :
        recorded[k] = (billed[k] - lost[k]) + counters[k].trust_checks + unbilled[k]
                      + Cardinality({c \in waiting : event[c].key = k})

=============================================================================
