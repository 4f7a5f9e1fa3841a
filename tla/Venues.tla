------------------------------- MODULE Venues -------------------------------
(***************************************************************************)
(* A limit presented elsewhere: to a merchant, in a request that the agent *)
(* has signed (RFC 9421, byz-tap), and to an x402 facilitator, in a header *)
(* (byz-rail-x402/src/limits.rs).  Each venue counts its own window.       *)
(*                                                                         *)
(* A signature is what it signs; a digest is the body.  Requests may be    *)
(* changed on their way, delayed, and delivered again.                     *)
(***************************************************************************)
EXTENDS Integers, FiniteSets, Totals

CONSTANTS
    Uri, Body, None,      \* None: no body, no header
    Attested,             \* the attestations that go around
    Requirements,         \* what a merchant's TapVerifier may require, or forget to
    Known,                \* the key ids it has registered
    KeyId,
    MicroPerCent,         \* 10 000
    HaircutBps, BpsUnit,  \* of a stablecoin; 10 000
    Micros,               \* amounts of x402 payments
    Cents,                \* amounts of merchants' draws
    MaxSent, MaxChanges, MaxPaid, MaxTime \* bounds

Component == {"@target-uri", "content-digest", "limit-attestation"}
Attestation == [nbf : Nat, exp : Nat, lim_single : Nat, lim_window : Nat, genuine : BOOLEAN,
                in_scope : BOOLEAN]
Params == [created : Int, expires : Int, keyid : KeyId]

VenuesAssumption ==
    /\ Attested \subseteq Attestation
    /\ Requirements \subseteq SUBSET Component /\ Known \subseteq KeyId
    /\ None \notin Uri \cup Body \cup Attested
    /\ {MicroPerCent, BpsUnit} \subseteq Nat \ {0} /\ HaircutBps \in Nat
    /\ Micros \subseteq Nat /\ Cents \subseteq Nat
    /\ {MaxSent, MaxChanges, MaxPaid, MaxTime} \subseteq Nat

Expiry == 2     \* SignatureParams::new: 300 s, of 150 s
Skew == 1       \* the 60 s that a clock may be ahead, rounded up

VARIABLES
    now,
    wire,       \* requests under way; none is ever taken out
    said,       \* history: requests as the agent signed them
    taken,      \* history: requests that the merchant accepted, and how
    paid,       \* history: micro-units of the payments let through, by attestation
    revoked,    \* RevocationRegistry
    used,       \* what each venue has counted of an attestation's window
    changes, payments

vars == <<now, wire, said, taken, paid, revoked, used, changes, payments>>

Init ==
    /\ now = 0
    /\ wire = {} /\ said = {} /\ taken = {}
    /\ paid = [a \in Attested |-> 0]
    /\ revoked = {}
    /\ used = [v \in {"merchant", "facilitator"} |-> [a \in Attested |-> 0]]
    /\ changes = 0 /\ payments = 0

-----------------------------------------------------------------------------
(* HttpMessage and signature_base.                                          *)

Value(msg, c) ==
    CASE c = "@target-uri" -> msg.uri
      [] c = "content-digest" -> msg.digest
      [] c = "limit-attestation" -> msg.attestation

HasAll(msg, components) == \A c \in components : Value(msg, c) # None

SignatureBase(msg, components, params) ==
    <<[c \in components |-> Value(msg, c)], params>>

\* TapSigner::sign: a body brings its digest, and the digest is covered.
Sign(msg, components, params) ==
    LET with == [msg EXCEPT !.digest = IF msg.body = None THEN @ ELSE msg.body]
        all == components \cup (IF msg.body = None THEN {} ELSE {"content-digest"})
    IN  [with EXCEPT !.input = [components |-> all, params |-> params],
                     !.signature = [by |-> params.keyid, of |-> SignatureBase(with, all, params)]]

\* The agent attaches its attestation, signs, and sends; its clock may be ahead.
Send(uri, body, attestation, components, keyid, ahead) ==
    LET msg == [uri |-> uri, body |-> body, attestation |-> attestation, digest |-> None,
                input |-> None, also |-> FALSE, signature |-> None]
        params == [created |-> now + ahead, expires |-> now + ahead + Expiry, keyid |-> keyid]
    IN  /\ Cardinality(said) < MaxSent
        /\ HasAll(msg, components \ {"content-digest"})
        /\ body = None => "content-digest" \notin components
        /\ said' = said \cup {Sign(msg, components, params)}
        /\ wire' = wire \cup {Sign(msg, components, params)}
        /\ UNCHANGED <<now, taken, paid, revoked, used, changes, payments>>

\* Something on the path changes a part of a request: its target, its body, with or
\* without the digest, its attestation, the list of what is covered, or the rest of
\* Signature-Input, where an entry of another label may name the attestation as well.
Changed(msg) ==
    {[msg EXCEPT !.uri = u] : u \in Uri}
        \cup {[msg EXCEPT !.body = b] : b \in Body \cup {None}}
        \cup {[msg EXCEPT !.body = b, !.digest = b] : b \in Body}
        \cup {[msg EXCEPT !.attestation = a] : a \in Attested \cup {None}}
        \cup {[msg EXCEPT !.attestation = a, !.also = TRUE] : a \in Attested \cup {None}}
        \cup {[msg EXCEPT !.input.components = @ \ {c}] : c \in Component}

Change(msg) ==
    /\ changes < MaxChanges /\ changes' = changes + 1
    /\ \E altered \in Changed(msg) : wire' = wire \cup {altered}
    /\ UNCHANGED <<now, said, taken, paid, revoked, used, payments>>

-----------------------------------------------------------------------------
(* TapVerifier::verify and verify_request_with_limit.                       *)

\* verify_content_digest.
DigestFits(msg) == msg.digest # None => msg.digest = msg.body

\* A wrong verification: the digest header is signed, so the body is taken to be.
VerifiedWithoutDigest(msg, required) ==
    /\ required \subseteq msg.input.components
    /\ msg.input.params.created <= now + Skew
    /\ now <= msg.input.params.expires
    /\ msg.input.params.keyid \in Known
    /\ HasAll(msg, msg.input.components)
    /\ msg.signature.by = msg.input.params.keyid
    /\ msg.signature.of = SignatureBase(msg, msg.input.components, msg.input.params)

Verified(msg, required) ==
    /\ required \subseteq msg.input.components
    /\ msg.input.params.created <= now + Skew
    /\ now <= msg.input.params.expires
    /\ DigestFits(msg)
    /\ msg.input.params.keyid \in Known
    /\ HasAll(msg, msg.input.components)
    /\ msg.signature.by = msg.input.params.keyid
    /\ msg.signature.of = SignatureBase(msg, msg.input.components, msg.input.params)

\* LimitAttestation::permits, of an amount, on top of a venue's own window.
Permits(a, amount, window_used) ==
    /\ a.nbf <= now /\ now <= a.exp /\ a.in_scope
    /\ amount <= a.lim_single
    /\ window_used + amount <= a.lim_window

\* Whether the text of Signature-Input has the header's name in it, be it in the list
\* that was verified or anywhere else.
Mentioned(msg) == "limit-attestation" \in msg.input.components \/ msg.also

\* A merchant accepts, and counts the draw; one that arrives again is another draw.
Accept(msg, amount, required) ==
    LET a == msg.attestation
    IN  /\ Cardinality(taken) < MaxPaid
        /\ Verified(msg, required)
        /\ Mentioned(msg)
        /\ a # None /\ a.genuine
        /\ Permits(a, amount, used["merchant"][a])
        /\ taken' = taken \cup {[msg |-> msg, amount |-> amount, required |-> required,
                                after |-> used["merchant"][a]]}
        /\ used' = [used EXCEPT !["merchant"][a] = @ + amount]
        /\ UNCHANGED <<now, wire, said, paid, revoked, changes, payments>>

-----------------------------------------------------------------------------
(* check_payment_against_limit.                                             *)

\* div_ceil.
RoundedUp(n, unit) == (n + unit - 1) \div unit

\* Amount and haircut, in cents.
Effective(micro) ==
    LET cents == RoundedUp(micro, MicroPerCent)
    IN  cents + RoundedUp(cents * HaircutBps, BpsUnit)

\* The facilitator lets a payment through, and counts it.
Pay(a, micro) ==
    /\ payments < MaxPaid /\ payments' = payments + 1
    /\ a.genuine /\ a \notin revoked
    /\ Permits(a, Effective(micro), used["facilitator"][a])
    /\ paid' = [paid EXCEPT ![a] = @ + micro]
    /\ used' = [used EXCEPT !["facilitator"][a] = @ + Effective(micro)]
    /\ UNCHANGED <<now, wire, said, taken, revoked, changes>>

Revoke(a) ==
    /\ revoked' = revoked \cup {a}
    /\ UNCHANGED <<now, wire, said, taken, paid, used, changes, payments>>

Tick ==
    /\ now < MaxTime /\ now' = now + 1
    /\ UNCHANGED <<wire, said, taken, paid, revoked, used, changes, payments>>

Next ==
    \/ \E uri \in Uri, body \in Body \cup {None}, a \in Attested \cup {None},
          components \in SUBSET Component, keyid \in KeyId, ahead \in {0, Skew + 1} :
          Send(uri, body, a, components, keyid, ahead)
    \/ \E msg \in wire :
        \/ Change(msg)
        \/ \E amount \in Cents, required \in Requirements : Accept(msg, amount, required)
    \/ \E a \in Attested : Revoke(a) \/ \E micro \in Micros : Pay(a, micro)
    \/ Tick

Spec == Init /\ [][Next]_vars

-----------------------------------------------------------------------------
(* Properties.                                                              *)

\* What a merchant accepts is what the agent signed: all that the verified list names
\* comes from one request of the agent, whatever was changed on the way; and if that
\* request had a body, the body is the same.  So is the attestation, unless it is in
\* no list that was verified: the merchant did not require it, and its name stands
\* somewhere else in Signature-Input.
AcceptedAsSigned ==
    \A t \in taken : \E s \in said :
        /\ t.msg.input = s.input
        /\ \A c \in s.input.components : Value(t.msg, c) = Value(s, c)
        /\ s.body # None => t.msg.body = s.body
        /\ \/ t.msg.attestation = s.attestation
           \/ "limit-attestation" \notin t.required \cup s.input.components /\ t.msg.also

\* extension.rs: a misconfigured verifier cannot silently accept a swapped limit.
NoSwappedLimit == \A t \in taken : \E s \in said : t.msg.attestation = s.attestation

\* What the merchant counts of its draws.
Amount == [t \in taken |-> t.amount]
DrawnUnder(a) == {t \in taken : t.msg.attestation = a}

\* No splitting of payments gets more value through a facilitator than the window
\* of the attestation, or more at a time than its single limit.
WindowCoversPayments ==
    \A a \in Attested :
        /\ paid[a] <= a.lim_window * MicroPerCent
        /\ ~a.genuine => paid[a] = 0
        /\ SumOver(Amount, taken)[DrawnUnder(a)] <= a.lim_window
=============================================================================
