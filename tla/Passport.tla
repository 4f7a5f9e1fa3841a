------------------------------ MODULE Passport ------------------------------
(***************************************************************************)
(* One agent's passport: the keys of an AgentPassport, the delegations     *)
(* between them, and what each key is authorised to do as keys are         *)
(* delegated to, rotated, revoked and expire, under ids that may be used   *)
(* again.                                                                  *)
(*                                                                         *)
(* A key pair is its public key.  A delegation remembers the key pair that *)
(* signed it: its signature verifies under that public key and no other.   *)
(***************************************************************************)
EXTENDS Delegations, FiniteSets

CONSTANTS
    KeyId, PublicKey,
    Role,            \* the roles delegate is called with
    Scopes,          \* the scopes it is called with
    Lifetimes,       \* and the ttls
    Acts,            \* the actions that are asked about
    MaxChainDepth,
    MaxGrants, MaxRetirements, MaxTime, \* bounds
    NoKey, NoDelegation, Forever

PassportKey == [role : Role \cup {"principal"}, public_key : PublicKey, not_before : Nat,
                not_after : Nat \cup {Forever}, revoked : BOOLEAN]

Delegation == [from : KeyId, scope : Scope, issued_at : Nat,
               expires_at : Nat, signed_by : PublicKey]

PassportAssumption ==
    /\ ScopeAssumption
    /\ Role \subseteq {"principal", "agent", "session"}
    /\ Scopes \subseteq Scope
    /\ Lifetimes \subseteq Nat /\ Acts \subseteq Act
    /\ MaxChainDepth \in Nat \ {0}
    /\ {MaxGrants, MaxRetirements, MaxTime} \subseteq Nat
    /\ NoKey \notin KeyId /\ NoDelegation \notin Delegation /\ Forever \notin Nat

VARIABLES
    now,
    keys,              \* AgentPassport::keys
    delegations,       \* AgentPassport::delegations, by the key delegated to
    principal_key_id,
    granted, retirements,  \* how often delegate, and revoke or rotate, was called
    trail,             \* history: the scopes that a key's delegation descends from, as
                       \* they were when each was granted, and its own
    severed            \* history: who stopped resolving by a revocation, at which key
                       \* above it, the public key this one had, and the keys below it

state == <<keys, delegations, principal_key_id>>
vars == <<now, state, granted, retirements, trail, severed>>

TypeOK ==
    /\ now \in Nat
    /\ keys \in [KeyId -> PassportKey \cup {NoKey}]
    /\ delegations \in [KeyId -> Delegation \cup {NoDelegation}]
    /\ principal_key_id \in KeyId \cup {NoKey}
    /\ granted \in Nat /\ retirements \in Nat
    /\ trail \in [KeyId -> SUBSET Scope]
    /\ severed \in SUBSET [key : KeyId, at : KeyId, by : PublicKey, path : SUBSET KeyId]

Init ==
    /\ now = 0
    /\ keys = [k \in KeyId |-> NoKey]
    /\ delegations = [k \in KeyId |-> NoDelegation]
    /\ principal_key_id = NoKey
    /\ granted = 0 /\ retirements = 0
    /\ trail = [k \in KeyId |-> {}]
    /\ severed = {}

-----------------------------------------------------------------------------
(* AgentPassport's queries, of the passport as it is.                       *)

\* PassportKey::is_active_at.
IsActive(key) ==
    /\ ~key.revoked
    /\ now >= key.not_before
    /\ key.not_after # Forever => now <= key.not_after

\* A wrong check: the signature is taken to be by the key that the id names.
InTime(d, issuer_key) == now >= d.issued_at /\ now <= d.expires_at

\* Delegation::verify.
VerifiesUnder(d, issuer_key) ==
    d.signed_by = issuer_key /\ now >= d.issued_at /\ now <= d.expires_at

\* The n-th key above k, by the delegations alone.
Parent(k) ==
    IF k = NoKey THEN NoKey
    ELSE IF delegations[k] = NoDelegation THEN NoKey ELSE delegations[k].from

Above(k) ==
    LET up[n \in 0 .. MaxChainDepth] == IF n = 0 THEN k ELSE Parent(up[n - 1])
    IN  up

\* One hop of resolve_chain, from a key that is not the principal's.
HopHolds(k) ==
    /\ delegations[k] # NoDelegation
    /\ LET parent == keys[delegations[k].from]
       IN  /\ parent # NoKey /\ ~parent.revoked
           /\ VerifiesUnder(delegations[k], parent.public_key)

IsKey(k) == k # NoKey /\ keys[k] # NoKey /\ IsActive(keys[k])
IsRoot(k) == keys[k].role = "principal"

\* resolve_chain walks n hops from k and finds a principal key.
ResolvesIn(k, n) ==
    LET up == Above(k)
    IN  /\ \A i \in 0 .. n : IsKey(up[i])
        /\ \A i \in 0 .. n - 1 : ~IsRoot(up[i]) /\ HopHolds(up[i])
        /\ IsRoot(up[n])

Resolves(k) == \E n \in 0 .. MaxChainDepth - 1 : ResolvesIn(k, n)

Hops(k) == CHOOSE n \in 0 .. MaxChainDepth - 1 : ResolvesIn(k, n)
Holders(k) == {Above(k)[i] : i \in 0 .. Hops(k)}     \* k and the keys above it
Root(k) == Above(k)[Hops(k)]

\* The scopes on the chain of a key that resolves.
ScopesAbove(k) == {delegations[Above(k)[i]].scope : i \in 0 .. Hops(k) - 1}

\* authorizes: every scope on the chain permits the act.
Authorized(k) ==
    LET scopes == ScopesAbove(k)
    IN  IF Resolves(k) THEN {act \in Acts : \A s \in scopes : Permits(s, act)} ELSE {}

\* effective_scope: of the key's own delegation.
EffectiveScope(k) ==
    IF delegations[k] = NoDelegation THEN Unrestricted ELSE delegations[k].scope

-----------------------------------------------------------------------------
(* Its operations.                                                          *)

Fresh(role, pub, until) ==
    [role |-> role, public_key |-> pub, not_before |-> now, not_after |-> until,
     revoked |-> FALSE]

Granting == granted < MaxGrants /\ granted' = granted + 1 /\ UNCHANGED retirements
Retiring == retirements < MaxRetirements /\ retirements' = retirements + 1 /\ UNCHANGED granted

\* The keys from j up to, and without, k.
Below(k, j) == {j} \cup {Above(j)[i] : i \in {n \in 0 .. Hops(j) :
                                                \A m \in 0 .. n : Above(j)[m] # k}}

\* History: k and all that resolved through k are cut off, by k's public key; until
\* k, or one on the way, is delegated to anew.
Cut(k) == {[key |-> j, at |-> k, by |-> keys[k].public_key, path |-> Below(k, j)] :
              j \in {j \in KeyId : Resolves(j) /\ k \in Holders(j)}}
Without(k, cut) == {s \in cut : k \notin s.path}

SetPrincipalKey(k, pub) ==
    /\ principal_key_id = NoKey
    /\ keys' = [keys EXCEPT ![k] = Fresh("principal", pub, Forever)]
    /\ principal_key_id' = k
    /\ severed' = Without(k, severed)
    /\ UNCHANGED <<now, delegations, granted, retirements, trail>>

\* The scope is narrowed against the parent's own; the key pair that signs is
\* whatever the caller passes, the id may be in use, and the role be a principal's.
Delegate(parent, signer, k, pub, role, scope, ttl) ==
    /\ Granting
    /\ keys[parent] # NoKey /\ ~keys[parent].revoked
    /\ EnsureNarrows(scope, EffectiveScope(parent))
    /\ keys' = [keys EXCEPT ![k] = Fresh(role, pub, now + ttl)]
    /\ delegations' = [delegations EXCEPT ![k] =
           [from |-> parent, scope |-> scope, issued_at |-> now,
            expires_at |-> now + ttl, signed_by |-> signer]]
    /\ trail' = [trail EXCEPT ![k] = trail[parent] \cup {scope}]
    /\ severed' = Without(k, severed)
    /\ UNCHANGED <<now, principal_key_id>>

RevokeKey(k) ==
    /\ Retiring
    /\ keys[k] # NoKey
    /\ keys' = [keys EXCEPT ![k].revoked = TRUE]
    /\ severed' = severed \cup Cut(k)
    /\ UNCHANGED <<now, delegations, principal_key_id, trail>>

\* rotate_key of a principal's key, be it the current one or not.
RotatePrincipal(old, new, pub) ==
    /\ Retiring
    /\ keys[old] # NoKey /\ IsRoot(old)
    /\ keys' = [[keys EXCEPT ![new] = Fresh("principal", pub, Forever)]
                     EXCEPT ![old].revoked = TRUE]
    /\ principal_key_id' = new
    /\ severed' = Without(new, severed \cup Cut(old))
    /\ UNCHANGED <<now, delegations, trail>>

\* rotate_key of another key: the same delegation, signed again; the old key is
\* revoked last, even when the ids are equal.
RotateKey(old, new, pub, signer) ==
    /\ Retiring
    /\ keys[old] # NoKey /\ ~IsRoot(old) /\ delegations[old] # NoDelegation
    /\ keys' = [[keys EXCEPT ![new] = Fresh(keys[old].role, pub, keys[old].not_after)]
                     EXCEPT ![old].revoked = TRUE]
    /\ delegations' = [delegations EXCEPT ![new] =
           [delegations[old] EXCEPT !.issued_at = now, !.signed_by = signer]]
    /\ trail' = [trail EXCEPT ![new] = trail[old]]
    /\ severed' = Without(new, severed \cup Cut(old))
    /\ UNCHANGED <<now, principal_key_id>>

Tick ==
    /\ now < MaxTime /\ now' = now + 1
    /\ UNCHANGED <<state, granted, retirements, trail, severed>>

Next ==
    \/ \E k \in KeyId, pub \in PublicKey :
        \/ SetPrincipalKey(k, pub)
        \/ \E old \in KeyId : RotatePrincipal(old, k, pub)
        \/ \E old \in KeyId, signer \in PublicKey : RotateKey(old, k, pub, signer)
        \/ \E parent \in KeyId, signer \in PublicKey, role \in Role, scope \in Scopes,
              ttl \in Lifetimes : Delegate(parent, signer, k, pub, role, scope, ttl)
    \/ \E k \in KeyId : RevokeKey(k)
    \/ Tick

Spec == Init /\ [][Next]_vars

-----------------------------------------------------------------------------
(* Properties.                                                              *)

\* A key may do nothing that one of the scopes it descends from forbade when it was
\* handed on: not after a key above it was delegated to again with more, nor after
\* one was rotated, nor under an id that is used again.
GrantsStayNarrow ==
    \A k \in {j \in KeyId : Resolves(j) /\ ~IsRoot(j)} :
        \A act \in Authorized(k), scope \in trail[k] : Permits(scope, act)

\* lib.rs: delegation narrows, never widens.
DelegationNarrows ==
    \A k \in {j \in KeyId : Resolves(j) /\ delegations[j] # NoDelegation} :
        \A act \in Authorized(k), scope \in trail[k] : Permits(scope, act)

\* A key that a revocation cut off, its own or that of a key above it, resolves
\* through that id again only if it, or a key between the two, is delegated to anew,
\* or the id gets back the very public key that was revoked: another key pair under
\* the id does not do.
RevocationOutlivesReuse ==
    \A s \in {t \in severed : keys[t.at].public_key # t.by} :
        Resolves(s.key) => s.at \notin Holders(s.key)

\* passport.rs: the principal key is the root of every chain in the passport.
RootIsThePrincipal == \A k \in KeyId : Resolves(k) => Root(k) = principal_key_id
=============================================================================
