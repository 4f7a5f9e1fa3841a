------------------------------- MODULE MCEdge -------------------------------
(***************************************************************************)
(* Edge with a few keys, requests, payments, events and so on in each part.*)
(*                                                                         *)
(* keystore: three keys, attestations that live one unit.                  *)
(* access: a bucket of two, ticks of 35 s, and a word that the product of  *)
(* elapsed time and capacity leaves at two ticks; key 1 calls again and    *)
(* again, and lists keys, or makes one; that key and the environment's     *)
(* revoke key 1.                                                           *)
(* rails, by the desk that is open: two EIP-3009 authorizations, a good    *)
(* one and either an unsigned or a used one, sent again and again; the     *)
(* same of a Solana transfer, of which the node may know a good            *)
(* transaction, one to a recipient who had a balance, one that moves       *)
(* nothing, a failed one, one of another mint, and one of another sender;  *)
(* x402 payments and messages, of agents whose cap is enough for one and a *)
(* half of the amounts: two payments and a message, messages both ways,    *)
(* and messages without recipient or amount.                               *)
(* outbound: two keys, two checks, two flushes.                            *)
(* scoring: four events into a window of four, over two days, a half-life  *)
(* apart.                                                                  *)
(* venues: one signed request, changed once on its way, to a merchant who  *)
(* requires the attestation to be covered or forgets to; or two payments;  *)
(* a genuine limit of three and a forged one of nine.                      *)
(* passport: three key ids and two key pairs, up to three delegations and  *)
(* one revocation or rotation, some time; a delegation of a principal's    *)
(* role.                                                                   *)
(* registry: an agent, its principal, and two revocations of either or     *)
(* both, for any instant; attestations that live one unit.                 *)
(* money: two draws under limits of 200 dollars, pounds or yen, of amounts *)
(* that fit and of two that just fail to fit together when rounded up.     *)
(* tree: up to five items, so that levels of one, three and five nodes     *)
(* occur.                                                                  *)
(***************************************************************************)
EXTENDS Edge

CONSTANTS
    call1, list1, create1, revoke1, revoke2, env1,
    e1, e2, e3, s1, s2, x1, x2, m1, m2, m3, m4, r1, r2, w1, w2, usdc, usdt,
    k1, c1, c2, u1, u2, b1, b2,
    usd, pay, eth, d1, d2, d3, p1, p2

VARIABLE desk      \* the requests that arrive

MCAccessReq ==
    [r \in {call1, list1, create1, revoke1, revoke2} |->
        CASE r = call1 -> [kind |-> "call", token |-> 1]
          [] r = list1 -> [kind |-> "list", token |-> 1]
          [] r = create1 -> [kind |-> "create", token |-> 1, lifetime |-> 1]
          [] r = revoke1 -> [kind |-> "revoke", token |-> env1, id |-> 1]
          [] r = revoke2 -> [kind |-> "revoke", token |-> 2, id |-> 1]]

MCRailsReq ==
    [r \in {e1, e2, e3, s1, s2, x1, x2, m1, m2, m3, m4} |->
        CASE r \in {e1, e2, e3} ->
                [rail |-> "eip3009", from |-> r1, value |-> 1, valid_after |-> 0,
                 valid_before |-> 2, signed |-> r # e2, nonce_used |-> r = e3]
          [] r \in {s1, s2} ->
                [rail |-> "solana", from_wallet |-> w1, to_wallet |-> w2, mint |-> usdc,
                 amount |-> 1]
          [] r \in {x1, x2} ->
                [rail |-> "x402", agent |-> r1, value |-> IF r = x1 THEN 7 ELSE 8,
                 required |-> 7, expires_at |-> 1, matches |-> TRUE]
          [] r = m1 -> [rail |-> "a2a", from |-> r1, to |-> r2, amount_cents |-> 2]
          [] r = m2 -> [rail |-> "a2a", from |-> r2, to |-> r1, amount_cents |-> 1]
          [] r = m3 -> [rail |-> "a2a", from |-> r2, to |-> NoAgent, amount_cents |-> 1]
          [] r = m4 -> [rail |-> "a2a", from |-> r1, to |-> r2, amount_cents |-> NoAmount]]

Held(amount, mint) == {[index |-> 2, mint |-> mint, amount |-> amount]}
Moved(before, after) == [err |-> FALSE, keys |-> <<w1, w2>>, pre |-> before, post |-> after]

MCTransactions ==
    {Moved({}, Held(1, usdc)), Moved(Held(1, usdc), Held(2, usdc)),
     Moved(Held(1, usdc), Held(1, usdc)), [Moved({}, Held(1, usdc)) EXCEPT !.err = TRUE],
     Moved({}, Held(1, usdt)), [Moved({}, Held(1, usdc)) EXCEPT !.keys = <<w2, w2>>]}

Of(minor, settled, violated, c) ==
    [minor |-> minor, settled |-> settled, violated |-> violated, counterparty |-> c]

MCEvents ==
    {Of(1, TRUE, FALSE, c1), Of(6, TRUE, FALSE, c2), Of(1, FALSE, FALSE, c1),
     Of(0, FALSE, TRUE, Unnamed)}

MCDecay == [age \in 0 .. Horizon |-> 2 ^ (Horizon - age)]

At(window, genuine) == [nbf |-> 0, exp |-> 2, lim_single |-> 3, lim_window |-> window,
                        genuine |-> genuine, in_scope |-> TRUE]

MCAttested == {At(3, TRUE), At(9, FALSE)}

N == INSTANCE Delegations WITH Currency <- ScopeCurrency, AssetClass <- ScopeAsset

MCScopes == {N!Unrestricted,
             [N!Unrestricted EXCEPT !.max_single = [currency |-> usd, minor_units |-> 1]]}

\* At the bound of the second scope, above it, and without an amount.
MCActs == {[amount |-> m, action |-> pay, chain |-> eth] :
              m \in {[currency |-> usd, minor_units |-> n] : n \in {1, 2}} \cup {Unset}}

-----------------------------------------------------------------------------
Desks == [access |-> {{call1, list1}, {call1, create1, revoke1, revoke2}},
          rails |-> {{e1, e2}, {e1, e3}, {s1, s2}, {x1, x2, m1}, {m1, m2}, {m3, m4}}]

AtRpc == part = "rails" /\ desk \subseteq {e1, e2, e3, s1, s2}

MCInit ==
    /\ EdgeInit
    /\ desk \in IF part \in DOMAIN Desks THEN Desks[part] ELSE {{}}
    /\ AtRpc => standing = [a \in RailsAgent |-> "PASS"]

\* Only the requests of the desk arrive, and without payments and messages no standing
\* moves.
AtTheDesk ==
    /\ part \in DOMAIN Desks => \A r \in DOMAIN pc : pc'[r] # pc[r] => r \in desk
    /\ AtRpc => standing' = standing

\* Targets, and bodies, are interchangeable: a request is signed with the first.  The
\* merchant and the facilitator share nothing, so one of them is at work.
OneVenue ==
    part = "venues" =>
        /\ \A s \in said' : s.uri = u1 /\ s.body \in {None, b1}
        /\ said' # {} => payments' = 0 /\ revoked' = {}

\* Principals of another's making: keys delegated to in a principal's role.
SecondRoots == {k \in KeyId : /\ keys'[k] # NoKey /\ delegations'[k] # NoDelegation
                              /\ keys'[k].role = "principal"}

\* The ids are interchangeable, and so are the key pairs: the first ones are d1, p1, and
\* what is delegated to d3 is p1.  There are three delegations and a revocation or
\* rotation; time, or a delegation of a principal's role, which is d2's, takes the place
\* of one of these.  d2's delegation is signed by its parent's key pair, others by any.
NamedInOrder ==
    part = "passport" =>
        /\ now' > 0 \/ SecondRoots # {} => granted' + now' + retirements' <= 3
        /\ SecondRoots \subseteq {d2}
        /\ principal_key_id = NoKey =>
               principal_key_id' \in {NoKey, d1} /\ (keys'[d1] # NoKey => keys'[d1].public_key = p1)
        /\ keys'[d3] # NoKey => keys'[d2] # NoKey
        /\ delegations'[d2] # delegations[d2] =>
               delegations'[d2].signed_by = keys[delegations'[d2].from].public_key
        /\ keys'[d3] # keys[d3] /\ granted' > granted => keys'[d3].public_key = p1

\* So are the items.
FirstItem == part = "tree" /\ items' # <<>> => Head(items') = k1

MCNext == EdgeNext /\ AtTheDesk /\ OneVenue /\ NamedInOrder /\ FirstItem /\ UNCHANGED desk

MCSpec == MCInit /\ [][MCNext]_<<edgeVars, desk>>
=============================================================================
