---------------------------- MODULE Delegations ----------------------------
(***************************************************************************)
(* What a delegated key may do: the scopes of byz-passport, and how one    *)
(* narrows another.  An unset bound and an empty list inherit what the     *)
(* parent allows.                                                          *)
(***************************************************************************)
EXTENDS Integers

CONSTANTS Currency, ActionType, Chain, AssetClass, Unset

Money == [currency : Currency, minor_units : Nat]

Scope == [max_single : Money \cup {Unset}, max_total : Money \cup {Unset},
          actions : SUBSET ActionType, chains : SUBSET Chain,
          asset_classes : SUBSET AssetClass]

\* A concrete action, of an amount or of none.
Act == [amount : Money \cup {Unset}, action : ActionType, chain : Chain]

ScopeAssumption == Unset \notin Money

\* DelegationScope::unrestricted.
Unrestricted == [max_single |-> Unset, max_total |-> Unset, actions |-> {},
                 chains |-> {}, asset_classes |-> {}]

\* A wrong comparison: without a bound of its own, the child is held to narrow.
BoundWithin(child, parent) ==
    parent # Unset /\ child # Unset =>
        /\ child.currency = parent.currency
        /\ child.minor_units <= parent.minor_units

BoundNarrows(child, parent) ==
    parent # Unset =>
        /\ child # Unset
        /\ child.currency = parent.currency
        /\ child.minor_units <= parent.minor_units

ListNarrows(child, parent) == parent # {} => child # {} /\ child \subseteq parent

\* DelegationScope::ensure_narrows.
EnsureNarrows(child, parent) ==
    /\ BoundNarrows(child.max_single, parent.max_single)
    /\ BoundNarrows(child.max_total, parent.max_total)
    /\ ListNarrows(child.actions, parent.actions)
    /\ ListNarrows(child.chains, parent.chains)
    /\ ListNarrows(child.asset_classes, parent.asset_classes)

\* DelegationScope::permits.
Permits(scope, act) ==
    /\ (scope.max_single # Unset /\ act.amount # Unset) =>
            /\ act.amount.currency = scope.max_single.currency
            /\ act.amount.minor_units <= scope.max_single.minor_units
    /\ scope.actions # {} => act.action \in scope.actions
    /\ scope.chains # {} => act.chain \in scope.chains
=============================================================================
