------------------------------- MODULE Totals -------------------------------
(***************************************************************************)
(* The sum of a family of amounts over a finite set: what `at_risk`,       *)
(* `window_used` and a principal's aggregate limit are sums of.            *)
(*                                                                         *)
(* SumFunctionOnSet of the community modules computes the same number, but *)
(* through a fold over an operator, about which nothing can be proved      *)
(* here.  This is a recursive function, and module LedgerLemmas proves     *)
(* the facts the other proofs cite.                                        *)
(***************************************************************************)
EXTENDS Naturals

(***************************************************************************)
(* SumOver(f, D)[T] is the sum of f[d] for d in T, for each subset T of D. *)
(***************************************************************************)
SumOver(f, D) ==
    LET sum[T \in SUBSET D] ==
            IF T = {} THEN 0
            ELSE LET d == CHOOSE d \in T : TRUE
                 IN  f[d] + sum[T \ {d}]
    IN  sum
=============================================================================
