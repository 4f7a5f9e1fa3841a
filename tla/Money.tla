------------------------------- MODULE Money -------------------------------
(***************************************************************************)
(* Amounts in several currencies (byz-common/src/money.rs) and the window  *)
(* they are counted in.  An agent may hold limits in several currencies;   *)
(* each draw is converted into that of the limit presented, widened by a   *)
(* haircut, and added to the agent's one window.                           *)
(*                                                                         *)
(* One agent, one window, no retries: DrawLedger and DrawGateway have      *)
(* those.  There, an amount is what `effective` is here.                   *)
(***************************************************************************)
EXTENDS Integers, FiniteSets, Totals

CONSTANTS
    Amounts,        \* minor units that are drawn
    Majors,         \* of each limit
    NoCurrency,     \* no draw was permitted yet
    MaxUnits,       \* bound: currencies an agent holds limits in
    MaxDraws        \* bound: draws permitted

MoneyAssumption ==
    /\ Amounts \subseteq Nat
    /\ Majors \in Nat \ {0} /\ {MaxUnits, MaxDraws} \subseteq Nat

Currency == {"USD", "GBP", "JPY"}
AssetClass == {"major_fiat", "stablecoin", "volatile"}

minor_units_per_major == [USD |-> 100, GBP |-> 100, JPY |-> 1]

\* FxTable::default, in hundredths.
per_base == [USD |-> 100, GBP |-> 79, JPY |-> 15100]

haircut_bps == [major_fiat |-> 0, stablecoin |-> 25, volatile |-> 2500]

\* What a minor unit is worth, in a measure that makes it whole for each of them.
Worth(ccy) == 119290000 \div (per_base[ccy] * minor_units_per_major[ccy])

VARIABLES
    units,                  \* currencies of the agent's limits
    at_risk, window_used,   \* the window: minor units
    open,                   \* of each draw, until it is resolved: what it counts, what it is worth
    spent,                  \* history: worth of the draws settled
    under,                  \* history: the currency of the limit that last permitted one
    draws

vars == <<units, at_risk, window_used, open, spent, under, draws>>

DrawNo == 1 .. MaxDraws
Resolved == [effective |-> 0, worth |-> 0]     \* or not made yet

TypeOK ==
    /\ units \subseteq Currency
    /\ at_risk \in Nat /\ window_used \in Nat /\ spent \in Nat
    /\ open \in [DrawNo -> [effective : Nat, worth : Nat]]
    /\ under \in Currency \cup {NoCurrency}
    /\ draws \in 0 .. MaxDraws

Init ==
    /\ units = {}
    /\ at_risk = 0 /\ window_used = 0
    /\ open = [d \in DrawNo |-> Resolved] /\ spent = 0
    /\ under = NoCurrency
    /\ draws = 0

-----------------------------------------------------------------------------
\* A wrong conversion: the fraction of a minor unit is lost.
ConvertedDown(minor, from, to) == {(minor * Worth(from)) \div Worth(to)}

\* convert, in doubles, and then the next whole number.  A product that should be whole
\* may come out above it, and is one unit too large.
Converted(minor, from, to) ==
    LET value == minor * Worth(from)
    IN  IF from = to THEN {minor}
        ELSE IF value % Worth(to) = 0 THEN {value \div Worth(to), value \div Worth(to) + 1}
        ELSE {value \div Worth(to) + 1}

\* scale_bps.
ScaleBps(minor, bps) == (minor * bps + 9999) \div 10000

\* convert_with_haircut.
WithHaircut(minor, from, to, class) ==
    {c + ScaleBps(c, haircut_bps[class]) : c \in Converted(minor, from, to)}

\* ceiling, of a principal's tier.
Ceiling(ccy) == Majors * minor_units_per_major[ccy]

\* issue_limit, in a currency of the caller's.
Issue(ccy) ==
    /\ ccy \notin units /\ units' = units \cup {ccy}
    /\ Cardinality(units') <= MaxUnits
    /\ UNCHANGED <<at_risk, window_used, open, spent, under, draws>>

\* verify_limit, of a draw of minor units of `from` under the limit in `ccy`: with a store
\* or without, what is added to the window is a number.  The single-draw share of the
\* limit is left to Underwriting.
Draw(ccy, minor, from, class) ==
    \E effective \in WithHaircut(minor, from, ccy, class) :
        /\ ccy \in units
        /\ draws < MaxDraws /\ draws' = draws + 1
        /\ at_risk + window_used + effective <= Ceiling(ccy)
        /\ at_risk' = at_risk + effective
        /\ open' = [open EXCEPT ![draws + 1] =
                        [effective |-> effective, worth |-> minor * Worth(from)]]
        /\ under' = ccy
        /\ UNCHANGED <<units, window_used, spent>>

\* settle_draw, of the amount that verify_limit answered with.
Settle(d, settled) ==
    /\ open[d] # Resolved
    /\ open' = [open EXCEPT ![d] = Resolved]
    /\ at_risk' = at_risk - open[d].effective
    /\ IF settled
       THEN /\ window_used' = window_used + open[d].effective
            /\ spent' = spent + open[d].worth
       ELSE UNCHANGED <<window_used, spent>>
    /\ UNCHANGED <<units, under, draws>>

Next ==
    \/ \E ccy \in Currency : Issue(ccy)
    \/ \E ccy, from \in Currency, minor \in Amounts, class \in AssetClass :
          Draw(ccy, minor, from, class)
    \/ \E d \in DrawNo, settled \in BOOLEAN : Settle(d, settled)

Spec == Init /\ [][Next]_vars

-----------------------------------------------------------------------------
\* What was drawn in one window, whatever it was drawn in, is worth no more than the
\* limit it was last drawn under: no conversion or haircut understates a draw.
DrawsFitTheLimit ==
    under # NoCurrency =>
        spent + SumOver([d \in DrawNo |-> open[d].worth], DrawNo)[DrawNo]
            <= Ceiling(under) * Worth(under)
=============================================================================
