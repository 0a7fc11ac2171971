-------------------------------- MODULE Odds --------------------------------
(***************************************************************************)
(* The fixed-point arithmetic of the aggregator: what a stake wins at a    *)
(* price, and how a reservation is divided when part of a stake is cashed  *)
(* out.  Prices are integers scaled by Scale (ODDS_SCALE is 10000 in       *)
(* constants.rs); every division rounds down.  The u64/u128 widths are not *)
(* modelled: amounts are bounded far below them by the token supply.       *)
(***************************************************************************)
EXTENDS Integers

CONSTANT Scale    \* ODDS_SCALE: the price that returns exactly the stake

ASSUME ScaleAssumption == Scale \in Nat \ {0}

\* calc_potential_profit: defined for prices of at least Scale only, a lower
\* one is an ArithmeticOverflow in the code.
Profit(amount, odds) == ((odds - Scale) * amount) \div Scale

\* calc_potential_payout: the stake and its profit.
Payout(amount, odds) == (odds * amount) \div Scale

\* proportional_payout: the face payout of a cashed stake, quoted to the MMs.
ProportionalPayout(amount, payout, cashed) == (payout * cashed) \div amount

LesserOf(a, b) == IF a <= b THEN a ELSE b
GreaterOf(a, b) == IF a >= b THEN a ELSE b

\* Fault: an emptied slice that keeps what its profit does not use.
CashedReserveNoSweep(reserved, cashed, remain, odds) ==
    LesserOf(Profit(cashed, odds), reserved)

\* split_reserved_profit: the part of a reservation that follows the cashed
\* stake.  What does not follow it stays, so no reservation is lost.
CashedReserve(reserved, cashed, remain, odds) ==
    IF remain = 0 THEN reserved
    ELSE IF cashed = 0 THEN 0
    ELSE LesserOf(Profit(cashed, odds), reserved)
=============================================================================
