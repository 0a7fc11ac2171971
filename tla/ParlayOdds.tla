----------------------------- MODULE ParlayOdds -----------------------------
(***************************************************************************)
(* The arithmetic of parlays: which legs may stand together, the price of  *)
(* all of them, the result a ticket takes from the results of its legs and *)
(* what the user gets back when some of them are void or half decided.     *)
(* A leg is a market and the price it was taken at, 0 for a companion that *)
(* is priced by another leg of its event.                                  *)
(***************************************************************************)
EXTENDS Odds, Sequences, Functions

CONSTANTS
    LegMarkets,   \* markets a leg may be on
    EventOf       \* EventOf[mkt]: the event of the market

ASSUME ParlayOddsAssumption == DOMAIN EventOf = LegMarkets

Leg == [mkt: LegMarkets, odds: Nat]

LegVoids == {"Push", "Cancelled", "RolledBack"}
LegGrades == {"Won", "Lost", "HalfWon", "HalfLost"} \cup LegVoids
LegResults == {"Pending"} \cup LegGrades

-----------------------------------------------------------------------------
(* Taking a parlay *)

\* validate_unique_parlay_market_ids
UniqueMarkets(legs) ==
    \A i, j \in DOMAIN legs : legs[i].mkt = legs[j].mkt => i = j

SameEvent(legs, i) ==
    {j \in DOMAIN legs : EventOf[legs[j].mkt] = EventOf[legs[i].mkt]}

\* validate_parlay_same_event_odds: an event of the ticket is priced somewhere.
EveryEventPriced(legs) ==
    \A i \in DOMAIN legs : \E j \in SameEvent(legs, i) : legs[j].odds > 0

\* Folds step(x, i) over the legs in order, from x, by recursion on their number.
OverLegs(n, step(_, _), x) ==
    LET upTo[i \in 0..n] == IF i = 0 THEN x ELSE step(upTo[i - 1], i)
    IN  upTo[n]

\* product_parlay_odds: rounded down leg by leg, companions skipped.
ProductOdds(legs) ==
    LET times(acc, i) == IF legs[i].odds > 0
                         THEN (acc * legs[i].odds) \div Scale ELSE acc
    IN  OverLegs(Len(legs), times, Scale)

-----------------------------------------------------------------------------
(* Grading *)

\* ParlayFoldState: the first of these that the results of the legs allow.
FoldResult(results) ==
    LET seen == Range(results) IN
    IF "Lost" \in seen THEN "Lost"
    ELSE IF seen = {"RolledBack"} THEN "RolledBack"
    ELSE IF seen \subseteq LegVoids THEN "Cancelled"
    ELSE IF seen = {"Won"} THEN "Won"
    ELSE IF "Pending" \in seen THEN "Pending"
    ELSE "ModifiedWin"

-----------------------------------------------------------------------------
(* Settlement of a ticket that is neither fully won, lost nor void *)

\* A leg that takes every leg of its event out of the ticket.
Drops(legs, results, i) ==
    \/ results[i] = "Cancelled"
    \/ legs[i].odds = 0 /\ results[i] \in LegVoids

Dropped(legs, results) ==
    {i \in DOMAIN legs : \E j \in SameEvent(legs, i) : Drops(legs, results, j)}

\* The legs that are left lose the ticket.
FullLoss(legs, results) ==
    \E i \in DOMAIN legs \ Dropped(legs, results) : results[i] = "Lost"

\* compute_modified_parlay_settlement: the price left when a leg multiplies by
\* its odds, by half its profit, by a half, or by nothing.
LeftOdds(legs, results) ==
    LET odds(i) == IF legs[i].odds > 0 THEN legs[i].odds ELSE Scale
        times(acc, i) ==
            CASE i \in Dropped(legs, results) -> acc
              [] results[i] = "Won" -> (acc * odds(i)) \div Scale
              [] results[i] = "HalfWon" -> (acc * (odds(i) + Scale)) \div (2 * Scale)
              [] results[i] = "HalfLost" -> acc \div 2
              [] OTHER -> acc
    IN  OverLegs(Len(legs), times, Scale)

\* Defined when no leg is pending.
ModifiedReturn(amount, legs, results) ==
    IF FullLoss(legs, results) THEN 0
    ELSE Payout(amount, LeftOdds(legs, results))
=============================================================================
