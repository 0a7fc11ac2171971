------------------------------- MODULE Netting -------------------------------
(***************************************************************************)
(* A market maker's netting book for one event: on every eligible market,  *)
(* the profit it owes on each outcome.  Only the peak over the outcomes is *)
(* reserved.  The book is a map from markets to open profits here; the     *)
(* sorted array of lines that stores it is modelled by NettingLines.       *)
(***************************************************************************)
EXTENDS Odds, FiniteSets

CONSTANTS
    Headers,      \* markets netted in the header of the book (full-time winner)
    Lines,        \* two-outcome markets netted on a line of the book
    Others,       \* markets that are not eligible for netting
    MaxLines      \* NETTING_MAX_LINE_CAPACITY

Mkts == Headers \cup Lines \cup Others
Sides == 0..2

ASSUME NettingAssumption ==
    /\ IsFiniteSet(Mkts)
    /\ Headers \cap Lines = {} /\ Others \cap (Headers \cup Lines) = {}
    /\ MaxLines \in Nat

\* open[mkt][side] is the profit the MM owes on that side of that market.
Book == [exists: BOOLEAN, lines: SUBSET Lines, open: [Mkts -> [Sides -> Nat]]]
FlatOpen == [mkt \in Mkts |-> [side \in Sides |-> 0]]
NoBook == [exists |-> FALSE, lines |-> {}, open |-> FlatOpen]

\* market_is_netting_eligible and the side checks: the outcomes a market has
\* a slot for.
NetSides(mkt) ==
    IF mkt \in Headers THEN 0..2 ELSE IF mkt \in Lines THEN 0..1 ELSE {}

\* Fault: the first outcome is left out of the peak.
PeakOfLastTwo(open) == GreaterOf(open[1], open[2])

\* max3 and max2: the third slot of a line stays 0.
Peak(open) == GreaterOf(open[0], GreaterOf(open[1], open[2]))

\* calculate_netting returns a NettingCalc (and not None) for this book.
CanNet(bk, mkt, side) ==
    /\ bk.exists
    /\ side \in NetSides(mkt)
    /\ \/ mkt \in Headers
       \/ mkt \in bk.lines
       \/ Cardinality(bk.lines) < MaxLines

\* apply_netting: the staged write; a new line is inserted when needed.
Netted(bk, mkt, side, profit) ==
    [bk EXCEPT !.lines = @ \cup ({mkt} \cap Lines),
               !.open[mkt][side] = @ + profit]

\* The delta of calculate_netting.
PeakRise(bk, mkt, side, profit) ==
    Peak(Netted(bk, mkt, side, profit).open[mkt]) - Peak(bk.open[mkt])

\* apply_settle_netting does not fail: the slot exists and holds the profit.
CanUnnet(bk, mkt, side, profit) ==
    /\ bk.exists
    /\ profit > 0 => /\ side \in NetSides(mkt)
                     /\ mkt \in Headers \cup bk.lines
                     /\ profit <= bk.open[mkt][side]

\* Fault: the profit stays in the book.
UnnettedForgotten(bk, mkt, side, profit) == bk

Unnetted(bk, mkt, side, profit) ==
    IF profit = 0 THEN bk ELSE [bk EXCEPT !.open[mkt][side] = @ - profit]

\* The drop in reserved encumbrance, minus the delta of apply_settle_netting.
PeakDrop(bk, mkt, side, profit) ==
    IF profit = 0 THEN 0
    ELSE Peak(bk.open[mkt]) - Peak(Unnetted(bk, mkt, side, profit).open[mkt])
=============================================================================
