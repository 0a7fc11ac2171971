------------------------------ MODULE MCSingles ------------------------------
(***************************************************************************)
(* Small instances of Singles.  Sets and functions a configuration file    *)
(* cannot write; every run picks the ones it needs.                        *)
(***************************************************************************)
EXTENDS Singles

CONSTANTS m1, m2, b1, b2, c1, c2, Win, Total1, Special

\* The side 0 of every market wins; the sides of a market are interchangeable.
SideZeroWins == [mkt \in Mkts |-> 0]

BetSymmetry == Permutations(Bets)
CashoutSymmetry == Permutations(MMs) \cup Permutations(Cashouts)
=============================================================================
