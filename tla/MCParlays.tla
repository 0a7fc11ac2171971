----------------------------- MODULE MCParlays -----------------------------
(* Two events; the first has two markets, so tickets may be same-event ones. *)
EXTENDS Parlays, TLC

CONSTANTS m1, m2, b1, c1, c2, home, total, away

Events == [mkt \in LegMarkets |-> IF mkt = away THEN 2 ELSE 1]

On(mkt, odds) == [mkt |-> mkt, odds |-> odds]

\* The second MM can buy twice.
Funds == [m \in MMs |-> IF m = m2 THEN 2 ELSE 1]

\* A leg below even money: without it the ticket is worth more than with it.  The
\* first event's leg is on the game to come or on the game in play.
Uneven == {<<On(mkt, 7), On(away, 1)>> : mkt \in {home, total}}

\* Cashout tickets may be exchanged.
Alike == Permutations(Cashouts)
=============================================================================
