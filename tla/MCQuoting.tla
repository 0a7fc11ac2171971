----------------------------- MODULE MCQuoting -----------------------------
(* Two markets of one event and one of another, joined in one parlay.      *)
EXTENDS Quoting

CONSTANTS home, total, away, u1

OnEvents == [m \in LegMarkets |-> IF m = away THEN 2 ELSE 1]

Linked == {<<away, home, total>>}
=============================================================================
