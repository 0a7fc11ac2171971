----------------------------- MODULE NettingBook -----------------------------
(***************************************************************************)
(* What a netting account promises: a book of open profits per market that *)
(* is only closed when flat, from which a line is only removed when flat,  *)
(* and that a fill and a settlement move on one outcome of one market.     *)
(***************************************************************************)
EXTENDS Netting

CONSTANT Profits    \* profits of one slice

VARIABLE bk

BookInit == bk = NoBook

Create == ~bk.exists /\ bk' = [NoBook EXCEPT !.exists = TRUE]

Close == bk.exists /\ bk.open = FlatOpen /\ bk' = NoBook

Add(line) ==
    /\ bk.exists /\ line \notin bk.lines
    /\ Cardinality(bk.lines) < MaxLines
    /\ bk' = [bk EXCEPT !.lines = @ \cup {line}]

Remove(line) ==
    /\ bk.exists /\ line \in bk.lines
    /\ bk.open[line] = FlatOpen[line]
    /\ bk' = [bk EXCEPT !.lines = @ \ {line}]

FillOn(mkt, side, profit) ==
    /\ CanNet(bk, mkt, side)
    /\ bk' = Netted(bk, mkt, side, profit)

SettleOn(mkt, side, profit) ==
    /\ CanUnnet(bk, mkt, side, profit)
    /\ bk' = Unnetted(bk, mkt, side, profit)

BookNext ==
    \/ Create \/ Close
    \/ \E line \in Lines : Add(line) \/ Remove(line)
    \/ \E mkt \in Mkts, side \in Sides, profit \in Profits :
           FillOn(mkt, side, profit) \/ SettleOn(mkt, side, profit)

BookSpec == BookInit /\ [][BookNext]_bk
=============================================================================
