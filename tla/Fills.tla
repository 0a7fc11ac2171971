-------------------------------- MODULE Fills --------------------------------
(***************************************************************************)
(* Opening a single bet, by auction (fill_bet) or against one signed offer *)
(* (fill_rfq_bet).  The quotes and the MM programs' answers to the fill    *)
(* CPI are the environment's: fill_bet skips an MM that fails any check,   *)
(* so its outcome is any list of filled slices that the price order and    *)
(* the minimum slice allow.  Auction.tla models the loop that chooses it.  *)
(***************************************************************************)
EXTENDS Custody

CONSTANTS
    Amounts,   \* stakes one MM may fill
    Prices,    \* decimal odds quoted, scaled
    MinFill    \* min_amount_for_decimals of the mint

ASSUME FillsAssumption ==
    /\ Amounts \subseteq Nat \ {0}
    /\ Prices \subseteq {p \in Nat : p >= Scale}
    /\ MinFill \in Nat \ {0}

\* What one MM filled: slot is TRUE when its netting PDA was passed, and not
\* the system program as a placeholder.
Fill == [mm: MMs, amount: Amounts, odds: Prices, slot: BOOLEAN]

\* netting_calc.is_some(), for the filling MM's book bk.
Nets(bk, f, mkt, side) == f.slot /\ CanNet(bk, mkt, side)

\* Encumbrance added: the rise of the peak if netted, the profit if not.
Delta(bk, f, mkt, side) ==
    IF Nets(bk, f, mkt, side)
    THEN PeakRise(bk, mkt, side, Profit(f.amount, f.odds))
    ELSE Profit(f.amount, f.odds)

\* Fault: collateral that is already reserved counts as free.
ShortfallOfBalance(v, delta) == delta - LesserOf(delta, v.liability)

\* compute_liability_shortfall: what the free collateral of vault v does not
\* cover, the MM sends from its own token account in the fill CPI.
Shortfall(v, delta) == delta - LesserOf(delta, v.liability - v.enc)

\* Everything that makes fill_bet keep a quote and fill_rfq_bet go through.
CanFill(f, mkt, side, isLive) ==
    /\ vault[f.mm].exists
    /\ live[f.mm] = isLive
    /\ vault[f.mm].enc <= vault[f.mm].liability
    /\ Shortfall(vault[f.mm], Delta(book[f.mm], f, mkt, side)) <= wallet[f.mm]

\* create_single_bet_account with the fillers in the order they were filled.
NewBet(b, mkt, side, isLive, fills) ==
    LET Of(m) == CHOOSE i \in DOMAIN fills : fills[i].mm = m
        filled == {fills[i].mm : i \in DOMAIN fills}
    IN  [result |-> "Pending", mkt |-> mkt, side |-> side, live |-> isLive,
         amount |-> Total([i \in DOMAIN fills |-> fills[i].amount]),
         payout |-> Total([i \in DOMAIN fills |->
                              Payout(fills[i].amount, fills[i].odds)]),
         fillers |-> [i \in DOMAIN fills |-> fills[i].mm],
         slices |-> [m \in MMs |->
             IF m \in filled
             THEN LET f == fills[Of(m)] IN
                  [amount |-> f.amount, reserved |-> Profit(f.amount, f.odds),
                   odds |-> f.odds, netted |-> Nets(book[m], f, mkt, side)]
             ELSE NoSlice],
         key |-> b, by |-> None]

\* Checked before any quote is read.
MayOpen(b) == ~paused /\ ~Exists(b)

\* The fills go through: the MMs' deposits and reservations, then the stake.
OpenBet(b, mkt, side, isLive, fills) ==
    LET new == NewBet(b, mkt, side, isLive, fills)
        Of(m) == fills[CHOOSE i \in DOMAIN fills : fills[i].mm = m]
        filled == {fills[i].mm : i \in DOMAIN fills}
        Added(m) == Delta(book[m], Of(m), mkt, side)
        Sent(m) == Shortfall(vault[m], Added(m))
    IN  /\ \A i \in DOMAIN fills : CanFill(fills[i], mkt, side, isLive)
        /\ new.amount <= user
        /\ vault' = [m \in MMs |->
               IF m \in filled
               THEN [vault[m] EXCEPT !.liability = @ + Sent(m),
                                     !.enc = @ + Added(m)]
               ELSE vault[m]]
        /\ wallet' = [m \in MMs |->
               IF m \in filled THEN wallet[m] - Sent(m) ELSE wallet[m]]
        /\ book' = [m \in MMs |->
               IF m \in filled /\ Nets(book[m], Of(m), mkt, side)
               THEN Netted(book[m], mkt, side, Profit(Of(m).amount, Of(m).odds))
               ELSE book[m]]
        /\ ticket' = [ticket EXCEPT ![b] = new]
        /\ stake' = [stake EXCEPT ![b] = @ + new.amount]
        /\ user' = user - new.amount
        /\ UNCHANGED <<escrow, live, paused>>

\* The outcomes of the auction: distinct MMs, best price first, ties in any
\* order, no slice below the minimum.
AuctionFills ==
    {fills \in SeqOf(Fill, Cardinality(MMs)) :
        /\ fills # << >>
        /\ \A i, j \in DOMAIN fills : i < j =>
               /\ fills[i].mm # fills[j].mm
               /\ fills[i].odds >= fills[j].odds
        /\ \A i \in DOMAIN fills : fills[i].amount >= MinFill}

FillBet(b, mkt, side, isLive) ==
    /\ MayOpen(b)
    /\ \E fills \in AuctionFills : OpenBet(b, mkt, side, isLive, fills)

\* One MM's offer, filled whole or not at all.
FillRfqBet(b, mkt, side, isLive) ==
    /\ MayOpen(b)
    /\ \E f \in Fill : f.amount >= MinFill /\ OpenBet(b, mkt, side, isLive, <<f>>)
=============================================================================
