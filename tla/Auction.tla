------------------------------- MODULE Auction -------------------------------
(***************************************************************************)
(* run_fill_bet as it runs inside one transaction: the quotes that passed  *)
(* every check are sorted by price and tried one after the other, and what *)
(* they change is committed only if the instruction succeeds.  Shown to    *)
(* be the single action FillBet of Fills.                                  *)
(***************************************************************************)
EXTENDS Fills

CONSTANTS
    Requests,     \* stakes a user asks for
    Wanted        \* markets a user bets on

ASSUME AuctionAssumption ==
    /\ Requests \subseteq {r \in Nat : r >= MinFill} /\ Wanted \subseteq Mkts
    /\ UNION {1..r : r \in Requests} \subseteq Amounts

VARIABLE auction    \* the running transaction

auctionVars == <<vault, book, wallet, user, ticket, stake, escrow, live, paused, auction>>

\* MMQuote, of those fill_bet keeps after the quote CPI: a price and the most
\* the MM takes.
MMQuote == [mm: MMs, max: Amounts, odds: Prices, slot: BOOLEAN]

\* Fault: the worst price first.
SortedWorstFirst(quotes) ==
    \A i, j \in DOMAIN quotes : i < j =>
        /\ quotes[i].mm # quotes[j].mm
        /\ quotes[i].odds <= quotes[j].odds

\* sort_unstable_by price, best first: ties in any order; one per MM.
Sorted(quotes) ==
    \A i, j \in DOMAIN quotes : i < j =>
        /\ quotes[i].mm # quotes[j].mm
        /\ quotes[i].odds >= quotes[j].odds
QuoteLists == {quotes \in SeqOf(MMQuote, Cardinality(MMs)) : Sorted(quotes)}

NoAuction == [pc |-> "idle"]
AtRest == auction.pc = "idle"

AuctionInit ==
    /\ vault = [m \in MMs |-> [NoVault EXCEPT !.exists = TRUE]]
    /\ book = [m \in MMs |-> [NoBook EXCEPT !.exists = TRUE]]
    /\ wallet = [m \in MMs |-> MMFunds]
    /\ user = UserFunds
    /\ ticket = [k \in Tickets |-> NoTicket]
    /\ stake = [k \in Tickets |-> 0]
    /\ escrow = [b \in Bets |-> NoEscrow]
    /\ live = [m \in MMs |-> FALSE]
    /\ paused = FALSE
    /\ auction = NoAuction

\* The checks before the loop, and the quotes.
CollectQuotes(b, mkt, side, request) ==
    /\ AtRest
    /\ MayOpen(b)
    /\ \E quotes \in QuoteLists :
          auction' = [pc |-> "fill", bet |-> b, mkt |-> mkt, side |-> side,
                      request |-> request, quotes |-> quotes, at |-> 1,
                      fills |-> << >>, refused |-> {},
                      vault |-> vault, book |-> book, wallet |-> wallet]
    /\ UNCHANGED vars

filled_amount == Total([i \in DOMAIN auction.fills |-> auction.fills[i].amount])
remaining_amount == auction.request - filled_amount

Trying == auction.pc = "fill" /\ auction.at <= Len(auction.quotes) /\ remaining_amount > 0
quote == auction.quotes[auction.at]
amount_to_fill == LesserOf(quote.max, remaining_amount)

\* A slice below the minimum is not tried: the next quote is.
SkipSmall ==
    /\ Trying
    /\ amount_to_fill < MinFill
    /\ auction' = [auction EXCEPT !.at = @ + 1]
    /\ UNCHANGED vars

fill == [mm |-> quote.mm, amount |-> amount_to_fill, odds |-> quote.odds,
         slot |-> quote.slot]
\* Fault: the gross profit is reserved for a netted fill.
delta_gross == Profit(fill.amount, fill.odds)

delta == Delta(auction.book[quote.mm], fill, auction.mkt, auction.side)
amount_to_send == Shortfall(auction.vault[quote.mm], delta)

\* The MM sends what was asked: its deposit, netting and encumbrance.
TakeFill ==
    /\ Trying
    /\ amount_to_fill >= MinFill
    /\ amount_to_send <= auction.wallet[quote.mm]
    /\ auction' = [auction EXCEPT
           !.at = @ + 1,
           !.fills = Append(@, fill),
           !.wallet[quote.mm] = @ - amount_to_send,
           !.vault[quote.mm].liability = @ + amount_to_send,
           !.vault[quote.mm].enc = @ + delta,
           !.book[quote.mm] =
               IF Nets(@, fill, auction.mkt, auction.side)
               THEN Netted(@, auction.mkt, auction.side, Profit(fill.amount, fill.odds))
               ELSE @]
    /\ UNCHANGED vars

\* The MM sends anything else, which is refunded: the next quote is tried.
RefuseFill ==
    /\ Trying
    /\ amount_to_fill >= MinFill
    /\ auction' = [auction EXCEPT !.at = @ + 1, !.refused = @ \cup {quote.mm}]
    /\ UNCHANGED vars

LoopDone == auction.pc = "fill" /\ ~Trying

\* NoQuotesAvailable, or the user cannot pay the stake: nothing happened.
AbortFill ==
    /\ LoopDone
    /\ auction.fills = << >> \/ filled_amount > user
    /\ auction' = NoAuction
    /\ UNCHANGED vars

\* create_single_bet_account, with the amount that was filled.
CommitFill ==
    LET new == NewBet(auction.bet, auction.mkt, auction.side, FALSE, auction.fills) IN
    /\ LoopDone
    /\ auction.fills # << >> /\ filled_amount <= user
    /\ vault' = auction.vault /\ book' = auction.book /\ wallet' = auction.wallet
    /\ ticket' = [ticket EXCEPT ![auction.bet] = new]
    /\ stake' = [stake EXCEPT ![auction.bet] = @ + filled_amount]
    /\ user' = user - filled_amount
    /\ auction' = NoAuction
    /\ UNCHANGED <<escrow, live, paused>>

AuctionNext ==
    \/ \E b \in Bets, mkt \in Wanted, side \in Sides, request \in Requests :
           CollectQuotes(b, mkt, side, request)
    \/ SkipSmall \/ TakeFill \/ RefuseFill \/ AbortFill \/ CommitFill

AuctionSpec == AuctionInit /\ [][AuctionNext]_auctionVars

-----------------------------------------------------------------------------
(* Properties *)

StepIsFill ==
    /\ ~AtRest /\ MayOpen(auction.bet)
    /\ auction.fills \in AuctionFills
    /\ OpenBet(auction.bet, auction.mkt, auction.side, FALSE, auction.fills)

\* What the auction loop of fill_bet commits is, as one step, a fill that
\* FillBet allows: the staged accounts, netted fill by fill, end where FillBet
\* puts them at once.  The fills of the transaction are the witness of
\* FillBet's choice.
IsFillBet == [][StepIsFill]_vars

FilledBy(m) ==
    Total([i \in DOMAIN auction.fills |->
              IF auction.fills[i].mm = m THEN auction.fills[i].amount ELSE 0])

\* The user gets the best prices on offer, and as much as is on offer: when the
\* auction loop of fill_bet ends, an MM was filled only after every MM with a
\* better price took all it quoted, refused, or was too small to be tried; and
\* if the request is not filled, every MM is exhausted, has refused, or could
\* only add a slice below the minimum.
TakesTheBest ==
    LoopDone =>
        /\ \A i, j \in DOMAIN auction.quotes :
              LET better == auction.quotes[i] worse == auction.quotes[j] IN
              FilledBy(worse.mm) > 0 /\ better.odds > worse.odds =>
                  \/ FilledBy(better.mm) = better.max
                  \/ better.mm \in auction.refused
                  \/ better.max < MinFill
        /\ \/ remaining_amount = 0
           \/ \A i \in DOMAIN auction.quotes :
                 LET q == auction.quotes[i]
                     more == LesserOf(q.max - FilledBy(q.mm), remaining_amount)
                 IN  more = 0 \/ more < MinFill \/ q.mm \in auction.refused
=============================================================================
