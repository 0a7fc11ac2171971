------------------------------ MODULE Quoting ------------------------------
(***************************************************************************)
(* How a market maker's program quotes and honours its quotes: the oracle  *)
(* accounts its backend writes odds into, the two quote buffers (one for   *)
(* single bets, one for parlays) and the aggregator's instructions that    *)
(* ask for a quote and fill what was offered.                              *)
(*                                                                         *)
(* A slip is a sequence of markets, one for a single bet; a market stands  *)
(* for one side of it.  Slips are pregame: a request claims sequence 1 of  *)
(* the event state.  A fill asks and takes within one transaction, in two  *)
(* steps here; the oracle, other transactions and the proxies that only    *)
(* ask come in between transactions.  The odds and stakes of other market  *)
(* makers are left out: the amount taken is any part of the offer.         *)
(***************************************************************************)
EXTENDS ParlayOdds, FiniteSets

CONSTANTS
    Askers,         \* users that ask
    Slips,          \* slips that are asked for
    OracleOdds,     \* odds a backend may write; 0 withdraws a market
    QuoteAmounts,   \* stakes, and payouts to cash out
    Floors,         \* the least odds or payout a user accepts
    MaxStake,       \* MAX_QUOTE_STAKE_UNITS
    Updates         \* bound: oracle updates sent

\* What the constants are assumed to be.
QuotingAssumption ==
    /\ Slips \subseteq Seq(LegMarkets) \ {<<>>}
    /\ OracleOdds \subseteq Nat /\ 0 \in OracleOdds
    /\ QuoteAmounts \subseteq Nat /\ Floors \subseteq Nat
    /\ MaxStake \in Nat /\ Updates \in Nat

VARIABLES
    market,     \* market[m]: the market data account of m
    event,      \* event[e]: sequence of the event state, or NoEvent
    sent,       \* oracle updates signed and not yet dropped
    clock,      \* sequence of the next update
    landed,     \* landed[m]: updates that reached the account since its creation
    buffer,     \* buffer[k]: the quote buffer for slips of kind k
    tx          \* the aggregator's instruction in progress

quotingVars == <<market, event, sent, clock, landed, buffer, tx>>
oracle == <<market, event, sent, clock, landed>>

Events == {EventOf[m] : m \in LegMarkets}
NoEvent == 9
NoMarket == [open |-> FALSE, seq |-> 0, odds |-> 0]
NoQuote == [used |-> TRUE, user |-> "none", slip |-> <<>>, legs |-> <<>>,
            max |-> 0, odds |-> 0]
NoTx == [stage |-> "none"]

Kind(slip) == IF Len(slip) = 1 THEN "single" ELSE "parlay"

QuotingInit ==
    /\ market = [m \in LegMarkets |-> NoMarket]
    /\ event = [e \in Events |-> NoEvent]
    /\ sent = {} /\ clock = 1
    /\ landed = [m \in LegMarkets |-> {}]
    /\ buffer = [k \in {"single", "parlay"} |-> NoQuote]
    /\ tx = NoTx

-----------------------------------------------------------------------------
(* The oracle *)

InitMarket(m) ==
    /\ ~market[m].open
    /\ market' = [market EXCEPT ![m] = [open |-> TRUE, seq |-> 0, odds |-> 0]]
    /\ landed' = [landed EXCEPT ![m] = {}]
    /\ UNCHANGED <<event, sent, clock, buffer, tx>>

CloseMarket(m) ==
    /\ market[m].open
    /\ market' = [market EXCEPT ![m] = NoMarket]
    /\ UNCHANGED <<event, sent, clock, landed, buffer, tx>>

InitEvent(e) ==
    /\ event[e] = NoEvent
    /\ event' = [event EXCEPT ![e] = 0]
    /\ UNCHANGED <<market, sent, clock, landed, buffer, tx>>

\* Sequence 1 while the event is pregame, 2 and more once it is live.
UpdateEventState(e) ==
    /\ event[e] \in 0..1
    /\ event' = [event EXCEPT ![e] = @ + 1]
    /\ UNCHANGED <<market, sent, clock, landed, buffer, tx>>

CloseEvent(e) ==
    /\ event[e] # NoEvent
    /\ event' = [event EXCEPT ![e] = NoEvent]
    /\ UNCHANGED <<market, sent, clock, landed, buffer, tx>>

\* The backend signs an update for an account it has created.
SendUpdate(m, o) ==
    /\ market[m].open /\ clock <= Updates
    /\ sent' = sent \cup {[mkt |-> m, seq |-> clock, odds |-> o]}
    /\ clock' = clock + 1
    /\ UNCHANGED <<market, event, landed, buffer, tx>>

\* Fault: an update with any sequence is taken.
AnySequence(u, m) == u.seq # market[m].seq

\* check_and_update
Newer(u, m) == u.seq > market[m].seq

\* Updates land in any order, or after the account was closed and created again.
LandUpdate(u) ==
    /\ sent' = sent \ {u}
    /\ IF market[u.mkt].open
       THEN /\ landed' = [landed EXCEPT ![u.mkt] = @ \cup {u}]
            /\ market' = [market EXCEPT ![u.mkt] =
                   IF Newer(u, u.mkt) THEN [@ EXCEPT !.seq = u.seq, !.odds = u.odds] ELSE @]
       ELSE UNCHANGED <<market, landed>>
    /\ UNCHANGED <<event, clock, buffer, tx>>

DropUpdate(u) ==
    /\ sent' = sent \ {u}
    /\ UNCHANGED <<market, event, clock, landed, buffer, tx>>

OracleStep ==
    \/ \E m \in LegMarkets :
         InitMarket(m) \/ CloseMarket(m) \/ (\E o \in OracleOdds : SendUpdate(m, o))
    \/ \E e \in Events : InitEvent(e) \/ UpdateEventState(e) \/ CloseEvent(e)
    \/ \E u \in sent : LandUpdate(u) \/ DropUpdate(u)

-----------------------------------------------------------------------------
(* Quotes *)

\* read_parlay_leg_market_odds, verify_event_state with the claim "sequence 1".
\* Fault: the event state is not looked at.
ReadableAnyState(slip) == \A i \in DOMAIN slip : market[slip[i]].open
Readable(slip) ==
    \A i \in DOMAIN slip : market[slip[i]].open /\ event[EventOf[slip[i]]] = 1

Read(slip) == [i \in DOMAIN slip |-> [mkt |-> slip[i], odds |-> market[slip[i]].odds]]

\* fold_same_event_odds: the first leg of an event carries the product of its
\* legs, the others 0.
Fold(legs) ==
    [i \in DOMAIN legs |->
        LET times(acc, j) == IF j \in SameEvent(legs, i)
                             THEN (acc * legs[j].odds) \div Scale ELSE acc
            first == \A j \in SameEvent(legs, i) : i <= j
        IN  [legs[i] EXCEPT !.odds = IF first THEN OverLegs(Len(legs), times, Scale) ELSE 0]]

QuotedLegs(slip) == IF Len(slip) = 1 THEN Read(slip) ELSE Fold(Read(slip))

QuotedOdds(slip) ==
    IF Len(slip) = 1 THEN market[slip[1]].odds ELSE ProductOdds(QuotedLegs(slip))

\* The most the market maker takes at odds of at least floor, 0 to refuse.
GetQuote(slip, amount, floor) ==
    IF Readable(slip) /\ QuotedOdds(slip) >= floor THEN LesserOf(amount, MaxStake) ELSE 0

GetQuoteParlay(slip, amount, floor) ==
    LET odds == QuotedOdds(slip)
    IN  IF Readable(slip) /\ odds > Scale /\ odds >= floor
        THEN LesserOf(amount, MaxStake) ELSE 0

\* The most it pays for a payout given up: its worth at the odds of now.
GetCashoutQuote(slip, payout, floor) ==
    LET odds == QuotedOdds(slip)
        fair == (payout * Scale) \div odds
    IN  IF Readable(slip) /\ odds > Scale /\ fair >= floor THEN fair ELSE 0

GetCashoutQuoteParlay(slip, payout, floor) == GetCashoutQuote(slip, payout, floor)

Offer(op, slip, amount, floor) ==
    CASE op = "bet" /\ Len(slip) = 1 -> GetQuote(slip, amount, floor)
      [] op = "bet" /\ Len(slip) > 1 -> GetQuoteParlay(slip, amount, floor)
      [] op = "cashout" /\ Len(slip) = 1 -> GetCashoutQuote(slip, amount, floor)
      [] op = "cashout" /\ Len(slip) > 1 -> GetCashoutQuoteParlay(slip, amount, floor)

\* A single cashout's quote leaves no odds behind.
Quote(op, user, slip, max) ==
    [used |-> FALSE, user |-> user, slip |-> slip, legs |-> QuotedLegs(slip), max |-> max,
     odds |-> IF op = "cashout" /\ Len(slip) = 1 THEN 0 ELSE QuotedOdds(slip)]

\* A refusal does not touch the buffer.
Ask(op, user, slip, max) ==
    /\ max > 0
    /\ buffer' = [buffer EXCEPT ![Kind(slip)] = Quote(op, user, slip, max)]

\* accept_cashout_payment: never more for a ticket than it would pay.
AcceptCashoutPayment(max, payout, floor) == max >= floor /\ max <= payout

\* Anyone asks in anyone's name, through a proxy of the aggregator or directly;
\* a proxy that gets no quote fails, and leaves the buffer as it was.
AskOnly(user, slip, amount, floor) ==
    /\ Ask("bet", user, slip, Offer("bet", slip, amount, floor))
    /\ UNCHANGED <<oracle, tx>>

GetQuoteProxy(user, slip, amount, floor) ==
    Len(slip) = 1 /\ AskOnly(user, slip, amount, floor)

\* Every side of a market is asked for in turn: the last one that is quoted is
\* the one that stays in the buffer.
GetMarketQuotesProxy(user, amount, floor) ==
    \E side \in Slips : GetQuoteProxy(user, side, amount, floor)

GetParlayQuoteProxy(user, slip, amount, floor) ==
    Len(slip) > 1 /\ AskOnly(user, slip, amount, floor)

AskCashout(user, slip, payout, floor) ==
    LET max == Offer("cashout", slip, payout, floor) IN
    /\ AcceptCashoutPayment(max, payout, floor)
    /\ Ask("cashout", user, slip, max) /\ UNCHANGED <<oracle, tx>>

GetCashoutQuoteProxy(user, slip, payout, floor) ==
    Len(slip) = 1 /\ AskCashout(user, slip, payout, floor)

GetCashoutParlayQuoteProxy(user, slip, payout, floor) ==
    Len(slip) > 1 /\ AskCashout(user, slip, payout, floor)

\* A direct call spares the proxies' check of a cashout's price.
AskDirectly(user, slip, payout, floor) ==
    LET max == Offer("cashout", slip, payout, floor) IN
    /\ ~AcceptCashoutPayment(max, payout, floor)
    /\ Ask("cashout", user, slip, max) /\ UNCHANGED <<oracle, tx>>

AsksOnly(user, slip, amount, floor) ==
    \/ GetParlayQuoteProxy(user, slip, amount, floor)
    \/ GetCashoutQuoteProxy(user, slip, amount, floor)
    \/ GetCashoutParlayQuoteProxy(user, slip, amount, floor)
    \/ AskDirectly(user, slip, amount, floor)

-----------------------------------------------------------------------------
(* Fills: place_bet, place_parlay, cashout_bet, cashout_parlay *)

\* The aggregator's side of the offer: the user's limit again.
Accepts(op, max, amount, floor) ==
    IF op = "bet" THEN floor > Scale ELSE AcceptCashoutPayment(max, amount, floor)

Take(op, user, slip, amount, floor) ==
    LET max == Offer(op, slip, amount, floor) IN
    /\ Ask(op, user, slip, max)
    /\ Accepts(op, max, amount, floor)
    /\ tx' = [stage |-> "asked", op |-> op, user |-> user, slip |-> slip, amount |-> amount,
              floor |-> floor, max |-> max, legs |-> QuotedLegs(slip),
              odds |-> QuotedOdds(slip), was |-> buffer]
    /\ UNCHANGED oracle

\* The checks of the four fills against the buffer.  Those of parlays do not
\* compare the legs.
Unused(q, user, n) == ~q.used /\ q.user = user /\ n <= q.max
FillBetQuote(q, user, slip, n, odds) == Unused(q, user, n) /\ q.slip = slip /\ q.odds = odds
FillParlayQuote(q, user, n, odds) == Unused(q, user, n) /\ q.odds = odds
FillCashoutQuote(q, user, slip, n) == Unused(q, user, n) /\ q.slip = slip
FillCashoutParlayQuote(q, user, n) == Unused(q, user, n) /\ q.odds # 0

FillMatches(q, op, user, slip, n, odds) ==
    CASE op = "bet" /\ Len(slip) = 1 -> FillBetQuote(q, user, slip, n, odds)
      [] op = "bet" /\ Len(slip) > 1 -> FillParlayQuote(q, user, n, odds)
      [] op = "cashout" /\ Len(slip) = 1 -> FillCashoutQuote(q, user, slip, n)
      [] op = "cashout" /\ Len(slip) > 1 -> FillCashoutParlayQuote(q, user, n)

\* A bet is filled with any part of the offer, a cashout with all of it.
FillQuote ==
    /\ tx.stage = "asked"
    /\ \E n \in 1..tx.max :
         /\ tx.op = "cashout" => n = tx.max
         /\ FillMatches(buffer[Kind(tx.slip)], tx.op, tx.user, tx.slip, n, tx.odds)
         /\ tx' = [stage |-> "filled", op |-> tx.op, user |-> tx.user, slip |-> tx.slip,
                   amount |-> tx.amount, floor |-> tx.floor, paid |-> n,
                   legs |-> tx.legs, odds |-> tx.odds]
    /\ buffer' = [buffer EXCEPT ![Kind(tx.slip)].used = TRUE]
    /\ UNCHANGED oracle

\* Any later failure undoes the whole transaction.
Abort ==
    /\ tx.stage = "asked"
    /\ buffer' = tx.was
    /\ tx' = NoTx
    /\ UNCHANGED oracle

Commit ==
    /\ tx.stage = "filled"
    /\ tx' = NoTx
    /\ UNCHANGED <<oracle, buffer>>

QuotingNext ==
    \/ tx = NoTx /\ OracleStep
    \/ /\ tx = NoTx
       /\ \E user \in Askers, amount \in QuoteAmounts, floor \in Floors :
            \/ GetMarketQuotesProxy(user, amount, floor)
            \/ \E slip \in Slips :
                 \/ AsksOnly(user, slip, amount, floor)
                 \/ \E op \in {"bet", "cashout"} : Take(op, user, slip, amount, floor)
    \/ FillQuote
    \/ Abort
    \/ Commit

QuotingSpec == QuotingInit /\ [][QuotingNext]_quotingVars

-----------------------------------------------------------------------------
(* Properties *)

\* Prices multiplied without rounding, scaled once per leg.
ExactOdds(slip) ==
    LET times(acc, i) == acc * market[slip[i]].odds
    IN  OverLegs(Len(slip), times, 1)
ExactUnit(slip) == OverLegs(Len(slip), LAMBDA acc, i : acc * Scale, 1)

\* No fill is made at a price the market maker has replaced: a bet on priced
\* markets takes at most the product of the odds its accounts hold now, a
\* cashout pays no more than the face payout and no less than the worth of it
\* at that product, and every event of the slip is still pregame on chain.
PaidAtMarket ==
    tx.stage = "filled" =>
        /\ \A i \in DOMAIN tx.slip : event[EventOf[tx.slip[i]]] = 1
        /\ (\A i \in DOMAIN tx.slip : market[tx.slip[i]].odds > 0) =>
             IF tx.op = "bet"
             THEN /\ tx.floor <= tx.odds
                  /\ tx.odds * ExactUnit(tx.slip) <= ExactOdds(tx.slip) * Scale
             ELSE /\ tx.paid <= tx.amount
                  /\ (tx.paid + 1) * ExactOdds(tx.slip) >= tx.amount * ExactUnit(tx.slip)

\* Oracle updates may be delayed, reordered or lost: an account always shows
\* the newest update that has reached it, and no odds until one has.
NewestOddsWin ==
    \A m \in LegMarkets : market[m].open =>
        IF landed[m] = {} THEN market[m].odds = 0
        ELSE \E u \in landed[m] : /\ u.seq = market[m].seq /\ u.odds = market[m].odds
                                  /\ \A v \in landed[m] : v.seq <= u.seq

\* "so every group ends with exactly one positive-odds leg" (quote_helpers.rs):
\* each event of a parlay that is filled has a price.
EveryGroupPriced == tx.stage = "filled" /\ Len(tx.slip) > 1 => EveryEventPriced(tx.legs)
=============================================================================
