----------------------------- MODULE PromoMaker -----------------------------
(***************************************************************************)
(* The promo market maker: a program that quotes one side of one market at *)
(* fixed odds, up to a limit per bet and a limit for all bets together, to *)
(* wallets on a list (to anyone if the list is empty), one bet per wallet, *)
(* until the event starts.  Its admin creates, changes and closes the      *)
(* accounts, one instruction at a time or several in one transaction.      *)
(*                                                                         *)
(* A transaction of a bettor is a quote, then a fill at most, and is undone*)
(* as a whole if it fails.  The program's funds and the aggregator's checks*)
(* of collateral are in Fills and Custody.                                 *)
(***************************************************************************)
EXTENDS Odds, Totals, Sequences

CONSTANTS
    Bettors,      \* wallets
    AllowLists,   \* lists of allowed wallets; {} allows anyone
    MaxBettors,   \* MAX_PROMO_BETTORS, and the bound of an allow list
    Limits,       \* values of max_amount and max_total_amount
    PromoOdds,    \* odds, also below 1.0 and none (0)
    PromoStakes,  \* stakes asked for
    PromoFloors,  \* least odds asked for
    PromoUpdates  \* bound: sequences of the oracle

\* What the constants are assumed to be.
PromoMakerAssumption ==
    /\ IsFiniteSet(Bettors)
    /\ MaxBettors \in Nat /\ \A list \in AllowLists : Cardinality(list) <= MaxBettors
    /\ AllowLists \subseteq SUBSET Bettors
    /\ Limits \subseteq Nat /\ PromoOdds \subseteq Nat /\ PromoStakes \subseteq Nat
    /\ PromoFloors \subseteq Nat /\ PromoUpdates \in Nat

VARIABLES
    status,      \* of the config: FALSE until promo-activate
    promoEvent,  \* sequence of the event state, or NoPromoEvent
    promoMarket, \* the market's account, or NoPromoMarket
    promoBuffer, \* the quote buffer
    plan,        \* what a bootstrap has read of the two accounts
    call,        \* the bettor's transaction that runs
    bets         \* bets[u]: stakes of u since the market was created

promoVars == <<status, promoEvent, promoMarket, promoBuffer, plan, call, bets>>
admin == <<status, promoEvent, promoMarket, plan>>

NoPromoEvent == -1
NoPromoMarket == [open |-> FALSE]
NoPlan == [made |-> FALSE]
NoCall == [stage |-> "none"]
NoBets == [u \in Bettors |-> << >>]

\* init_program: inactive, the buffer all zero.
PromoMakerInit ==
    /\ status = FALSE
    /\ promoEvent = NoPromoEvent /\ promoMarket = NoPromoMarket
    /\ promoBuffer = [used |-> FALSE, user |-> "none", amount |-> 0, odds |-> 0, seq |-> 0]
    /\ plan = NoPlan /\ call = NoCall /\ bets = NoBets

-----------------------------------------------------------------------------
(* The admin's instructions *)

UpdateStatus ==
    /\ status' = ~status
    /\ UNCHANGED <<promoEvent, promoMarket, promoBuffer, plan, call, bets>>

InitPromoEvent ==
    /\ promoEvent = NoPromoEvent
    /\ promoEvent' = 0
    /\ UNCHANGED <<status, promoMarket, promoBuffer, plan, call, bets>>

\* To any sequence: nothing asks for a larger one.
UpdatePromoEventState(seq) ==
    /\ promoEvent # NoPromoEvent
    /\ promoEvent' = seq
    /\ UNCHANGED <<status, promoMarket, promoBuffer, plan, call, bets>>

ClosePromoEvent ==
    /\ promoEvent # NoPromoEvent
    /\ promoEvent' = NoPromoEvent
    /\ UNCHANGED <<status, promoMarket, promoBuffer, plan, call, bets>>

\* init_account
NewMarket(max, total, allowed) ==
    [open |-> TRUE, max |-> max, total |-> total, staked |-> 0, odds |-> 0, seq |-> 0,
     allowed |-> allowed, bettors |-> {}, started |-> FALSE]

InitPromoMarket(max, total, allowed) ==
    /\ ~promoMarket.open
    /\ promoMarket' = NewMarket(max, total, allowed)
    /\ bets' = NoBets
    /\ UNCHANGED <<status, promoEvent, promoBuffer, plan, call>>

ClosePromoMarket ==
    /\ promoMarket.open
    /\ promoMarket' = NoPromoMarket
    /\ UNCHANGED <<status, promoEvent, promoBuffer, plan, call, bets>>

SetMarketMaxAmount(max) ==
    /\ promoMarket.open
    /\ promoMarket' = [promoMarket EXCEPT !.max = max]
    /\ UNCHANGED <<status, promoEvent, promoBuffer, plan, call, bets>>

\* Also below what is staked already.
SetMarketMaxTotalAmount(total) ==
    /\ promoMarket.open
    /\ promoMarket' = [promoMarket EXCEPT !.total = total]
    /\ UNCHANGED <<status, promoEvent, promoBuffer, plan, call, bets>>

UpdateOracle(seq, odds) ==
    /\ promoMarket.open
    /\ seq > promoMarket.seq
    /\ promoMarket' = [promoMarket EXCEPT !.seq = seq, !.odds = odds]
    /\ UNCHANGED <<status, promoEvent, promoBuffer, plan, call, bets>>

-----------------------------------------------------------------------------
(* The admin's transactions of several instructions *)

\* promo-bootstrap-market looks which accounts exist, then sends.
PlanBootstrap ==
    /\ ~plan.made
    /\ plan' = [made |-> TRUE, event |-> promoEvent # NoPromoEvent,
                market |-> promoMarket.open]
    /\ UNCHANGED <<status, promoEvent, promoMarket, promoBuffer, call, bets>>

\* init_event and init_market unless the account was there, the event state
\* set to 1 and the odds; the instructions fail together.
LandBootstrap(max, total, allowed, seq, odds) ==
    LET base == IF promoMarket.open THEN promoMarket ELSE NewMarket(max, total, allowed)
    IN  /\ plan.made
        /\ plan.event = (promoEvent # NoPromoEvent) /\ plan.market = promoMarket.open
        /\ seq > base.seq
        /\ promoEvent' = 1
        /\ promoMarket' = [base EXCEPT !.seq = seq, !.odds = odds]
        /\ bets' = IF promoMarket.open THEN bets ELSE NoBets
        /\ plan' = NoPlan
        /\ UNCHANGED <<status, promoBuffer, call>>

\* It fails because an account came or went, or does not land.
LoseBootstrap ==
    /\ plan.made
    /\ plan' = NoPlan
    /\ UNCHANGED <<status, promoEvent, promoMarket, promoBuffer, call, bets>>

CloseMarketAndEvent ==
    /\ promoMarket.open /\ promoEvent # NoPromoEvent
    /\ promoMarket' = NoPromoMarket /\ promoEvent' = NoPromoEvent
    /\ UNCHANGED <<status, promoBuffer, plan, call, bets>>

\* The clock reaches event_start_time.
Kickoff ==
    /\ promoMarket.open /\ ~promoMarket.started
    /\ promoMarket' = [promoMarket EXCEPT !.started = TRUE]
    /\ UNCHANGED <<status, promoEvent, promoBuffer, plan, call, bets>>

-----------------------------------------------------------------------------
(* Quotes *)

HasAllowed(u) == promoMarket.allowed = {} \/ u \in promoMarket.allowed
HasBettor(u) == u \in promoMarket.bettors

\* verify_event_state, in an event state that the asker names
EventIs(seq) == seq > 0 /\ promoEvent = seq

\* What get_quote checks.
Quotable(u, min_odds, seq) ==
    /\ EventIs(seq)
    /\ promoMarket.open
    /\ HasAllowed(u) /\ ~HasBettor(u)
    /\ status
    /\ ~promoMarket.started
    /\ promoMarket.odds >= Scale /\ promoMarket.odds >= min_odds
    /\ promoMarket.max > 0
    /\ promoMarket.staked < promoMarket.total

\* Fault: the limit of all bets together is taken for each.
QuotedOfWholeTotal(amount) ==
    LesserOf(amount, LesserOf(promoMarket.max, promoMarket.total))

Quoted(amount) ==
    LesserOf(amount, LesserOf(promoMarket.max, promoMarket.total - promoMarket.staked))

\* A refusal returns zero and leaves the buffer as it is.
BufferAfter(u, amount, min_odds, seq) ==
    IF Quotable(u, min_odds, seq)
    THEN [used |-> FALSE, user |-> u, amount |-> Quoted(amount), odds |-> promoMarket.odds,
          seq |-> seq]
    ELSE promoBuffer

\* A proxy of the aggregator asks, and nothing follows.
GetPromoQuote(u, amount, min_odds, seq) ==
    /\ promoBuffer' = BufferAfter(u, amount, min_odds, seq)
    /\ UNCHANGED <<admin, call, bets>>

\* A fill of the aggregator asks; it goes on if there is a quote.
FillAsks(u, amount, min_odds, seq) ==
    /\ promoBuffer' = BufferAfter(u, amount, min_odds, seq)
    /\ call' = IF Quotable(u, min_odds, seq) /\ Quoted(amount) > 0
               THEN [stage |-> "asked", user |-> u, amount |-> Quoted(amount),
                     odds |-> promoMarket.odds, seq |-> seq,
                     buffer |-> promoBuffer, market |-> promoMarket, bets |-> bets]
               ELSE NoCall
    /\ UNCHANGED <<admin, bets>>

\* check_quote_matches
QuoteMatches(u, amount, odds, seq) ==
    /\ ~promoBuffer.used
    /\ promoBuffer.user = u /\ amount <= promoBuffer.amount
    /\ promoBuffer.odds = odds /\ promoBuffer.seq = seq

\* fill_bet_quote and add_bettor_and_stake, for an amount above zero.
PromoCanFill(u, amount, odds, seq) ==
    /\ promoMarket.open
    /\ QuoteMatches(u, amount, odds, seq)
    /\ HasAllowed(u) /\ ~HasBettor(u)
    /\ promoMarket.staked + amount <= promoMarket.total
    /\ Cardinality(promoMarket.bettors) < MaxBettors

\* add_bettor_and_stake
WithBettor(u, amount) ==
    [promoMarket EXCEPT !.bettors = @ \cup {u}, !.staked = @ + amount]

\* The aggregator takes what it still needs of the quote; nothing, if better
\* quotes were enough.
FillPromoQuote(amount) ==
    /\ call.stage = "asked" /\ amount <= call.amount
    /\ amount > 0 => PromoCanFill(call.user, amount, call.odds, call.seq)
    /\ promoBuffer' = [promoBuffer EXCEPT !.used = TRUE]
    /\ IF amount = 0 THEN UNCHANGED <<promoMarket, bets>>
       ELSE /\ promoMarket' = WithBettor(call.user, amount)
            /\ bets' = [bets EXCEPT ![call.user] = Append(@, amount)]
    /\ call' = [call EXCEPT !.stage = "filled"]
    /\ UNCHANGED <<status, promoEvent, plan>>

\* The fill, or anything after it, fails.
AbortBet ==
    /\ call.stage # "none"
    /\ promoBuffer' = call.buffer /\ promoMarket' = call.market /\ bets' = call.bets
    /\ call' = NoCall
    /\ UNCHANGED <<status, promoEvent, plan>>

CommitBet ==
    /\ call.stage = "filled"
    /\ call' = NoCall
    /\ UNCHANGED <<admin, promoBuffer, bets>>

-----------------------------------------------------------------------------
AdminStep ==
    \/ UpdateStatus \/ InitPromoEvent \/ ClosePromoEvent \/ ClosePromoMarket \/ Kickoff
    \/ PlanBootstrap \/ LoseBootstrap \/ CloseMarketAndEvent
    \/ \E seq \in 0..2 : UpdatePromoEventState(seq)
    \/ \E limit \in Limits : SetMarketMaxAmount(limit) \/ SetMarketMaxTotalAmount(limit)
    \/ \E seq \in 1..PromoUpdates, odds \in PromoOdds : UpdateOracle(seq, odds)
    \/ \E max, total \in Limits, allowed \in AllowLists :
         \/ InitPromoMarket(max, total, allowed)
         \/ \E seq \in 1..PromoUpdates, odds \in PromoOdds :
              LandBootstrap(max, total, allowed, seq, odds)

\* Instructions of others run before or after a bettor's transaction.
PromoMakerNext ==
    \/ call = NoCall /\ AdminStep
    \/ /\ call = NoCall
       /\ \E u \in Bettors, amount \in PromoStakes, min_odds \in PromoFloors,
             seq \in 0..2 :
            GetPromoQuote(u, amount, min_odds, seq) \/ FillAsks(u, amount, min_odds, seq)
    \/ \E amount \in {0} \cup Limits \cup PromoStakes : FillPromoQuote(amount)
    \/ AbortBet
    \/ CommitBet

PromoMakerSpec == PromoMakerInit /\ [][PromoMakerNext]_promoVars

-----------------------------------------------------------------------------
(* Properties *)

\* Whatever part of a quote the aggregator wants to take, the fill that
\* follows passes every check, unless the table of bettors is full.
QuotedIsFillable ==
    call.stage = "asked" /\ Cardinality(promoMarket.bettors) < MaxBettors
        => \A amount \in 1..call.amount :
               PromoCanFill(call.user, amount, call.odds, call.seq)

\* The account knows the bets taken since it was created: one per wallet, of
\* wallets that are allowed, and their sum.
AccountKnowsBets ==
    promoMarket.open =>
        /\ promoMarket.bettors = {u \in Bettors : bets[u] # << >>}
        /\ \A u \in promoMarket.bettors : Len(bets[u]) = 1 /\ HasAllowed(u)
        /\ promoMarket.staked =
             Total([u \in Bettors |-> IF u \in promoMarket.bettors THEN bets[u][1] ELSE 0])

\* A promo quote stands until it is filled or the transaction ends, though
\* limits, odds, list and accounts change between transactions and failed
\* fills are undone; and the account's list and total stay those of the bets
\* that count (get_quote, fill_bet_quote, account_oracle).
PromoQuotesStand == QuotedIsFillable /\ AccountKnowsBets
=============================================================================
