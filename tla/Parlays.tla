------------------------------- MODULE Parlays -------------------------------
(***************************************************************************)
(* The life of parlay tickets: one market maker fills the whole ticket, no *)
(* profit is netted, the operator grades leg by leg and the ticket folds,  *)
(* and anyone settles, claims and reverts.  A single bet of the same owner *)
(* may carry the same bet id: the two have PDAs of their own but share the *)
(* cashout escrow PDA, so its escrows appear here as well.                 *)
(***************************************************************************)
EXTENDS ParlayOdds, Totals

CONSTANTS
    MMs,          \* market makers, with a vault and an executable program
    Bets,         \* (owner, bet_id) keys
    Cashouts,     \* (mm, cashout_id) keys
    None,         \* "no such account", or a leg that a grade skips
    LiveMarkets,  \* markets on the game in play: not is_pregame
    Kickoffs,     \* events that start while tickets are open
    Slips,        \* leg sequences that users and market makers agree on
    MaxLegs,      \* MAX_PARLAY_LEGS, for an auction
    MaxRfqLegs,   \* MAX_RFQ_PARLAY_LEGS, for a signed offer
    Prices,       \* prices of whole tickets
    Amounts,      \* stakes
    Payments,     \* payments market makers offer for a cashout
    Transfers,    \* amounts MMs withdraw
    Delay,        \* LIVE_CASHOUT_DELAY, in ticks
    Grades,       \* results the operator gives to legs
    MMFunds,      \* MMFunds[m]: tokens m's program starts with
    UserFunds,
    MaxFills,     \* bound: fills of parlays, a bet id being free again once closed
    SinglePieces, \* cashouts of the single bet that shares a bet id
    MayPause

ASSUME ParlaysAssumption ==
    /\ IsFiniteSet(MMs) /\ IsFiniteSet(Bets) /\ IsFiniteSet(Cashouts)
    /\ Bets \cap Cashouts = {} /\ None \notin MMs \cup Bets \cup Cashouts
    /\ LiveMarkets \subseteq LegMarkets /\ Slips \subseteq Seq(Leg) /\ Prices \subseteq Nat
    /\ Amounts \subseteq Nat \ {0} /\ Payments \subseteq Nat \ {0}
    /\ Transfers \subseteq Nat /\ Grades \subseteq LegGrades /\ None \notin Grades
    /\ MaxLegs \in Nat /\ MaxRfqLegs \in Nat /\ Delay \in Nat
    /\ MMFunds \in [MMs -> Nat] /\ UserFunds \in Nat
    /\ MaxFills \in Nat /\ SinglePieces \in Nat
    /\ MayPause \in BOOLEAN

Keys == Bets \cup Cashouts

VARIABLES
    vault,     \* vault[m]: encumbrance PDA and liability account of m
    wallet,    \* wallet[m]: the token account of m's program
    user,      \* the users' token accounts
    parlay,    \* parlay[k]: the parlay or cashout-parlay PDA at k
    stake,     \* stake[k]: its token account
    escrow,    \* escrow[b]: the cashout escrow PDA of bet id b
    single,    \* single[b]: pieces the single bet with id b has left to sell
    inPlay,    \* inPlay[m]: events whose state m has moved on to sequence 2 or more
    paused,    \* config status
    fills,     \* parlays filled so far
    reused     \* history: bet ids filled again under an escrow of a ticket that is gone

money == <<vault, wallet, user>>
vars == <<vault, wallet, user, parlay, stake, escrow, single, inPlay, paused, fills, reused>>

-----------------------------------------------------------------------------
(* Accounts *)

Results == {"Absent", "Pending", "CashedOut", "ModifiedWin"} \cup LegGrades
Settleable == Results \ {"Absent", "Pending", "CashedOut", "HalfWon", "HalfLost"}

Vault == [liability: Nat, enc: Nat, cashouts: Nat]
Parlay == [result: Results, legs: Seq(Leg), grades: Seq(LegResults),
           amount: Nat, payout: Nat,
           filler: MMs \cup {None}, key: Bets \cup {None}, by: MMs \cup {None}]
NoParlay == [result |-> "Absent", legs |-> << >>, grades |-> << >>,
             amount |-> 0, payout |-> 0,
             filler |-> None, key |-> None, by |-> None]

\* is_parlay tells whose escrow it is; of a single bet only that it is there.
Escrow == [live: BOOLEAN, is_parlay: BOOLEAN, cash: Cashouts \cup {None},
           mm: MMs \cup {None}, amount: Nat, removed: Nat, payment: Nat, age: Nat]
NoEscrow == [live |-> FALSE, is_parlay |-> FALSE, cash |-> None, mm |-> None,
             amount |-> 0, removed |-> 0, payment |-> 0, age |-> 0]

TypeOK ==
    /\ vault \in [MMs -> Vault]
    /\ wallet \in [MMs -> Nat]
    /\ user \in Nat
    /\ parlay \in [Keys -> Parlay]
    /\ stake \in [Keys -> Nat]
    /\ escrow \in [Bets -> Escrow]
    /\ single \in [Bets -> Nat]
    /\ inPlay \in [MMs -> SUBSET Kickoffs] /\ paused \in BOOLEAN
    /\ fills \in Nat /\ reused \subseteq Bets

Init ==
    /\ vault = [m \in MMs |-> [liability |-> 0, enc |-> 0, cashouts |-> 0]]
    /\ wallet = MMFunds
    /\ user = UserFunds
    /\ parlay = [k \in Keys |-> NoParlay]
    /\ stake = [k \in Keys |-> 0]
    /\ escrow = [b \in Bets |-> NoEscrow]
    /\ single = [b \in Bets |-> SinglePieces]
    /\ inPlay = [m \in MMs |-> {}]
    /\ paused = FALSE
    /\ fills = 0
    /\ reused = {}

Exists(k) == parlay[k].result # "Absent"

\* A parlay's cashout escrow is live at bet id b.
ParlayHolds(b) == escrow[b].live /\ escrow[b].is_parlay

-----------------------------------------------------------------------------
(* fill_parlay and fill_rfq_parlay *)

\* compute_liability_shortfall: sent by the MM's program in the fill CPI.
Shortfall(v, profit) == profit - LesserOf(profit, v.liability - v.enc)

\* create_parlay_bet_account: every leg pending, one filler.
NewParlay(b, m, legs, odds, amount) ==
    [result |-> "Pending", legs |-> legs,
     grades |-> [i \in DOMAIN legs |-> "Pending"],
     amount |-> amount, payout |-> Payout(amount, odds),
     filler |-> m, key |-> b, by |-> None]

\* What both instructions do once their checks passed.
OpenParlay(b, m, legs, odds, amount) ==
    LET profit == Profit(amount, odds)
        sent == Shortfall(vault[m], profit)
    IN  /\ ~paused /\ ~Exists(b)
        /\ amount <= user
        /\ vault[m].enc <= vault[m].liability /\ sent <= wallet[m]
        /\ vault' = [vault EXCEPT ![m].liability = @ + sent, ![m].enc = @ + profit]
        /\ wallet' = [wallet EXCEPT ![m] = @ - sent]
        /\ user' = user - amount
        /\ parlay' = [parlay EXCEPT ![b] = NewParlay(b, m, legs, odds, amount)]
        /\ stake' = [stake EXCEPT ![b] = @ + amount]
        /\ fills' = fills + 1
        /\ reused' = IF ParlayHolds(b) THEN reused \cup {b} ELSE reused
        /\ UNCHANGED <<escrow, single, inPlay, paused>>

\* validate_event_state_sequence: a pregame market is taken at sequence 1 of the
\* event, one on the game in play later; seen is what an MM says is in play.
Quotable(legs, seen) ==
    \A i \in DOMAIN legs : legs[i].mkt \in LiveMarkets <=> EventOf[legs[i].mkt] \in seen

\* FillParlayView::decode and the quote of the MM, whose price must be the
\* product of the leg prices and at least the user's minimum; the MM may
\* quote less than the stake asked for.
FillParlay(b, m, legs, odds, amount) ==
    /\ Len(legs) \in 2..MaxLegs
    /\ UniqueMarkets(legs) /\ Quotable(legs, inPlay[m])
    /\ odds > Scale /\ odds = ProductOdds(legs)
    /\ OpenParlay(b, m, legs, odds, amount)

\* FillRfqParlayView::decode; the legs, their prices and their event states are
\* signed, and may be older than the MM's own state is now.
FillRfqParlay(b, m, legs, odds, amount) ==
    /\ Len(legs) \in 2..MaxRfqLegs
    /\ UniqueMarkets(legs) /\ EveryEventPriced(legs)
    /\ \E seen \in SUBSET inPlay[m] : Quotable(legs, seen)
    /\ odds > Scale /\ odds = ProductOdds(legs)
    /\ OpenParlay(b, m, legs, odds, amount)

-----------------------------------------------------------------------------
(* grade_parlay *)

Marked(t, marks) ==
    [i \in DOMAIN t.grades |-> IF marks[i] = None THEN t.grades[i] ELSE marks[i]]

\* Each leg is marked or skipped, over any earlier mark; the ticket takes the
\* fold.  A ticket cashed out in full takes RolledBack only.
GradeParlay(k, marks) ==
    LET t == parlay[k] IN
    /\ ~paused /\ Exists(k)
    /\ \E i \in DOMAIN t.grades : marks[i] # None
    /\ t.result = "CashedOut" => \A i \in DOMAIN t.grades : marks[i] \in {None, "RolledBack"}
    /\ parlay' = [parlay EXCEPT
           ![k].grades = Marked(t, marks), ![k].result = FoldResult(Marked(t, marks))]
    /\ UNCHANGED <<money, stake, escrow, single, inPlay, paused, fills, reused>>

-----------------------------------------------------------------------------
(* settle_parlay *)

\* No cashout escrow is live at the ticket's bet id: a single bet's would do.
Final(t) ==
    /\ t.result \in Settleable
    /\ ~escrow[t.key].live

\* Fault: a ModifiedWin may return more than the payout that was reserved.
UserReturnUncapped(t) ==
    CASE t.result = "Won" -> t.payout
      [] t.result = "Lost" -> 0
      [] t.result \in LegVoids -> t.amount
      [] OTHER -> ModifiedReturn(t.amount, t.legs, t.grades)

\* user_return: a ModifiedWin is paid from the odds that are left.
UserReturn(t) ==
    CASE t.result = "Won" -> t.payout
      [] t.result = "Lost" -> 0
      [] t.result \in LegVoids -> t.amount
      [] OTHER -> LesserOf(ModifiedReturn(t.amount, t.legs, t.grades), t.payout)

\* The profit moves unless the filler bought the ticket from the user.
ProfitMoved(t) ==
    IF t.filler = t.by THEN 0 ELSE UserReturn(t) - LesserOf(UserReturn(t), t.amount)

StakeKept(t) == t.amount - LesserOf(UserReturn(t), t.amount)

CanSettle(k) ==
    LET t == parlay[k] IN
    /\ ~paused
    /\ Exists(k) /\ Final(t)
    /\ t.result = "ModifiedWin" => "Pending" \notin Range(t.grades)
    /\ ProfitMoved(t) <= vault[t.filler].liability
    /\ t.amount <= stake[k]
    /\ t.amount <= t.payout /\ t.payout - t.amount <= vault[t.filler].enc
    /\ t.by # None => vault[t.by].cashouts > 0

\* Stake that is not kept, and dust, follow the profit: to the user, or to the
\* liability account of the MM that bought the ticket.
SettleParlay(k) ==
    LET t == parlay[k]
        proceeds == stake[k] - StakeKept(t) + ProfitMoved(t)
    IN  /\ CanSettle(k)
        /\ vault' = [m \in MMs |->
               [vault[m] EXCEPT
                   !.liability = @ + (IF m = t.filler THEN StakeKept(t) - ProfitMoved(t) ELSE 0)
                                   + (IF m = t.by THEN proceeds ELSE 0),
                   !.enc = @ - (IF m = t.filler THEN t.payout - t.amount ELSE 0),
                   !.cashouts = @ - (IF m = t.by THEN 1 ELSE 0)]]
        /\ user' = IF t.by = None THEN user + proceeds ELSE user
        /\ parlay' = [parlay EXCEPT ![k] = NoParlay]
        /\ stake' = [stake EXCEPT ![k] = 0]
        /\ UNCHANGED <<wallet, escrow, single, inPlay, paused, fills, reused>>

-----------------------------------------------------------------------------
(* fill_parlay_cashout and fill_rfq_parlay_cashout *)

\* cashout_requires_delay: some leg is on the game in play, or the buying MM
\* says that its event is.  Other MMs may see the event otherwise.
NeedsDelay(b, seen) ==
    LET legs == parlay[b].legs IN
    \E i \in DOMAIN legs : legs[i].mkt \in LiveMarkets \/ EventOf[legs[i].mkt] \in seen

\* require_cashout_sequence_at_least
NotOlder(legs, seen) ==
    \A i \in DOMAIN legs : legs[i].mkt \in LiveMarkets => EventOf[legs[i].mkt] \in seen

\* pay_cashout_from_free_liability
FromLiability(m, payment) ==
    LesserOf(payment, vault[m].liability - vault[m].enc)

Removed(b, amount) ==
    ProportionalPayout(parlay[b].amount, parlay[b].payout, amount)

\* validate_parlay_cashout_orig_ticket and accept_cashout_payment
CanCashout(b, c, m, seen, amount, payment) ==
    LET t == parlay[b] IN
    /\ ~paused
    /\ t.result = "Pending" /\ Range(t.grades) = {"Pending"}
    /\ NotOlder(t.legs, seen)
    /\ ~Exists(c)
    /\ amount \in 1..t.amount /\ amount <= stake[b]
    /\ NeedsDelay(b, seen) => ~escrow[b].live
    /\ payment \in 1..Removed(b, amount)
    /\ vault[m].enc <= vault[m].liability
    /\ payment - FromLiability(m, payment) <= wallet[m]

\* create_cashout_parlay_account: the legs with the grades they have.
CashoutTicket(b, m, amount) ==
    [parlay[b] EXCEPT !.amount = amount, !.payout = Removed(b, amount), !.by = m]

\* Fault: the payout that leaves the ticket is rounded up.
RemainingTicketRoundedUp(b, amount) ==
    LET t == parlay[b] IN
    [t EXCEPT !.amount = @ - amount,
              !.payout = @ - LesserOf(t.payout, Removed(b, amount) + 1),
              !.result = IF amount = t.amount THEN "CashedOut" ELSE "Pending"]

RemainingTicket(b, amount) ==
    LET t == parlay[b] IN
    [t EXCEPT !.amount = @ - amount, !.payout = @ - Removed(b, amount),
              !.result = IF amount = t.amount THEN "CashedOut" ELSE "Pending"]

NewEscrow(b, c, m, amount, payment) ==
    [live |-> TRUE, is_parlay |-> TRUE, cash |-> c, mm |-> m, amount |-> amount,
     removed |-> Removed(b, amount), payment |-> payment, age |-> 0]

\* Only a full cashout without a delay closes the ticket.  Nothing asks whether
\* it passes a live escrow.
Closes(b, seen, amount) == ~NeedsDelay(b, seen) /\ amount = parlay[b].amount

\* finish_cashout_parlay.  seen: the events in play by the snapshots, which are
\* compared with the buyer's event states, or signed by it at some time before.
CashoutParlay(b, c, m, seen, amount, payment) ==
    LET delay == NeedsDelay(b, seen)
        closes == Closes(b, seen, amount)
        dust == IF closes THEN stake[b] - amount ELSE 0
    IN  /\ CanCashout(b, c, m, seen, amount, payment)
        /\ vault' = [vault EXCEPT ![m].liability = @ - FromLiability(m, payment),
                                  ![m].cashouts = @ + 1]
        /\ wallet' = [wallet EXCEPT ![m] = @ - (payment - FromLiability(m, payment))]
        /\ user' = user + dust + (IF delay THEN 0 ELSE payment)
        /\ escrow' = IF delay
                     THEN [escrow EXCEPT ![b] = NewEscrow(b, c, m, amount, payment)]
                     ELSE escrow
        /\ parlay' = [parlay EXCEPT
               ![c] = CashoutTicket(b, m, amount),
               ![b] = IF closes THEN NoParlay ELSE RemainingTicket(b, amount)]
        /\ stake' = [stake EXCEPT ![c] = @ + amount, ![b] = @ - amount - dust]
        /\ UNCHANGED <<single, inPlay, paused, fills, reused>>

-----------------------------------------------------------------------------
(* claim_cashout_escrow and revert_cashout of a parlay *)

HasRolledBack(b) ==
    \/ parlay[b].result = "RolledBack"
    \/ parlay[escrow[b].cash].result = "RolledBack"

\* Fault: claims and reverts wait for a graded ticket to be settled.
CanResolveUngraded(b) ==
    /\ ~paused
    /\ escrow[b].live /\ escrow[b].is_parlay
    /\ Exists(b) /\ Exists(escrow[b].cash)
    /\ parlay[escrow[b].cash].by = escrow[b].mm
    /\ parlay[b].result \notin Settleable

\* Both PDAs the escrow names are open, and the cashout is the one it names.
CanResolve(b) ==
    /\ ~paused
    /\ escrow[b].live /\ escrow[b].is_parlay
    /\ Exists(b) /\ Exists(escrow[b].cash)
    /\ parlay[escrow[b].cash].by = escrow[b].mm

CanClaim(b) == CanResolve(b) /\ escrow[b].age >= Delay /\ ~HasRolledBack(b)

ClaimCashoutEscrow(b) ==
    LET closes == parlay[b].result = "CashedOut"
        dust == IF closes THEN stake[b] ELSE 0
    IN  /\ CanClaim(b)
        /\ user' = user + escrow[b].payment + dust
        /\ escrow' = [escrow EXCEPT ![b] = NoEscrow]
        /\ parlay' = IF closes THEN [parlay EXCEPT ![b] = NoParlay] ELSE parlay
        /\ stake' = [stake EXCEPT ![b] = @ - dust]
        /\ UNCHANGED <<vault, wallet, single, inPlay, paused, fills, reused>>

\* Fault: the payout of the cashed slice is not given back.
RestoredStakeOnly(b) ==
    LET t == parlay[b] IN
    [t EXCEPT !.amount = @ + escrow[b].amount,
              !.result = IF @ = "RolledBack" THEN @ ELSE "Pending"]

\* add_parlay_amounts: the grades of the legs stay as they are.
Restored(b) ==
    LET t == parlay[b] IN
    [t EXCEPT !.amount = @ + escrow[b].amount, !.payout = @ + escrow[b].removed,
              !.result = IF @ = "RolledBack" THEN @ ELSE "Pending"]

\* A rollback needs no delay.
CanRevert(b) ==
    /\ CanResolve(b) /\ HasRolledBack(b)
    /\ escrow[b].amount <= stake[escrow[b].cash]
    /\ vault[escrow[b].mm].cashouts > 0

RevertCashout(b) ==
    LET e == escrow[b] IN
    /\ CanRevert(b)
    /\ parlay' = [parlay EXCEPT ![b] = Restored(b), ![e.cash] = NoParlay]
    /\ stake' = [stake EXCEPT ![b] = @ + e.amount, ![e.cash] = 0]
    /\ user' = user + (stake[e.cash] - e.amount)
    /\ vault' = [vault EXCEPT ![e.mm].liability = @ + e.payment,
                              ![e.mm].cashouts = @ - 1]
    /\ escrow' = [escrow EXCEPT ![b] = NoEscrow]
    /\ UNCHANGED <<wallet, single, inPlay, paused, fills, reused>>

-----------------------------------------------------------------------------
(* Around the tickets *)

\* The single bet with bet id b is cashed out live; its escrow PDA is b's.
CashoutSingle(b) ==
    /\ ~paused
    /\ single[b] > 0 /\ ~escrow[b].live
    /\ single' = [single EXCEPT ![b] = @ - 1]
    /\ escrow' = [escrow EXCEPT ![b] = [NoEscrow EXCEPT !.live = TRUE]]
    /\ UNCHANGED <<money, parlay, stake, inPlay, paused, fills, reused>>

\* Its escrow is claimed or reverted, if it can be: a single bet's escrow may be
\* left without its bet, and then stays.
ResolveSingle(b) ==
    /\ ~paused
    /\ escrow[b].live /\ ~escrow[b].is_parlay
    /\ escrow[b].age >= Delay
    /\ escrow' = [escrow EXCEPT ![b] = NoEscrow]
    /\ UNCHANGED <<money, parlay, stake, single, inPlay, paused, fills, reused>>

Tick ==
    /\ \E b \in Bets : escrow[b].live /\ escrow[b].age < Delay
    /\ escrow' = [b \in Bets |->
           IF escrow[b].live THEN [escrow[b] EXCEPT !.age = LesserOf(@ + 1, Delay)]
           ELSE escrow[b]]
    /\ UNCHANGED <<money, parlay, stake, single, inPlay, paused, fills, reused>>

\* withdraw_from_liability_account
Withdraw(m, amount) ==
    /\ ~paused
    /\ vault[m].enc <= vault[m].liability
    /\ amount <= vault[m].liability - vault[m].enc
    /\ vault' = [vault EXCEPT ![m].liability = @ - amount]
    /\ wallet' = [wallet EXCEPT ![m] = @ + amount]
    /\ UNCHANGED <<user, parlay, stake, escrow, single, inPlay, paused, fills, reused>>

\* Each MM program keeps event states of its own; m posts that event is in play.
GoLive(m, event) ==
    /\ event \notin inPlay[m]
    /\ inPlay' = [inPlay EXCEPT ![m] = @ \cup {event}]
    /\ UNCHANGED <<money, parlay, stake, escrow, single, paused, fills, reused>>

ChangeConfigStatus ==
    /\ paused' = ~paused
    /\ UNCHANGED <<money, parlay, stake, escrow, single, inPlay, fills, reused>>

-----------------------------------------------------------------------------
(* Specification *)

FillStep(b) ==
    /\ fills < MaxFills
    /\ \E m \in MMs, legs \in Slips, odds \in Prices, amount \in Amounts :
            FillParlay(b, m, legs, odds, amount) \/ FillRfqParlay(b, m, legs, odds, amount)

GradeStep(k) ==
    \E marks \in [DOMAIN parlay[k].grades -> Grades \cup {None}] : GradeParlay(k, marks)

CashoutStep(b) ==
    \E c \in Cashouts, m \in MMs, payment \in Payments :
        \E seen \in SUBSET inPlay[m], amount \in 1..parlay[b].amount :
            CashoutParlay(b, c, m, seen, amount, payment)

Next ==
    \/ \E b \in Bets : FillStep(b)
    \/ \E k \in Keys : GradeStep(k)
    \/ \E k \in Keys : SettleParlay(k)
    \/ \E b \in Bets : CashoutStep(b)
    \/ \E b \in Bets : ClaimCashoutEscrow(b)
    \/ \E b \in Bets : RevertCashout(b)
    \/ \E b \in Bets : CashoutSingle(b)
    \/ \E b \in Bets : ResolveSingle(b)
    \/ \E m \in MMs, amount \in Transfers : Withdraw(m, amount)
    \/ Tick
    \/ \E m \in MMs, event \in Kickoffs : GoLive(m, event)
    \/ MayPause /\ ChangeConfigStatus

Spec == Init /\ [][Next]_vars

-----------------------------------------------------------------------------
(* Properties *)

\* The encumbrance of an MM is the profit of the open tickets it filled, in
\* the user's hands or bought back, through partial cashouts and reverts, so
\* the subtraction in settle_parlay never underflows.  This ends where a bet id
\* is filled again under an escrow that lost its ticket: a revert then adds the
\* old slice to the new ticket, whose filler reserved nothing for it.
ReservesExact ==
    reused = {} => \A m \in MMs :
        vault[m].enc = Total([k \in Keys |-> IF parlay[k].filler = m
                                             THEN parlay[k].payout - parlay[k].amount ELSE 0])

\* However a ticket was cut, each piece still pays at least its stake: the
\* profit that settle_parlay computes from it is not negative.
PiecesKeepProfit == \A k \in Keys : parlay[k].amount <= parlay[k].payout

\* A graded ticket with no escrow at its bet id can be settled: whatever was
\* sold, withdrawn and settled before, the money and the counters are there,
\* and the odds that are left can be computed.
PayableWhenGraded ==
    reused = {} => \A k \in Keys : Exists(k) /\ Final(parlay[k]) /\ ~paused => CanSettle(k)

\* Whatever the MMs' event states are, no instruction but the escrow's own claim
\* or revert takes the cashout ticket from a live escrow or changes its amounts;
\* and the ticket it was cut from, while it is there, has the same filler.
EscrowLinked ==
    \A b \in Bets :
        ParlayHolds(b) =>
            LET co == parlay[escrow[b].cash] IN
            /\ Exists(escrow[b].cash)
            /\ co.key = b /\ co.by = escrow[b].mm
            /\ co.amount = escrow[b].amount /\ co.payout = escrow[b].removed
            /\ co.amount <= stake[escrow[b].cash]
            /\ Exists(b) /\ b \notin reused => co.filler = parlay[b].filler

\* Only a cashout without a delay, so of a ticket with no leg on a game in play,
\* closes a ticket under its live escrow: no settlement, and no claim or revert
\* of another escrow, does.
TicketsHeld ==
    [][\A b \in Bets :
           ParlayHolds(b) /\ escrow'[b].live /\ Exists(b) /\ ~Exists(b)' =>
               /\ \A i \in DOMAIN parlay[b].legs : parlay[b].legs[i].mkt \notin LiveMarkets
               /\ \E m \in MMs : vault'[m].cashouts > vault[m].cashouts]_vars

\* After the delay anyone can claim or revert an escrow whose ticket is there,
\* however its tickets were graded, regraded and sold on meanwhile: the cashout
\* is still the one it names, with the stake to give back and a counter to take
\* it from.  An escrow whose ticket a cashout without a delay closed has no way
\* out until the bet id is filled again.
EscrowResolvable ==
    \A b \in Bets :
        ParlayHolds(b) /\ Exists(b) /\ escrow[b].age >= Delay /\ ~paused =>
            CanClaim(b) \/ CanRevert(b)

\* Tokens are neither made nor lost.
Supply ==
    user + Total(wallet) + Total(stake)
         + Total([m \in MMs |-> vault[m].liability])
         + Total([b \in Bets |-> escrow[b].payment])
Conserved == Supply = UserFunds + Total(MMFunds)
=============================================================================
