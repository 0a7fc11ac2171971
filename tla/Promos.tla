------------------------------- MODULE Promos -------------------------------
(***************************************************************************)
(* Freebets and odds boosts of one issuer in one mint: vouchers are issued *)
(* and revoked by the issuer, used by one fill, and reinstated or consumed *)
(* by the settlement of the ticket.  A ticket is a single bet or a parlay  *)
(* with one filler and no netting (Singles and Parlays model those); its   *)
(* ModifiedWin returns an amount the operator's leg grades decide.         *)
(***************************************************************************)
EXTENDS Odds, Totals

CONSTANTS
    Freebets, Boosts, \* ids of voucher PDAs, by the seeds they derive from
    Bets,             \* (owner, bet_id) keys, of single bets or parlays
    Parlays,          \* those that are parlays
    None,
    Amounts,          \* amounts of freebets and stakes; MIN_STAKE is the least
    Prices,           \* odds of fills
    BoostShare,       \* boost_bps / BOOST_BPS_SCALE
    Life,             \* longest time to expiry the issuer sets, in ticks
    ReinstateLife,    \* FREEBET_REINSTATE_SECS, in ticks
    Grades,           \* results the operator gives
    Returns,          \* what a ModifiedWin may return
    IssuerFunds, UserFunds, MMFunds,
    MayPause

Promos == Freebets \cup Boosts

Voids == {"Push", "Cancelled", "RolledBack"}
Halves == {"HalfWon", "HalfLost"}

ASSUME PromosAssumption ==
    /\ IsFiniteSet(Promos) /\ Freebets \cap Boosts = {}
    /\ IsFiniteSet(Bets) /\ Parlays \subseteq Bets /\ None \notin Promos
    /\ Amounts \subseteq Nat \ {0} /\ BoostShare \in Nat \ {0}
    /\ Prices \subseteq {p \in Nat : p >= Scale}    \* below is refused
    /\ Life \in Nat \ {0} /\ ReinstateLife \in Nat \ {0} /\ Returns \subseteq Nat
    /\ Grades \subseteq {"Won", "Lost", "ModifiedWin"} \cup Halves \cup Voids
    /\ IssuerFunds \in Nat /\ UserFunds \in Nat /\ MMFunds \in Nat
    /\ MayPause \in BOOLEAN

VARIABLES
    issuer,    \* the issuer PDA and its token account
    auth,      \* the issuer's own tokens
    promo,     \* promo[p]: the voucher PDA
    ticket,    \* ticket[b]: the bet PDA
    stake,     \* stake[b]: its token account
    user,      \* the user's tokens
    mm,        \* the market maker's own tokens, liability account, encumbrance
    paused     \* config status

vars == <<issuer, auth, promo, ticket, stake, user, mm, paused>>

-----------------------------------------------------------------------------
(* Accounts *)

\* A voucher never outlives the expiry it was given last.
LongestLife == IF Life > ReinstateLife THEN Life ELSE ReinstateLife

Issuer == [exists: BOOLEAN, open: Nat, ata: BOOLEAN, balance: Nat]
Promo == [state: {"Unused", "Available", "Used"}, amount: Nat, ttl: 0..LongestLife]
NoPromo == [state |-> "Unused", amount |-> 0, ttl |-> 0]

Results == {"Absent", "Pending", "Won", "Lost", "ModifiedWin"} \cup Halves \cup Voids
Graded == Results \ {"Absent", "Pending"}

\* left is what a ModifiedWin returns, computed from the grades of the legs.
Ticket == [result: Results, promo: Promos \cup {None}, amount: Nat,
           odds: Nat, left: Nat]
NoTicket == [result |-> "Absent", promo |-> None, amount |-> 0, odds |-> 0, left |-> 0]

TypeOK ==
    /\ issuer \in Issuer
    /\ auth \in Nat
    /\ promo \in [Promos -> Promo]
    /\ ticket \in [Bets -> Ticket]
    /\ stake \in [Bets -> Nat]
    /\ user \in Nat
    /\ mm \in [wallet: Nat, liability: Nat, enc: Nat]
    /\ paused \in BOOLEAN

Init ==
    /\ issuer = [exists |-> FALSE, open |-> 0, ata |-> FALSE, balance |-> 0]
    /\ auth = IssuerFunds
    /\ promo = [p \in Promos |-> NoPromo]
    /\ ticket = [b \in Bets |-> NoTicket]
    /\ stake = [b \in Bets |-> 0]
    /\ user = UserFunds
    /\ mm = [wallet |-> MMFunds, liability |-> 0, enc |-> 0]
    /\ paused = FALSE

Exists(b) == ticket[b].result # "Absent"

-----------------------------------------------------------------------------
(* The issuer *)

\* init_promo_issuer
InitPromoIssuer ==
    /\ ~issuer.exists
    /\ issuer' = [issuer EXCEPT !.exists = TRUE, !.open = 0]
    /\ UNCHANGED <<auth, promo, ticket, stake, user, mm, paused>>

\* Fault: the issuer PDA goes while vouchers are open.
RemoveUnderVouchers ==
    /\ issuer.exists
    /\ issuer' = [issuer EXCEPT !.exists = FALSE]
    /\ UNCHANGED <<auth, promo, ticket, stake, user, mm, paused>>

\* remove_promo_issuer: the token account, if one is left, stays behind.
RemovePromoIssuer ==
    /\ issuer.exists /\ issuer.open = 0
    /\ issuer' = [issuer EXCEPT !.exists = FALSE]
    /\ UNCHANGED <<auth, promo, ticket, stake, user, mm, paused>>

\* create_promo_issuer_ata: CreateIdempotent, so that a call for an account that is
\* there changes nothing.
CreatePromoIssuerAta ==
    /\ issuer.exists /\ ~issuer.ata
    /\ issuer' = [issuer EXCEPT !.ata = TRUE]
    /\ UNCHANGED <<auth, promo, ticket, stake, user, mm, paused>>

\* Fault: the account is closed while vouchers are open.
CloseUnderVouchers ==
    /\ issuer.exists /\ issuer.ata
    /\ auth' = auth + issuer.balance
    /\ issuer' = [issuer EXCEPT !.ata = FALSE, !.balance = 0]
    /\ UNCHANGED <<promo, ticket, stake, user, mm, paused>>

\* close_promo_issuer_ata drains it to the issuer.
ClosePromoIssuerAta ==
    /\ issuer.exists /\ issuer.ata /\ issuer.open = 0
    /\ auth' = auth + issuer.balance
    /\ issuer' = [issuer EXCEPT !.ata = FALSE, !.balance = 0]
    /\ UNCHANGED <<promo, ticket, stake, user, mm, paused>>

\* A plain token transfer into the issuer's token account.
DepositPromoFunds(amount) ==
    /\ issuer.ata /\ amount \in 1..auth
    /\ issuer' = [issuer EXCEPT !.balance = @ + amount]
    /\ auth' = auth - amount
    /\ UNCHANGED <<promo, ticket, stake, user, mm, paused>>

\* withdraw_promo_funds: whatever vouchers are open.
WithdrawPromoFunds(amount) ==
    /\ issuer.exists /\ issuer.ata
    /\ amount \in 1..issuer.balance
    /\ issuer' = [issuer EXCEPT !.balance = @ - amount]
    /\ auth' = auth + amount
    /\ UNCHANGED <<promo, ticket, stake, user, mm, paused>>

\* A voucher PDA is created and counted.
Issue(p, amount, ttl) ==
    /\ issuer.exists
    /\ promo[p].state = "Unused"
    /\ promo' = [promo EXCEPT ![p] = [state |-> "Available", amount |-> amount, ttl |-> ttl]]
    /\ issuer' = [issuer EXCEPT !.open = @ + 1]
    /\ UNCHANGED <<auth, ticket, stake, user, mm, paused>>

\* issue_freebet; in issue_boost the amount is max_stake.  Neither looks for the
\* issuer's token account.
IssueFreebet(p, amount, ttl) == p \in Freebets /\ Issue(p, amount, ttl)
IssueBoost(p, amount, ttl) == p \in Boosts /\ Issue(p, amount, ttl)

\* Fault: the issuer's count forgets the revoked voucher.
RevokeUncounted(p) ==
    /\ issuer.exists /\ promo[p].state = "Available"
    /\ promo' = [promo EXCEPT ![p] = NoPromo]
    /\ UNCHANGED <<issuer, auth, ticket, stake, user, mm, paused>>

\* consume_freebet of an available voucher, expired or not.
Revoke(p) ==
    /\ issuer.exists /\ issuer.open > 0
    /\ promo[p].state = "Available"
    /\ promo' = [promo EXCEPT ![p] = NoPromo]
    /\ issuer' = [issuer EXCEPT !.open = @ - 1]
    /\ UNCHANGED <<auth, ticket, stake, user, mm, paused>>

RevokeFreebet(p) == p \in Freebets /\ Revoke(p)
RevokeBoost(p) == p \in Boosts /\ Revoke(p)

-----------------------------------------------------------------------------
(* Fills *)

\* What the MM's program sends for the profit; nothing is netted.
Shortfall(profit) == profit - LesserOf(profit, mm.liability - mm.enc)

\* mark_freebet_used and mark_boost_used
Marked(p) == [promo EXCEPT ![p].state = "Used"]

\* The fill behind all eight instructions, all or nothing.
OpenTicket(b, p, odds, amount) ==
    LET profit == Profit(amount, odds) IN
    /\ ~paused /\ ~Exists(b)
    /\ mm.enc <= mm.liability /\ Shortfall(profit) <= mm.wallet
    /\ promo[p].state = "Available" /\ promo[p].ttl > 0
    /\ ticket' = [ticket EXCEPT ![b] =
           [result |-> "Pending", promo |-> p, amount |-> amount, odds |-> odds, left |-> 0]]
    /\ stake' = [stake EXCEPT ![b] = @ + amount]
    /\ mm' = [wallet |-> mm.wallet - Shortfall(profit),
              liability |-> mm.liability + Shortfall(profit),
              enc |-> mm.enc + profit]
    /\ promo' = Marked(p)
    /\ UNCHANGED <<auth, paused>>

\* The issuer stakes exactly the amount of the freebet.
FreebetFill(b, p, odds) ==
    /\ p \in Freebets
    /\ issuer.exists /\ issuer.ata /\ promo[p].amount <= issuer.balance
    /\ OpenTicket(b, p, odds, promo[p].amount)
    /\ issuer' = [issuer EXCEPT !.balance = @ - promo[p].amount]
    /\ UNCHANGED user

FreebetFillBet(b, p, odds) == b \notin Parlays /\ FreebetFill(b, p, odds)
FreebetFillParlay(b, p, odds) == b \in Parlays /\ FreebetFill(b, p, odds)
FreebetFillRfqBet(b, p, odds) == b \notin Parlays /\ FreebetFill(b, p, odds)
FreebetFillRfqParlay(b, p, odds) == b \in Parlays /\ FreebetFill(b, p, odds)

\* The user stakes, up to max_stake.  Of the issuer's token account the result
\* of the check is dropped, so it may be missing.
BoostedFill(b, p, odds, amount) ==
    /\ p \in Boosts
    /\ issuer.exists
    /\ amount <= promo[p].amount /\ amount <= user
    /\ OpenTicket(b, p, odds, amount)
    /\ user' = user - amount
    /\ UNCHANGED issuer

BoostedFillBet(b, p, odds, amount) == b \notin Parlays /\ BoostedFill(b, p, odds, amount)
BoostedFillParlay(b, p, odds, amount) == b \in Parlays /\ BoostedFill(b, p, odds, amount)
BoostedFillRfqBet(b, p, odds, amount) == b \notin Parlays /\ BoostedFill(b, p, odds, amount)
BoostedFillRfqParlay(b, p, odds, amount) == b \in Parlays /\ BoostedFill(b, p, odds, amount)

-----------------------------------------------------------------------------
(* Grading *)

\* grade_bets or grade_parlay.  Of a single bet the grade is the operator's, of
\* a parlay the fold of its legs' grades.
Grade(b, result, left) ==
    /\ ~paused /\ Exists(b)
    /\ result \in Halves => b \notin Parlays
    /\ result = "ModifiedWin" => b \in Parlays
    /\ ticket' = [ticket EXCEPT ![b].result = result,
                                ![b].left = IF result = "ModifiedWin" THEN left ELSE 0]
    /\ UNCHANGED <<issuer, auth, promo, stake, user, mm, paused>>

-----------------------------------------------------------------------------
(* Settlement *)

\* Half of a stake, as filler_token_amounts rounds it.
Half(amount) == amount \div 2

\* settle_fillers and settle_parlay_core: what leaves the liability account.
MMProfit(t) ==
    CASE t.result = "Won" -> Profit(t.amount, t.odds)
      [] t.result = "HalfWon" -> Profit(Half(t.amount), t.odds)
      [] t.result = "ModifiedWin" ->
             LesserOf(t.left, Payout(t.amount, t.odds)) - LesserOf(t.left, t.amount)
      [] OTHER -> 0

\* What of the stake goes to the MM; the rest goes back to who paid it.
StakeLost(t) ==
    CASE t.result = "Lost" -> t.amount
      [] t.result = "HalfLost" -> Half(t.amount)
      [] t.result = "ModifiedWin" -> t.amount - LesserOf(t.left, t.amount)
      [] OTHER -> 0

\* Fault: a void keeps the voucher used.
AfterFreebetStillUsed(t) ==
    IF t.result \in Voids THEN [promo[t.promo] EXCEPT !.ttl = ReinstateLife]
    ELSE NoPromo

\* apply_freebet_settle_state: a void gives the voucher back, a half result
\* half of it, if that is anything, everything else closes it.
AfterFreebet(t) ==
    LET again == [promo[t.promo] EXCEPT !.state = "Available", !.ttl = ReinstateLife] IN
    IF t.result \in Voids THEN again
    ELSE IF t.result \in Halves /\ Half(t.amount) > 0
    THEN [again EXCEPT !.amount = Half(t.amount)]
    ELSE NoPromo

\* apply_boost_settle_state
AfterBoost(t) ==
    IF t.result \in Voids
    THEN [promo[t.promo] EXCEPT !.state = "Available", !.ttl = ReinstateLife]
    ELSE NoPromo

\* boost_topup, of the profit that the MM paid; BoostShare is in halves.
TopUp(t) ==
    IF t.result \in {"Won", "ModifiedWin", "HalfWon"}
    THEN (MMProfit(t) * BoostShare) \div 2 ELSE 0

\* The checks both settlements make; bump_open_count must not underflow.
CanSettle(b) ==
    LET t == ticket[b] IN
    /\ ~paused
    /\ t.result \in Graded
    /\ issuer.exists /\ issuer.ata
    /\ promo[t.promo].state = "Used"
    /\ MMProfit(t) <= mm.liability
    /\ t.amount <= stake[b]
    /\ Profit(t.amount, t.odds) <= mm.enc

\* The MM's side of a settlement.
PaidByMM(t) ==
    [mm EXCEPT !.liability = @ - MMProfit(t) + StakeLost(t),
               !.enc = @ - Profit(t.amount, t.odds)]

CloseTicket(b, after) ==
    /\ after.state = "Unused" => issuer.open > 0
    /\ promo' = [promo EXCEPT ![ticket[b].promo] = after]
    /\ ticket' = [ticket EXCEPT ![b] = NoTicket]
    /\ stake' = [stake EXCEPT ![b] = 0]
    /\ mm' = PaidByMM(ticket[b])
    /\ UNCHANGED <<auth, paused>>

\* bump_open_count in consume_freebet
Counted(after) == IF after.state = "Unused" THEN issuer.open - 1 ELSE issuer.open

\* The stake, and dust, go back to the issuer.
ReturnFreebet(b) ==
    LET t == ticket[b]
        after == AfterFreebet(t)
    IN  /\ t.promo \in Freebets /\ CanSettle(b)
        /\ CloseTicket(b, after)
        /\ user' = user + MMProfit(t)
        /\ issuer' = [issuer EXCEPT !.balance = @ + stake[b] - StakeLost(t),
                                    !.open = Counted(after)]

SettleFreebet(b) == b \notin Parlays /\ ReturnFreebet(b)
SettleFreebetParlay(b) == b \in Parlays /\ ReturnFreebet(b)

\* Everything goes to the user; a top-up that the issuer cannot pay undoes the
\* whole settlement.
PayBoosted(b) ==
    LET t == ticket[b]
        after == AfterBoost(t)
    IN  /\ t.promo \in Boosts /\ CanSettle(b)
        /\ TopUp(t) <= issuer.balance
        /\ CloseTicket(b, after)
        /\ user' = user + MMProfit(t) + stake[b] - StakeLost(t) + TopUp(t)
        /\ issuer' = [issuer EXCEPT !.balance = @ - TopUp(t), !.open = Counted(after)]

SettleBoostedBet(b) == b \notin Parlays /\ PayBoosted(b)
SettleBoostedParlay(b) == b \in Parlays /\ PayBoosted(b)

-----------------------------------------------------------------------------
(* Around the vouchers *)

\* Time passes towards the expiry of the vouchers.
Tick ==
    /\ \E p \in Promos : promo[p].ttl > 0
    /\ promo' = [p \in Promos |->
           [promo[p] EXCEPT !.ttl = IF @ > 0 THEN @ - 1 ELSE 0]]
    /\ UNCHANGED <<issuer, auth, ticket, stake, user, mm, paused>>

\* withdraw_from_liability_account, of all that is not encumbered.
WithdrawMM ==
    /\ ~paused /\ mm.enc < mm.liability
    /\ mm' = [mm EXCEPT !.wallet = @ + mm.liability - mm.enc, !.liability = mm.enc]
    /\ UNCHANGED <<issuer, auth, promo, ticket, stake, user, paused>>

ChangeConfigStatus ==
    /\ paused' = ~paused
    /\ UNCHANGED <<issuer, auth, promo, ticket, stake, user, mm>>

-----------------------------------------------------------------------------
(* Specification *)

IssuerStep ==
    \/ InitPromoIssuer \/ RemovePromoIssuer
    \/ CreatePromoIssuerAta \/ ClosePromoIssuerAta
    \/ \E amount \in Amounts : DepositPromoFunds(amount) \/ WithdrawPromoFunds(amount)
    \/ \E p \in Promos, amount \in Amounts, ttl \in 1..Life :
           IssueFreebet(p, amount, ttl) \/ IssueBoost(p, amount, ttl)
    \/ \E p \in Promos : RevokeFreebet(p) \/ RevokeBoost(p)

FillStep ==
    \E b \in Bets, p \in Promos, odds \in Prices :
        \/ FreebetFillBet(b, p, odds) \/ FreebetFillParlay(b, p, odds)
        \/ FreebetFillRfqBet(b, p, odds) \/ FreebetFillRfqParlay(b, p, odds)
        \/ \E amount \in Amounts :
               \/ BoostedFillBet(b, p, odds, amount) \/ BoostedFillParlay(b, p, odds, amount)
               \/ BoostedFillRfqBet(b, p, odds, amount)
               \/ BoostedFillRfqParlay(b, p, odds, amount)

SettleStep(b) ==
    \/ SettleFreebet(b) \/ SettleFreebetParlay(b)
    \/ SettleBoostedBet(b) \/ SettleBoostedParlay(b)

Next ==
    \/ IssuerStep
    \/ FillStep
    \/ \E b \in Bets, result \in Grades, left \in Returns : Grade(b, result, left)
    \/ \E b \in Bets : SettleStep(b)
    \/ Tick
    \/ WithdrawMM
    \/ MayPause /\ ChangeConfigStatus

Spec == Init /\ [][Next]_vars

\* All settlements are open to anyone.
Fairness == \A b \in Bets : WF_vars(SettleStep(b))

FairSpec == Spec /\ Fairness

-----------------------------------------------------------------------------
(* Properties *)

\* open_count is the number of voucher PDAs: what the issuer may close, and
\* the subtraction in consume_freebet, rest on it.
OpenCountExact ==
    issuer.open = Cardinality({p \in Promos : promo[p].state # "Unused"})

\* A used voucher belongs to exactly one open ticket and a ticket to a used
\* voucher of an issuer that is still there: reinstated, halved, revoked and
\* issued again, no voucher is ever behind two tickets or stuck behind none.
UsedByOne ==
    /\ \A p \in Promos : promo[p].state = "Used" =>
           \E b \in Bets : \A x \in Bets : Exists(x) /\ ticket[x].promo = p <=> x = b
    /\ \A b \in Bets : Exists(b) => promo[ticket[b].promo].state = "Used" /\ issuer.exists

\* A graded freebet can be settled whatever the issuer and the MM did; a
\* graded boost as soon as the issuer's account holds the top-up.
PayableWhenGraded ==
    \A b \in Bets :
        LET t == ticket[b] IN
        t.result \in Graded /\ ~paused =>
            \/ t.promo \in Freebets /\ CanSettle(b)
            \/ t.promo \in Boosts /\ (issuer.ata => CanSettle(b))

\* Tokens are neither made nor lost: stakes, profits and top-ups only move
\* between the issuer, the user, the MM and the open tickets.
Supply == auth + issuer.balance + Total(stake) + user + mm.wallet + mm.liability
Conserved == Supply = IssuerFunds + UserFunds + MMFunds

\* A graded ticket is settled, or the issuer keeps its account empty or closed.
GradedPromoSettles ==
    \A b \in Bets :
        ticket[b].result \in Graded ~>
            \/ ticket[b].result \notin Graded
            \/ paused
            \/ ticket[b].promo \in Boosts /\ (~issuer.ata \/ issuer.balance < TopUp(ticket[b]))

\* boosted_fill_bet, on the issuer's token account: checked, not debited.  So a
\* boost in use has the account that its settlement needs.
BoostsCanBeToppedUp ==
    \A p \in Boosts : promo[p].state = "Used" => issuer.ata
=============================================================================
