------------------------------- MODULE Singles -------------------------------
(***************************************************************************)
(* The life of single bets: market makers' vaults and books, fills, grades,*)
(* settlement and cashouts, interleaved at the grain of transactions.      *)
(***************************************************************************)
EXTENDS Vaults, Fills, Settlement, Cashouts

CONSTANTS
    Ready,        \* MMs that are set up: vault and netting account exist
    Admins,       \* MMs whose admin takes money out, closes and reopens
    Transfers,    \* amounts an MM deposits or withdraws
    MayPause,     \* the config authority may pause the program
    EventGroups,  \* sets of MMs whose event states leave pregame together
    Dust,         \* tokens donated to a ticket's account, at most
    Winner        \* Winner[mkt]: the side of mkt that really won

ASSUME SinglesAssumption ==
    /\ Dust \in Nat
    /\ Admins \subseteq MMs /\ Ready \subseteq MMs
    /\ Transfers \subseteq Nat
    /\ MayPause \in BOOLEAN /\ EventGroups \subseteq SUBSET MMs
    /\ Winner \in [Mkts -> Sides]

Init ==
    /\ vault = [m \in MMs |->
           IF m \in Ready THEN [NoVault EXCEPT !.exists = TRUE] ELSE NoVault]
    /\ book = [m \in MMs |->
           IF m \in Ready THEN [NoBook EXCEPT !.exists = TRUE] ELSE NoBook]
    /\ wallet = [m \in MMs |-> MMFunds]
    /\ user = UserFunds
    /\ ticket = [k \in Tickets |-> NoTicket]
    /\ stake = [k \in Tickets |-> 0]
    /\ escrow = [b \in Bets |-> NoEscrow]
    /\ live = [m \in MMs |-> FALSE]
    /\ paused = FALSE

\* A plain token transfer to a ticket's account.
Donate(k) ==
    /\ Exists(k) /\ user > 0
    /\ stake[k] < ticket[k].amount + Dust
    /\ user' = user - 1
    /\ stake' = [stake EXCEPT ![k] = @ + 1]
    /\ UNCHANGED <<vault, book, wallet, ticket, escrow, live, paused>>

AdminStep(m) ==
    \/ InitMmMintVault(m)
    \/ CreateNettingAccount(m)
    \/ m \in Admins /\ CloseMmMintVault(m)
    \/ m \in Admins /\ CloseNettingAccount(m)
    \/ m \in Admins /\ \E line \in Lines : AddLine(m, line) \/ RemoveLine(m, line)
    \/ m \in Admins /\ \E amount \in Transfers : Deposit(m, amount) \/ Withdraw(m, amount)

FillStep(b) ==
    \E mkt \in Mkts, side \in Sides, isLive \in BOOLEAN :
        FillBet(b, mkt, side, isLive) \/ FillRfqBet(b, mkt, side, isLive)

CashoutStep(b) ==
    \E c \in Cashouts, m \in MMs, payment \in Payments :
        \E amount \in 1..ticket[b].amount : CashoutBet(b, c, m, amount, payment)

EventStep == \E ms \in EventGroups : GoLive(ms)

Next ==
    \/ \E m \in MMs : AdminStep(m)
    \/ \E b \in Bets : FillStep(b)
    \/ \E b \in Bets : CashoutStep(b)
    \/ \E b \in Bets : ClaimCashoutEscrow(b)
    \/ \E b \in Bets : RevertCashout(b)
    \/ \E k \in Tickets, result \in Grades : GradeBet(k, result)
    \/ \E k \in Tickets : SettleBet(k)
    \/ \E k \in Tickets : Donate(k)
    \/ EventStep
    \/ MayPause /\ ChangeConfigStatus
    \/ Tick

Spec == Init /\ [][Next]_vars

-----------------------------------------------------------------------------
(* The operator the docs trust: a result is given to a ticket only when it *)
(* is what the event produced, or the ticket is voided.                    *)

TruthfulResult(t) ==
    CASE t.result \in {"Won", "HalfWon"} -> t.side = Winner[t.mkt]
      [] t.result \in {"Lost", "HalfLost"} -> t.side # Winner[t.mkt]
      [] OTHER -> TRUE

Truthful == \A k \in Tickets : TruthfulResult(ticket[k])

TrustedNext == Next /\ Truthful'
TrustedSpec == Init /\ [][TrustedNext]_vars

-----------------------------------------------------------------------------
(* Safety *)

OpenTickets == {k \in Tickets : Exists(k)}

\* Profit reserved in full by the unnetted slices MM m still owes.
UnnettedReserve(m) ==
    Total([k \in Tickets |->
              IF ticket[k].slices[m].netted THEN 0 ELSE ticket[k].slices[m].reserved])

\* Profit MM m still owes on one side of a market through netted slices.
NettedReserve(m, mkt, side) ==
    Total([k \in Tickets |->
              IF /\ ticket[k].slices[m].netted
                 /\ ticket[k].mkt = mkt /\ ticket[k].side = side
              THEN ticket[k].slices[m].reserved ELSE 0])

\* The encumbrance of an MM is the profit of its open unnetted slices plus the
\* peak of every market of its book, whatever was filled, cashed out, reverted
\* and settled in between, and in whatever order.
EncumbranceExact ==
    \A m \in MMs :
        vault[m].enc = UnnettedReserve(m)
                         + Total([mkt \in Mkts |-> Peak(book[m].open[mkt])])

\* The netting book holds exactly the profit of the open netted slices, so
\* apply_settle_netting never underflows and closing a book loses nothing.
BookExact ==
    \A m \in MMs, mkt \in Mkts, side \in Sides :
        book[m].open[mkt][side] = NettedReserve(m, mkt, side)

\* Whatever splits and merges a slice went through, its reservation still
\* covers the profit settle_bet would pay on it.
ReserveCoversProfit ==
    \A k \in Tickets, m \in MMs :
        LET s == ticket[k].slices[m] IN
        /\ Profit(s.amount, s.odds) <= s.reserved
        /\ s.amount = 0 => s.reserved = 0

\* A ticket's account holds the stake of its slices, and the slices add up to
\* the ticket, through every cashout and revert.
StakeBacked ==
    \A k \in OpenTickets :
        /\ Total([m \in MMs |-> ticket[k].slices[m].amount]) = ticket[k].amount
        /\ ticket[k].amount <= stake[k]

\* The recorded payout never falls below what the slices can still remove, so
\* a cashout cannot fail on it.
PayoutCoversSlices ==
    \A k \in OpenTickets :
        Total([m \in MMs |-> Payout(ticket[k].slices[m].amount, ticket[k].slices[m].odds)])
            <= ticket[k].payout

\* open_cashout_tickets counts the cashout tickets that pay into the vault, so
\* close_mm_mint_vault never strands one.
CashoutsCounted ==
    \A m \in MMs :
        vault[m].cashouts = Cardinality({c \in Cashouts : ticket[c].by = m})

\* While an escrow is live both tickets it joins are open and still belong
\* together, so it can always be claimed or reverted.
EscrowLinked ==
    \A b \in Bets :
        EscrowLive(b) =>
            LET co == ticket[escrow[b].cash] IN
            /\ Exists(b) /\ Exists(escrow[b].cash)
            /\ co.key = b /\ co.by = escrow[b].mm
            /\ co.amount = escrow[b].amount /\ co.payout = escrow[b].removed
            /\ co.fillers = ticket[b].fillers

\* A bet waits in CashedOut only for an escrow that will resolve it.
CashedOutWaits ==
    \A b \in Bets :
        ticket[b].result = "CashedOut" => EscrowLive(b) /\ ticket[b].amount = 0

\* The accounts a slice with a reservation needs at settlement are there.
ReservedAccountsExist ==
    \A k \in Tickets, m \in MMs :
        LET s == ticket[k].slices[m] IN
        s.reserved > 0 =>
            /\ vault[m].exists
            /\ s.netted => CanUnnet(book[m], ticket[k].mkt, ticket[k].side, s.reserved)

\* Under truthful grades an MM's liability account covers its unnetted slices
\* and, on every market, the profit owed on the side that won.
Solvent ==
    \A m \in MMs :
        vault[m].liability >= UnnettedReserve(m)
            + Total([mkt \in Mkts |-> book[m].open[mkt][Winner[mkt]]])

\* Tokens are neither made nor lost.
Supply ==
    user + Total(wallet) + Total(stake)
         + Total([m \in MMs |-> vault[m].liability])
         + Total([b \in Bets |-> escrow[b].payment])
Conserved == Supply = UserFunds + Total([m \in MMs |-> MMFunds])

\* A graded ticket whose slices all reserve something can be settled, whatever
\* else happened to the MMs' vaults and books.
Reserving(t) == \A m \in MMs : t.slices[m].amount > 0 => t.slices[m].reserved > 0
PayableWhenFinal ==
    \A k \in OpenTickets :
        Final(ticket[k]) /\ Reserving(ticket[k]) /\ ~paused => CanSettle(k)

\* README: anyone may settle graded tickets.  PayableWhenFinal without the
\* restriction to slices that reserve something.
GradedIsSettleable ==
    \A k \in OpenTickets : Final(ticket[k]) /\ ~paused => CanSettle(k)

-----------------------------------------------------------------------------
(* Action properties *)

\* The stake and the reservation MM m has on bet id b, bet and cashouts alike.
PositionStake(b, m) ==
    Total([k \in Tickets |-> IF ticket[k].key = b THEN ticket[k].slices[m].amount ELSE 0])
PositionReserve(b, m) ==
    Total([k \in Tickets |-> IF ticket[k].key = b THEN ticket[k].slices[m].reserved ELSE 0])

\* Opening, claiming and reverting a live cashout move the position between
\* the bet and the cashout ticket: they change neither its stake nor its
\* reservation; and no step leaves a ticket a payout that its slices exceed.
CashoutsKeepPosition ==
    [][/\ PayoutCoversSlices'
       /\ \A b \in Bets :
             escrow'[b].cash # escrow[b].cash =>
                 \A m \in MMs : /\ PositionStake(b, m)' = PositionStake(b, m)
                                /\ PositionReserve(b, m)' = PositionReserve(b, m)]_vars

\* settle_bet, claims, reverts and further cashouts leave both tickets of a
\* live escrow alone until the escrow is resolved: only grades reach them. One
\* step is let through, to the bet alone: another cashout, by an MM for which
\* none needs a delay. If that closes the bet, its id can be filled again.
NoRaces ==
    [][\A b \in Bets :
          EscrowLive(b) /\ escrow'[b].cash = escrow[b].cash =>
              LET c == escrow[b].cash IN
              /\ ticket'[c] = [ticket[c] EXCEPT !.result = ticket'[c].result]
              /\ \/ ticket'[b] = [ticket[b] EXCEPT !.result = ticket'[b].result]
                 \/ ~Exists(b)
                 \/ \E m \in MMs : /\ ~NeedsDelay(b, m)
                                  /\ vault'[m].cashouts > vault[m].cashouts]_vars

\* README: an escrow can be claimed by anyone after LIVE_CASHOUT_DELAY, unless
\* one of its tickets is rolled back; then revert_cashout resolves it.
Resolvable(b) ==
    /\ Exists(b) /\ Exists(escrow[b].cash)
    /\ \/ /\ ticket[b].result # "RolledBack"
          /\ ticket[escrow[b].cash].result # "RolledBack"
       \/ vault[escrow[b].mm].exists
EscrowResolvable ==
    \A b \in Bets : EscrowLive(b) /\ escrow[b].age >= Delay => Resolvable(b)

-----------------------------------------------------------------------------
(* Liveness.  settle_bet, claim_cashout_escrow and revert_cashout need no  *)
(* one's permission, so each is taken if it stays possible; time passes.   *)

Fairness ==
    /\ \A k \in Tickets : WF_vars(SettleBet(k))
    /\ \A b \in Bets : WF_vars(ClaimCashoutEscrow(b)) /\ WF_vars(RevertCashout(b))
    /\ WF_vars(Tick)

FairSpec == Spec /\ Fairness

\* A graded ticket is only ever regraded to RolledBack.
FirmGrades ==
    \A k \in Tickets :
        ticket[k].result \in GradeResults =>
            ticket'[k].result \in {ticket[k].result, "RolledBack", "Pending", "Absent"}

\* Once grades are firm and the program stays unpaused, every escrow is claimed
\* or reverted.
EscrowResolves ==
    (<>[][FirmGrades]_vars /\ <>[]~paused) => \A b \in Bets : EscrowLive(b) ~> ~EscrowLive(b)

\* Once grades are firm and the program stays unpaused, every graded ticket is
\* settled, or a revert makes it pending again.
GradedSettles ==
    (<>[][FirmGrades]_vars /\ <>[]~paused) =>
        \A k \in Tickets :
            ticket[k].result \in GradeResults ~> ticket[k].result \notin GradeResults
=============================================================================
