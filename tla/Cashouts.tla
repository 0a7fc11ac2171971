------------------------------ MODULE Cashouts ------------------------------
(***************************************************************************)
(* Selling part of a pending bet to a market maker.  The stake slice moves *)
(* to a cashout ticket that pays the buying MM; the payment goes to the    *)
(* user at once before the event, and through an escrow that can be        *)
(* claimed after LIVE_CASHOUT_DELAY once it is live.                       *)
(***************************************************************************)
EXTENDS Custody

CONSTANTS
    Payments,   \* payments MMs offer
    Delay       \* LIVE_CASHOUT_DELAY, in ticks

ASSUME CashoutsAssumption ==
    /\ Payments \subseteq Nat \ {0}
    /\ Delay \in Nat

-----------------------------------------------------------------------------
(* split_fillers *)

\* cashed[m] for every MM; an MM that is not a filler has nothing to cash.
CashedAmounts(t, cashed) ==
    LET n == Len(t.fillers)
        shares == CashedShares([i \in 1..n |-> t.slices[t.fillers[i]].amount],
                               t.amount, cashed)
        Of(m) == CHOOSE i \in 1..n : t.fillers[i] = m
    IN  [m \in MMs |-> IF m \in Range(t.fillers) THEN shares[Of(m)] ELSE 0]

\* The checks of split_fillers: no subtraction underflows, and the sums fit.
SplitOk(t, amount, split) ==
    /\ \A m \in MMs : split[m] \in 0..t.slices[m].amount
    /\ Total(split) = amount

\* Fault: rounded down once for the ticket and not once per slice.
PayoutRemovedAtOnce(t, split) ==
    ProportionalPayout(t.amount, t.payout, Total(split))

\* payout_removed: the face payout of the cashed slices.
PayoutRemoved(t, split) ==
    Total([m \in MMs |-> Payout(split[m], t.slices[m].odds)])

-----------------------------------------------------------------------------
(* cashout_bet and cashout_rfq_bet *)

\* cashout_requires_delay: a ticket filled live, or a live event state now.
NeedsDelay(b, m) == ticket[b].live \/ live[m]

Spare(m) == vault[m].liability - vault[m].enc

\* cashout_amount_to_send: free collateral pays first and reserves nothing.
FromLiability(m, payment) == LesserOf(payment, Spare(m))

CanCashout(b, c, m, amount, payment, split) ==
    LET t == ticket[b] IN
    /\ ~paused
    /\ t.result = "Pending" /\ ~Exists(c)
    /\ amount \in 1..t.amount
    /\ amount <= stake[b]
    /\ SplitOk(t, amount, split)
    /\ vault[m].exists
    /\ t.live => live[m]
    /\ NeedsDelay(b, m) => ~EscrowLive(b)
    /\ payment <= PayoutRemoved(t, split)
    /\ PayoutRemoved(t, split) <= t.payout
    /\ vault[m].enc <= vault[m].liability
    /\ payment - FromLiability(m, payment) <= wallet[m]

\* Fault: the ticket does not say which MM bought it.
CashoutTicketUnowned(b, m, amount, split) ==
    LET t == ticket[b] IN
    [t EXCEPT !.amount = amount, !.payout = PayoutRemoved(t, split),
              !.slices = [n \in MMs |-> CashedSlice(t.slices[n], split[n])]]

\* The slice of the bet that becomes the cashout ticket, and what is left.
CashoutTicket(b, m, amount, split) ==
    LET t == ticket[b] IN
    [t EXCEPT !.amount = amount, !.payout = PayoutRemoved(t, split),
              !.slices = [n \in MMs |-> CashedSlice(t.slices[n], split[n])],
              !.by = m]

\* Fault: any cashout marks the bet as cashed out in full.
RemainingTicketGone(b, amount, split) ==
    LET t == ticket[b] IN
    [t EXCEPT !.amount = @ - amount, !.payout = @ - PayoutRemoved(t, split),
              !.slices = [n \in MMs |-> RemainingSlice(t.slices[n], split[n])],
              !.result = "CashedOut"]

RemainingTicket(b, amount, split) ==
    LET t == ticket[b] IN
    [t EXCEPT !.amount = @ - amount, !.payout = @ - PayoutRemoved(t, split),
              !.slices = [n \in MMs |-> RemainingSlice(t.slices[n], split[n])],
              !.result = IF amount = t.amount THEN "CashedOut" ELSE "Pending"]

\* Fault: the bet id is recorded as the cashout id.
NewEscrowSwappedIds(b, c, m, amount, payment, split) ==
    [cash |-> b, mm |-> m, amount |-> amount,
     removed |-> PayoutRemoved(ticket[b], split), payment |-> payment, age |-> 0]

NewEscrow(b, c, m, amount, payment, split) ==
    [cash |-> c, mm |-> m, amount |-> amount,
     removed |-> PayoutRemoved(ticket[b], split), payment |-> payment, age |-> 0]

\* Fault: a full cashout closes the bet although an escrow is opened on it.
ClosesWhenEmpty(b, m, amount) == amount = ticket[b].amount

\* A full cashout without delay closes the bet.
Closes(b, m, amount) == ~NeedsDelay(b, m) /\ amount = ticket[b].amount

\* finish_cashout_single.  When the bet closes its dust goes to the user.
CashoutBet(b, c, m, amount, payment) ==
    LET split == CashedAmounts(ticket[b], amount)
        delay == NeedsDelay(b, m)
        closes == Closes(b, m, amount)
        dust == IF closes THEN stake[b] - amount ELSE 0
    IN  /\ CanCashout(b, c, m, amount, payment, split)
        /\ vault' = [vault EXCEPT ![m].liability = @ - FromLiability(m, payment),
                                  ![m].cashouts = @ + 1]
        /\ wallet' = [wallet EXCEPT ![m] = @ - (payment - FromLiability(m, payment))]
        /\ user' = user + dust + (IF delay THEN 0 ELSE payment)
        /\ escrow' = IF delay
                     THEN [escrow EXCEPT ![b] = NewEscrow(b, c, m, amount, payment, split)]
                     ELSE escrow
        /\ ticket' = [ticket EXCEPT
               ![c] = CashoutTicket(b, m, amount, split),
               ![b] = IF closes THEN NoTicket ELSE RemainingTicket(b, amount, split)]
        /\ stake' = [stake EXCEPT ![c] = @ + amount, ![b] = @ - amount - dust]
        /\ UNCHANGED <<book, live, paused>>

-----------------------------------------------------------------------------
(* Escrow *)

\* claim_cashout_escrow: permissionless after the delay, for the user, unless
\* either side was rolled back.  A bet cashed out in full closes with it.
ClaimCashoutEscrow(b) ==
    LET e == escrow[b]
        closes == ticket[b].result = "CashedOut"
        dust == IF closes THEN stake[b] ELSE 0
    IN  /\ ~paused
        /\ EscrowLive(b)
        /\ e.age >= Delay
        /\ Exists(b) /\ Exists(e.cash) /\ ticket[e.cash].by = e.mm
        /\ ticket[b].result # "RolledBack" /\ ticket[e.cash].result # "RolledBack"
        /\ user' = user + e.payment + dust
        /\ escrow' = [escrow EXCEPT ![b] = NoEscrow]
        /\ ticket' = IF closes THEN [ticket EXCEPT ![b] = NoTicket] ELSE ticket
        /\ stake' = [stake EXCEPT ![b] = @ - dust]
        /\ UNCHANGED <<vault, book, wallet, live, paused>>

\* Fault: the stake is not merged back.
RestoredReserveOnly(t, co) ==
    LET At(m) == CHOOSE i \in DOMAIN t.fillers : t.fillers[i] = m
    IN  [m \in MMs |->
            IF m \in Range(t.fillers)
            THEN [t.slices[m] EXCEPT !.reserved = @ + co.slices[co.fillers[At(m)]].reserved]
            ELSE NoSlice]

\* restore_single merges the slices by their position in the two tickets.
Restored(t, co) ==
    LET At(m) == CHOOSE i \in DOMAIN t.fillers : t.fillers[i] = m
        back(m) == co.slices[co.fillers[At(m)]]
    IN  [m \in MMs |->
            IF m \in Range(t.fillers)
            THEN [t.slices[m] EXCEPT !.amount = @ + back(m).amount,
                                     !.reserved = @ + back(m).reserved]
            ELSE NoSlice]

\* revert_cashout: permissionless once either side is rolled back.  The slice
\* returns to the bet and the payment to the MM.
RevertCashout(b) ==
    LET e == escrow[b]
        t == ticket[b]
        co == ticket[e.cash]
    IN  /\ ~paused
        /\ EscrowLive(b)
        /\ Exists(b) /\ Exists(e.cash)
        /\ t.result = "RolledBack" \/ co.result = "RolledBack"
        /\ co.by = e.mm /\ vault[e.mm].exists /\ vault[e.mm].cashouts > 0
        /\ Len(t.fillers) = Len(co.fillers)
        /\ e.amount <= stake[e.cash]
        /\ ticket' = [ticket EXCEPT
               ![b] = [t EXCEPT
                   !.amount = @ + e.amount, !.payout = @ + e.removed,
                   !.slices = Restored(t, co),
                   !.result = IF @ = "RolledBack" THEN @ ELSE "Pending"],
               ![e.cash] = NoTicket]
        /\ stake' = [stake EXCEPT ![b] = @ + e.amount, ![e.cash] = 0]
        /\ user' = user + (stake[e.cash] - e.amount)
        /\ vault' = [vault EXCEPT ![e.mm].liability = @ + e.payment,
                                  ![e.mm].cashouts = @ - 1]
        /\ escrow' = [escrow EXCEPT ![b] = NoEscrow]
        /\ UNCHANGED <<book, wallet, live, paused>>

\* Time passes for every live escrow.
Tick ==
    /\ \E b \in Bets : EscrowLive(b) /\ escrow[b].age < Delay
    /\ escrow' = [b \in Bets |->
           IF EscrowLive(b)
           THEN [escrow[b] EXCEPT !.age = LesserOf(@ + 1, Delay)]
           ELSE escrow[b]]
    /\ UNCHANGED <<money, ticket, stake, live, paused>>
=============================================================================
