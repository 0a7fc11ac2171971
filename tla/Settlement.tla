----------------------------- MODULE Settlement -----------------------------
(***************************************************************************)
(* Grading and settlement of single-bet and cashout tickets.  grade_bets   *)
(* writes a result and moves nothing; settle_bet is permissionless, pays a *)
(* graded ticket, unwinds its reservations and closes it.                  *)
(***************************************************************************)
EXTENDS Custody

CONSTANT Grades    \* the results the operator hands out

ASSUME SettlementAssumption == Grades \subseteq GradeResults

\* grade_bets: any result over any other, except that a bet that was cashed
\* out in full (and waits for its escrow) can only be rolled back.
GradeBet(k, result) ==
    /\ ~paused
    /\ Exists(k)
    /\ ticket[k].result = "CashedOut" => result = "RolledBack"
    /\ ticket' = [ticket EXCEPT ![k].result = result]
    /\ UNCHANGED <<money, stake, escrow, live, paused>>

-----------------------------------------------------------------------------
(* settle_bet *)

\* filler_token_amounts: profit from the liability account to the winner, and
\* lost stake from the ticket to the liability account.
ProfitDue(result, s) ==
    CASE result = "Won" -> Profit(s.amount, s.odds)
      [] result = "HalfWon" -> Profit(s.amount \div 2, s.odds)
      [] OTHER -> 0

StakeLost(result, s) ==
    CASE result = "Lost" -> s.amount
      [] result = "HalfLost" -> s.amount \div 2
      [] OTHER -> 0

\* user_stake_from_bet_ata
StakeReturned(result, amount) ==
    CASE result = "Lost" -> 0
      [] result = "HalfLost" -> amount \div 2
      [] OTHER -> amount

\* The MM whose profit is not moved: it bought the ticket, so its liability
\* account is both source and destination.
Pays(t, m) == IF m = t.by THEN 0 ELSE ProfitDue(t.result, t.slices[m])

\* Fault: the whole reservation is released though the peak stays.
DropGross(t, m) == t.slices[m].reserved

\* The encumbrance that slice m of the ticket releases.
Drop(t, m) ==
    LET s == t.slices[m] IN
    IF s.netted THEN PeakDrop(book[m], t.mkt, t.side, s.reserved)
    ELSE s.reserved

\* A slice that settle_bet skips altogether.
Idle(s) == s.amount = 0 /\ s.reserved = 0

\* The accounts and balances the payment of slice m needs.
CanPay(t, m) ==
    LET s == t.slices[m] IN
    /\ s.amount > 0 => vault[m].exists /\ Pays(t, m) <= vault[m].liability
    /\ ~Idle(s) => /\ s.netted => CanUnnet(book[m], t.mkt, t.side, s.reserved)
                   /\ Drop(t, m) <= vault[m].enc

\* Fault: settlement does not look for an escrow.
FinalOnceGraded(t) == t.result \in GradeResults

\* The ticket is final: graded, and no escrow of its bet id is live.
Final(t) ==
    /\ t.result \in GradeResults
    /\ ~EscrowLive(t.key)

StakeLosses(t) == [m \in MMs |-> StakeLost(t.result, t.slices[m])]

CanSettle(k) ==
    LET t == ticket[k] IN
    /\ ~paused
    /\ Exists(k) /\ Final(t)
    /\ \A m \in MMs : CanPay(t, m)
    /\ t.by # None => vault[t.by].exists /\ vault[t.by].cashouts > 0
    /\ Total(StakeLosses(t)) + StakeReturned(t.result, t.amount) <= stake[k]

\* Whatever the losing slices do not take leaves with the stake: returned
\* stake, rounding dust and tokens donated to the ticket's account.
SettleBet(k) ==
    LET t == ticket[k]
        leftover == stake[k] - Total(StakeLosses(t))
        proceeds == leftover + Total([m \in MMs |-> Pays(t, m)])
    IN  /\ CanSettle(k)
        /\ vault' = [m \in MMs |->
               [vault[m] EXCEPT
                   !.liability = @ - Pays(t, m) + StakeLosses(t)[m]
                                   + (IF m = t.by THEN proceeds ELSE 0),
                   !.enc = @ - Drop(t, m),
                   !.cashouts = @ - (IF m = t.by THEN 1 ELSE 0)]]
        /\ book' = [m \in MMs |->
               IF t.slices[m].netted
               THEN Unnetted(book[m], t.mkt, t.side, t.slices[m].reserved)
               ELSE book[m]]
        /\ user' = IF t.by = None THEN user + proceeds ELSE user
        /\ ticket' = [ticket EXCEPT ![k] = NoTicket]
        /\ stake' = [stake EXCEPT ![k] = 0]
        /\ UNCHANGED <<wallet, escrow, live, paused>>
=============================================================================
