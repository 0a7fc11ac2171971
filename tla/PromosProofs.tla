---------------------------- MODULE PromosProofs ----------------------------
(***************************************************************************)
(* Vouchers and their issuer, for every number of vouchers and tickets and *)
(* all amounts and prices: the count of open vouchers is exact, a used     *)
(* voucher belongs to one ticket, and a graded ticket can be settled.      *)
(***************************************************************************)
EXTENDS Promos, AmountProofs

(* The strengthening. *)

\* A ticket has a voucher and its stake; what is not there is empty.
TicketsKept ==
    \A b \in Bets :
        IF Exists(b)
        THEN /\ ticket[b].promo \in Promos
             /\ ticket[b].odds >= Scale
             /\ ticket[b].amount <= stake[b]
        ELSE ticket[b] = NoTicket

\* The encumbrance is what the tickets may win, and it is covered.
Wins == [b \in Bets |-> Profit(ticket[b].amount, ticket[b].odds)]
Encumbered == mm.enc = Total(Wins) /\ mm.enc <= mm.liability

\* While a freebet is used, the account that paid its stake is there.
FreebetsReturn ==
    \A b \in Bets : Exists(b) /\ ticket[b].promo \in Freebets => issuer.ata

\* An issuer that was removed has no vouchers open, so that it comes back with
\* a true count of zero.
GoneCountsNone == ~issuer.exists => issuer.open = 0

Kept == TypeOK /\ TicketsKept
IInv ==
    /\ Kept
    /\ GoneCountsNone /\ OpenCountExact
    /\ UsedByOne
    /\ Encumbered
    /\ FreebetsReturn

-----------------------------------------------------------------------------
(* What a settlement moves *)

\* The MM pays at most the profit, and gets at most the stake.
LEMMA SettledAmounts ==
    ASSUME Kept, NEW b \in Bets, Exists(b)
    PROVE  LET t == ticket[b] IN
           /\ t.amount \in Nat
           /\ Profit(t.amount, t.odds) \in Nat
           /\ MMProfit(t) \in Nat /\ MMProfit(t) <= Profit(t.amount, t.odds)
           /\ StakeLost(t) \in Nat /\ StakeLost(t) <= t.amount
           /\ TopUp(t) \in Nat
<1>. DEFINE t == ticket[b]
            p == Profit(t.amount, t.odds)
<1>1. t.amount \in Nat /\ t.odds \in Odd /\ t.left \in Nat
    BY DEF Kept, TypeOK, Ticket, TicketsKept, Odd
<1>2. p \in Nat
    BY <1>1, ProfitType
<1>3. Half(t.amount) \in Nat /\ Half(t.amount) <= t.amount
    BY <1>1 DEF Half
<1>4. Profit(Half(t.amount), t.odds) \in Nat /\ Profit(Half(t.amount), t.odds) <= p
  <2>1. t.amount - Half(t.amount) \in Nat
      BY <1>1, <1>3
  <2>2. Profit(Half(t.amount), t.odds) \in Nat
        /\ Profit(t.amount - Half(t.amount), t.odds) \in Nat
      BY <1>1, <1>3, <2>1, ProfitType
  <2>3. Profit(Half(t.amount), t.odds) + Profit(t.amount - Half(t.amount), t.odds)
          <= Profit(Half(t.amount) + (t.amount - Half(t.amount)), t.odds)
      BY <1>1, <1>3, <2>1, ProfitSuperadditive
  <2>4. Half(t.amount) + (t.amount - Half(t.amount)) = t.amount
      BY <1>1, <1>3
  <2>. QED
      BY <1>2, <2>2, <2>3, <2>4
<1>5. LesserOf(t.left, Payout(t.amount, t.odds)) - LesserOf(t.left, t.amount) \in 0..p
  <2>1. Payout(t.amount, t.odds) = t.amount + p
      BY <1>1, PayoutSplit
  <2>. HIDE DEF p, t
  <2>. QED
      BY <1>1, <1>2, <2>1 DEF LesserOf
<1>6. t.amount - LesserOf(t.left, t.amount) \in 0..t.amount
    BY <1>1 DEF LesserOf
<1>7. MMProfit(t) \in Nat /\ MMProfit(t) <= p
    BY <1>2, <1>4, <1>5 DEF MMProfit
<1>8. StakeLost(t) \in Nat /\ StakeLost(t) <= t.amount
    BY <1>1, <1>3, <1>6 DEF StakeLost
<1>9. TopUp(t) \in Nat
  <2>. DEFINE x == MMProfit(t)
  <2>1. x \in Nat
      BY <1>7
  <2>. HIDE DEF x
  <2>2. (x * BoostShare) \div 2 \in Nat
    <3>1. x * BoostShare \in Nat
        BY <2>1, PromosAssumption
    <3>. QED
        BY <3>1
  <2>. QED
      BY <2>2 DEF TopUp, x
<1>. QED
    BY <1>1, <1>2, <1>7, <1>8, <1>9

\* The eight fills are one: a voucher is marked, and a stake taken from the
\* issuer's account or from the user.
LEMMA FillEffect ==
    ASSUME TypeOK, FillStep
    PROVE  \E b \in Bets, p \in Promos, odds \in Prices, amount \in Nat :
             /\ OpenTicket(b, p, odds, amount)
             /\ issuer.exists
             /\ \/ /\ p \in Freebets /\ issuer.ata /\ amount <= issuer.balance
                   /\ issuer' = [issuer EXCEPT !.balance = @ - amount]
                   /\ user' = user
                \/ /\ p \in Boosts /\ amount <= user
                   /\ user' = user - amount
                   /\ issuer' = issuer
<1>1. PICK b \in Bets, p \in Promos, odds \in Prices :
        \/ FreebetFill(b, p, odds)
        \/ \E amount \in Amounts : BoostedFill(b, p, odds, amount)
    BY DEF FillStep, FreebetFillBet, FreebetFillParlay, FreebetFillRfqBet,
           FreebetFillRfqParlay, BoostedFillBet, BoostedFillParlay,
           BoostedFillRfqBet, BoostedFillRfqParlay
<1>2. CASE FreebetFill(b, p, odds)
  <2>1. promo[p].amount \in Nat
      BY DEF TypeOK, Promo
  <2>. QED
      BY <1>2, <2>1 DEF FreebetFill
<1>3. CASE \E amount \in Amounts : BoostedFill(b, p, odds, amount)
    BY <1>3, PromosAssumption DEF BoostedFill
<1>. QED
    BY <1>1, <1>2, <1>3

\* The four settlements are one: a ticket closes, its voucher is given back or
\* closed, and money goes to the user and the issuer.
LEMMA SettleEffect ==
    ASSUME Kept, NEW b \in Bets, SettleStep(b)
    PROVE  LET t == ticket[b] IN
           \E after \in Promo :
             /\ after.state \in {"Unused", "Available"}
             /\ CanSettle(b) /\ CloseTicket(b, after)
             /\ issuer'.open = Counted(after)
             /\ issuer'.exists = issuer.exists /\ issuer'.ata = issuer.ata
             /\ issuer' \in [exists: BOOLEAN, open: Int, ata: BOOLEAN, balance: Int]
             /\ \/ /\ user' = user + MMProfit(t)
                   /\ issuer'.balance = issuer.balance + stake[b] - StakeLost(t)
                \/ /\ user' = user + MMProfit(t) + stake[b] - StakeLost(t) + TopUp(t)
                   /\ issuer'.balance = issuer.balance - TopUp(t)
                   /\ TopUp(t) <= issuer.balance
<1>. DEFINE t == ticket[b]
<1>1. ReturnFreebet(b) \/ PayBoosted(b)
    BY DEF SettleStep, SettleFreebet, SettleFreebetParlay, SettleBoostedBet,
           SettleBoostedParlay
<1>2. Exists(b)
  <2>1. t.result \in Graded
      BY <1>1 DEF ReturnFreebet, PayBoosted, CanSettle
  <2>. QED
      BY <2>1 DEF Exists, Graded
<1>3. t.promo \in Promos /\ promo[t.promo] \in Promo /\ t.amount \in Nat
    BY <1>2 DEF Kept, TypeOK, TicketsKept, Ticket
<1>4. NoPromo \in Promo
    BY PromosAssumption DEF NoPromo, Promo, LongestLife
<1>5. ReinstateLife \in 0..LongestLife
    BY PromosAssumption DEF LongestLife
<1>6. Half(t.amount) \in Nat
    BY <1>3 DEF Half
<1>7. [promo[t.promo] EXCEPT !.state = "Available", !.ttl = ReinstateLife] \in Promo
    BY <1>3, <1>5 DEF Promo
<1>8. AfterFreebet(t) \in Promo /\ AfterFreebet(t).state \in {"Unused", "Available"}
  <2>. DEFINE again == [promo[t.promo] EXCEPT !.state = "Available", !.ttl = ReinstateLife]
  <2>1. again \in Promo /\ again.state = "Available"
      BY <1>3, <1>7 DEF Promo
  <2>. HIDE DEF again
  <2>2. [again EXCEPT !.amount = Half(t.amount)] \in Promo
        /\ [again EXCEPT !.amount = Half(t.amount)].state = "Available"
      BY <1>6, <2>1 DEF Promo
  <2>3. NoPromo.state = "Unused"
      BY DEF NoPromo
  <2>4. \/ AfterFreebet(t) = again
        \/ AfterFreebet(t) = [again EXCEPT !.amount = Half(t.amount)]
        \/ AfterFreebet(t) = NoPromo
      BY DEF AfterFreebet, again
  <2>. QED
      BY <1>4, <2>1, <2>2, <2>3, <2>4
<1>9. AfterBoost(t) \in Promo /\ AfterBoost(t).state \in {"Unused", "Available"}
    BY <1>3, <1>4, <1>7 DEF AfterBoost, NoPromo, Promo
<1>10. issuer \in Issuer /\ stake[b] \in Nat
    BY DEF Kept, TypeOK
<1>11. StakeLost(t) \in Nat /\ TopUp(t) \in Nat
    BY <1>2, SettledAmounts
<1>12. \A count, balance \in Int :
         LET new == [issuer EXCEPT !.balance = balance, !.open = count] IN
         /\ new.open = count /\ new.balance = balance
         /\ new.exists = issuer.exists /\ new.ata = issuer.ata
         /\ new \in [exists: BOOLEAN, open: Int, ata: BOOLEAN, balance: Int]
    BY <1>10 DEF Issuer
<1>13. \A after : Counted(after) \in Int
    BY <1>10 DEF Counted, Issuer
<1>14. CASE ReturnFreebet(b)
  <2>. DEFINE after == AfterFreebet(t)
              balance == issuer.balance + stake[b] - StakeLost(t)
  <2>1. /\ CanSettle(b) /\ CloseTicket(b, after)
        /\ user' = user + MMProfit(t)
        /\ issuer' = [issuer EXCEPT !.balance = balance, !.open = Counted(after)]
      BY <1>14 DEF ReturnFreebet
  <2>2. balance \in Int
      BY <1>10, <1>11 DEF Issuer
  <2>. QED
      BY <1>8, <1>12, <1>13, <2>1, <2>2
<1>15. CASE PayBoosted(b)
  <2>. DEFINE after == AfterBoost(t)
              balance == issuer.balance - TopUp(t)
  <2>1. /\ CanSettle(b) /\ CloseTicket(b, after)
        /\ TopUp(t) <= issuer.balance
        /\ user' = user + MMProfit(t) + stake[b] - StakeLost(t) + TopUp(t)
        /\ issuer' = [issuer EXCEPT !.balance = balance, !.open = Counted(after)]
      BY <1>15 DEF PayBoosted
  <2>2. balance \in Int
      BY <1>10, <1>11 DEF Issuer
  <2>. QED
      BY <1>9, <1>12, <1>13, <2>1, <2>2
<1>. QED
    BY <1>1, <1>14, <1>15

-----------------------------------------------------------------------------
(* Types and tickets *)

\* What a market maker still has to send for a profit is no more than that.
LEMMA ShortfallBounds ==
    ASSUME TypeOK, NEW profit \in Nat, mm.enc <= mm.liability
    PROVE  /\ Shortfall(profit) \in Nat
           /\ mm.enc + profit <= mm.liability + Shortfall(profit)
<1>1. mm.enc \in Nat /\ mm.liability \in Nat
    BY DEF TypeOK
<1>. QED
    BY <1>1 DEF Shortfall, LesserOf

\* The issuer's instructions keep types and tickets.
LEMMA IssuerKept ==
    ASSUME Kept, IssuerStep
    PROVE  Kept'
<1>1. /\ issuer \in Issuer /\ auth \in Nat /\ promo \in [Promos -> Promo]
      /\ issuer.open \in Nat /\ issuer.balance \in Nat
    BY DEF Kept, TypeOK, Issuer
<1>2. \A p \in Promos : p \in Freebets \/ p \in Boosts
    BY DEF Promos
<1>. SUFFICES /\ issuer' \in Issuer /\ auth' \in Nat /\ promo' \in [Promos -> Promo]
              /\ UNCHANGED <<ticket, stake, user, mm, paused>>
    BY DEF Kept, TypeOK, TicketsKept, Exists
<1>3. CASE InitPromoIssuer
    BY <1>1, <1>3 DEF InitPromoIssuer, Issuer
<1>4. CASE RemovePromoIssuer
    BY <1>1, <1>4 DEF RemovePromoIssuer, Issuer
<1>5. CASE CreatePromoIssuerAta
    BY <1>1, <1>5 DEF CreatePromoIssuerAta, Issuer
<1>6. CASE ClosePromoIssuerAta
  <2>1. [issuer EXCEPT !.ata = FALSE, !.balance = 0] \in Issuer
      BY <1>1 DEF Issuer
  <2>2. auth + issuer.balance \in Nat
      BY <1>1
  <2>. QED
      BY <1>1, <1>6, <2>1, <2>2 DEF ClosePromoIssuerAta
<1>7. ASSUME NEW amount \in Amounts, DepositPromoFunds(amount)
      PROVE  /\ issuer' \in Issuer /\ auth' \in Nat /\ promo' \in [Promos -> Promo]
             /\ UNCHANGED <<ticket, stake, user, mm, paused>>
    BY <1>1, <1>7 DEF DepositPromoFunds, Issuer
<1>8. ASSUME NEW amount \in Amounts, WithdrawPromoFunds(amount)
      PROVE  /\ issuer' \in Issuer /\ auth' \in Nat /\ promo' \in [Promos -> Promo]
             /\ UNCHANGED <<ticket, stake, user, mm, paused>>
    BY <1>1, <1>8 DEF WithdrawPromoFunds, Issuer
<1>9. ASSUME NEW p \in Promos, NEW amount \in Amounts, NEW ttl \in 1..Life,
             Issue(p, amount, ttl)
      PROVE  /\ issuer' \in Issuer /\ auth' \in Nat /\ promo' \in [Promos -> Promo]
             /\ UNCHANGED <<ticket, stake, user, mm, paused>>
  <2>1. [state |-> "Available", amount |-> amount, ttl |-> ttl] \in Promo
      BY PromosAssumption DEF Promo, LongestLife
  <2>2. issuer' \in Issuer
      BY <1>1, <1>9 DEF Issue, Issuer
  <2>. QED
      BY <1>1, <1>9, <2>1, <2>2 DEF Issue
<1>10. ASSUME NEW p \in Promos, Revoke(p)
       PROVE  /\ issuer' \in Issuer /\ auth' \in Nat /\ promo' \in [Promos -> Promo]
              /\ UNCHANGED <<ticket, stake, user, mm, paused>>
  <2>1. NoPromo \in Promo
      BY PromosAssumption DEF NoPromo, Promo, LongestLife
  <2>2. issuer' \in Issuer
      BY <1>1, <1>10 DEF Revoke, Issuer
  <2>. QED
      BY <1>1, <1>10, <2>1, <2>2 DEF Revoke
<1>. QED
    BY <1>3, <1>4, <1>5, <1>6, <1>7, <1>8, <1>9, <1>10
    DEF IssuerStep, IssueFreebet, IssueBoost, RevokeFreebet, RevokeBoost

\* A fill keeps types and tickets.
LEMMA FillKept ==
    ASSUME Kept, FillStep
    PROVE  Kept'
<1>1. PICK b \in Bets, p \in Promos, odds \in Prices, amount \in Nat :
        /\ OpenTicket(b, p, odds, amount)
        /\ \/ /\ amount <= issuer.balance
              /\ issuer' = [issuer EXCEPT !.balance = @ - amount]
              /\ user' = user
           \/ amount <= user /\ user' = user - amount /\ issuer' = issuer
    BY FillEffect DEF Kept
<1>. DEFINE profit == Profit(amount, odds)
            opened == [result |-> "Pending", promo |-> p, amount |-> amount,
                       odds |-> odds, left |-> 0]
<1>2. odds \in Odd /\ odds \in Nat /\ odds >= Scale /\ profit \in Nat
    BY PromosAssumption, ProfitType DEF Odd
<1>3. /\ issuer \in Issuer /\ user \in Nat /\ mm \in [wallet: Nat, liability: Nat, enc: Nat]
      /\ promo \in [Promos -> Promo] /\ ticket \in [Bets -> Ticket]
      /\ stake \in [Bets -> Nat] /\ auth \in Nat /\ paused \in BOOLEAN
    BY DEF Kept, TypeOK
<1>4. issuer' \in Issuer /\ user' \in Nat
    BY <1>1, <1>3 DEF Issuer
<1>5. mm' \in [wallet: Nat, liability: Nat, enc: Nat]
  <2>1. mm.enc <= mm.liability /\ Shortfall(profit) <= mm.wallet
      BY <1>1 DEF OpenTicket
  <2>2. Shortfall(profit) \in Nat
      BY <1>2, <2>1, ShortfallBounds DEF Kept
  <2>3. mm' = [wallet |-> mm.wallet - Shortfall(profit),
               liability |-> mm.liability + Shortfall(profit),
               enc |-> mm.enc + profit]
      BY <1>1 DEF OpenTicket
  <2>. HIDE DEF profit
  <2>. QED
      BY <1>2, <1>3, <2>1, <2>2, <2>3
<1>6. promo' \in [Promos -> Promo]
  <2>1. [promo[p] EXCEPT !.state = "Used"] \in Promo
      BY <1>3 DEF Promo
  <2>2. promo' = [promo EXCEPT ![p].state = "Used"]
      BY <1>1 DEF OpenTicket, Marked
  <2>. QED
      BY <1>3, <2>1, <2>2
<1>7. /\ ticket' = [ticket EXCEPT ![b] = opened]
      /\ stake' = [stake EXCEPT ![b] = @ + amount]
      /\ UNCHANGED <<auth, paused>>
    BY <1>1 DEF OpenTicket
<1>8. opened \in Ticket
    BY <1>2 DEF Ticket, Results
<1>9. ticket' \in [Bets -> Ticket] /\ stake' \in [Bets -> Nat]
    BY <1>3, <1>7, <1>8
<1>10. TypeOK'
    BY <1>3, <1>4, <1>5, <1>6, <1>7, <1>9 DEF TypeOK
<1>11. TicketsKept'
  <2>. SUFFICES ASSUME NEW c \in Bets
                PROVE  IF Exists(c)'
                       THEN /\ ticket'[c].promo \in Promos
                            /\ ticket'[c].odds >= Scale
                            /\ ticket'[c].amount <= stake'[c]
                       ELSE ticket'[c] = NoTicket
      BY DEF TicketsKept
  <2>1. CASE c = b
    <3>1. ticket'[c] = opened /\ stake'[c] = stake[c] + amount
        BY <1>3, <1>7, <2>1
    <3>2. amount <= stake[c] + amount
        BY <1>3
    <3>. QED
        BY <1>2, <3>1, <3>2 DEF Exists
  <2>2. CASE c # b
    <3>1. ticket'[c] = ticket[c] /\ stake'[c] = stake[c]
        BY <1>3, <1>7, <2>2
    <3>. QED
        BY <3>1 DEF Kept, TicketsKept, Exists
  <2>. QED
      BY <2>1, <2>2
<1>. QED
    BY <1>10, <1>11 DEF Kept

\* A settlement keeps types and tickets: what it takes from the liability
\* account, the encumbrance and the stake is there.
LEMMA SettleKept ==
    ASSUME Kept, GoneCountsNone, NEW b \in Bets, SettleStep(b)
    PROVE  Kept' /\ GoneCountsNone'
<1>. DEFINE t == ticket[b]
<1>1. PICK after \in Promo :
        /\ CanSettle(b) /\ CloseTicket(b, after)
        /\ issuer'.open = Counted(after)
        /\ issuer'.exists = issuer.exists /\ issuer'.ata = issuer.ata
        /\ issuer' \in [exists: BOOLEAN, open: Int, ata: BOOLEAN, balance: Int]
        /\ \/ /\ user' = user + MMProfit(t)
              /\ issuer'.balance = issuer.balance + stake[b] - StakeLost(t)
           \/ /\ user' = user + MMProfit(t) + stake[b] - StakeLost(t) + TopUp(t)
              /\ issuer'.balance = issuer.balance - TopUp(t)
              /\ TopUp(t) <= issuer.balance
    BY SettleEffect
<1>2. Exists(b) /\ issuer.exists
    BY <1>1 DEF CanSettle, Exists, Graded
<1>3. /\ t.amount \in Nat /\ Profit(t.amount, t.odds) \in Nat
      /\ MMProfit(t) \in Nat /\ StakeLost(t) \in Nat /\ StakeLost(t) <= t.amount
      /\ TopUp(t) \in Nat
    BY <1>2, SettledAmounts
<1>4. /\ issuer \in Issuer /\ user \in Nat /\ mm \in [wallet: Nat, liability: Nat, enc: Nat]
      /\ promo \in [Promos -> Promo] /\ ticket \in [Bets -> Ticket]
      /\ stake \in [Bets -> Nat] /\ auth \in Nat /\ paused \in BOOLEAN
    BY DEF Kept, TypeOK
<1>5. /\ MMProfit(t) <= mm.liability
      /\ t.amount <= stake[b]
      /\ Profit(t.amount, t.odds) <= mm.enc
    BY <1>1 DEF CanSettle
<1>6. /\ promo' = [promo EXCEPT ![t.promo] = after]
      /\ ticket' = [ticket EXCEPT ![b] = NoTicket]
      /\ stake' = [stake EXCEPT ![b] = 0]
      /\ mm' = PaidByMM(t)
      /\ UNCHANGED <<auth, paused>>
      /\ after.state = "Unused" => issuer.open > 0
    BY <1>1 DEF CloseTicket
<1>7. issuer'.open \in Nat
    BY <1>1, <1>4, <1>6 DEF Counted, Issuer
<1>. HIDE DEF t
<1>8. issuer'.balance \in Nat /\ user' \in Nat
    BY <1>1, <1>3, <1>4, <1>5 DEF Issuer
<1>9. issuer' \in Issuer
    BY <1>1, <1>7, <1>8 DEF Issuer
<1>10. mm' \in [wallet: Nat, liability: Nat, enc: Nat]
  <2>1. /\ mm.liability - MMProfit(t) + StakeLost(t) \in Nat
        /\ mm.enc - Profit(t.amount, t.odds) \in Nat
      BY <1>3, <1>4, <1>5
  <2>2. \A liability, enc \in Nat :
          [mm EXCEPT !.liability = liability, !.enc = enc]
            \in [wallet: Nat, liability: Nat, enc: Nat]
      BY <1>4
  <2>. QED
      BY <1>6, <2>1, <2>2 DEF PaidByMM
<1>11. NoTicket \in Ticket
    BY DEF NoTicket, Ticket, Results
<1>12. /\ promo' \in [Promos -> Promo] /\ ticket' \in [Bets -> Ticket]
       /\ stake' \in [Bets -> Nat]
    BY <1>4, <1>6, <1>11
<1>13. TypeOK'
    BY <1>4, <1>6, <1>8, <1>9, <1>10, <1>12 DEF TypeOK
<1>14. TicketsKept'
  <2>. SUFFICES ASSUME NEW c \in Bets
                PROVE  IF Exists(c)'
                       THEN /\ ticket'[c].promo \in Promos
                            /\ ticket'[c].odds >= Scale
                            /\ ticket'[c].amount <= stake'[c]
                       ELSE ticket'[c] = NoTicket
      BY DEF TicketsKept
  <2>1. CASE c = b
    <3>1. ticket'[c] = NoTicket
        BY <1>4, <1>6, <2>1
    <3>. QED
        BY <3>1 DEF Exists, NoTicket
  <2>2. CASE c # b
    <3>1. ticket'[c] = ticket[c] /\ stake'[c] = stake[c]
        BY <1>4, <1>6, <2>2
    <3>. QED
        BY <3>1 DEF Kept, TicketsKept, Exists
  <2>. QED
      BY <2>1, <2>2
<1>15. GoneCountsNone'
    BY <1>1, <1>2 DEF GoneCountsNone
<1>. QED
    BY <1>13, <1>14, <1>15 DEF Kept

\* Every step keeps types and tickets.
LEMMA NextKept ==
    ASSUME Kept, GoneCountsNone, [Next]_vars
    PROVE  Kept'
<1>1. CASE IssuerStep
    BY <1>1, IssuerKept
<1>2. CASE FillStep
    BY <1>2, FillKept
<1>3. ASSUME NEW b \in Bets, NEW result \in Grades, NEW left \in Returns,
             Grade(b, result, left)
      PROVE  Kept'
  <2>. DEFINE t == [ticket[b] EXCEPT !.result = result,
                                     !.left = IF result = "ModifiedWin" THEN left ELSE 0]
  <2>1. ticket \in [Bets -> Ticket] /\ Exists(b)
      BY <1>3 DEF Kept, TypeOK, Grade
  <2>2. result \in Graded /\ left \in Nat
      BY PromosAssumption DEF Graded, Results, Voids, Halves
  <2>3. /\ t \in Ticket /\ t.result = result
        /\ t.promo = ticket[b].promo /\ t.odds = ticket[b].odds
        /\ t.amount = ticket[b].amount
      BY <2>1, <2>2 DEF Ticket, Graded
  <2>4. /\ ticket' = [ticket EXCEPT ![b] = t]
        /\ UNCHANGED <<issuer, auth, promo, stake, user, mm, paused>>
      BY <1>3, <2>1 DEF Grade
  <2>. HIDE DEF t
  <2>5. TypeOK'
      BY <2>1, <2>3, <2>4 DEF Kept, TypeOK
  <2>6. ASSUME NEW c \in Bets
        PROVE  IF Exists(c)'
               THEN /\ ticket'[c].promo \in Promos
                    /\ ticket'[c].odds >= Scale
                    /\ ticket'[c].amount <= stake'[c]
               ELSE ticket'[c] = NoTicket
    <3>1. CASE c = b
        BY <2>1, <2>2, <2>3, <2>4, <3>1 DEF Kept, TicketsKept, Exists, Graded
    <3>2. CASE c # b
        BY <2>1, <2>4, <3>2 DEF Kept, TicketsKept, Exists
    <3>. QED
        BY <3>1, <3>2
  <2>. QED
      BY <2>5, <2>6 DEF Kept, TicketsKept
<1>4. ASSUME NEW b \in Bets, SettleStep(b)
      PROVE  Kept'
    BY <1>4, SettleKept
<1>5. CASE Tick
  <2>1. \A p \in Promos :
          [promo[p] EXCEPT !.ttl = IF @ > 0 THEN @ - 1 ELSE 0] \in Promo
    <3>1. LongestLife \in Nat
        BY PromosAssumption DEF LongestLife
    <3>. QED
        BY <3>1 DEF Kept, TypeOK, Promo
  <2>. QED
      BY <1>5, <2>1 DEF Tick, Kept, TypeOK, TicketsKept, Exists
<1>6. CASE WithdrawMM
  <2>1. mm.wallet + mm.liability - mm.enc \in Nat
      BY <1>6 DEF WithdrawMM, Kept, TypeOK
  <2>2. \A wallet, liability \in Nat :
          [mm EXCEPT !.wallet = wallet, !.liability = liability]
            \in [wallet: Nat, liability: Nat, enc: Nat]
      BY DEF Kept, TypeOK
  <2>3. mm' \in [wallet: Nat, liability: Nat, enc: Nat]
    <3>1. mm.enc \in Nat
        BY DEF Kept, TypeOK
    <3>. QED
        BY <1>6, <2>1, <2>2, <3>1 DEF WithdrawMM
  <2>. QED
      BY <1>6, <2>3 DEF WithdrawMM, Kept, TypeOK, TicketsKept, Exists
<1>7. CASE ChangeConfigStatus
    BY <1>7 DEF ChangeConfigStatus, Kept, TypeOK, TicketsKept, Exists
<1>8. CASE UNCHANGED vars
    BY <1>8 DEF vars, Kept, TypeOK, TicketsKept, Exists
<1>. QED
    BY <1>1, <1>2, <1>3, <1>4, <1>5, <1>6, <1>7, <1>8 DEF Next

-----------------------------------------------------------------------------
(* The count of open vouchers *)

Open == {p \in Promos : promo[p].state # "Unused"}

\* What the other steps may do.
Quiet ==
    /\ \A p \in Promos : promo'[p].state = promo[p].state
    /\ \A b \in Bets :
           /\ Exists(b)' <=> Exists(b)
           /\ ticket'[b].promo = ticket[b].promo
           /\ ticket'[b].amount = ticket[b].amount
           /\ ticket'[b].odds = ticket[b].odds
    /\ (issuer'.open = issuer.open \/ (~issuer.exists /\ issuer'.open = 0))
    /\ issuer.exists => issuer'.exists \/ issuer.open = 0
    /\ issuer'.exists \/ issuer'.open = issuer.open
    /\ issuer.ata => issuer'.ata \/ issuer.open = 0
    /\ mm'.enc = mm.enc
    /\ mm.enc <= mm.liability => mm'.enc <= mm'.liability

\* What changes the states of vouchers: an issue, a revocation, a fill, a
\* settlement, and nothing else.
LEMMA VoucherSteps ==
    ASSUME Kept, [Next]_vars
    PROVE  \/ \E p \in Promos, amount \in Amounts, ttl \in 1..Life : Issue(p, amount, ttl)
           \/ \E p \in Promos : Revoke(p)
           \/ FillStep
           \/ \E b \in Bets : SettleStep(b)
           \/ Quiet
<1>1. issuer \in Issuer /\ mm \in [wallet: Nat, liability: Nat, enc: Nat]
      /\ promo \in [Promos -> Promo] /\ ticket \in [Bets -> Ticket]
    BY DEF Kept, TypeOK
<1>2. CASE IssuerStep
  <2>1. CASE InitPromoIssuer
      BY <1>1, <2>1 DEF InitPromoIssuer, Quiet, Issuer, Exists
  <2>2. CASE RemovePromoIssuer
      BY <1>1, <2>2 DEF RemovePromoIssuer, Quiet, Issuer, Exists
  <2>3. CASE CreatePromoIssuerAta
      BY <1>1, <2>3 DEF CreatePromoIssuerAta, Quiet, Issuer, Exists
  <2>4. CASE ClosePromoIssuerAta
    <3>1. issuer'.open = issuer.open /\ issuer'.exists = issuer.exists /\ issuer.open = 0
        BY <1>1, <2>4 DEF ClosePromoIssuerAta, Issuer
    <3>. QED
        BY <2>4, <3>1 DEF ClosePromoIssuerAta, Quiet, Exists
  <2>5. CASE \E amount \in Amounts : DepositPromoFunds(amount) \/ WithdrawPromoFunds(amount)
      BY <1>1, <2>5 DEF DepositPromoFunds, WithdrawPromoFunds, Quiet, Issuer, Exists
  <2>. QED
      BY <1>2, <2>1, <2>2, <2>3, <2>4, <2>5
      DEF IssuerStep, IssueFreebet, IssueBoost, RevokeFreebet, RevokeBoost
<1>3. CASE \E b \in Bets, result \in Grades, left \in Returns : Grade(b, result, left)
  <2>1. PICK b \in Bets, result \in Grades, left \in Returns : Grade(b, result, left)
      BY <1>3
  <2>2. result # "Absent"
      BY PromosAssumption DEF Voids, Halves
  <2>. DEFINE t == [ticket[b] EXCEPT !.result = result,
                                     !.left = IF result = "ModifiedWin" THEN left ELSE 0]
  <2>3. /\ t.result = result /\ t.promo = ticket[b].promo
        /\ t.odds = ticket[b].odds /\ t.amount = ticket[b].amount
      BY <1>1 DEF Ticket
  <2>4. /\ ticket' = [ticket EXCEPT ![b] = t] /\ Exists(b)
        /\ UNCHANGED <<issuer, auth, promo, stake, user, mm, paused>>
      BY <1>1, <2>1 DEF Grade
  <2>. HIDE DEF t
  <2>. QED
      BY <1>1, <2>2, <2>3, <2>4 DEF Quiet, Exists
<1>4. CASE Tick
    BY <1>1, <1>4 DEF Tick, Quiet, Promo, Exists
<1>5. CASE WithdrawMM
  <2>1. mm'.enc = mm.enc /\ mm'.liability = mm.enc
      BY <1>1, <1>5 DEF WithdrawMM
  <2>. QED
      BY <1>1, <1>5, <2>1 DEF WithdrawMM, Quiet, Exists
<1>6. CASE ChangeConfigStatus
    BY <1>6 DEF ChangeConfigStatus, Quiet, Exists
<1>7. CASE UNCHANGED vars
    BY <1>7 DEF vars, Quiet, Exists
<1>. QED
    BY <1>2, <1>3, <1>4, <1>5, <1>6, <1>7 DEF Next

\* The count moves with the vouchers.
LEMMA CountStep ==
    ASSUME Kept, GoneCountsNone, OpenCountExact, [Next]_vars
    PROVE  OpenCountExact' /\ GoneCountsNone'
<1>1. IsFiniteSet(Open)
    BY PromosAssumption, FS_Subset DEF Open
<1>2. issuer.open = Cardinality(Open) /\ issuer.open \in Nat /\ issuer \in Issuer
    BY DEF OpenCountExact, Open, Kept, TypeOK, Issuer
<1>3. promo \in [Promos -> Promo] /\ promo' \in [Promos -> Promo]
    BY NextKept DEF Kept, TypeOK
<1>4. ASSUME NEW p \in Promos, NEW amount \in Amounts, NEW ttl \in 1..Life,
             Issue(p, amount, ttl)
      PROVE  OpenCountExact' /\ GoneCountsNone'
  <2>1. p \notin Open /\ Open' = Open \cup {p}
      BY <1>3, <1>4 DEF Issue, Open
  <2>2. Cardinality(Open') = Cardinality(Open) + 1
      BY <1>1, <2>1, FS_AddElement
  <2>3. issuer'.open = issuer.open + 1 /\ issuer'.exists
      BY <1>2, <1>4 DEF Issue, Issuer
  <2>. QED
      BY <1>2, <2>2, <2>3 DEF OpenCountExact, Open, GoneCountsNone
<1>5. ASSUME NEW p \in Promos, Revoke(p)
      PROVE  OpenCountExact' /\ GoneCountsNone'
  <2>1. p \in Open /\ Open' = Open \ {p}
      BY <1>3, <1>5 DEF Revoke, Open, NoPromo
  <2>2. Cardinality(Open') = Cardinality(Open) - 1
      BY <1>1, <2>1, FS_RemoveElement
  <2>3. issuer'.open = issuer.open - 1 /\ issuer'.exists
      BY <1>2, <1>5 DEF Revoke, Issuer
  <2>. QED
      BY <1>2, <2>2, <2>3 DEF OpenCountExact, Open, GoneCountsNone
<1>6. CASE FillStep
  <2>1. PICK b \in Bets, p \in Promos, odds \in Prices, amount \in Nat :
          /\ OpenTicket(b, p, odds, amount)
          /\ issuer.exists
          /\ issuer' = issuer \/ issuer' = [issuer EXCEPT !.balance = @ - amount]
      BY <1>6, FillEffect DEF Kept
  <2>2. promo' = [promo EXCEPT ![p].state = "Used"] /\ promo[p].state = "Available"
      BY <2>1 DEF OpenTicket, Marked
  <2>3. Open' = Open
      BY <1>3, <2>2 DEF Open, Promo
  <2>4. issuer'.open = issuer.open /\ issuer'.exists
      BY <1>2, <2>1 DEF Issuer
  <2>. QED
      BY <1>2, <2>3, <2>4 DEF OpenCountExact, Open, GoneCountsNone
<1>7. ASSUME NEW b \in Bets, SettleStep(b)
      PROVE  OpenCountExact' /\ GoneCountsNone'
  <2>. DEFINE p == ticket[b].promo
  <2>1. PICK after \in Promo :
          /\ after.state \in {"Unused", "Available"}
          /\ CanSettle(b) /\ CloseTicket(b, after)
          /\ issuer'.open = Counted(after)
      BY <1>7, SettleEffect
  <2>2. /\ promo[p].state = "Used" /\ promo' = [promo EXCEPT ![p] = after]
      BY <2>1 DEF CanSettle, CloseTicket
  <2>3. p \in Promos
    <3>1. Exists(b)
        BY <2>1 DEF CanSettle, Exists, Graded
    <3>. QED
        BY <3>1 DEF Kept, TicketsKept
  <2>4. CASE after.state = "Unused"
    <3>1. p \in Open /\ Open' = Open \ {p}
        BY <1>3, <2>2, <2>3, <2>4 DEF Open
    <3>2. Cardinality(Open') = Cardinality(Open) - 1
        BY <1>1, <3>1, FS_RemoveElement
    <3>. QED
        BY <1>2, <1>7, <2>1, <2>4, <3>2, SettleKept DEF OpenCountExact, Open, Counted
  <2>5. CASE after.state = "Available"
    <3>1. Open' = Open
        BY <1>3, <2>2, <2>3, <2>5 DEF Open
    <3>. QED
        BY <1>2, <1>7, <2>1, <2>5, <3>1, SettleKept DEF OpenCountExact, Open, Counted
  <2>. QED
      BY <2>1, <2>4, <2>5
<1>8. CASE Quiet
  <2>1. Open' = Open
      BY <1>8 DEF Quiet, Open
  <2>. QED
      BY <1>2, <1>8, <2>1 DEF OpenCountExact, Open, GoneCountsNone, Quiet
<1>. QED
    BY <1>4, <1>5, <1>6, <1>7, <1>8, VoucherSteps

\* While a voucher is open, the issuer and its count are not 0.
LEMMA SomeOpen ==
    ASSUME Kept, OpenCountExact, NEW p \in Promos, promo[p].state # "Unused"
    PROVE  issuer.open # 0
<1>1. IsFiniteSet(Open) /\ p \in Open
    BY PromosAssumption, FS_Subset DEF Open
<1>2. Cardinality(Open) # 0
    BY <1>1, FS_EmptySet
<1>. QED
    BY <1>2 DEF OpenCountExact, Open

-----------------------------------------------------------------------------
(* Vouchers and their tickets *)

\* A used voucher keeps its one ticket.
LEMMA UsedStep ==
    ASSUME Kept, OpenCountExact, UsedByOne, [Next]_vars
    PROVE  UsedByOne'
<1>. DEFINE Behind(b, p) == \A x \in Bets : Exists(x) /\ ticket[x].promo = p <=> x = b
<1>1. promo \in [Promos -> Promo] /\ ticket \in [Bets -> Ticket] /\ issuer \in Issuer
    BY DEF Kept, TypeOK
<1>2. \A b \in Bets : Exists(b) => /\ ticket[b].promo \in Promos
                                   /\ promo[ticket[b].promo].state = "Used"
                                   /\ issuer.exists
    BY DEF Kept, TicketsKept, UsedByOne
<1>3. \A p \in Promos : promo[p].state = "Used" => \E b \in Bets : Behind(b, p)
    BY DEF UsedByOne
<1>4. ASSUME \A b \in Bets : /\ Exists(b)' <=> Exists(b)
                             /\ ticket'[b].promo = ticket[b].promo,
             \A p \in Promos : promo'[p].state = "Used" <=> promo[p].state = "Used",
             \A b \in Bets : Exists(b) => issuer'.exists
      PROVE  UsedByOne'
  <2>1. \A p \in Promos : promo'[p].state = "Used" =>
          \E b \in Bets : \A x \in Bets : Exists(x)' /\ ticket'[x].promo = p <=> x = b
      BY <1>3, <1>4
  <2>2. \A b \in Bets : Exists(b)' => promo'[ticket'[b].promo].state = "Used" /\ issuer'.exists
      BY <1>2, <1>4
  <2>. QED
      BY <2>1, <2>2 DEF UsedByOne
<1>5. CASE \E p \in Promos, amount \in Amounts, ttl \in 1..Life : Issue(p, amount, ttl)
  <2>1. /\ UNCHANGED ticket /\ issuer'.exists
        /\ \A p \in Promos : promo'[p].state = "Used" <=> promo[p].state = "Used"
      BY <1>1, <1>5 DEF Issue, Issuer
  <2>. QED
      BY <1>4, <2>1 DEF Exists
<1>6. CASE \E p \in Promos : Revoke(p)
  <2>1. /\ UNCHANGED ticket /\ issuer'.exists
        /\ \A p \in Promos : promo'[p].state = "Used" <=> promo[p].state = "Used"
      BY <1>1, <1>6 DEF Revoke, Issuer, NoPromo
  <2>. QED
      BY <1>4, <2>1 DEF Exists
<1>7. CASE FillStep
  <2>1. PICK b \in Bets, p \in Promos, odds \in Prices, amount \in Nat :
          /\ OpenTicket(b, p, odds, amount)
          /\ issuer.exists
          /\ issuer' = issuer \/ issuer' = [issuer EXCEPT !.balance = @ - amount]
      BY <1>7, FillEffect DEF Kept
  <2>2. /\ ~Exists(b) /\ promo[p].state = "Available"
        /\ promo' = [promo EXCEPT ![p].state = "Used"]
        /\ ticket' = [ticket EXCEPT ![b] =
             [result |-> "Pending", promo |-> p, amount |-> amount, odds |-> odds, left |-> 0]]
      BY <2>1 DEF OpenTicket, Marked
  <2>3. issuer'.exists
      BY <1>1, <2>1 DEF Issuer
  <2>4. /\ ticket'[b].promo = p /\ Exists(b)'
        /\ \A x \in Bets \ {b} : ticket'[x] = ticket[x] /\ (Exists(x)' <=> Exists(x))
      BY <1>1, <2>2 DEF Exists
  <2>5. /\ promo'[p].state = "Used"
        /\ \A q \in Promos \ {p} : promo'[q] = promo[q]
      BY <1>1, <2>2 DEF Promo
  <2>6. \A x \in Bets : Exists(x) => ticket[x].promo # p
      BY <1>2, <2>2
  <2>7. ASSUME NEW q \in Promos, promo'[q].state = "Used"
        PROVE  \E c \in Bets : \A x \in Bets : Exists(x)' /\ ticket'[x].promo = q <=> x = c
    <3>1. CASE q = p
        BY <2>4, <2>6, <3>1
    <3>2. CASE q # p
      <4>1. PICK c \in Bets : Behind(c, q)
          BY <1>3, <2>5, <2>7, <3>2
      <4>2. \A x \in Bets : Exists(x)' /\ ticket'[x].promo = q <=> x = c
          BY <2>2, <2>4, <3>2, <4>1
      <4>. QED
          BY <4>2
    <3>. QED
        BY <3>1, <3>2
  <2>8. ASSUME NEW x \in Bets, Exists(x)'
        PROVE  promo'[ticket'[x].promo].state = "Used"
      BY <1>2, <2>4, <2>5, <2>6, <2>8
  <2>. QED
      BY <2>3, <2>7, <2>8 DEF UsedByOne
<1>8. ASSUME NEW b \in Bets, SettleStep(b)
      PROVE  UsedByOne'
  <2>. DEFINE p == ticket[b].promo
  <2>1. PICK after \in Promo :
          /\ after.state \in {"Unused", "Available"}
          /\ CanSettle(b) /\ CloseTicket(b, after)
          /\ issuer'.exists = issuer.exists
      BY <1>8, SettleEffect
  <2>2. /\ promo' = [promo EXCEPT ![p] = after]
        /\ ticket' = [ticket EXCEPT ![b] = NoTicket]
        /\ Exists(b) /\ issuer.exists
      BY <2>1 DEF CanSettle, CloseTicket, Exists, Graded
  <2>3. p \in Promos /\ promo[p].state = "Used"
      BY <1>2, <2>2
  <2>4. /\ ~Exists(b)'
        /\ \A x \in Bets \ {b} : ticket'[x] = ticket[x] /\ (Exists(x)' <=> Exists(x))
      BY <1>1, <2>2 DEF Exists, NoTicket
  <2>5. /\ promo'[p].state # "Used"
        /\ \A q \in Promos \ {p} : promo'[q] = promo[q]
      BY <1>1, <2>1, <2>2, <2>3
  <2>6. \A x \in Bets \ {b} : Exists(x) => ticket[x].promo # p
    <3>1. PICK c \in Bets : Behind(c, p)
        BY <1>3, <2>3
    <3>. QED
        BY <2>2, <3>1
  <2>7. ASSUME NEW q \in Promos, promo'[q].state = "Used"
        PROVE  \E c \in Bets : \A x \in Bets : Exists(x)' /\ ticket'[x].promo = q <=> x = c
    <3>1. q # p
        BY <2>5, <2>7
    <3>2. PICK c \in Bets : Behind(c, q)
        BY <1>3, <2>5, <2>7, <3>1
    <3>3. c # b
        BY <3>1, <3>2
    <3>4. \A x \in Bets : Exists(x)' /\ ticket'[x].promo = q <=> x = c
        BY <2>4, <3>2, <3>3
    <3>. QED
        BY <3>4
  <2>8. ASSUME NEW x \in Bets, Exists(x)'
        PROVE  promo'[ticket'[x].promo].state = "Used"
      BY <1>2, <2>4, <2>5, <2>6, <2>8
  <2>. QED
      BY <2>1, <2>2, <2>7, <2>8 DEF UsedByOne
<1>9. CASE Quiet
  <2>1. \A b \in Bets : Exists(b) => issuer.open # 0
      BY <1>2, SomeOpen
  <2>. QED
      BY <1>2, <1>4, <1>9, <2>1 DEF Quiet
<1>. QED
    BY <1>5, <1>6, <1>7, <1>8, <1>9, VoucherSteps

-----------------------------------------------------------------------------
(* The market maker's cover *)

\* What the tickets may win are numbers.
LEMMA WinsType ==
    ASSUME Kept
    PROVE  /\ Wins \in [Bets -> Nat]
           /\ \A b \in Bets : ~Exists(b) => Wins[b] = 0
<1>1. ASSUME NEW b \in Bets
      PROVE  /\ Profit(ticket[b].amount, ticket[b].odds) \in Nat
             /\ ~Exists(b) => Profit(ticket[b].amount, ticket[b].odds) = 0
  <2>1. CASE Exists(b)
      BY <2>1, SettledAmounts
  <2>2. CASE ~Exists(b)
    <3>1. ticket[b] = NoTicket
        BY <2>2 DEF Kept, TicketsKept
    <3>2. ticket[b].amount = 0 /\ ticket[b].odds = 0
        BY <3>1 DEF NoTicket
    <3>3. Profit(0, 0) = 0
        BY ScaleAssumption DEF Profit
    <3>. QED
        BY <3>2, <3>3
  <2>. QED
      BY <2>1, <2>2
<1>. QED
    BY <1>1 DEF Wins

\* TotalUpdate for one ticket's entry.
LEMMA TotalSet ==
    ASSUME NEW f \in [Bets -> Nat], NEW b \in Bets, NEW n \in Nat
    PROVE  Total([f EXCEPT ![b] = n]) = Total(f) - f[b] + n
<1>. DEFINE g == [f EXCEPT ![b] = n]
<1>1. g \in [Bets -> Nat] /\ g[b] = n /\ \A y \in Bets \ {b} : g[y] = f[y]
    OBVIOUS
<1>. HIDE DEF g
<1>2. Total(g) = Total(f) - f[b] + g[b]
    BY <1>1, TotalUpdate, PromosAssumption
<1>. QED
    BY <1>1, <1>2 DEF g

\* The reservations are exact after every step, and covered.
LEMMA EncumberedStep ==
    ASSUME Kept, Encumbered, [Next]_vars
    PROVE  Encumbered'
<1>1. /\ mm \in [wallet: Nat, liability: Nat, enc: Nat]
      /\ ticket \in [Bets -> Ticket]
    BY DEF Kept, TypeOK
<1>2. Wins \in [Bets -> Nat] /\ \A b \in Bets : ~Exists(b) => Wins[b] = 0
    BY WinsType
<1>4. mm.enc = Total(Wins) /\ mm.enc <= mm.liability
    BY DEF Encumbered
<1>5. ASSUME UNCHANGED <<ticket, mm>>
      PROVE  Encumbered'
    BY <1>4, <1>5 DEF Encumbered, Wins
<1>6. CASE FillStep
  <2>1. PICK b \in Bets, p \in Promos, odds \in Prices, amount \in Nat :
          OpenTicket(b, p, odds, amount)
      BY <1>6, FillEffect DEF Kept
  <2>. DEFINE profit == Profit(amount, odds)
              opened == [result |-> "Pending", promo |-> p, amount |-> amount,
                         odds |-> odds, left |-> 0]
  <2>2. /\ ~Exists(b) /\ ticket' = [ticket EXCEPT ![b] = opened]
        /\ mm'.enc = mm.enc + profit
        /\ mm'.liability = mm.liability + Shortfall(profit)
      BY <2>1 DEF OpenTicket
  <2>3. profit \in Nat
    <3>1. odds \in Odd
        BY PromosAssumption DEF Odd
    <3>. QED
        BY <3>1, ProfitType
  <2>4. mm'.enc <= mm'.liability
      BY <1>4, <2>2, <2>3, ShortfallBounds DEF Kept
  <2>5. Wins' = [Wins EXCEPT ![b] = profit]
    <3>1. ticket'[b].amount = amount /\ ticket'[b].odds = odds
        BY <1>1, <2>2
    <3>2. \A c \in Bets \ {b} : ticket'[c] = ticket[c]
        BY <1>1, <2>2
    <3>. HIDE DEF opened
    <3>. QED
        BY <3>1, <3>2 DEF Wins
  <2>. HIDE DEF profit
  <2>6. Total(Wins') = Total(Wins) - Wins[b] + profit
      BY <1>2, <2>3, <2>5, TotalSet
  <2>7. Total(Wins') = mm'.enc
      BY <1>1, <1>2, <1>4, <2>2, <2>3, <2>6
  <2>. QED
      BY <2>4, <2>7 DEF Encumbered
<1>7. ASSUME NEW b \in Bets, SettleStep(b)
      PROVE  Encumbered'
  <2>. DEFINE t == ticket[b]
              profit == Profit(t.amount, t.odds)
  <2>1. CanSettle(b) /\ mm' = PaidByMM(t) /\ ticket' = [ticket EXCEPT ![b] = NoTicket]
    <3>1. PICK after \in Promo : CanSettle(b) /\ CloseTicket(b, after)
        BY <1>7, SettleEffect
    <3>. QED
        BY <3>1 DEF CloseTicket
  <2>2. Exists(b)
      BY <2>1 DEF CanSettle, Exists, Graded
  <2>3. /\ profit \in Nat
        /\ MMProfit(t) \in Nat /\ MMProfit(t) <= profit
        /\ StakeLost(t) \in Nat
      BY <2>2, SettledAmounts
  <2>4. mm'.enc = mm.enc - profit /\ mm'.liability = mm.liability - MMProfit(t) + StakeLost(t)
      BY <1>1, <2>1 DEF PaidByMM
  <2>5. mm'.enc <= mm'.liability
    <3>. HIDE DEF profit, t
    <3>. QED
        BY <1>1, <1>4, <2>3, <2>4
  <2>6. Wins[b] = profit
      BY DEF Wins
  <2>7. Wins' = [Wins EXCEPT ![b] = 0]
    <3>1. ticket'[b].amount = 0 /\ ticket'[b].odds = 0
        BY <1>1, <2>1 DEF NoTicket
    <3>2. \A c \in Bets \ {b} : ticket'[c] = ticket[c]
        BY <1>1, <2>1
    <3>3. Profit(0, 0) = 0
        BY ScaleAssumption DEF Profit
    <3>. QED
        BY <3>1, <3>2, <3>3 DEF Wins
  <2>. HIDE DEF profit, t
  <2>8. Total(Wins') = Total(Wins) - profit
    <3>1. Total(Wins') = Total(Wins) - Wins[b] + 0
        BY <1>2, <2>7, TotalSet
    <3>. QED
        BY <1>1, <1>4, <2>3, <2>6, <3>1
  <2>. QED
      BY <1>4, <2>4, <2>5, <2>8 DEF Encumbered
<1>8. CASE Quiet
  <2>1. Wins' = Wins
      BY <1>8 DEF Wins, Quiet
  <2>. QED
      BY <1>4, <1>8, <2>1 DEF Quiet, Encumbered
<1>. QED
    BY <1>5, <1>6, <1>7, <1>8, VoucherSteps DEF Issue, Revoke

\* The account that paid a stake is there until the stake comes back: it is
\* closed only when no voucher is open.
LEMMA FreebetsReturnStep ==
    ASSUME Kept, OpenCountExact, UsedByOne, FreebetsReturn, [Next]_vars
    PROVE  FreebetsReturn'
<1>1. ticket \in [Bets -> Ticket] /\ issuer \in Issuer
    BY DEF Kept, TypeOK
<1>2. \A b \in Bets : Exists(b) => issuer.open # 0
    BY SomeOpen DEF UsedByOne, Kept, TicketsKept
<1>3. ASSUME \A b \in Bets : Exists(b)' => Exists(b) /\ ticket'[b].promo = ticket[b].promo,
             \/ issuer.ata => issuer'.ata
             \/ issuer.open = 0
      PROVE  FreebetsReturn'
    BY <1>2, <1>3 DEF FreebetsReturn
<1>4. ASSUME UNCHANGED ticket, issuer.ata = issuer'.ata
      PROVE  FreebetsReturn'
    BY <1>3, <1>4 DEF Exists
<1>5. CASE \E p \in Promos, amount \in Amounts, ttl \in 1..Life : Issue(p, amount, ttl)
    BY <1>1, <1>4, <1>5 DEF Issue, Issuer
<1>6. CASE \E p \in Promos : Revoke(p)
    BY <1>1, <1>4, <1>6 DEF Revoke, Issuer
<1>7. CASE FillStep
  <2>1. PICK b \in Bets, p \in Promos, odds \in Prices, amount \in Nat :
          /\ OpenTicket(b, p, odds, amount)
          /\ \/ /\ issuer.ata
                /\ issuer' = [issuer EXCEPT !.balance = @ - amount]
             \/ p \in Boosts /\ issuer' = issuer
      BY <1>7, FillEffect DEF Kept
  <2>2. issuer'.ata = issuer.ata
      BY <1>1, <2>1 DEF Issuer
  <2>3. /\ ticket'[b].promo = p
        /\ \A c \in Bets \ {b} : ticket'[c] = ticket[c] /\ (Exists(c)' <=> Exists(c))
      BY <1>1, <2>1 DEF OpenTicket, Exists
  <2>4. p \in Freebets => issuer.ata
      BY <2>1, PromosAssumption
  <2>. QED
      BY <2>2, <2>3, <2>4 DEF FreebetsReturn
<1>8. ASSUME NEW b \in Bets, SettleStep(b)
      PROVE  FreebetsReturn'
  <2>1. issuer'.ata = issuer.ata /\ ticket' = [ticket EXCEPT ![b] = NoTicket]
    <3>1. PICK after \in Promo : CloseTicket(b, after) /\ issuer'.ata = issuer.ata
        BY <1>8, SettleEffect
    <3>. QED
        BY <3>1 DEF CloseTicket
  <2>2. \A c \in Bets : Exists(c)' => Exists(c) /\ ticket'[c].promo = ticket[c].promo
      BY <1>1, <2>1 DEF Exists, NoTicket
  <2>. QED
      BY <1>3, <2>1, <2>2
<1>9. CASE Quiet
    BY <1>3, <1>9 DEF Quiet
<1>. QED
    BY <1>5, <1>6, <1>7, <1>8, <1>9, VoucherSteps

-----------------------------------------------------------------------------
(* The invariant *)

\* Nothing is issued and nothing is open at first.
LEMMA InitInv ==
    ASSUME Init
    PROVE  IInv
<1>1. \A b \in Bets : ticket[b] = NoTicket /\ ~Exists(b)
    BY DEF Init, Exists, NoTicket
<1>2. \A p \in Promos : promo[p] = NoPromo /\ promo[p].state = "Unused"
    BY DEF Init, NoPromo
<1>3. NoPromo \in Promo /\ NoTicket \in Ticket
    BY PromosAssumption DEF NoPromo, Promo, LongestLife, NoTicket, Ticket, Results
<1>4. Kept
    BY <1>1, <1>3, PromosAssumption DEF Init, Kept, TypeOK, TicketsKept, Issuer
<1>5. OpenCountExact /\ GoneCountsNone
  <2>1. {p \in Promos : promo[p].state # "Unused"} = {}
      BY <1>2
  <2>. QED
      BY <2>1, FS_EmptySet DEF Init, OpenCountExact, GoneCountsNone
<1>6. UsedByOne /\ FreebetsReturn
    BY <1>1, <1>2 DEF UsedByOne, FreebetsReturn
<1>7. Encumbered
  <2>1. Wins \in [Bets -> Nat] /\ \A b \in Bets : Wins[b] = 0
      BY <1>1, <1>4, WinsType
  <2>2. Wins = [b \in Bets |-> 0]
      BY <2>1
  <2>3. Total(Wins) = 0
      BY <2>2, TotalZero, PromosAssumption
  <2>. QED
      BY <2>3 DEF Init, Encumbered
<1>. QED
    BY <1>4, <1>5, <1>6, <1>7 DEF IInv

\* The invariant holds in every reachable state.
LEMMA Inductive ==
    Spec => []IInv
<1>1. IInv /\ [Next]_vars => IInv'
    BY NextKept, CountStep, UsedStep, EncumberedStep, FreebetsReturnStep DEF IInv
<1>. QED
    BY <1>1, InitInv, PTL DEF Spec

-----------------------------------------------------------------------------
(* What follows from it *)

\* bump_open_count (promo_issuer_helpers) and the eight places that call it: the
\* count is the number of open vouchers, so the issuer's accounts close exactly
\* when none is left, and the subtraction never underflows.
THEOREM OpenCountsHold ==
    Spec => []OpenCountExact
<1>1. IInv => OpenCountExact
    BY DEF IInv
<1>. QED
    BY <1>1, Inductive, PTL

\* mark_freebet_used, mark_boost_used and the settlements: a used voucher is
\* behind exactly one ticket, through reinstatement, halving and re-issue.
THEOREM OneTicketPerVoucher ==
    Spec => []UsedByOne
<1>1. IInv => UsedByOne
    BY DEF IInv
<1>. QED
    BY <1>1, Inductive, PTL

\* settle_fillers and settle_parlay_core with a freebet or a boost: every check
\* that could refuse a graded ticket passes, but for the issuer's account that
\* a boost needs and nothing keeps open.
THEOREM GradedIsPayable ==
    Spec => []PayableWhenGraded
<1>1. ASSUME IInv, NEW b \in Bets, ticket[b].result \in Graded, ~paused
      PROVE  \/ ticket[b].promo \in Freebets /\ CanSettle(b)
             \/ ticket[b].promo \in Boosts /\ (issuer.ata => CanSettle(b))
  <2>. DEFINE t == ticket[b]
  <2>1. Exists(b)
      BY <1>1 DEF Exists, Graded
  <2>2. t.promo \in Promos /\ t.amount <= stake[b]
      BY <1>1, <2>1 DEF IInv, Kept, TicketsKept
  <2>3. promo[t.promo].state = "Used" /\ issuer.exists
      BY <1>1, <2>1 DEF IInv, UsedByOne
  <2>4. /\ Profit(t.amount, t.odds) \in Nat
        /\ MMProfit(t) \in Nat /\ MMProfit(t) <= Profit(t.amount, t.odds)
      BY <1>1, <2>1, SettledAmounts DEF IInv
  <2>5. Profit(t.amount, t.odds) <= mm.enc
    <3>1. Wins \in [Bets -> Nat]
        BY <1>1, WinsType DEF IInv
    <3>2. Wins[b] <= Total(Wins)
        BY <3>1, TotalMember, PromosAssumption
    <3>. QED
        BY <1>1, <3>2 DEF Wins, IInv, Encumbered
  <2>6. MMProfit(t) <= mm.liability
    <3>1. mm.enc \in Nat /\ mm.liability \in Nat /\ mm.enc <= mm.liability
        BY <1>1 DEF IInv, Kept, TypeOK, Encumbered
    <3>. HIDE DEF t
    <3>. QED
        BY <2>4, <2>5, <3>1
  <2>7. issuer.ata => CanSettle(b)
      BY <1>1, <2>2, <2>3, <2>5, <2>6 DEF CanSettle
  <2>8. t.promo \in Freebets => issuer.ata
      BY <1>1, <2>1 DEF IInv, FreebetsReturn
  <2>. QED
      BY <2>2, <2>7, <2>8 DEF Promos
<1>2. IInv => PayableWhenGraded
    BY <1>1 DEF PayableWhenGraded
<1>. QED
    BY <1>2, Inductive, PTL

\* Every variable keeps its type: no balance and no count of the issuer, the
\* user or the market maker goes below 0 in any of the program's instructions.
THEOREM TypesHold ==
    Spec => []TypeOK
<1>1. IInv => TypeOK
    BY DEF IInv, Kept
<1>. QED
    BY <1>1, Inductive, PTL

\* A step that only moves tokens between the parties.
LEMMA ConservedStep ==
    ASSUME Kept, Conserved, [Next]_vars
    PROVE  Conserved'
<1>1. /\ issuer \in Issuer /\ auth \in Nat /\ user \in Nat
      /\ mm \in [wallet: Nat, liability: Nat, enc: Nat]
      /\ stake \in [Bets -> Nat]
      /\ issuer.balance \in Nat /\ mm.wallet \in Nat /\ mm.liability \in Nat /\ mm.enc \in Nat
    BY DEF Kept, TypeOK, Issuer
<1>2. Total(stake) \in Nat
    BY <1>1, TotalType, PromosAssumption
<1>3. auth + issuer.balance + Total(stake) + user + mm.wallet + mm.liability
        = IssuerFunds + UserFunds + MMFunds
    BY DEF Conserved, Supply
<1>4. ASSUME auth' + issuer'.balance = auth + issuer.balance,
             auth' \in Int, issuer'.balance \in Int, UNCHANGED <<stake, user, mm>>
      PROVE  Conserved'
    BY <1>1, <1>2, <1>3, <1>4 DEF Conserved, Supply
<1>5. ASSUME UNCHANGED <<auth, issuer, stake, user, mm>>
      PROVE  Conserved'
    BY <1>3, <1>5 DEF Conserved, Supply
<1>6. CASE IssuerStep
  <2>1. CASE InitPromoIssuer \/ RemovePromoIssuer \/ CreatePromoIssuerAta
    <3>1. issuer'.balance = issuer.balance /\ UNCHANGED <<auth, stake, user, mm>>
        BY <1>1, <2>1
        DEF InitPromoIssuer, RemovePromoIssuer, CreatePromoIssuerAta, Issuer
    <3>. QED
        BY <1>1, <1>4, <3>1
  <2>2. CASE ClosePromoIssuerAta
    <3>1. issuer'.balance = 0 /\ auth' = auth + issuer.balance
        BY <1>1, <2>2 DEF ClosePromoIssuerAta, Issuer
    <3>. QED
        BY <1>1, <1>4, <2>2, <3>1 DEF ClosePromoIssuerAta
  <2>3. ASSUME NEW amount \in Amounts, DepositPromoFunds(amount) \/ WithdrawPromoFunds(amount)
        PROVE  Conserved'
    <3>1. amount \in Nat
        BY PromosAssumption
    <3>2. \/ issuer'.balance = issuer.balance + amount /\ auth' = auth - amount
          \/ issuer'.balance = issuer.balance - amount /\ auth' = auth + amount
        BY <1>1, <2>3 DEF DepositPromoFunds, WithdrawPromoFunds, Issuer
    <3>3. UNCHANGED <<stake, user, mm>>
        BY <2>3 DEF DepositPromoFunds, WithdrawPromoFunds
    <3>. QED
        BY <1>1, <1>4, <3>1, <3>2, <3>3
  <2>4. ASSUME \/ \E p \in Promos, amount \in Amounts, ttl \in 1..Life : Issue(p, amount, ttl)
               \/ \E p \in Promos : Revoke(p)
        PROVE  Conserved'
    <3>1. issuer'.balance = issuer.balance /\ UNCHANGED <<auth, stake, user, mm>>
        BY <1>1, <2>4 DEF Issue, Revoke, Issuer
    <3>. QED
        BY <1>1, <1>4, <3>1
  <2>. QED
      BY <1>6, <2>1, <2>2, <2>3, <2>4
      DEF IssuerStep, IssueFreebet, IssueBoost, RevokeFreebet, RevokeBoost
<1>7. CASE FillStep
  <2>1. PICK b \in Bets, p \in Promos, odds \in Prices, amount \in Nat :
          /\ OpenTicket(b, p, odds, amount)
          /\ \/ issuer' = [issuer EXCEPT !.balance = @ - amount] /\ user' = user
             \/ user' = user - amount /\ issuer' = issuer
      BY <1>7, FillEffect DEF Kept
  <2>. DEFINE short == Shortfall(Profit(amount, odds))
  <2>2. short \in Nat
    <3>1. odds \in Odd
        BY PromosAssumption DEF Odd
    <3>2. Profit(amount, odds) \in Nat
        BY <3>1, ProfitType
    <3>. QED
        BY <2>1, <3>2, ShortfallBounds DEF Kept, OpenTicket
  <2>3. /\ mm'.wallet = mm.wallet - short /\ mm'.liability = mm.liability + short
        /\ auth' = auth /\ stake' = [stake EXCEPT ![b] = stake[b] + amount]
      BY <2>1 DEF OpenTicket
  <2>. HIDE DEF short
  <2>4. Total(stake') = Total(stake) + amount
    <3>1. stake[b] \in Nat /\ stake[b] + amount \in Nat
        BY <1>1
    <3>2. Total(stake') = Total(stake) - stake[b] + (stake[b] + amount)
        BY <1>1, <2>3, <3>1, TotalSet
    <3>. QED
        BY <1>2, <3>1, <3>2
  <2>5. issuer'.balance + user' = issuer.balance + user - amount
        /\ issuer'.balance \in Int /\ user' \in Int
      BY <1>1, <2>1 DEF Issuer
  <2>. QED
      BY <1>1, <1>2, <1>3, <2>2, <2>3, <2>4, <2>5 DEF Conserved, Supply
<1>8. ASSUME NEW b \in Bets, SettleStep(b)
      PROVE  Conserved'
  <2>. DEFINE t == ticket[b]
              paid == MMProfit(t)
              lost == StakeLost(t)
              top == TopUp(t)
  <2>1. /\ CanSettle(b) /\ mm' = PaidByMM(t) /\ auth' = auth
        /\ stake' = [stake EXCEPT ![b] = 0]
        /\ \/ /\ user' = user + paid
              /\ issuer'.balance = issuer.balance + stake[b] - lost
           \/ /\ user' = user + paid + stake[b] - lost + top
              /\ issuer'.balance = issuer.balance - top
    <3>1. PICK after \in Promo :
            /\ CanSettle(b) /\ CloseTicket(b, after)
            /\ \/ /\ user' = user + paid
                  /\ issuer'.balance = issuer.balance + stake[b] - lost
               \/ /\ user' = user + paid + stake[b] - lost + top
                  /\ issuer'.balance = issuer.balance - top
        BY <1>8, SettleEffect
    <3>. QED
        BY <3>1 DEF CloseTicket
  <2>2. paid \in Nat /\ lost \in Nat /\ top \in Nat
    <3>1. Exists(b)
        BY <2>1 DEF CanSettle, Exists, Graded
    <3>. QED
        BY <3>1, SettledAmounts
  <2>3. mm'.wallet = mm.wallet /\ mm'.liability = mm.liability - paid + lost
      BY <1>1, <2>1 DEF PaidByMM
  <2>. HIDE DEF paid, lost, top
  <2>4. stake[b] \in Nat /\ Total(stake') = Total(stake) - stake[b] + 0
      BY <1>1, <2>1, TotalSet
  <2>. QED
      BY <1>1, <1>2, <1>3, <2>1, <2>2, <2>3, <2>4 DEF Conserved, Supply
<1>9. CASE \/ \E b \in Bets, result \in Grades, left \in Returns : Grade(b, result, left)
           \/ Tick \/ ChangeConfigStatus \/ UNCHANGED vars
    BY <1>5, <1>9 DEF Grade, Tick, ChangeConfigStatus, vars
<1>10. CASE WithdrawMM
  <2>1. /\ mm'.wallet = mm.wallet + mm.liability - mm.enc /\ mm'.liability = mm.enc
        /\ UNCHANGED <<auth, issuer, stake, user>>
      BY <1>1, <1>10 DEF WithdrawMM
  <2>. QED
      BY <1>1, <1>2, <1>3, <2>1 DEF Conserved, Supply
<1>. QED
    BY <1>6, <1>7, <1>8, <1>9, <1>10 DEF Next

\* The settlements with a freebet or a boost, and the issuer's transfers: no
\* token is made or lost between the issuer, the user, the market maker and the
\* tickets, roundings of halves and top-ups included.
THEOREM TokensConserved ==
    Spec => []Conserved
<1>1. Init => Conserved
  <2>1. ASSUME Init
        PROVE  Total(stake) = 0
      BY <2>1, TotalZero DEF Init
  <2>. QED
    <3>1. ASSUME Init
          PROVE  /\ auth = IssuerFunds /\ user = UserFunds /\ Total(stake) = 0
                 /\ issuer.balance = 0 /\ mm.wallet = MMFunds /\ mm.liability = 0
        BY <2>1, <3>1 DEF Init
    <3>. QED
        BY <3>1, PromosAssumption DEF Conserved, Supply
<1>2. IInv /\ Conserved /\ [Next]_vars => Conserved'
    BY ConservedStep DEF IInv
<1>. QED
    BY <1>1, <1>2, Inductive, PTL DEF Spec
=============================================================================
