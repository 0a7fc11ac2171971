--------------------------- MODULE SinglesProofs ---------------------------
(***************************************************************************)
(* The theorems about single bets that hold for every number of market     *)
(* makers, bets, cashouts and markets, and for all amounts and prices.     *)
(***************************************************************************)
EXTENDS Singles, AmountProofs

-----------------------------------------------------------------------------
(* Peaks *)

\* The peak of a market is an amount that covers each of its outcomes.
LEMMA PeakType ==
    ASSUME NEW open \in [Sides -> Nat]
    PROVE  /\ Peak(open) \in Nat
           /\ \A side \in Sides : open[side] <= Peak(open)
<1>1. open[0] \in Nat /\ open[1] \in Nat /\ open[2] \in Nat
    BY DEF Sides
<1>2. \A side \in Sides : side = 0 \/ side = 1 \/ side = 2
    BY DEF Sides
<1>. QED
    BY <1>1, <1>2 DEF Peak, GreaterOf

\* More open profit never lowers a peak.
LEMMA PeakMonotone ==
    ASSUME NEW open \in [Sides -> Nat], NEW more \in [Sides -> Nat],
           \A side \in Sides : open[side] <= more[side]
    PROVE  Peak(open) <= Peak(more)
<1>1. /\ open[0] \in Nat /\ open[1] \in Nat /\ open[2] \in Nat
      /\ more[0] \in Nat /\ more[1] \in Nat /\ more[2] \in Nat
      /\ open[0] <= more[0] /\ open[1] <= more[1] /\ open[2] <= more[2]
    BY DEF Sides
<1>. QED
    BY <1>1 DEF Peak, GreaterOf

\* apply_netting keeps a book a book, and its peak does not fall.
LEMMA NettedBook ==
    ASSUME NEW bk \in Book, NEW mkt \in Mkts, NEW side \in Sides, NEW profit \in Nat
    PROVE  /\ Netted(bk, mkt, side, profit) \in Book
           /\ PeakRise(bk, mkt, side, profit) \in Nat
<1>. DEFINE new == Netted(bk, mkt, side, profit)
<1>1. new \in Book
  <2>1. bk.open \in [Mkts -> [Sides -> Nat]] /\ bk.lines \subseteq Lines
      BY DEF Book
  <2>2. bk.open[mkt][side] + profit \in Nat
      BY <2>1
  <2>3. [bk.open EXCEPT ![mkt][side] = @ + profit] \in [Mkts -> [Sides -> Nat]]
      BY <2>1, <2>2
  <2>. QED
      BY <2>1, <2>3 DEF Netted, Book
<1>2. bk.open[mkt] \in [Sides -> Nat] /\ new.open[mkt] \in [Sides -> Nat]
    BY <1>1 DEF Book
<1>3. \A s \in Sides : bk.open[mkt][s] <= new.open[mkt][s]
    BY <1>2 DEF Netted, Book
<1>4. Peak(bk.open[mkt]) <= Peak(new.open[mkt])
    BY <1>2, <1>3, PeakMonotone
<1>. QED
    BY <1>1, <1>2, <1>4, PeakType DEF PeakRise

\* apply_settle_netting keeps a book a book, and its peak does not rise.
LEMMA UnnettedBook ==
    ASSUME NEW bk \in Book, NEW mkt, NEW side \in Sides, NEW profit \in Nat,
           CanUnnet(bk, mkt, side, profit)
    PROVE  /\ Unnetted(bk, mkt, side, profit) \in Book
           /\ PeakDrop(bk, mkt, side, profit) \in Nat
<1>1. CASE profit = 0
    BY <1>1 DEF Unnetted, PeakDrop
<1>2. CASE profit # 0
  <2>. DEFINE new == Unnetted(bk, mkt, side, profit)
  <2>1. mkt \in Mkts /\ profit <= bk.open[mkt][side]
      BY <1>2 DEF CanUnnet, Book, Mkts
  <2>2. bk.open[mkt][side] - profit \in Nat
      BY <2>1 DEF Book
  <2>3. new \in Book
      BY <1>2, <2>1, <2>2 DEF Unnetted, Book
  <2>4. bk.open[mkt] \in [Sides -> Nat] /\ new.open[mkt] \in [Sides -> Nat]
      BY <2>1, <2>3 DEF Book
  <2>5. \A s \in Sides : new.open[mkt][s] <= bk.open[mkt][s]
      BY <1>2, <2>1, <2>2, <2>4 DEF Unnetted, Book
  <2>6. Peak(new.open[mkt]) <= Peak(bk.open[mkt])
      BY <2>4, <2>5, PeakMonotone
  <2>. QED
      BY <1>2, <2>3, <2>4, <2>6, PeakType DEF PeakDrop
<1>. QED
    BY <1>1, <1>2

-----------------------------------------------------------------------------
(* Types *)

\* The fields of a slice, and what it would win and pay.
LEMMA SliceFields ==
    ASSUME NEW s \in Slice
    PROVE  /\ s.amount \in Nat /\ s.reserved \in Nat
           /\ s.odds \in Odd /\ s.netted \in BOOLEAN
           /\ Profit(s.amount, s.odds) \in Nat
           /\ Payout(s.amount, s.odds) \in Nat
<1>1. s.amount \in Nat /\ s.reserved \in Nat /\ s.odds \in Odd /\ s.netted \in BOOLEAN
    BY DEF Slice, Odd
<1>. QED
    BY <1>1, ProfitType, PayoutType

\* The records that stand for an account that does not exist.
LEMMA EmptyTypes ==
    /\ NoSlice \in Slice
    /\ NoTicket \in Ticket
    /\ NoVault \in Vault
    /\ NoBook \in Book
    /\ NoEscrow \in Escrow
<1>1. NoSlice \in Slice
    BY ScaleAssumption DEF NoSlice, Slice
<1>2. << >> \in Seq(MMs)
    OBVIOUS
<1>3. NoTicket \in Ticket
    BY <1>1, <1>2 DEF NoTicket, Ticket, Results, Sides
<1>4. NoVault \in Vault
    BY DEF NoVault, Vault
<1>5. NoBook \in Book
    BY DEF NoBook, Book, FlatOpen
<1>6. NoEscrow \in Escrow
    BY DEF NoEscrow, Escrow
<1>. QED
    BY <1>1, <1>3, <1>4, <1>5, <1>6

-----------------------------------------------------------------------------
(* Type correctness *)

\* The initial state is well typed.
LEMMA InitType ==
    ASSUME Init PROVE TypeOK
<1>1. [NoVault EXCEPT !.exists = TRUE] \in Vault
    BY DEF NoVault, Vault
<1>2. [NoBook EXCEPT !.exists = TRUE] \in Book
    BY DEF NoBook, Book, FlatOpen
<1>3. vault \in [MMs -> Vault]
    BY <1>1, EmptyTypes DEF Init
<1>4. book \in [MMs -> Book]
    BY <1>2, EmptyTypes DEF Init
<1>5. wallet \in [MMs -> Nat] /\ user \in Nat
    BY CustodyAssumption DEF Init
<1>6. ticket \in [Tickets -> Ticket] /\ stake \in [Tickets -> Nat] /\ escrow \in [Bets -> Escrow]
    BY EmptyTypes DEF Init
<1>7. live \in [MMs -> BOOLEAN] /\ paused \in BOOLEAN
    BY DEF Init
<1>. QED
    BY <1>3, <1>4, <1>5, <1>6, <1>7 DEF TypeOK

\* The admin instructions of a market maker keep the types: the withdrawal
\* checks leave no balance below 0.
LEMMA AdminType ==
    ASSUME TypeOK, NEW m \in MMs, AdminStep(m) PROVE TypeOK'
<1>. USE DEF money, positions
<1>1. CASE InitMmMintVault(m)
  <2>1. [NoVault EXCEPT !.exists = TRUE] \in Vault
      BY DEF NoVault, Vault
  <2>. QED
      BY <1>1, <2>1 DEF InitMmMintVault, TypeOK
<1>2. CASE CreateNettingAccount(m)
  <2>1. [NoBook EXCEPT !.exists = TRUE] \in Book
      BY DEF NoBook, Book, FlatOpen
  <2>. QED
      BY <1>2, <2>1 DEF CreateNettingAccount, TypeOK
<1>3. CASE CloseMmMintVault(m)
  <2>1. wallet[m] + vault[m].liability \in Nat
      BY DEF TypeOK, Vault
  <2>. QED
      BY <1>3, <2>1, EmptyTypes DEF CloseMmMintVault, TypeOK
<1>4. CASE CloseNettingAccount(m)
    BY <1>4, EmptyTypes DEF CloseNettingAccount, TypeOK
<1>5. CASE \E line \in Lines : AddLine(m, line) \/ RemoveLine(m, line)
  <2>1. PICK line \in Lines : AddLine(m, line) \/ RemoveLine(m, line)
      BY <1>5
  <2>2. \A ls \in SUBSET Lines : [book[m] EXCEPT !.lines = ls] \in Book
      BY DEF TypeOK, Book
  <2>3. book[m].lines \subseteq Lines
      BY DEF TypeOK, Book
  <2>4. CASE AddLine(m, line)
    <3>1. book' = [book EXCEPT ![m] = [book[m] EXCEPT !.lines = book[m].lines \cup {line}]]
        BY <2>4 DEF AddLine
    <3>2. book' \in [MMs -> Book]
        BY <2>2, <2>3, <3>1 DEF TypeOK
    <3>. QED
        BY <2>4, <3>2 DEF AddLine, TypeOK
  <2>5. CASE RemoveLine(m, line)
    <3>1. book' = [book EXCEPT ![m] = [book[m] EXCEPT !.lines = book[m].lines \ {line}]]
        BY <2>5 DEF RemoveLine
    <3>2. book' \in [MMs -> Book]
        BY <2>2, <2>3, <3>1 DEF TypeOK
    <3>. QED
        BY <2>5, <3>2 DEF RemoveLine, TypeOK
  <2>. QED
      BY <2>1, <2>4, <2>5
<1>6. CASE \E amount \in Transfers : Deposit(m, amount)
  <2>1. PICK amount \in Transfers : Deposit(m, amount)
      BY <1>6
  <2>2. vault[m].liability + amount \in Nat /\ wallet[m] - amount \in Nat
      BY <2>1, SinglesAssumption DEF Deposit, TypeOK, Vault
  <2>. QED
      BY <2>1, <2>2 DEF Deposit, TypeOK, Vault
<1>7. CASE \E amount \in Transfers : Withdraw(m, amount)
  <2>1. PICK amount \in Transfers : Withdraw(m, amount)
      BY <1>7
  <2>2. amount \in Nat /\ vault[m].liability \in Nat /\ vault[m].enc \in Nat /\ wallet[m] \in Nat
      BY SinglesAssumption DEF TypeOK, Vault
  <2>3. vault[m].liability - amount \in Nat /\ wallet[m] + amount \in Nat
      BY <2>1, <2>2 DEF Withdraw
  <2>. QED
      BY <2>1, <2>3 DEF Withdraw, TypeOK, Vault
<1>. QED
    BY <1>1, <1>2, <1>3, <1>4, <1>5, <1>6, <1>7 DEF AdminStep

\* A donation keeps the types.
LEMMA DonateType ==
    ASSUME TypeOK, NEW k \in Tickets, Donate(k) PROVE TypeOK'
<1>1. user - 1 \in Nat /\ stake[k] + 1 \in Nat
    BY DEF Donate, TypeOK
<1>2. /\ user' = user - 1
      /\ stake' = [stake EXCEPT ![k] = @ + 1]
      /\ UNCHANGED <<vault, book, wallet, ticket, escrow, live, paused>>
    BY DEF Donate
<1>3. stake' \in [Tickets -> Nat]
    BY <1>1, <1>2 DEF TypeOK
<1>. QED
    BY <1>1, <1>2, <1>3 DEF TypeOK

\* grade_bets keeps the types.
LEMMA GradeType ==
    ASSUME TypeOK, NEW k \in Tickets, NEW result \in Grades, GradeBet(k, result)
    PROVE  TypeOK'
<1>1. result \in Results
    BY SettlementAssumption DEF Results
<1>2. /\ ticket' = [ticket EXCEPT ![k].result = result]
      /\ UNCHANGED <<vault, book, wallet, user, stake, escrow, live, paused>>
    BY DEF GradeBet, money
<1>3. ticket \in [Tickets -> Ticket]
    BY DEF TypeOK
<1>4. [ticket[k] EXCEPT !.result = result] \in Ticket
    BY <1>1, <1>3 DEF Ticket
<1>5. ticket' \in [Tickets -> Ticket]
    BY <1>2, <1>3, <1>4
<1>. QED
    BY <1>2, <1>5 DEF TypeOK

\* An event that leaves pregame keeps the types.
LEMMA EventType ==
    ASSUME TypeOK, EventStep PROVE TypeOK'
BY SinglesAssumption DEF EventStep, GoLive, TypeOK, money, positions

\* The pause switch keeps the types.
LEMMA PauseType ==
    ASSUME TypeOK, ChangeConfigStatus PROVE TypeOK'
BY DEF ChangeConfigStatus, TypeOK, money, positions

\* The clock keeps the types.
LEMMA TickType ==
    ASSUME TypeOK, Tick PROVE TypeOK'
<1>1. ASSUME NEW b \in Bets
      PROVE  LesserOf(escrow[b].age + 1, Delay) \in Nat
    BY <1>1, CashoutsAssumption DEF LesserOf, TypeOK, Escrow
<1>2. ASSUME NEW b \in Bets
      PROVE  [escrow[b] EXCEPT !.age = LesserOf(@ + 1, Delay)] \in Escrow
    BY <1>1 DEF TypeOK, Escrow
<1>. QED
    BY <1>2 DEF Tick, TypeOK, money, positions

\* What settling slice m of t releases and pays is there.
LEMMA SettleSlice ==
    ASSUME TypeOK, NEW t \in Ticket, NEW m \in MMs, CanPay(t, m)
    PROVE  /\ Drop(t, m) \in Nat
           /\ Drop(t, m) <= vault[m].enc
           /\ Pays(t, m) \in Nat
           /\ Pays(t, m) <= vault[m].liability
           /\ StakeLosses(t)[m] \in Nat
           /\ StakeLosses(t)[m] <= t.slices[m].amount
           /\ t.slices[m].netted =>
                Unnetted(book[m], t.mkt, t.side, t.slices[m].reserved) \in Book
<1>. DEFINE s == t.slices[m]
<1>1. s \in Slice /\ t.side \in Sides /\ vault[m] \in Vault /\ book[m] \in Book
    BY DEF TypeOK, Ticket
<1>2. s.amount \in Nat /\ s.reserved \in Nat /\ s.odds \in Odd
    BY <1>1, SliceFields
<1>3. s.amount \div 2 \in Nat /\ s.amount \div 2 <= s.amount
    BY <1>2
<1>4. vault[m].enc \in Nat /\ vault[m].liability \in Nat
    BY <1>1 DEF Vault
<1>. HIDE DEF s
<1>5. Pays(t, m) \in Nat /\ (s.amount = 0 => Pays(t, m) = 0)
  <2>1. Profit(s.amount, s.odds) \in Nat /\ Profit(s.amount \div 2, s.odds) \in Nat
      BY <1>2, <1>3, ProfitType
  <2>2. Profit(0, s.odds) = 0
      BY <1>2, ProfitOfNothing
  <2>3. s.amount = 0 => s.amount \div 2 = 0
      OBVIOUS
  <2>. QED
      BY <2>1, <2>2, <2>3 DEF Pays, ProfitDue, s
<1>6. StakeLosses(t)[m] \in Nat /\ StakeLosses(t)[m] <= s.amount
    BY <1>2, <1>3 DEF StakeLosses, StakeLost, s
<1>7. CASE Idle(s)
  <2>1. s.reserved = 0 /\ s.amount = 0
      BY <1>7 DEF Idle
  <2>2. Drop(t, m) = 0
      BY <2>1 DEF Drop, PeakDrop, s
  <2>3. Unnetted(book[m], t.mkt, t.side, s.reserved) = book[m]
      BY <2>1 DEF Unnetted
  <2>. QED
      BY <1>1, <1>4, <1>5, <1>6, <2>1, <2>2, <2>3 DEF s
<1>8. CASE ~Idle(s)
  <2>1. /\ s.amount > 0 => Pays(t, m) <= vault[m].liability
        /\ s.netted => CanUnnet(book[m], t.mkt, t.side, s.reserved)
        /\ Drop(t, m) <= vault[m].enc
      BY <1>8 DEF CanPay, s
  <2>2. Pays(t, m) <= vault[m].liability
      BY <1>2, <1>4, <1>5, <2>1
  <2>3. s.netted => /\ Unnetted(book[m], t.mkt, t.side, s.reserved) \in Book
                    /\ PeakDrop(book[m], t.mkt, t.side, s.reserved) \in Nat
      BY <1>1, <1>2, <2>1, UnnettedBook
  <2>4. Drop(t, m) \in Nat
      BY <1>2, <2>3 DEF Drop, s
  <2>. QED
      BY <1>5, <1>6, <2>1, <2>2, <2>3, <2>4 DEF s
<1>. QED
    BY <1>7, <1>8

\* settle_bet keeps the types: what it checks before it pays covers every
\* subtraction from balances, encumbrances and books.
LEMMA SettleType ==
    ASSUME TypeOK, NEW k \in Tickets, SettleBet(k) PROVE TypeOK'
<1>. DEFINE t == ticket[k]
            losses == StakeLosses(t)
            paid == [m \in MMs |-> Pays(t, m)]
            leftover == stake[k] - Total(losses)
            proceeds == leftover + Total(paid)
<1>1. t \in Ticket /\ \A m \in MMs : CanPay(t, m)
    BY DEF SettleBet, CanSettle, TypeOK
<1>. HIDE DEF t
<1>2. \A m \in MMs : /\ Drop(t, m) \in Nat /\ Drop(t, m) <= vault[m].enc
                     /\ Pays(t, m) \in Nat /\ Pays(t, m) <= vault[m].liability
                     /\ losses[m] \in Nat
    BY <1>1, SettleSlice
<1>3. Total(losses) \in Nat /\ Total(paid) \in Nat
  <2>1. losses \in [MMs -> Nat] /\ paid \in [MMs -> Nat]
      BY <1>2 DEF StakeLosses
  <2>. QED
      BY <2>1, TotalType, CustodyAssumption
<1>4. StakeReturned(t.result, t.amount) \in Nat
  <2>1. t.amount \in Nat /\ t.amount \div 2 \in Nat
      BY <1>1 DEF Ticket
  <2>. QED
      BY <2>1 DEF StakeReturned
<1>5. Total(losses) + StakeReturned(t.result, t.amount) <= stake[k]
    BY DEF SettleBet, CanSettle, t
<1>6. stake[k] \in Nat
    BY DEF TypeOK
<1>. HIDE DEF losses, paid
<1>7. proceeds \in Nat
    BY <1>3, <1>4, <1>5, <1>6
<1>. HIDE DEF proceeds
<1>8. vault' \in [MMs -> Vault]
  <2>1. ASSUME NEW m \in MMs
        PROVE  [vault[m] EXCEPT
                   !.liability = @ - Pays(t, m) + losses[m]
                                   + (IF m = t.by THEN proceeds ELSE 0),
                   !.enc = @ - Drop(t, m),
                   !.cashouts = @ - (IF m = t.by THEN 1 ELSE 0)] \in Vault
    <3>1. vault[m] \in Vault
        BY DEF TypeOK
    <3>2. /\ vault[m].liability \in Nat /\ vault[m].enc \in Nat
          /\ vault[m].cashouts \in Nat
        BY <3>1 DEF Vault
    <3>3. vault[m].liability - Pays(t, m) + losses[m]
              + (IF m = t.by THEN proceeds ELSE 0) \in Nat
        BY <1>2, <1>7, <3>2
    <3>4. vault[m].enc - Drop(t, m) \in Nat
        BY <1>2, <3>2
    <3>5. m = t.by => vault[m].cashouts > 0
        BY CustodyAssumption DEF SettleBet, CanSettle, t
    <3>6. vault[m].cashouts - (IF m = t.by THEN 1 ELSE 0) \in Nat
        BY <3>2, <3>5
    <3>. QED
        BY <3>1, <3>3, <3>4, <3>6 DEF Vault
  <2>2. vault' = [m \in MMs |->
            [vault[m] EXCEPT
                !.liability = @ - Pays(t, m) + losses[m]
                                + (IF m = t.by THEN proceeds ELSE 0),
                !.enc = @ - Drop(t, m),
                !.cashouts = @ - (IF m = t.by THEN 1 ELSE 0)]]
      BY DEF SettleBet, t, losses, paid, proceeds
  <2>. QED
      BY <2>1, <2>2
<1>9. book' \in [MMs -> Book]
  <2>1. \A m \in MMs : t.slices[m].netted =>
            Unnetted(book[m], t.mkt, t.side, t.slices[m].reserved) \in Book
      BY <1>1, SettleSlice
  <2>2. book' = [m \in MMs |->
            IF t.slices[m].netted
            THEN Unnetted(book[m], t.mkt, t.side, t.slices[m].reserved)
            ELSE book[m]]
      BY DEF SettleBet, t
  <2>. QED
      BY <2>1, <2>2 DEF TypeOK
<1>10. user' \in Nat
  <2>1. user' = IF t.by = None THEN user + proceeds ELSE user
      BY DEF SettleBet, t, losses, paid, proceeds
  <2>. QED
      BY <1>7, <2>1 DEF TypeOK
<1>11. /\ ticket' \in [Tickets -> Ticket]
       /\ stake' \in [Tickets -> Nat]
    BY EmptyTypes DEF SettleBet, TypeOK
<1>12. UNCHANGED <<wallet, escrow, live, paused>>
    BY DEF SettleBet
<1>. QED
    BY <1>8, <1>9, <1>10, <1>11, <1>12 DEF TypeOK

\* claim_cashout_escrow keeps the types.
LEMMA ClaimType ==
    ASSUME TypeOK, NEW b \in Bets, ClaimCashoutEscrow(b) PROVE TypeOK'
<1>. DEFINE dust == IF ticket[b].result = "CashedOut" THEN stake[b] ELSE 0
<1>1. b \in Tickets /\ stake[b] \in Nat /\ dust \in Nat /\ dust <= stake[b]
    BY DEF Tickets, TypeOK
<1>2. escrow[b].payment \in Nat
    BY DEF TypeOK, Escrow
<1>3. user + escrow[b].payment + dust \in Nat /\ stake[b] - dust \in Nat
    BY <1>1, <1>2 DEF TypeOK
<1>4. user' = user + escrow[b].payment + dust /\ stake' = [stake EXCEPT ![b] = @ - dust]
    BY DEF ClaimCashoutEscrow
<1>. HIDE DEF dust
<1>5. user' \in Nat /\ stake' \in [Tickets -> Nat]
    BY <1>1, <1>3, <1>4 DEF TypeOK
<1>6. ticket' \in [Tickets -> Ticket] /\ escrow' \in [Bets -> Escrow]
    BY EmptyTypes, Zenon DEF ClaimCashoutEscrow, TypeOK
<1>7. UNCHANGED <<vault, book, wallet, live, paused>>
    BY DEF ClaimCashoutEscrow
<1>. QED
    BY <1>5, <1>6, <1>7 DEF TypeOK

\* Merging the slices of two tickets gives slices.
LEMMA RestoredType ==
    ASSUME NEW t \in Ticket, NEW co \in Ticket, Len(t.fillers) = Len(co.fillers)
    PROVE  Restored(t, co) \in [MMs -> Slice]
<1>. DEFINE At(m) == CHOOSE i \in DOMAIN t.fillers : t.fillers[i] = m
            back(m) == co.slices[co.fillers[At(m)]]
<1>1. /\ t.fillers \in Seq(MMs) /\ co.fillers \in Seq(MMs)
      /\ t.slices \in [MMs -> Slice] /\ co.slices \in [MMs -> Slice]
    BY DEF Ticket
<1>2. ASSUME NEW m \in MMs, m \in Range(t.fillers)
      PROVE  [t.slices[m] EXCEPT !.amount = @ + back(m).amount,
                                 !.reserved = @ + back(m).reserved] \in Slice
  <2>1. At(m) \in DOMAIN t.fillers
      BY <1>2 DEF Range
  <2>. HIDE DEF At
  <2>2. co.fillers[At(m)] \in MMs
      BY <1>1, <2>1
  <2>3. back(m) \in Slice /\ t.slices[m] \in Slice
      BY <1>1, <2>2
  <2>. HIDE DEF back
  <2>4. /\ t.slices[m].amount \in Nat /\ t.slices[m].reserved \in Nat
        /\ back(m).amount \in Nat /\ back(m).reserved \in Nat
      BY <2>3 DEF Slice
  <2>5. /\ t.slices[m].amount + back(m).amount \in Nat
        /\ t.slices[m].reserved + back(m).reserved \in Nat
      BY <2>4
  <2>. QED
      BY <2>3, <2>5 DEF Slice
<1>. QED
    BY <1>1, <1>2, EmptyTypes, Zenon DEF Restored

\* revert_cashout keeps the types: only the stake the ticket holds returns.
LEMMA RevertType ==
    ASSUME TypeOK, NEW b \in Bets, RevertCashout(b) PROVE TypeOK'
<1>. DEFINE e == escrow[b]
            t == ticket[b]
            co == ticket[e.cash]
<1>1. e \in Escrow /\ e.cash \in Cashouts /\ e.mm \in MMs \cup {None}
    BY DEF TypeOK, Escrow, RevertCashout, EscrowLive
<1>2. b \in Tickets /\ e.cash \in Tickets /\ b # e.cash
    BY <1>1, CustodyAssumption DEF Tickets
<1>3. t \in Ticket /\ co \in Ticket
    BY <1>2 DEF TypeOK
<1>4. e.amount \in Nat /\ e.removed \in Nat /\ e.payment \in Nat
    BY <1>1 DEF Escrow
<1>. HIDE DEF e, t, co
<1>5. Restored(t, co) \in [MMs -> Slice]
    BY <1>3, RestoredType DEF RevertCashout, t, co, e
<1>6. [t EXCEPT !.amount = @ + e.amount, !.payout = @ + e.removed,
                !.slices = Restored(t, co),
                !.result = IF @ = "RolledBack" THEN @ ELSE "Pending"] \in Ticket
  <2>0. t.amount \in Nat /\ t.payout \in Nat
      BY <1>3 DEF Ticket
  <2>1. t.amount + e.amount \in Nat /\ t.payout + e.removed \in Nat
      BY <1>4, <2>0
  <2>2. (IF t.result = "RolledBack" THEN t.result ELSE "Pending") \in Results
      BY DEF Results, GradeResults, VoidResults
  <2>. QED
      BY <1>3, <1>5, <2>1, <2>2 DEF Ticket
<1>7. ticket' = [ticket EXCEPT
          ![b] = [t EXCEPT !.amount = @ + e.amount, !.payout = @ + e.removed,
                           !.slices = Restored(t, co),
                           !.result = IF @ = "RolledBack" THEN @ ELSE "Pending"],
          ![e.cash] = NoTicket]
    BY DEF RevertCashout, t, co, e
<1>8. ticket' \in [Tickets -> Ticket]
    BY <1>2, <1>6, <1>7, EmptyTypes DEF TypeOK
<1>9. /\ e.amount <= stake[e.cash]
      /\ stake' = [stake EXCEPT ![b] = @ + e.amount, ![e.cash] = 0]
      /\ user' = user + (stake[e.cash] - e.amount)
    BY DEF RevertCashout, e
<1>10. stake' \in [Tickets -> Nat] /\ user' \in Nat
  <2>1. stake[b] + e.amount \in Nat /\ stake[e.cash] - e.amount \in Nat
      BY <1>2, <1>4, <1>9 DEF TypeOK
  <2>2. user' \in Nat
      BY <1>9, <2>1 DEF TypeOK
  <2>3. stake' \in [Tickets -> Nat]
      BY <1>2, <1>9, <2>1 DEF TypeOK
  <2>. QED
      BY <2>2, <2>3
<1>11. vault' \in [MMs -> Vault]
  <2>1. /\ vault[e.mm].cashouts > 0
        /\ vault' = [vault EXCEPT ![e.mm].liability = @ + e.payment,
                                  ![e.mm].cashouts = @ - 1]
      BY DEF RevertCashout, e
  <2>2. CASE e.mm \in MMs
    <3>1. vault[e.mm] \in Vault
        BY <2>2 DEF TypeOK
    <3>2. vault[e.mm].liability + e.payment \in Nat /\ vault[e.mm].cashouts - 1 \in Nat
        BY <1>4, <2>1, <3>1 DEF Vault
    <3>3. [vault[e.mm] EXCEPT !.liability = @ + e.payment, !.cashouts = @ - 1] \in Vault
        BY <3>1, <3>2 DEF Vault
    <3>4. vault' = [vault EXCEPT ![e.mm] =
              [vault[e.mm] EXCEPT !.liability = @ + e.payment, !.cashouts = @ - 1]]
        BY <2>1, <2>2 DEF TypeOK
    <3>. QED
        BY <3>3, <3>4 DEF TypeOK
  <2>3. CASE e.mm \notin MMs
      BY <2>1, <2>3 DEF TypeOK
  <2>. QED
      BY <2>2, <2>3
<1>12. escrow' \in [Bets -> Escrow]
    BY EmptyTypes DEF RevertCashout, TypeOK
<1>13. UNCHANGED <<book, wallet, live, paused>>
    BY DEF RevertCashout
<1>. QED
    BY <1>8, <1>10, <1>11, <1>12, <1>13 DEF TypeOK

\* Both parts of a divided slice are slices.
LEMMA SplitType ==
    ASSUME NEW s \in Slice, NEW cashed \in 0..s.amount
    PROVE  /\ CashedSlice(s, cashed) \in Slice
           /\ RemainingSlice(s, cashed) \in Slice
<1>1. s.amount \in Nat /\ s.reserved \in Nat /\ s.odds \in Odd
    BY SliceFields
<1>2. cashed \in Nat /\ s.amount - cashed \in Nat
    BY <1>1
<1>3. CashedReserve(s.reserved, cashed, s.amount - cashed, s.odds) \in 0..s.reserved
    BY <1>1, <1>2, CashedReserveBounds
<1>. DEFINE r == CashedReserve(s.reserved, cashed, s.amount - cashed, s.odds)
<1>4. r \in Nat /\ s.reserved - r \in Nat
    BY <1>1, <1>3
<1>5. CashedSlice(s, cashed) = [s EXCEPT !.amount = cashed, !.reserved = r]
    BY DEF CashedSlice
<1>. HIDE DEF r
<1>6. CashedSlice(s, cashed) \in Slice /\ CashedSlice(s, cashed).reserved = r
    BY <1>2, <1>4, <1>5 DEF Slice
<1>7. RemainingSlice(s, cashed)
        = [s EXCEPT !.amount = s.amount - cashed, !.reserved = s.reserved - r]
    BY <1>6 DEF RemainingSlice
<1>. QED
    BY <1>2, <1>4, <1>6, <1>7 DEF Slice

\* A split that passed its checks assigns an amount to every MM.
LEMMA CashedAmountsType ==
    ASSUME NEW t \in Ticket, NEW amount, SplitOk(t, amount, CashedAmounts(t, amount))
    PROVE  CashedAmounts(t, amount) \in [MMs -> Nat]
<1>. DEFINE split == CashedAmounts(t, amount)
<1>1. split = [m \in MMs |-> split[m]]
    BY DEF CashedAmounts
<1>. HIDE DEF split
<1>2. ASSUME NEW m \in MMs PROVE split[m] \in Nat
  <2>1. split[m] \in 0..t.slices[m].amount /\ t.slices[m] \in Slice
      BY DEF SplitOk, Ticket, split
  <2>. QED
      BY <2>1, SliceFields
<1>3. split \in [MMs -> Nat]
    BY <1>1, <1>2
<1>. QED
    BY <1>3 DEF split

\* The face payout of a split that passed its checks is an amount.
LEMMA PayoutRemovedType ==
    ASSUME NEW t \in Ticket, NEW split \in [MMs -> Nat]
    PROVE  PayoutRemoved(t, split) \in Nat
<1>1. ASSUME NEW m \in MMs PROVE Payout(split[m], t.slices[m].odds) \in Nat
  <2>1. t.slices[m].odds \in Odd
      BY SliceFields DEF Ticket
  <2>. QED
      BY <2>1, PayoutType
<1>2. [m \in MMs |-> Payout(split[m], t.slices[m].odds)] \in [MMs -> Nat]
    BY <1>1
<1>. QED
    BY <1>2, TotalType, CustodyAssumption DEF PayoutRemoved

\* A cashout keeps the types: both tickets, the escrow and the balances.
LEMMA CashoutType ==
    ASSUME TypeOK, NEW b \in Bets, NEW c \in Cashouts, NEW m \in MMs,
           NEW payment \in Payments, NEW amount \in 1..ticket[b].amount,
           CashoutBet(b, c, m, amount, payment)
    PROVE  TypeOK'
<1>. DEFINE t == ticket[b]
            split == CashedAmounts(t, amount)
            removed == PayoutRemoved(t, split)
            free == FromLiability(m, payment)
            dust == IF Closes(b, m, amount) THEN stake[b] - amount ELSE 0
<1>1. b \in Tickets /\ c \in Tickets /\ b # c
    BY CustodyAssumption DEF Tickets
<1>2. t \in Ticket /\ t.amount \in Nat /\ t.payout \in Nat
    BY <1>1 DEF TypeOK, Ticket
<1>3. CanCashout(b, c, m, amount, payment, split)
    BY DEF CashoutBet
<1>4. /\ ticket' = [ticket EXCEPT
             ![c] = CashoutTicket(b, m, amount, split),
             ![b] = IF Closes(b, m, amount) THEN NoTicket
                    ELSE RemainingTicket(b, amount, split)]
      /\ escrow' = IF NeedsDelay(b, m)
                   THEN [escrow EXCEPT ![b] = NewEscrow(b, c, m, amount, payment, split)]
                   ELSE escrow
    BY DEF CashoutBet
<1>5. /\ stake' = [stake EXCEPT ![c] = @ + amount, ![b] = @ - amount - dust]
      /\ user' = user + dust + (IF NeedsDelay(b, m) THEN 0 ELSE payment)
    BY DEF CashoutBet
<1>6. /\ vault' = [vault EXCEPT ![m].liability = @ - free, ![m].cashouts = @ + 1]
      /\ wallet' = [wallet EXCEPT ![m] = @ - (payment - free)]
    BY DEF CashoutBet
<1>7. UNCHANGED <<book, live, paused>>
    BY DEF CashoutBet
<1>8. split \in [MMs -> Nat]
    BY <1>2, <1>3, CashedAmountsType DEF CanCashout
<1>. HIDE DEF split
<1>9. removed \in Nat
    BY <1>2, <1>8, PayoutRemovedType
<1>10. /\ amount \in Nat /\ amount <= t.amount /\ amount <= stake[b]
       /\ removed <= t.payout /\ payment \in Nat
    BY <1>2, <1>3, CashoutsAssumption DEF CanCashout
<1>11. ASSUME NEW n \in MMs
       PROVE  /\ CashedSlice(t.slices[n], split[n]) \in Slice
              /\ RemainingSlice(t.slices[n], split[n]) \in Slice
  <2>1. t.slices[n] \in Slice /\ split[n] \in 0..t.slices[n].amount
      BY <1>2, <1>3 DEF CanCashout, SplitOk, Ticket
  <2>. QED
      BY <2>1, SplitType
<1>. HIDE DEF removed
<1>12. CashoutTicket(b, m, amount, split) \in Ticket
  <2>1. CashoutTicket(b, m, amount, split)
          = [t EXCEPT !.amount = amount, !.payout = removed,
                      !.slices = [n \in MMs |-> CashedSlice(t.slices[n], split[n])],
                      !.by = m]
      BY DEF CashoutTicket, removed
  <2>2. [n \in MMs |-> CashedSlice(t.slices[n], split[n])] \in [MMs -> Slice]
      BY <1>11
  <2>. HIDE DEF t
  <2>. QED
      BY <1>2, <1>9, <1>10, <2>1, <2>2 DEF Ticket
<1>13. RemainingTicket(b, amount, split) \in Ticket
  <2>1. RemainingTicket(b, amount, split)
          = [t EXCEPT !.amount = @ - amount, !.payout = @ - removed,
                      !.slices = [n \in MMs |-> RemainingSlice(t.slices[n], split[n])],
                      !.result = IF amount = t.amount THEN "CashedOut" ELSE "Pending"]
      BY DEF RemainingTicket, removed
  <2>2. [n \in MMs |-> RemainingSlice(t.slices[n], split[n])] \in [MMs -> Slice]
      BY <1>11
  <2>3. t.amount - amount \in Nat /\ t.payout - removed \in Nat
      BY <1>2, <1>9, <1>10
  <2>4. (IF amount = t.amount THEN "CashedOut" ELSE "Pending") \in Results
      BY DEF Results
  <2>. HIDE DEF t
  <2>. QED
      BY <1>2, <2>1, <2>2, <2>3, <2>4 DEF Ticket
<1>14. ticket' \in [Tickets -> Ticket]
    BY <1>1, <1>4, <1>12, <1>13, EmptyTypes DEF TypeOK
<1>15. NewEscrow(b, c, m, amount, payment, split) \in Escrow
    BY <1>9, <1>10 DEF NewEscrow, Escrow, removed
<1>16. escrow' \in [Bets -> Escrow]
    BY <1>4, <1>15 DEF TypeOK
<1>17. stake' \in [Tickets -> Nat] /\ user' \in Nat
  <2>1. stake \in [Tickets -> Nat] /\ user \in Nat
      BY DEF TypeOK
  <2>2. dust \in Nat /\ dust <= stake[b] - amount
      BY <1>1, <1>10, <2>1
  <2>3. stake[c] + amount \in Nat /\ stake[b] - amount - dust \in Nat
      BY <1>1, <1>10, <2>1, <2>2
  <2>. HIDE DEF dust
  <2>4. stake' \in [Tickets -> Nat]
      BY <1>1, <1>5, <2>1, <2>3
  <2>5. user' \in Nat
      BY <1>5, <1>10, <2>1, <2>2
  <2>. QED
      BY <2>4, <2>5
<1>18. vault' \in [MMs -> Vault] /\ wallet' \in [MMs -> Nat]
  <2>1. /\ vault[m].liability \in Nat /\ vault[m].enc \in Nat
        /\ vault[m].cashouts \in Nat /\ wallet[m] \in Nat
      BY DEF TypeOK, Vault
  <2>2. vault[m].enc <= vault[m].liability /\ payment - free <= wallet[m]
      BY <1>3 DEF CanCashout
  <2>3. free \in Nat /\ free <= payment /\ free <= vault[m].liability
      BY <1>10, <2>1, <2>2 DEF FromLiability, LesserOf, Spare
  <2>. HIDE DEF free
  <2>4. /\ vault[m].liability - free \in Nat /\ vault[m].cashouts + 1 \in Nat
        /\ wallet[m] - (payment - free) \in Nat
      BY <1>10, <2>1, <2>2, <2>3
  <2>5. [vault[m] EXCEPT !.liability = @ - free, !.cashouts = @ + 1] \in Vault
      BY <2>4 DEF TypeOK, Vault
  <2>6. vault' = [vault EXCEPT ![m] =
            [vault[m] EXCEPT !.liability = @ - free, !.cashouts = @ + 1]]
      BY <1>6 DEF TypeOK
  <2>. QED
      BY <1>6, <2>4, <2>5, <2>6 DEF TypeOK
<1>. QED
    BY <1>7, <1>14, <1>16, <1>17, <1>18 DEF TypeOK

\* What a bet can be filled with: one fill each of some MMs.
FillList ==
    {fills \in UNION {[1..n -> Fill] : n \in Nat} :
        \A i, j \in DOMAIN fills : i # j => fills[i].mm # fills[j].mm}

\* The fills of fill_bet and fill_rfq_bet are lists of distinct MMs.
LEMMA FillStepLists ==
    ASSUME NEW b \in Bets, FillStep(b)
    PROVE  /\ MayOpen(b)
           /\ \E mkt \in Mkts, side \in Sides, isLive \in BOOLEAN, fills \in FillList :
                OpenBet(b, mkt, side, isLive, fills)
<1>1. PICK mkt \in Mkts, side \in Sides, isLive \in BOOLEAN :
          FillBet(b, mkt, side, isLive) \/ FillRfqBet(b, mkt, side, isLive)
    BY DEF FillStep
<1>2. CASE FillBet(b, mkt, side, isLive)
  <2>1. PICK fills \in AuctionFills : OpenBet(b, mkt, side, isLive, fills)
      BY <1>2 DEF FillBet
  <2>2. \A i, j \in DOMAIN fills : i < j => fills[i].mm # fills[j].mm
      BY DEF AuctionFills
  <2>3. PICK n \in Nat : fills \in [1..n -> Fill]
    <3>1. fills \in SeqOf(Fill, Cardinality(MMs))
        BY DEF AuctionFills
    <3>2. PICK n \in 0..Cardinality(MMs) : fills \in [1..n -> Fill]
        BY <3>1 DEF SeqOf
    <3>. QED
        BY <3>2
  <2>4. \A i, j \in 1..n : i # j => i < j \/ j < i
      OBVIOUS
  <2>5. fills \in FillList
      BY <2>2, <2>3, <2>4 DEF FillList
  <2>. QED
      BY <1>2, <2>1, <2>5 DEF FillBet
<1>3. CASE FillRfqBet(b, mkt, side, isLive)
  <2>1. PICK f \in Fill : OpenBet(b, mkt, side, isLive, <<f>>)
      BY <1>3 DEF FillRfqBet
  <2>2. <<f>> \in [1..1 -> Fill]
      OBVIOUS
  <2>3. \A i, j \in 1..1 : i = j
      OBVIOUS
  <2>4. <<f>> \in FillList
      BY <2>2, <2>3 DEF FillList
  <2>. QED
      BY <1>3, <2>1, <2>4 DEF FillRfqBet
<1>. QED
    BY <1>1, <1>2, <1>3

\* A fill reserves and sends natural amounts, and no more than the MM has.
LEMMA FillAmounts ==
    ASSUME TypeOK, NEW f \in Fill, NEW mkt \in Mkts, NEW side \in Sides,
           NEW isLive, CanFill(f, mkt, side, isLive)
    PROVE  /\ f.mm \in MMs /\ f.amount \in Nat /\ f.odds \in Odd
           /\ Profit(f.amount, f.odds) \in Nat
           /\ Delta(book[f.mm], f, mkt, side) \in Nat
           /\ Shortfall(vault[f.mm], Delta(book[f.mm], f, mkt, side)) \in 0..wallet[f.mm]
           /\ Netted(book[f.mm], mkt, side, Profit(f.amount, f.odds)) \in Book
<1>1. f.mm \in MMs /\ f.amount \in Nat /\ f.odds \in Odd
    BY FillsAssumption DEF Fill, Odd
<1>2. Profit(f.amount, f.odds) \in Nat
    BY <1>1, ProfitType
<1>3. book[f.mm] \in Book /\ vault[f.mm] \in Vault /\ wallet[f.mm] \in Nat
    BY <1>1 DEF TypeOK
<1>4. /\ Netted(book[f.mm], mkt, side, Profit(f.amount, f.odds)) \in Book
      /\ PeakRise(book[f.mm], mkt, side, Profit(f.amount, f.odds)) \in Nat
    BY <1>2, <1>3, NettedBook
<1>. DEFINE delta == Delta(book[f.mm], f, mkt, side)
<1>5. delta \in Nat
    BY <1>2, <1>4 DEF Delta
<1>6. /\ vault[f.mm].liability \in Nat /\ vault[f.mm].enc \in Nat
      /\ vault[f.mm].enc <= vault[f.mm].liability
      /\ Shortfall(vault[f.mm], delta) <= wallet[f.mm]
    BY <1>3 DEF Vault, CanFill
<1>. HIDE DEF delta
<1>7. Shortfall(vault[f.mm], delta) \in 0..wallet[f.mm]
    BY <1>3, <1>5, <1>6 DEF Shortfall, LesserOf
<1>. QED
    BY <1>1, <1>2, <1>4, <1>5, <1>7 DEF delta

\* The fill of an MM that is in the list.
FillOf(fills, m) == fills[CHOOSE i \in DOMAIN fills : fills[i].mm = m]
Filled(fills) == {fills[i].mm : i \in DOMAIN fills}

\* The fill chosen for an MM of such a list is the MM's own.
LEMMA FillOfProps ==
    ASSUME NEW fills \in FillList
    PROVE  /\ \A i \in DOMAIN fills : fills[i] \in Fill
           /\ \A m \in Filled(fills) : \E i \in DOMAIN fills :
                FillOf(fills, m) = fills[i] /\ fills[i].mm = m
<1>1. \A i \in DOMAIN fills : fills[i] \in Fill
    BY DEF FillList
<1>2. ASSUME NEW m \in Filled(fills)
      PROVE  \E i \in DOMAIN fills : FillOf(fills, m) = fills[i] /\ fills[i].mm = m
    BY <1>2 DEF Filled, FillOf
<1>. QED
    BY <1>1, <1>2

\* The ticket a fill creates is a ticket.
LEMMA NewBetType ==
    ASSUME TypeOK, NEW b \in Bets, NEW mkt \in Mkts, NEW side \in Sides,
           NEW isLive \in BOOLEAN, NEW fills \in FillList,
           \A i \in DOMAIN fills : CanFill(fills[i], mkt, side, isLive)
    PROVE  NewBet(b, mkt, side, isLive, fills) \in Ticket
<1>1. PICK n \in Nat : fills \in [1..n -> Fill]
    BY DEF FillList
<1>2. IsFiniteSet(1..n)
    BY FS_Interval
<1>3. ASSUME NEW i \in 1..n
      PROVE  /\ fills[i].mm \in MMs /\ fills[i].amount \in Nat /\ fills[i].odds \in Odd
             /\ Payout(fills[i].amount, fills[i].odds) \in Nat
  <2>1. fills[i] \in Fill /\ CanFill(fills[i], mkt, side, isLive)
      BY <1>1
  <2>. QED
      BY <2>1, FillAmounts, PayoutType
<1>4. Total([i \in DOMAIN fills |-> fills[i].amount]) \in Nat
  <2>1. [i \in DOMAIN fills |-> fills[i].amount] \in [1..n -> Nat]
      BY <1>1, <1>3
  <2>. QED
      BY <1>2, <2>1, TotalType
<1>5. Total([i \in DOMAIN fills |-> Payout(fills[i].amount, fills[i].odds)]) \in Nat
  <2>1. [i \in DOMAIN fills |-> Payout(fills[i].amount, fills[i].odds)] \in [1..n -> Nat]
      BY <1>1, <1>3
  <2>. QED
      BY <1>2, <2>1, TotalType
<1>6. [i \in DOMAIN fills |-> fills[i].mm] \in Seq(MMs)
    BY <1>1, <1>3
<1>. DEFINE sl == [m \in MMs |->
                IF m \in Filled(fills)
                THEN [amount |-> FillOf(fills, m).amount,
                      reserved |-> Profit(FillOf(fills, m).amount, FillOf(fills, m).odds),
                      odds |-> FillOf(fills, m).odds,
                      netted |-> Nets(book[m], FillOf(fills, m), mkt, side)]
                ELSE NoSlice]
<1>7. sl \in [MMs -> Slice]
  <2>1. ASSUME NEW m \in Filled(fills)
        PROVE  [amount |-> FillOf(fills, m).amount,
                reserved |-> Profit(FillOf(fills, m).amount, FillOf(fills, m).odds),
                odds |-> FillOf(fills, m).odds,
                netted |-> Nets(book[m], FillOf(fills, m), mkt, side)] \in Slice
    <3>1. PICK i \in DOMAIN fills : FillOf(fills, m) = fills[i]
        BY FillOfProps
    <3>2. /\ fills[i].amount \in Nat /\ fills[i].odds \in Odd
          /\ Profit(fills[i].amount, fills[i].odds) \in Nat
        BY <1>1, <1>3, ProfitType
    <3>3. Nets(book[m], fills[i], mkt, side) \in BOOLEAN
        BY DEF Nets, CanNet
    <3>. QED
        BY <3>1, <3>2, <3>3 DEF Slice, Odd
  <2>. QED
      BY <2>1, EmptyTypes
<1>8. NewBet(b, mkt, side, isLive, fills)
        = [result |-> "Pending", mkt |-> mkt, side |-> side, live |-> isLive,
           amount |-> Total([i \in DOMAIN fills |-> fills[i].amount]),
           payout |-> Total([i \in DOMAIN fills |-> Payout(fills[i].amount, fills[i].odds)]),
           fillers |-> [i \in DOMAIN fills |-> fills[i].mm],
           slices |-> sl, key |-> b, by |-> None]
    BY DEF NewBet, FillOf, Filled
<1>. HIDE DEF sl
<1>. QED
    BY <1>4, <1>5, <1>6, <1>7, <1>8 DEF Ticket, Results

\* A fill keeps the types: no deposit exceeds what its MM holds.
LEMMA FillType ==
    ASSUME TypeOK, NEW b \in Bets, FillStep(b) PROVE TypeOK'
<1>1. PICK mkt \in Mkts, side \in Sides, isLive \in BOOLEAN, fills \in FillList :
          OpenBet(b, mkt, side, isLive, fills)
    BY FillStepLists
<1>2. \A i \in DOMAIN fills : CanFill(fills[i], mkt, side, isLive)
    BY <1>1 DEF OpenBet
<1>. DEFINE new == NewBet(b, mkt, side, isLive, fills)
            added(m) == Delta(book[m], FillOf(fills, m), mkt, side)
            sent(m) == Shortfall(vault[m], added(m))
            profit(m) == Profit(FillOf(fills, m).amount, FillOf(fills, m).odds)
<1>3. new \in Ticket /\ new.amount \in Nat
    BY <1>2, NewBetType DEF Ticket
<1>4. ASSUME NEW m \in Filled(fills)
      PROVE  /\ m \in MMs /\ added(m) \in Nat /\ sent(m) \in 0..wallet[m]
             /\ Netted(book[m], mkt, side, profit(m)) \in Book
  <2>1. PICK i \in DOMAIN fills : FillOf(fills, m) = fills[i] /\ fills[i].mm = m
      BY FillOfProps
  <2>2. fills[i] \in Fill /\ CanFill(fills[i], mkt, side, isLive)
      BY <1>2, FillOfProps
  <2>. QED
      BY <2>1, <2>2, FillAmounts
<1>5. /\ new.amount <= user
      /\ vault' = [m \in MMs |->
             IF m \in Filled(fills)
             THEN [vault[m] EXCEPT !.liability = @ + sent(m), !.enc = @ + added(m)]
             ELSE vault[m]]
      /\ wallet' = [m \in MMs |->
             IF m \in Filled(fills) THEN wallet[m] - sent(m) ELSE wallet[m]]
      /\ book' = [m \in MMs |->
             IF m \in Filled(fills) /\ Nets(book[m], FillOf(fills, m), mkt, side)
             THEN Netted(book[m], mkt, side, profit(m)) ELSE book[m]]
      /\ ticket' = [ticket EXCEPT ![b] = new]
      /\ stake' = [stake EXCEPT ![b] = @ + new.amount]
      /\ user' = user - new.amount
      /\ UNCHANGED <<escrow, live, paused>>
    BY <1>1 DEF OpenBet, FillOf, Filled
<1>. HIDE DEF new, added, sent, profit
<1>6. vault' \in [MMs -> Vault]
  <2>1. ASSUME NEW m \in Filled(fills)
        PROVE  [vault[m] EXCEPT !.liability = @ + sent(m), !.enc = @ + added(m)] \in Vault
    <3>1. vault[m] \in Vault /\ wallet[m] \in Nat
        BY <1>4 DEF TypeOK
    <3>2. vault[m].liability + sent(m) \in Nat /\ vault[m].enc + added(m) \in Nat
        BY <1>4, <3>1 DEF Vault
    <3>. QED
        BY <3>1, <3>2 DEF Vault
  <2>. QED
      BY <1>5, <2>1 DEF TypeOK
<1>7. wallet' \in [MMs -> Nat]
  <2>1. ASSUME NEW m \in Filled(fills) PROVE wallet[m] - sent(m) \in Nat
    <3>1. wallet[m] \in Nat /\ sent(m) \in 0..wallet[m]
        BY <1>4 DEF TypeOK
    <3>. QED
        BY <3>1
  <2>. QED
      BY <1>5, <2>1 DEF TypeOK
<1>8. book' \in [MMs -> Book]
    BY <1>4, <1>5 DEF TypeOK
<1>9. ticket' \in [Tickets -> Ticket]
    BY <1>3, <1>5 DEF TypeOK
<1>10. stake' \in [Tickets -> Nat] /\ user' \in Nat
  <2>1. b \in Tickets /\ stake[b] \in Nat /\ user \in Nat
      BY DEF TypeOK, Tickets
  <2>2. new.amount \in Nat /\ new.amount <= user
      BY <1>3, <1>5
  <2>3. stake[b] + new.amount \in Nat /\ user - new.amount \in Nat
      BY <2>1, <2>2
  <2>. QED
      BY <1>5, <2>1, <2>3 DEF TypeOK
<1>. QED
    BY <1>5, <1>6, <1>7, <1>8, <1>9, <1>10 DEF TypeOK

\* Every step of the system keeps the types.
LEMMA NextType ==
    ASSUME TypeOK, [Next]_vars PROVE TypeOK'
<1>1. CASE \E m \in MMs : AdminStep(m)
    BY <1>1, AdminType
<1>2. CASE \E b \in Bets : FillStep(b)
    BY <1>2, FillType
<1>3. CASE \E b \in Bets : CashoutStep(b)
    BY <1>3, CashoutType DEF CashoutStep
<1>4. CASE \E b \in Bets : ClaimCashoutEscrow(b)
    BY <1>4, ClaimType
<1>5. CASE \E b \in Bets : RevertCashout(b)
    BY <1>5, RevertType
<1>6. CASE \E k \in Tickets, result \in Grades : GradeBet(k, result)
    BY <1>6, GradeType
<1>7. CASE \E k \in Tickets : SettleBet(k)
    BY <1>7, SettleType
<1>8. CASE \E k \in Tickets : Donate(k)
    BY <1>8, DonateType
<1>9. CASE EventStep
    BY <1>9, EventType
<1>10. CASE ChangeConfigStatus
    BY <1>10, PauseType
<1>11. CASE Tick
    BY <1>11, TickType
<1>12. CASE UNCHANGED vars
    BY <1>12 DEF vars, TypeOK
<1>. QED
    BY <1>1, <1>2, <1>3, <1>4, <1>5, <1>6, <1>7, <1>8, <1>9, <1>10, <1>11, <1>12 DEF Next

\* Every account keeps to its type: no balance, encumbrance, open profit,
\* reservation or counter ever becomes negative, so that no checked
\* subtraction the handlers rely on can fail after its guard passed.
THEOREM TypeCorrect == Spec => []TypeOK
<1>1. Init => TypeOK
    BY InitType
<1>2. TypeOK /\ [Next]_vars => TypeOK'
    BY NextType
<1>. QED
    BY <1>1, <1>2, PTL DEF Spec
=============================================================================
