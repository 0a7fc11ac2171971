--------------------------- MODULE SinglesSafety ---------------------------
(***************************************************************************)
(* Safety of single bets and their cashouts, for every number of market    *)
(* makers, bets, cashouts and markets: the counter that keeps a vault open *)
(* for the cashout tickets that pay into it, the bets that wait for an     *)
(* escrow, the tokens, which are neither made nor lost, and, when the MMs' *)
(* event states agree, the link between an escrow and its two tickets, the *)
(* slices of the tickets and their payouts, and the position an MM has on  *)
(* a bet while cashouts divide and merge it.                               *)
(***************************************************************************)
EXTENDS SinglesProofs

(* The strengthening: what tickets and vaults look like between steps. *)

AbsentIsEmpty == \A k \in Tickets : ~Exists(k) => ticket[k] = NoTicket
BetsKeyed == \A b \in Bets : Exists(b) => ticket[b].key = b /\ ticket[b].by = None
CashoutsOwned == \A c \in Cashouts :
    Exists(c) => ticket[c].by \in MMs /\ ticket[c].key \in Bets
Accounts == AbsentIsEmpty /\ BetsKeyed /\ CashoutsOwned

\* A closed vault counts no cashout tickets, so that it reopens with none.
ClosedCountsNone == \A m \in MMs : ~vault[m].exists => vault[m].cashouts = 0

-----------------------------------------------------------------------------
(* Steps that leave every ticket and every escrow's tickets alone *)

Quiet ==
    \/ \E m \in MMs : AdminStep(m)
    \/ \E k \in Tickets : Donate(k)
    \/ EventStep
    \/ ChangeConfigStatus
    \/ Tick
    \/ UNCHANGED vars

\* The kinds of step.
LEMMA StepKinds ==
    ASSUME [Next]_vars
    PROVE  \/ Quiet
           \/ \E b \in Bets : FillStep(b)
           \/ \E b \in Bets : CashoutStep(b)
           \/ \E b \in Bets : ClaimCashoutEscrow(b)
           \/ \E b \in Bets : RevertCashout(b)
           \/ \E k \in Tickets, result \in Grades : GradeBet(k, result)
           \/ \E k \in Tickets : SettleBet(k)
BY DEF Next, Quiet

\* The admin steps, the clock, donations and pauses change no ticket, and of
\* an escrow only its age.
LEMMA QuietSteps ==
    ASSUME TypeOK, Quiet
    PROVE  /\ UNCHANGED ticket
           /\ \A b \in Bets : /\ escrow'[b].cash = escrow[b].cash
                              /\ escrow'[b].mm = escrow[b].mm
                              /\ escrow'[b].amount = escrow[b].amount
                              /\ escrow'[b].removed = escrow[b].removed
<1>1. CASE \E m \in MMs : AdminStep(m)
  <2>1. UNCHANGED positions
      BY <1>1 DEF AdminStep, InitMmMintVault, CreateNettingAccount, CloseMmMintVault,
           CloseNettingAccount, AddLine, RemoveLine, Deposit, Withdraw
  <2>. QED
      BY <2>1 DEF positions
<1>2. CASE \E k \in Tickets : Donate(k)
    BY <1>2 DEF Donate
<1>3. CASE EventStep \/ ChangeConfigStatus
    BY <1>3 DEF EventStep, GoLive, ChangeConfigStatus, positions
<1>4. CASE Tick
  <2>1. \A b \in Bets : escrow[b] \in Escrow
      BY DEF TypeOK
  <2>. QED
      BY <1>4, <2>1 DEF Tick, Escrow
<1>5. CASE UNCHANGED vars
    BY <1>5 DEF vars
<1>. QED
    BY <1>1, <1>2, <1>3, <1>4, <1>5 DEF Quiet

\* A fill writes one ticket, which did not exist: a pending bet of nobody's
\* under its own key.
LEMMA FillTicket ==
    ASSUME TypeOK, NEW b \in Bets, FillStep(b)
    PROVE  /\ ~Exists(b)
           /\ \E new \in Ticket :
                /\ ticket' = [ticket EXCEPT ![b] = new]
                /\ new.result = "Pending" /\ new.key = b /\ new.by = None
           /\ UNCHANGED <<escrow, live, paused>>
<1>1. PICK mkt \in Mkts, side \in Sides, isLive \in BOOLEAN, fills \in FillList :
          OpenBet(b, mkt, side, isLive, fills)
    BY FillStepLists
<1>2. ~Exists(b)
    BY FillStepLists DEF MayOpen
<1>. DEFINE new == NewBet(b, mkt, side, isLive, fills)
<1>3. new.result = "Pending" /\ new.key = b /\ new.by = None
    BY DEF NewBet
<1>4. ticket' = [ticket EXCEPT ![b] = new] /\ UNCHANGED <<escrow, live, paused>>
    BY <1>1 DEF OpenBet
<1>5. new \in Ticket
    BY <1>1, NewBetType DEF OpenBet
<1>. QED
    BY <1>2, <1>3, <1>4, <1>5

\* What a cashout does to tickets and escrows: two tickets are written, the
\* cashout ticket, which did not exist and belongs to the buying MM, and the
\* bet, which is closed or keeps its key.
CashoutEffect(b, c, m, payment) ==
    /\ ticket[b].result = "Pending" /\ ~Exists(c)
    /\ ticket'[c].result = "Pending" /\ ticket'[c].by = m
    /\ ticket'[c].key = ticket[b].key
    /\ ticket'[c].fillers = ticket[b].fillers
    /\ \/ /\ ticket'[b] = NoTicket /\ ~NeedsDelay(b, m)
       \/ /\ ticket'[b].result \in {"Pending", "CashedOut"}
          /\ ticket'[b].result = "CashedOut" =>
                 NeedsDelay(b, m) /\ ticket'[b].amount = 0
          /\ ticket'[b].key = ticket[b].key /\ ticket'[b].by = ticket[b].by
          /\ ticket'[b].live = ticket[b].live
          /\ ticket'[b].fillers = ticket[b].fillers
    /\ \A k \in Tickets \ {b, c} : ticket'[k] = ticket[k]
    /\ NeedsDelay(b, m) =>
         /\ ~EscrowLive(b)
         /\ escrow'[b].cash = c /\ escrow'[b].mm = m
         /\ escrow'[b].amount = ticket'[c].amount
         /\ escrow'[b].removed = ticket'[c].payout
         /\ \A b2 \in Bets \ {b} : escrow'[b2] = escrow[b2]
    /\ ~NeedsDelay(b, m) => escrow' = escrow
    /\ vault' = [vault EXCEPT ![m].liability = @ - FromLiability(m, payment),
                              ![m].cashouts = @ + 1]
    /\ UNCHANGED <<live, paused>>

\* Every cashout has that effect.
LEMMA CashoutTickets ==
    ASSUME TypeOK, NEW b \in Bets, NEW c \in Cashouts, NEW m \in MMs,
           NEW payment \in Payments, NEW amount \in 1..ticket[b].amount,
           CashoutBet(b, c, m, amount, payment)
    PROVE  CashoutEffect(b, c, m, payment)
<1>. DEFINE split == CashedAmounts(ticket[b], amount)
<1>1. b \in Tickets /\ c \in Tickets /\ b # c
    BY CustodyAssumption DEF Tickets
<1>2. ticket[b] \in Ticket /\ ticket[b].amount \in Nat /\ ticket \in [Tickets -> Ticket]
    BY <1>1 DEF TypeOK, Ticket
<1>3. CanCashout(b, c, m, amount, payment, split)
    BY DEF CashoutBet
<1>4. /\ ticket' = [ticket EXCEPT
             ![c] = CashoutTicket(b, m, amount, split),
             ![b] = IF Closes(b, m, amount) THEN NoTicket
                    ELSE RemainingTicket(b, amount, split)]
      /\ escrow' = IF NeedsDelay(b, m)
                   THEN [escrow EXCEPT ![b] = NewEscrow(b, c, m, amount, payment, split)]
                   ELSE escrow
    BY DEF CashoutBet
<1>5. /\ vault' = [vault EXCEPT ![m].liability = @ - FromLiability(m, payment),
                                ![m].cashouts = @ + 1]
      /\ UNCHANGED <<live, paused>>
    BY DEF CashoutBet
<1>. HIDE DEF split
<1>6. /\ ticket[b].result = "Pending" /\ ~Exists(c)
      /\ NeedsDelay(b, m) => ~EscrowLive(b)
    BY <1>3 DEF CanCashout
<1>7. /\ ticket'[c] = CashoutTicket(b, m, amount, split)
      /\ ticket'[b] = IF Closes(b, m, amount) THEN NoTicket
                      ELSE RemainingTicket(b, amount, split)
      /\ \A k \in Tickets \ {b, c} : ticket'[k] = ticket[k]
    BY <1>1, <1>2, <1>4
<1>8. /\ ticket'[c].result = "Pending" /\ ticket'[c].by = m
      /\ ticket'[c].key = ticket[b].key
      /\ ticket'[c].fillers = ticket[b].fillers
      /\ ticket'[c].amount = amount
      /\ ticket'[c].payout = PayoutRemoved(ticket[b], split)
    BY <1>2, <1>6, <1>7 DEF CashoutTicket, Ticket
<1>9. CASE Closes(b, m, amount)
  <2>1. ticket'[b] = NoTicket /\ ~NeedsDelay(b, m)
      BY <1>7, <1>9 DEF Closes
  <2>. QED
      BY <1>4, <1>5, <1>6, <1>7, <1>8, <2>1 DEF CashoutEffect
<1>10. CASE ~Closes(b, m, amount)
  <2>1. /\ ticket'[b].result = IF amount = ticket[b].amount THEN "CashedOut" ELSE "Pending"
        /\ ticket'[b].amount = ticket[b].amount - amount
        /\ ticket'[b].key = ticket[b].key /\ ticket'[b].by = ticket[b].by
        /\ ticket'[b].live = ticket[b].live
        /\ ticket'[b].fillers = ticket[b].fillers
      BY <1>2, <1>7, <1>10 DEF RemainingTicket, Ticket
  <2>2. ticket'[b].result = "CashedOut" => NeedsDelay(b, m) /\ ticket'[b].amount = 0
      BY <1>2, <1>10, <2>1 DEF Closes
  <2>3. ticket'[b].result \in {"Pending", "CashedOut"}
      BY <2>1
  <2>4. NeedsDelay(b, m) =>
            /\ escrow'[b] = NewEscrow(b, c, m, amount, payment, split)
            /\ \A b2 \in Bets \ {b} : escrow'[b2] = escrow[b2]
      BY <1>4 DEF TypeOK
  <2>5. NeedsDelay(b, m) =>
            /\ escrow'[b].cash = c /\ escrow'[b].mm = m
            /\ escrow'[b].amount = ticket'[c].amount
            /\ escrow'[b].removed = ticket'[c].payout
      BY <1>8, <2>4 DEF NewEscrow
  <2>6. ~NeedsDelay(b, m) => escrow' = escrow
      BY <1>4
  <2>. QED
      BY <1>5, <1>6, <1>7, <1>8, <2>1, <2>2, <2>3, <2>4, <2>5, <2>6
      DEF CashoutEffect
<1>. QED
    BY <1>9, <1>10

\* A claim closes the escrow, and with it a bet that was cashed out in full.
LEMMA ClaimTickets ==
    ASSUME TypeOK, NEW b \in Bets, ClaimCashoutEscrow(b)
    PROVE  /\ \/ ticket[b].result = "CashedOut" /\ ticket' = [ticket EXCEPT ![b] = NoTicket]
              \/ ticket[b].result # "CashedOut" /\ UNCHANGED ticket
           /\ escrow' = [escrow EXCEPT ![b] = NoEscrow]
           /\ EscrowLive(b)
           /\ UNCHANGED <<vault, live, paused>>
BY DEF ClaimCashoutEscrow

\* A revert closes the escrow and its cashout ticket, which the escrow's MM
\* bought, and leaves the bet rolled back or pending.
LEMMA RevertTickets ==
    ASSUME TypeOK, NEW b \in Bets, RevertCashout(b)
    PROVE  LET c == escrow[b].cash
               m == escrow[b].mm IN
           /\ c \in Cashouts /\ Exists(c) /\ Exists(b) /\ ticket[c].by = m
           /\ ticket'[c] = NoTicket
           /\ ticket'[b].result \in {"Pending", "RolledBack"}
           /\ ticket'[b].key = ticket[b].key /\ ticket'[b].by = ticket[b].by
           /\ ticket'[b].live = ticket[b].live
           /\ ticket'[b].fillers = ticket[b].fillers
           /\ \A k \in Tickets \ {b, c} : ticket'[k] = ticket[k]
           /\ escrow' = [escrow EXCEPT ![b] = NoEscrow]
           /\ vault' = [vault EXCEPT ![m].liability = @ + escrow[b].payment,
                                     ![m].cashouts = @ - 1]
           /\ vault[m].exists /\ vault[m].cashouts > 0
           /\ UNCHANGED <<live, paused>>
<1>. DEFINE c == escrow[b].cash
            t == ticket[b]
            new == [t EXCEPT !.amount = @ + escrow[b].amount,
                             !.payout = @ + escrow[b].removed,
                             !.slices = Restored(t, ticket[c]),
                             !.result = IF @ = "RolledBack" THEN @ ELSE "Pending"]
<1>1. c \in Cashouts
    BY DEF TypeOK, Escrow, RevertCashout, EscrowLive
<1>2. b \in Tickets /\ c \in Tickets /\ b # c
    BY <1>1, CustodyAssumption DEF Tickets
<1>3. t \in Ticket /\ ticket \in [Tickets -> Ticket]
    BY <1>2 DEF TypeOK
<1>4. ticket' = [ticket EXCEPT ![b] = new, ![c] = NoTicket]
    BY DEF RevertCashout
<1>5. ticket'[b] = new /\ ticket'[c] = NoTicket
      /\ \A k \in Tickets \ {b, c} : ticket'[k] = ticket[k]
    BY <1>2, <1>3, <1>4
<1>6. /\ new.result = (IF t.result = "RolledBack" THEN t.result ELSE "Pending")
      /\ new.key = t.key /\ new.by = t.by /\ new.live = t.live
      /\ new.fillers = t.fillers
    BY <1>3 DEF Ticket
<1>7. new.result \in {"Pending", "RolledBack"}
    BY <1>6
<1>8. /\ Exists(b) /\ Exists(c) /\ ticket[c].by = escrow[b].mm
      /\ escrow' = [escrow EXCEPT ![b] = NoEscrow]
      /\ vault' = [vault EXCEPT ![escrow[b].mm].liability = @ + escrow[b].payment,
                                ![escrow[b].mm].cashouts = @ - 1]
      /\ vault[escrow[b].mm].exists /\ vault[escrow[b].mm].cashouts > 0
      /\ UNCHANGED <<live, paused>>
    BY DEF RevertCashout
<1>. HIDE DEF new
<1>. QED
    BY <1>1, <1>5, <1>6, <1>7, <1>8

\* A grade writes a result that is a grade, and nothing else.
LEMMA GradeTicket ==
    ASSUME TypeOK, NEW k \in Tickets, NEW result \in Grades, GradeBet(k, result)
    PROVE  /\ Exists(k) /\ ticket'[k] = [ticket[k] EXCEPT !.result = result]
           /\ ticket'[k].result \in GradeResults
           /\ ticket'[k].result \notin {"Absent", "Pending", "CashedOut"}
           /\ ticket'[k].amount = ticket[k].amount /\ ticket'[k].payout = ticket[k].payout
           /\ ticket'[k].key = ticket[k].key /\ ticket'[k].by = ticket[k].by
           /\ ticket'[k].live = ticket[k].live
           /\ ticket'[k].fillers = ticket[k].fillers
           /\ \A n \in Tickets \ {k} : ticket'[n] = ticket[n]
           /\ UNCHANGED <<vault, escrow, live, paused>>
<1>1. ticket \in [Tickets -> Ticket]
    BY DEF TypeOK
<1>2. /\ Exists(k) /\ ticket' = [ticket EXCEPT ![k].result = result]
      /\ UNCHANGED <<vault, escrow, live, paused>>
    BY DEF GradeBet, money
<1>3. /\ ticket'[k] = [ticket[k] EXCEPT !.result = result]
      /\ \A n \in Tickets \ {k} : ticket'[n] = ticket[n]
    BY <1>1, <1>2
<1>4. result \in GradeResults /\ result \notin {"Absent", "Pending", "CashedOut"}
    BY SettlementAssumption DEF GradeResults, VoidResults
<1>. QED
    BY <1>1, <1>2, <1>3, <1>4 DEF Ticket

\* A settlement closes one graded ticket whose bet id has no live escrow.
LEMMA SettleTicket ==
    ASSUME TypeOK, NEW k \in Tickets, SettleBet(k)
    PROVE  /\ Exists(k) /\ ~EscrowLive(ticket[k].key)
           /\ ticket' = [ticket EXCEPT ![k] = NoTicket]
           /\ UNCHANGED <<escrow, live, paused>>
BY DEF SettleBet, CanSettle, Final

-----------------------------------------------------------------------------
(* A bet that was cashed out in full waits for its escrow. *)

\* Every step keeps a fully cashed-out bet and its escrow together.
LEMMA WaitsNext ==
    ASSUME TypeOK, CashedOutWaits, [Next]_vars PROVE CashedOutWaits'
<1>. SUFFICES ASSUME NEW b \in Bets, ticket'[b].result = "CashedOut"
              PROVE  escrow'[b].cash # None /\ ticket'[b].amount = 0
    BY DEF CashedOutWaits, EscrowLive
<1>1. b \in Tickets /\ NoTicket.result # "CashedOut" /\ b \notin Cashouts
      /\ ticket \in [Tickets -> Ticket] /\ escrow \in [Bets -> Escrow]
    BY CustodyAssumption DEF Tickets, NoTicket, TypeOK
<1>2. ASSUME ticket'[b] = ticket[b], escrow'[b].cash = escrow[b].cash
      PROVE  escrow'[b].cash # None /\ ticket'[b].amount = 0
    BY <1>2 DEF CashedOutWaits, EscrowLive
<1>3. CASE Quiet
    BY <1>2, <1>3, QuietSteps
<1>4. CASE \E x \in Bets : FillStep(x)
    BY <1>1, <1>2, <1>4, FillTicket
<1>5. CASE \E x \in Bets : CashoutStep(x)
  <2>1. PICK x \in Bets, c \in Cashouts, m \in MMs, payment \in Payments :
            \E amount \in 1..ticket[x].amount : CashoutBet(x, c, m, amount, payment)
      BY <1>5 DEF CashoutStep
  <2>2. CashoutEffect(x, c, m, payment)
      BY <2>1, CashoutTickets
  <2>3. CASE x = b
    <3>1. NeedsDelay(b, m) /\ ticket'[b].amount = 0
        BY <1>1, <2>2, <2>3 DEF CashoutEffect
    <3>2. escrow'[b].cash = c
        BY <2>2, <2>3, <3>1 DEF CashoutEffect, NeedsDelay, EscrowLive
    <3>. QED
        BY <3>1, <3>2, CustodyAssumption DEF Tickets
  <2>4. CASE x # b
    <3>1. ticket'[b] = ticket[b] /\ escrow'[b] = escrow[b]
        BY <1>1, <2>2, <2>4 DEF CashoutEffect, NeedsDelay, EscrowLive
    <3>. QED
        BY <1>2, <3>1
  <2>. QED
      BY <2>3, <2>4
<1>6. CASE \E x \in Bets : ClaimCashoutEscrow(x)
  <2>1. PICK x \in Bets : ClaimCashoutEscrow(x)
      BY <1>6
  <2>2. CASE x = b
      BY <1>1, <2>1, <2>2, ClaimTickets
  <2>3. CASE x # b
      BY <1>1, <1>2, <2>1, <2>3, ClaimTickets
  <2>. QED
      BY <2>2, <2>3
<1>7. CASE \E x \in Bets : RevertCashout(x)
  <2>1. PICK x \in Bets : RevertCashout(x)
      BY <1>7
  <2>2. CASE x = b
      BY <2>1, <2>2, RevertTickets
  <2>3. CASE x # b
    <3>0. /\ escrow[x].cash \in Cashouts
          /\ \A k \in Tickets \ {x, escrow[x].cash} : ticket'[k] = ticket[k]
          /\ escrow' = [escrow EXCEPT ![x] = NoEscrow]
        BY <2>1, RevertTickets
    <3>1. ticket'[b] = ticket[b] /\ escrow'[b] = escrow[b]
        BY <1>1, <2>3, <3>0
    <3>. QED
        BY <1>2, <3>1
  <2>. QED
      BY <2>2, <2>3
<1>8. CASE \E k \in Tickets, result \in Grades : GradeBet(k, result)
  <2>1. PICK k \in Tickets, result \in Grades : GradeBet(k, result)
      BY <1>8
  <2>2. k # b
      BY <2>1, GradeTicket
  <2>. QED
      BY <1>1, <1>2, <2>1, <2>2, GradeTicket
<1>9. CASE \E k \in Tickets : SettleBet(k)
    BY <1>1, <1>2, <1>9, SettleTicket
<1>. QED
    BY <1>3, <1>4, <1>5, <1>6, <1>7, <1>8, <1>9, StepKinds

\* A bet waits in CashedOut only while an escrow that resolves it is live, and
\* with no stake left.
THEOREM CashedOutWaiting == Spec => []CashedOutWaits
<1>1. Init => TypeOK /\ CashedOutWaits
  <2>1. Init => \A b \in Bets : ticket[b].result = "Absent"
      BY DEF Init, NoTicket, Tickets
  <2>. QED
      BY <2>1, InitType DEF CashedOutWaits
<1>2. TypeOK /\ CashedOutWaits /\ [Next]_vars => TypeOK' /\ CashedOutWaits'
    BY NextType, WaitsNext
<1>. QED
    BY <1>1, <1>2, PTL DEF Spec

-----------------------------------------------------------------------------
(* What tickets look like between steps. *)

\* A ticket that does not exist is empty, a bet is nobody's and under its own
\* key, a cashout ticket is owned by an MM.
LEMMA AccountsInit ==
    ASSUME Init PROVE Accounts
BY CustodyAssumption DEF Init, Accounts, AbsentIsEmpty, BetsKeyed, CashoutsOwned,
   Exists, NoTicket, Tickets

\* It is enough to look at the tickets a step changes.
LEMMA AccountsAt ==
    ASSUME TypeOK, Accounts, NEW k \in Tickets,
           ticket'[k] = ticket[k] \/ ticket'[k] = NoTicket
             \/ /\ ticket'[k].result # "Absent"
                /\ k \in Bets => ticket'[k].key = k /\ ticket'[k].by = None
                /\ k \in Cashouts => ticket'[k].by \in MMs /\ ticket'[k].key \in Bets
    PROVE  /\ ~Exists(k)' => ticket'[k] = NoTicket
           /\ k \in Bets /\ Exists(k)' => ticket'[k].key = k /\ ticket'[k].by = None
           /\ k \in Cashouts /\ Exists(k)' => ticket'[k].by \in MMs /\ ticket'[k].key \in Bets
<1>1. (Exists(k)' <=> ticket'[k].result # "Absent") /\ NoTicket.result = "Absent"
    BY DEF Exists, NoTicket
<1>2. CASE ticket'[k] = NoTicket
    BY <1>1, <1>2
<1>3. CASE ticket'[k] = ticket[k]
  <2>1. Exists(k)' <=> Exists(k)
      BY <1>3 DEF Exists
  <2>2. /\ ~Exists(k) => ticket[k] = NoTicket
        /\ k \in Bets /\ Exists(k) => ticket[k].key = k /\ ticket[k].by = None
        /\ k \in Cashouts /\ Exists(k) => ticket[k].by \in MMs /\ ticket[k].key \in Bets
      BY DEF Accounts, AbsentIsEmpty, BetsKeyed, CashoutsOwned
  <2>. QED
      BY <1>3, <2>1, <2>2
<1>. QED
    BY <1>1, <1>2, <1>3

\* Every step keeps that shape.
LEMMA AccountsNext ==
    ASSUME TypeOK, Accounts, [Next]_vars PROVE Accounts'
<1>. DEFINE Kept(k) ==
        \/ ticket'[k] = ticket[k]
        \/ ticket'[k] = NoTicket
        \/ /\ ticket'[k].result # "Absent"
           /\ k \in Bets => ticket'[k].key = k /\ ticket'[k].by = None
           /\ k \in Cashouts => ticket'[k].by \in MMs /\ ticket'[k].key \in Bets
<1>1. SUFFICES ASSUME NEW k \in Tickets PROVE Kept(k)
  <2>1. \A k \in Bets : k \in Tickets
      BY DEF Tickets
  <2>2. \A k \in Cashouts : k \in Tickets
      BY DEF Tickets
  <2>3. \A k \in Tickets :
          /\ ~Exists(k)' => ticket'[k] = NoTicket
          /\ k \in Bets /\ Exists(k)' => ticket'[k].key = k /\ ticket'[k].by = None
          /\ k \in Cashouts /\ Exists(k)' => ticket'[k].by \in MMs /\ ticket'[k].key \in Bets
      BY <1>1, AccountsAt
  <2>. QED
      BY <2>1, <2>2, <2>3 DEF Accounts, AbsentIsEmpty, BetsKeyed, CashoutsOwned, Exists
<1>2. ticket \in [Tickets -> Ticket] /\ Bets \cap Cashouts = {} /\ None \notin MMs
      /\ Bets \subseteq Tickets /\ Cashouts \subseteq Tickets
    BY CustodyAssumption DEF TypeOK, Tickets
<1>3. CASE Quiet
    BY <1>3, QuietSteps
<1>4. CASE \E b \in Bets : FillStep(b)
  <2>1. PICK b \in Bets : FillStep(b)
      BY <1>4
  <2>2. PICK new \in Ticket :
            /\ ticket' = [ticket EXCEPT ![b] = new]
            /\ new.result = "Pending" /\ new.key = b /\ new.by = None
      BY <2>1, FillTicket
  <2>. QED
      BY <1>2, <2>2
<1>5. CASE \E b \in Bets : CashoutStep(b)
  <2>1. PICK b \in Bets, c \in Cashouts, m \in MMs, payment \in Payments :
            \E amount \in 1..ticket[b].amount : CashoutBet(b, c, m, amount, payment)
      BY <1>5 DEF CashoutStep
  <2>2. CashoutEffect(b, c, m, payment)
      BY <2>1, CashoutTickets
  <2>3. ticket[b].key = b /\ ticket[b].by = None
    <3>1. ticket[b].result = "Pending"
        BY <2>2 DEF CashoutEffect
    <3>. QED
        BY <3>1 DEF Accounts, BetsKeyed, Exists
  <2>4. CASE k = b
    <3>1. \/ ticket'[b] = NoTicket
          \/ /\ ticket'[b].result \in {"Pending", "CashedOut"}
             /\ ticket'[b].key = ticket[b].key /\ ticket'[b].by = ticket[b].by
        BY <2>2 DEF CashoutEffect
    <3>. QED
        BY <1>2, <2>3, <2>4, <3>1
  <2>5. CASE k = c
    <3>1. ticket'[c].result = "Pending" /\ ticket'[c].by = m /\ ticket'[c].key = ticket[b].key
        BY <2>2 DEF CashoutEffect
    <3>. QED
        BY <1>2, <2>3, <2>5, <3>1
  <2>6. CASE k \notin {b, c}
    <3>1. ticket'[k] = ticket[k]
        BY <2>2, <2>6 DEF CashoutEffect
    <3>. QED
        BY <3>1
  <2>. QED
      BY <2>4, <2>5, <2>6
<1>6. CASE \E b \in Bets : ClaimCashoutEscrow(b)
    BY <1>2, <1>6, ClaimTickets
<1>7. CASE \E b \in Bets : RevertCashout(b)
  <2>1. PICK b \in Bets : RevertCashout(b)
      BY <1>7
  <2>2. /\ Exists(b)
        /\ ticket'[escrow[b].cash] = NoTicket
        /\ ticket'[b].result \in {"Pending", "RolledBack"}
        /\ ticket'[b].key = ticket[b].key /\ ticket'[b].by = ticket[b].by
        /\ \A n \in Tickets \ {b, escrow[b].cash} : ticket'[n] = ticket[n]
      BY <2>1, RevertTickets
  <2>3. ticket[b].key = b /\ ticket[b].by = None
      BY <2>2 DEF Accounts, BetsKeyed
  <2>. QED
      BY <1>2, <2>2, <2>3
<1>8. CASE \E n \in Tickets, result \in Grades : GradeBet(n, result)
  <2>1. PICK n \in Tickets, result \in Grades : GradeBet(n, result)
      BY <1>8
  <2>2. /\ Exists(n) /\ ticket'[n].result # "Absent"
        /\ ticket'[n].key = ticket[n].key /\ ticket'[n].by = ticket[n].by
        /\ \A i \in Tickets \ {n} : ticket'[i] = ticket[i]
      BY <2>1, GradeTicket
  <2>3. /\ n \in Bets => ticket[n].key = n /\ ticket[n].by = None
        /\ n \in Cashouts => ticket[n].by \in MMs /\ ticket[n].key \in Bets
      BY <2>2 DEF Accounts, BetsKeyed, CashoutsOwned
  <2>. QED
      BY <2>2, <2>3
<1>9. CASE \E n \in Tickets : SettleBet(n)
    BY <1>2, <1>9, SettleTicket
<1>. QED
    BY <1>3, <1>4, <1>5, <1>6, <1>7, <1>8, <1>9, StepKinds

-----------------------------------------------------------------------------
(* The counter of the cashout tickets a vault is to be paid by. *)

\* The cashout tickets MM m bought.
BoughtBy(m) == {c \in Cashouts : ticket[c].by = m}

\* Buying one more ticket, and closing one, changes the count by 1.
LEMMA BoughtCount ==
    ASSUME TypeOK, Accounts, NEW c \in Cashouts, NEW m \in MMs,
           \A n \in Cashouts \ {c} : ticket'[n].by = ticket[n].by
    PROVE  /\ ticket[c].by # m /\ ticket'[c].by = m =>
                Cardinality(BoughtBy(m)') = Cardinality(BoughtBy(m)) + 1
           /\ ticket[c].by = m /\ ticket'[c].by # m =>
                Cardinality(BoughtBy(m)') = Cardinality(BoughtBy(m)) - 1
           /\ ticket[c].by # m /\ ticket'[c].by # m => BoughtBy(m)' = BoughtBy(m)
<1>1. IsFiniteSet(BoughtBy(m)) /\ IsFiniteSet(BoughtBy(m)')
  <2>1. BoughtBy(m) \subseteq Cashouts /\ BoughtBy(m)' \subseteq Cashouts
      BY DEF BoughtBy
  <2>. QED
      BY <2>1, FS_Subset, CustodyAssumption
<1>2. CASE ticket[c].by # m /\ ticket'[c].by = m
  <2>1. c \notin BoughtBy(m) /\ BoughtBy(m)' = BoughtBy(m) \cup {c}
      BY <1>2 DEF BoughtBy
  <2>. QED
      BY <1>1, <1>2, <2>1, FS_AddElement
<1>3. CASE ticket[c].by = m /\ ticket'[c].by # m
  <2>1. c \in BoughtBy(m) /\ BoughtBy(m)' = BoughtBy(m) \ {c}
      BY <1>3 DEF BoughtBy
  <2>. QED
      BY <1>1, <1>3, <2>1, FS_RemoveElement
<1>4. CASE ticket[c].by # m /\ ticket'[c].by # m
    BY <1>4 DEF BoughtBy
<1>. QED
    BY <1>2, <1>3, <1>4

\* A step that changes the owner of no cashout ticket keeps the count.
LEMMA BoughtSame ==
    ASSUME NEW m \in MMs, \A n \in Cashouts : ticket'[n].by = ticket[n].by
    PROVE  BoughtBy(m)' = BoughtBy(m)
BY DEF BoughtBy

\* What the count rests on.
CountInv == Accounts /\ ClosedCountsNone /\ CashoutsCounted

\* The admin steps and the clock keep the count: a vault is closed, and its
\* counter lost, only when no cashout ticket is to be paid into it.
LEMMA CountQuiet ==
    ASSUME TypeOK, CountInv, Quiet PROVE ClosedCountsNone' /\ CashoutsCounted'
<1>1. UNCHANGED ticket
    BY QuietSteps
<1>2. \A m \in MMs : BoughtBy(m)' = BoughtBy(m)
    BY <1>1, BoughtSame
<1>3. SUFFICES ASSUME NEW m \in MMs
               PROVE  /\ vault'[m].cashouts = vault[m].cashouts
                      /\ ~vault'[m].exists => vault'[m].cashouts = 0
    BY <1>2 DEF CountInv, CashoutsCounted, ClosedCountsNone, BoughtBy
<1>4. vault \in [MMs -> Vault] /\ (~vault[m].exists => vault[m].cashouts = 0)
    BY DEF TypeOK, CountInv, ClosedCountsNone
<1>5. CASE \E n \in MMs : AdminStep(n)
  <2>1. PICK n \in MMs : AdminStep(n)
      BY <1>5
  <2>2. CASE InitMmMintVault(n)
      BY <1>4, <2>2 DEF InitMmMintVault, NoVault, CountInv, ClosedCountsNone
  <2>3. CASE CloseMmMintVault(n)
      BY <1>4, <2>3 DEF CloseMmMintVault, NoVault
  <2>4. CASE \E amount \in Transfers : Deposit(n, amount) \/ Withdraw(n, amount)
    <3>1. PICK amount \in Transfers : Deposit(n, amount) \/ Withdraw(n, amount)
        BY <2>4
    <3>. QED
        BY <1>4, <3>1 DEF Deposit, Withdraw, Vault
  <2>5. CASE \/ CreateNettingAccount(n) \/ CloseNettingAccount(n)
             \/ \E line \in Lines : AddLine(n, line) \/ RemoveLine(n, line)
    <3>1. UNCHANGED vault
        BY <2>5 DEF CreateNettingAccount, CloseNettingAccount, AddLine, RemoveLine
    <3>. QED
        BY <1>4, <3>1
  <2>. QED
      BY <2>1, <2>2, <2>3, <2>4, <2>5 DEF AdminStep
<1>6. CASE \/ \E k \in Tickets : Donate(k)
           \/ EventStep \/ ChangeConfigStatus \/ Tick \/ UNCHANGED vars
  <2>1. UNCHANGED vault
      BY <1>6 DEF Donate, EventStep, GoLive, ChangeConfigStatus, Tick, vars, money
  <2>. QED
      BY <1>4, <2>1
<1>. QED
    BY <1>5, <1>6 DEF Quiet

\* A fill leaves every counter alone and opens no cashout ticket.
LEMMA CountFill ==
    ASSUME TypeOK, CountInv, NEW b \in Bets, FillStep(b)
    PROVE  ClosedCountsNone' /\ CashoutsCounted'
<1>1. PICK mkt \in Mkts, side \in Sides, isLive \in BOOLEAN, fills \in FillList :
          OpenBet(b, mkt, side, isLive, fills)
    BY FillStepLists
<1>2. ticket \in [Tickets -> Ticket] /\ vault \in [MMs -> Vault]
      /\ \A c \in Cashouts : c \in Tickets /\ c # b
    BY CustodyAssumption DEF TypeOK, Tickets
<1>3. \A c \in Cashouts : ticket'[c].by = ticket[c].by
    BY <1>2, FillTicket
<1>4. \A m \in MMs : BoughtBy(m)' = BoughtBy(m)
    BY <1>3, BoughtSame
<1>5. ASSUME NEW m \in MMs
      PROVE  vault'[m].cashouts = vault[m].cashouts /\ vault'[m].exists = vault[m].exists
    BY <1>1, <1>2 DEF OpenBet, Vault
<1>. QED
    BY <1>4, <1>5 DEF CountInv, CashoutsCounted, ClosedCountsNone, BoughtBy

\* A cashout adds its ticket to the count of the buying MM alone.
LEMMA CountCashout ==
    ASSUME TypeOK, CountInv, NEW b \in Bets, CashoutStep(b)
    PROVE  ClosedCountsNone' /\ CashoutsCounted'
<1>1. PICK c \in Cashouts, m \in MMs, payment \in Payments :
          \E amount \in 1..ticket[b].amount : CashoutBet(b, c, m, amount, payment)
    BY DEF CashoutStep
<1>2. CashoutEffect(b, c, m, payment)
    BY <1>1, CashoutTickets
<1>3. vault[m].exists
    BY <1>1 DEF CashoutBet, CanCashout
<1>4. /\ ticket'[c].by = m /\ ~Exists(c)
      /\ \A k \in Tickets \ {b, c} : ticket'[k] = ticket[k]
      /\ vault' = [vault EXCEPT ![m].liability = @ - FromLiability(m, payment),
                                ![m].cashouts = @ + 1]
    BY <1>2 DEF CashoutEffect
<1>5. \A n \in Cashouts \ {c} : ticket'[n].by = ticket[n].by
    BY <1>4, CustodyAssumption DEF Tickets
<1>6. ticket[c].by = None /\ None \notin MMs
  <2>1. ticket[c] = NoTicket
      BY <1>4 DEF CountInv, Accounts, AbsentIsEmpty, Tickets
  <2>. QED
      BY <2>1, CustodyAssumption DEF NoTicket
<1>7. \A n \in MMs :
          /\ n = m => Cardinality(BoughtBy(n)') = Cardinality(BoughtBy(n)) + 1
          /\ n # m => BoughtBy(n)' = BoughtBy(n)
    BY <1>4, <1>5, <1>6, BoughtCount DEF CountInv
<1>8. ASSUME NEW n \in MMs
      PROVE  /\ vault'[n].exists = vault[n].exists
             /\ vault'[n].cashouts = IF n = m THEN vault[n].cashouts + 1
                                     ELSE vault[n].cashouts
    BY <1>4 DEF TypeOK, Vault
<1>9. CashoutsCounted'
    BY <1>7, <1>8 DEF CountInv, CashoutsCounted, BoughtBy
<1>10. ClosedCountsNone'
    BY <1>3, <1>8 DEF CountInv, ClosedCountsNone
<1>. QED
    BY <1>9, <1>10

\* Settling a cashout ticket takes it off its MM's count; a bet is nobody's.
LEMMA CountSettle ==
    ASSUME TypeOK, CountInv, NEW k \in Tickets, SettleBet(k)
    PROVE  ClosedCountsNone' /\ CashoutsCounted'
<1>. DEFINE t == ticket[k]
<1>1. /\ Exists(k)
      /\ ticket' = [ticket EXCEPT ![k] = NoTicket]
    BY SettleTicket
<1>2. ticket'[k].by = None /\ None \notin MMs
      /\ \A n \in Tickets \ {k} : ticket'[n] = ticket[n]
    BY <1>1, CustodyAssumption DEF TypeOK, NoTicket
<1>3. \A m \in MMs : Cardinality(BoughtBy(m)') =
          Cardinality(BoughtBy(m)) - (IF m = t.by THEN 1 ELSE 0)
  <2>1. CASE k \in Cashouts
    <3>1. \A n \in Cashouts \ {k} : ticket'[n].by = ticket[n].by
        BY <1>2 DEF Tickets
    <3>2. \A m \in MMs : Cardinality(BoughtBy(m)) \in Nat
        BY DEF CountInv, CashoutsCounted, TypeOK, Vault, BoughtBy
    <3>. QED
        BY <1>2, <2>1, <3>1, <3>2, BoughtCount DEF CountInv
  <2>2. CASE k \in Bets
    <3>1. t.by = None
        BY <1>1, <2>2 DEF CountInv, Accounts, BetsKeyed
    <3>2. \A n \in Cashouts : ticket'[n].by = ticket[n].by
        BY <1>2, <2>2, CustodyAssumption DEF Tickets
    <3>3. \A m \in MMs : BoughtBy(m)' = BoughtBy(m) /\ Cardinality(BoughtBy(m)) \in Nat
        BY <3>2, BoughtSame DEF CountInv, CashoutsCounted, TypeOK, Vault, BoughtBy
    <3>. QED
        BY <1>2, <3>1, <3>3
  <2>. QED
      BY <2>1, <2>2 DEF Tickets
<1>4. ASSUME NEW m \in MMs
      PROVE  /\ vault'[m].exists = vault[m].exists
             /\ vault'[m].cashouts = vault[m].cashouts - (IF m = t.by THEN 1 ELSE 0)
             /\ m = t.by => vault[m].exists
  <2>1. m = t.by => vault[m].exists
      BY <1>2 DEF SettleBet, CanSettle
  <2>. QED
      BY <2>1 DEF SettleBet, TypeOK, Vault
<1>5. CashoutsCounted'
  <2>1. \A m \in MMs : vault[m].cashouts = Cardinality(BoughtBy(m))
      BY DEF CountInv, CashoutsCounted, BoughtBy
  <2>. HIDE DEF t
  <2>2. \A m \in MMs : vault'[m].cashouts = Cardinality(BoughtBy(m)')
      BY <1>3, <1>4, <2>1
  <2>. QED
      BY <2>2 DEF CashoutsCounted, BoughtBy
<1>6. ClosedCountsNone'
    BY <1>4 DEF CountInv, ClosedCountsNone, TypeOK, Vault
<1>. QED
    BY <1>5, <1>6

\* A revert takes the cashout ticket it closes off the count of the MM that
\* the escrow names, which is the MM that bought it.
LEMMA CountRevert ==
    ASSUME TypeOK, CountInv, NEW b \in Bets, RevertCashout(b)
    PROVE  ClosedCountsNone' /\ CashoutsCounted'
<1>. DEFINE c == escrow[b].cash
            m == escrow[b].mm
<1>1. /\ c \in Cashouts /\ Exists(c) /\ ticket[c].by = m
      /\ ticket'[c] = NoTicket
      /\ ticket'[b].by = ticket[b].by
      /\ \A k \in Tickets \ {b, c} : ticket'[k] = ticket[k]
      /\ vault' = [vault EXCEPT ![m].liability = @ + escrow[b].payment,
                                ![m].cashouts = @ - 1]
      /\ vault[m].exists
    BY RevertTickets
<1>2. m \in MMs
    BY <1>1 DEF CountInv, Accounts, CashoutsOwned
<1>3. ticket'[c].by = None /\ None \notin MMs
    BY <1>1, CustodyAssumption DEF NoTicket
<1>4. \A n \in Cashouts \ {c} : ticket'[n].by = ticket[n].by
    BY <1>1, CustodyAssumption DEF Tickets
<1>. HIDE DEF c, m
<1>5. \A n \in MMs :
          /\ n = m => Cardinality(BoughtBy(n)') = Cardinality(BoughtBy(n)) - 1
          /\ n # m => BoughtBy(n)' = BoughtBy(n)
    BY <1>1, <1>3, <1>4, BoughtCount DEF CountInv
<1>6. ASSUME NEW n \in MMs
      PROVE  /\ vault'[n].exists = vault[n].exists
             /\ vault'[n].cashouts = IF n = m THEN vault[n].cashouts - 1
                                     ELSE vault[n].cashouts
    BY <1>1, <1>2 DEF TypeOK, Vault
<1>7. CashoutsCounted'
    BY <1>5, <1>6 DEF CountInv, CashoutsCounted, BoughtBy
<1>8. ClosedCountsNone'
  <2>. SUFFICES ASSUME NEW n \in MMs, ~vault'[n].exists PROVE vault'[n].cashouts = 0
      BY DEF ClosedCountsNone
  <2>1. ~vault[n].exists
      BY <1>6
  <2>2. n # m
      BY <1>1, <2>1
  <2>3. vault[n].cashouts = 0
      BY <2>1 DEF CountInv, ClosedCountsNone
  <2>. QED
      BY <1>6, <2>2, <2>3
<1>. QED
    BY <1>7, <1>8

\* Every step keeps the count.
LEMMA CountNext ==
    ASSUME TypeOK, CountInv, [Next]_vars PROVE CountInv'
<1>1. Accounts'
    BY AccountsNext DEF CountInv
<1>2. ASSUME UNCHANGED vault, \A c \in Cashouts : ticket'[c].by = ticket[c].by
      PROVE  ClosedCountsNone' /\ CashoutsCounted'
  <2>1. \A m \in MMs : BoughtBy(m)' = BoughtBy(m)
      BY <1>2, BoughtSame
  <2>. QED
      BY <1>2, <2>1 DEF CountInv, CashoutsCounted, ClosedCountsNone, BoughtBy
<1>3. CASE \E b \in Bets : ClaimCashoutEscrow(b)
  <2>1. PICK b \in Bets : ClaimCashoutEscrow(b)
      BY <1>3
  <2>2. \A c \in Cashouts : c # b /\ c \in Tickets
      BY CustodyAssumption DEF Tickets
  <2>. QED
      BY <1>1, <1>2, <2>1, <2>2, ClaimTickets DEF CountInv, TypeOK
<1>4. CASE \E k \in Tickets, result \in Grades : GradeBet(k, result)
  <2>1. PICK k \in Tickets, result \in Grades : GradeBet(k, result)
      BY <1>4
  <2>2. /\ ticket'[k].by = ticket[k].by /\ UNCHANGED vault
        /\ \A n \in Tickets \ {k} : ticket'[n] = ticket[n]
      BY <2>1, GradeTicket
  <2>3. \A c \in Cashouts : ticket'[c].by = ticket[c].by
      BY <2>2 DEF Tickets
  <2>. QED
      BY <1>1, <1>2, <2>2, <2>3 DEF CountInv
<1>5. ClosedCountsNone' /\ CashoutsCounted'
    BY <1>2, <1>3, <1>4, CountQuiet, CountFill, CountCashout, CountRevert, CountSettle,
       StepKinds DEF CountInv
<1>. QED
    BY <1>1, <1>5 DEF CountInv

\* Initially no vault counts a cashout ticket, and there is none.
LEMMA CountInit ==
    ASSUME Init PROVE CountInv
<1>1. \A m \in MMs : vault[m].cashouts = 0
    BY DEF Init, NoVault
<1>2. ASSUME NEW m \in MMs PROVE Cardinality(BoughtBy(m)) = 0
  <2>1. BoughtBy(m) = {}
      BY CustodyAssumption DEF Init, BoughtBy, NoTicket, Tickets
  <2>. QED
      BY <2>1, FS_EmptySet
<1>. QED
    BY <1>1, <1>2, AccountsInit DEF CountInv, ClosedCountsNone, CashoutsCounted, BoughtBy

\* The vault of the MM that bought a ticket is open and counts it.
LEMMA BuyerCounts ==
    ASSUME TypeOK, CountInv, NEW k \in Tickets, Exists(k), ticket[k].by # None
    PROVE  ticket[k].by \in MMs /\ vault[ticket[k].by].exists
             /\ vault[ticket[k].by].cashouts > 0
<1>. DEFINE n == ticket[k].by
<1>1. k \in Cashouts /\ n \in MMs
    BY DEF CountInv, Accounts, BetsKeyed, CashoutsOwned, Tickets
<1>2. k \in BoughtBy(n)
    BY <1>1 DEF BoughtBy
<1>. HIDE DEF n
<1>3. IsFiniteSet(BoughtBy(n))
    BY FS_Subset, CustodyAssumption DEF BoughtBy
<1>4. Cardinality(BoughtBy(n)) > 0
    BY <1>2, <1>3, FS_EmptySet, FS_CardinalityType
<1>5. vault[n].cashouts = Cardinality(BoughtBy(n))
    BY <1>1 DEF CountInv, CashoutsCounted, BoughtBy
<1>6. vault[n].exists
    BY <1>1, <1>4, <1>5 DEF CountInv, ClosedCountsNone
<1>. QED
    BY <1>1, <1>4, <1>5, <1>6 DEF n

\* open_cashout_tickets always equals the number of open cashout tickets the
\* MM bought, so close_mm_mint_vault never strands one of them.
THEOREM CashoutsCounting == Spec => []CashoutsCounted
<1>1. Init => TypeOK /\ CountInv
    BY InitType, CountInit
<1>2. TypeOK /\ CountInv /\ [Next]_vars => TypeOK' /\ CountInv'
    BY NextType, CountNext
<1>3. CountInv => CashoutsCounted
    BY DEF CountInv
<1>. QED
    BY <1>1, <1>2, <1>3, PTL DEF Spec

-----------------------------------------------------------------------------
(* A live escrow and the two tickets it joins.  The cashout ticket stays   *)
(* with its escrow in any case.  The bet does when the MM programs agree   *)
(* on the event (EventGroups \subseteq {MMs}, all their event states leave *)
(* pregame together); where they do not, a cashout without delay can close *)
(* it, which the run orphan shows.                                         *)

\* The cashout ticket of a live escrow is open, and is the one the escrow
\* speaks of: what the user would be paid for and what a revert gives back.
CashoutHeld ==
    \A b \in Bets :
        EscrowLive(b) =>
            LET co == ticket[escrow[b].cash] IN
            /\ Exists(escrow[b].cash)
            /\ co.key = b /\ co.by = escrow[b].mm
            /\ co.amount = escrow[b].amount /\ co.payout = escrow[b].removed

\* A live escrow whose bet is still there can be resolved.
ResolvableWithBet == \A b \in Bets : EscrowLive(b) /\ Exists(b) => Resolvable(b)

(* The strengthenings. *)
HeldInv == Accounts /\ CashoutHeld

\* The MMs agree on whether the event is live.
Agreed == \A m, n \in MMs : live[m] = live[n]

\* While an escrow of bet b is live every cashout of b needs a delay, and is
\* refused because of the escrow.
StillDelayed == \A b \in Bets : EscrowLive(b) => \A m \in MMs : NeedsDelay(b, m)

LinkInv == Accounts /\ Agreed /\ StillDelayed /\ EscrowLinked

-----------------------------------------------------------------------------
(* What a step may do to a live escrow and its tickets *)

\* The escrow says the same about the same cashout.
SameEscrow(b) ==
    /\ escrow'[b].cash = escrow[b].cash /\ escrow'[b].mm = escrow[b].mm
    /\ escrow'[b].amount = escrow[b].amount /\ escrow'[b].removed = escrow[b].removed

\* Ticket k is left alone or graded.
OnlyGraded(k) ==
    \/ ticket'[k] = ticket[k]
    \/ \E result \in Grades :
          Exists(k) /\ ticket'[k] = [ticket[k] EXCEPT !.result = result]

\* An MM buys from bet b, at once.
BoughtAtOnce(b) ==
    \E m \in MMs : ~NeedsDelay(b, m) /\ vault'[m].cashouts > vault[m].cashouts

\* No step resolves a live escrow but its own claim or revert, and no step
\* that does not resolve it does more to its cashout ticket than to grade it; nor
\* to its bet, if the bet is there and the step is no cashout without delay.
LEMMA LiveEscrowStep ==
    ASSUME TypeOK, HeldInv, [Next]_vars, NEW b \in Bets, EscrowLive(b)
    PROVE  \/ escrow'[b] = NoEscrow
           \/ /\ SameEscrow(b) /\ OnlyGraded(escrow[b].cash)
              /\ OnlyGraded(b) \/ ~Exists(b) \/ BoughtAtOnce(b)
<1>. DEFINE c == escrow[b].cash
<1>1. /\ c \in Cashouts /\ Exists(c) /\ ticket[c].key = b
      /\ escrow[b] \in Escrow /\ c # None
    BY DEF TypeOK, Escrow, EscrowLive, HeldInv, CashoutHeld
<1>2. /\ b \in Tickets /\ c \in Tickets /\ b # c
      /\ ticket \in [Tickets -> Ticket] /\ escrow \in [Bets -> Escrow]
    BY <1>1, CustodyAssumption DEF Tickets, TypeOK
<1>. HIDE DEF c
<1>3. ASSUME ticket'[b] = ticket[b], ticket'[c] = ticket[c], SameEscrow(b)
      PROVE  SameEscrow(b) /\ OnlyGraded(b) /\ OnlyGraded(c)
    BY <1>3 DEF OnlyGraded
<1>4. CASE Quiet
  <2>1. SameEscrow(b) /\ UNCHANGED ticket
      BY <1>4, QuietSteps DEF SameEscrow
  <2>. QED
      BY <1>3, <2>1 DEF c
<1>5. CASE \E x \in Bets : FillStep(x)
  <2>1. PICK x \in Bets : FillStep(x)
      BY <1>5
  <2>2. ~Exists(x) /\ UNCHANGED escrow /\ \E new \in Ticket : ticket' = [ticket EXCEPT ![x] = new]
      BY <2>1, FillTicket
  <2>3. x # c /\ SameEscrow(b)
      BY <1>1, <2>2 DEF Exists, SameEscrow
  <2>4. ticket'[c] = ticket[c] /\ (x # b => ticket'[b] = ticket[b])
      BY <1>2, <2>2, <2>3
  <2>. QED
      BY <2>2, <2>3, <2>4 DEF c, OnlyGraded
<1>6. CASE \E x \in Bets : CashoutStep(x)
  <2>1. PICK x \in Bets, c2 \in Cashouts, m \in MMs, payment \in Payments :
            \E amount \in 1..ticket[x].amount : CashoutBet(x, c2, m, amount, payment)
      BY <1>6 DEF CashoutStep
  <2>2. CashoutEffect(x, c2, m, payment)
      BY <2>1, CashoutTickets
  <2>3. c2 # c
    <3>1. ~Exists(c2)
        BY <2>2 DEF CashoutEffect
    <3>. QED
        BY <1>1, <3>1 DEF Exists
  <2>4. ticket'[c] = ticket[c]
    <3>1. c \notin {x, c2}
        BY <1>1, <2>3, CustodyAssumption
    <3>. QED
        BY <1>2, <2>2, <3>1 DEF CashoutEffect
  <2>5. CASE x = b
    <3>1. ~NeedsDelay(b, m)
      <4>1. NeedsDelay(b, m) => ~EscrowLive(b)
          BY <2>2, <2>5 DEF CashoutEffect
      <4>. QED
          BY <4>1
    <3>2. SameEscrow(b)
        BY <2>2, <2>5, <3>1 DEF CashoutEffect, SameEscrow
    <3>3. vault'[m].cashouts > vault[m].cashouts
      <4>1. vault[m] \in Vault /\ m \in DOMAIN vault
          BY DEF TypeOK
      <4>2. vault'[m].cashouts = vault[m].cashouts + 1 /\ vault[m].cashouts \in Nat
          BY <2>2, <4>1 DEF CashoutEffect, Vault
      <4>. QED
          BY <4>2
    <3>4. BoughtAtOnce(b)
        BY <3>1, <3>3 DEF BoughtAtOnce
    <3>. QED
        BY <2>4, <3>2, <3>4 DEF c, OnlyGraded
  <2>6. CASE x # b
    <3>1. b \notin {x, c2}
        BY <2>6, CustodyAssumption
    <3>2. ticket'[b] = ticket[b] /\ escrow'[b] = escrow[b]
        BY <1>2, <2>2, <2>6, <3>1 DEF CashoutEffect
    <3>. QED
        BY <1>3, <2>4, <3>2 DEF c, SameEscrow
  <2>. QED
      BY <2>5, <2>6
<1>7. CASE \E x \in Bets : ClaimCashoutEscrow(x)
  <2>1. PICK x \in Bets : ClaimCashoutEscrow(x)
      BY <1>7
  <2>2. CASE x = b
      BY <1>2, <2>1, <2>2, ClaimTickets
  <2>3. CASE x # b
    <3>1. ticket'[b] = ticket[b] /\ ticket'[c] = ticket[c] /\ escrow'[b] = escrow[b]
        BY <1>1, <1>2, <2>1, <2>3, CustodyAssumption, ClaimTickets
    <3>. QED
        BY <1>3, <3>1 DEF c, SameEscrow
  <2>. QED
      BY <2>2, <2>3
<1>8. CASE \E x \in Bets : RevertCashout(x)
  <2>1. PICK x \in Bets : RevertCashout(x)
      BY <1>8
  <2>2. /\ escrow' = [escrow EXCEPT ![x] = NoEscrow]
        /\ \A k \in Tickets \ {x, escrow[x].cash} : ticket'[k] = ticket[k]
      BY <2>1, RevertTickets
  <2>3. CASE x = b
      BY <1>2, <2>3, <2>2
  <2>4. CASE x # b
    <3>1. EscrowLive(x) /\ ticket[escrow[x].cash].key = x
        BY <2>1 DEF RevertCashout, HeldInv, CashoutHeld
    <3>2. c \notin {x, escrow[x].cash} /\ b \notin {x, escrow[x].cash}
      <4>1. escrow[x].cash \in Cashouts
          BY <2>1, RevertTickets
      <4>. QED
          BY <1>1, <2>4, <3>1, <4>1, CustodyAssumption
    <3>3. ticket'[b] = ticket[b] /\ ticket'[c] = ticket[c] /\ escrow'[b] = escrow[b]
        BY <1>2, <2>4, <2>2, <3>2
    <3>. QED
        BY <1>3, <3>3 DEF c, SameEscrow
  <2>. QED
      BY <2>3, <2>4
<1>9. CASE \E k \in Tickets, result \in Grades : GradeBet(k, result)
  <2>1. PICK k \in Tickets, result \in Grades : GradeBet(k, result)
      BY <1>9
  <2>2. /\ Exists(k) /\ ticket'[k] = [ticket[k] EXCEPT !.result = result]
        /\ \A n \in Tickets \ {k} : ticket'[n] = ticket[n]
        /\ UNCHANGED escrow
      BY <2>1, GradeTicket
  <2>3. \A n \in Tickets : OnlyGraded(n)
      BY <2>2 DEF OnlyGraded, Exists
  <2>4. SameEscrow(b)
      BY <2>2 DEF SameEscrow
  <2>. QED
      BY <1>2, <2>3, <2>4 DEF c
<1>10. CASE \E k \in Tickets : SettleBet(k)
  <2>1. PICK k \in Tickets : SettleBet(k)
      BY <1>10
  <2>2. /\ ~EscrowLive(ticket[k].key) /\ UNCHANGED escrow
        /\ ticket' = [ticket EXCEPT ![k] = NoTicket]
      BY <2>1, SettleTicket
  <2>3. k # b /\ k # c
    <3>1. k = b => ticket[k].key = b
        BY <2>1, SettleTicket DEF HeldInv, Accounts, BetsKeyed
    <3>. QED
        BY <1>1, <2>2, <3>1
  <2>4. ticket'[b] = ticket[b] /\ ticket'[c] = ticket[c] /\ SameEscrow(b)
      BY <1>2, <2>2, <2>3 DEF SameEscrow
  <2>. QED
      BY <1>3, <2>4 DEF c
<1>. QED
    BY <1>4, <1>5, <1>6, <1>7, <1>8, <1>9, <1>10, StepKinds DEF c

\* An escrow comes to life only by a cashout that needs a delay.
LEMMA NewEscrowStep ==
    ASSUME TypeOK, [Next]_vars, NEW b \in Bets, ~EscrowLive(b), EscrowLive(b)'
    PROVE  \E c \in Cashouts, m \in MMs, payment \in Payments :
             /\ \E amount \in 1..ticket[b].amount : CashoutBet(b, c, m, amount, payment)
             /\ CashoutEffect(b, c, m, payment) /\ NeedsDelay(b, m)
<1>1. escrow \in [Bets -> Escrow] /\ NoEscrow.cash = None
    BY DEF TypeOK, NoEscrow
<1>2. ~Quiet
    BY QuietSteps DEF EscrowLive
<1>3. ~\E x \in Bets : FillStep(x)
    BY FillTicket DEF EscrowLive
<1>4. ~\E x \in Bets : ClaimCashoutEscrow(x)
    BY <1>1, ClaimTickets DEF EscrowLive
<1>5. ~\E x \in Bets : RevertCashout(x)
    BY <1>1, RevertTickets DEF EscrowLive
<1>6. ~\E k \in Tickets, result \in Grades : GradeBet(k, result)
    BY GradeTicket DEF EscrowLive
<1>7. ~\E k \in Tickets : SettleBet(k)
    BY SettleTicket DEF EscrowLive
<1>8. PICK x \in Bets, c \in Cashouts, m \in MMs, payment \in Payments :
          \E amount \in 1..ticket[x].amount : CashoutBet(x, c, m, amount, payment)
    BY <1>2, <1>3, <1>4, <1>5, <1>6, <1>7, StepKinds DEF CashoutStep
<1>9. CashoutEffect(x, c, m, payment)
    BY <1>8, CashoutTickets
<1>10. NeedsDelay(x, m) /\ x = b
    BY <1>9 DEF CashoutEffect, NeedsDelay, EscrowLive
<1>. QED
    BY <1>8, <1>9, <1>10

\* Every step keeps the cashout tickets of live escrows.
LEMMA HeldNext ==
    ASSUME TypeOK, HeldInv, [Next]_vars PROVE HeldInv'
<1>1. Accounts'
    BY AccountsNext DEF HeldInv
<1>2. ASSUME NEW b \in Bets, EscrowLive(b)'
      PROVE  /\ Exists(escrow[b].cash)'
             /\ ticket'[escrow'[b].cash].key = b
             /\ ticket'[escrow'[b].cash].by = escrow'[b].mm
             /\ ticket'[escrow'[b].cash].amount = escrow'[b].amount
             /\ ticket'[escrow'[b].cash].payout = escrow'[b].removed
  <2>1. CASE EscrowLive(b)
    <3>. DEFINE c == escrow[b].cash
    <3>1. SameEscrow(b) /\ OnlyGraded(c)
      <4>1. escrow'[b] # NoEscrow
          BY <1>2 DEF EscrowLive, NoEscrow
      <4>. QED
          BY <2>1, <4>1, LiveEscrowStep
    <3>2. /\ Exists(c) /\ ticket[c].key = b /\ ticket[c].by = escrow[b].mm
          /\ ticket[c].amount = escrow[b].amount /\ ticket[c].payout = escrow[b].removed
        BY <2>1 DEF HeldInv, CashoutHeld
    <3>3. ticket[c] \in Ticket
        BY <2>1 DEF EscrowLive, TypeOK, Escrow, Tickets
    <3>. HIDE DEF c
    <3>4. /\ ticket'[c].result # "Absent"
          /\ ticket'[c].key = ticket[c].key /\ ticket'[c].by = ticket[c].by
          /\ ticket'[c].amount = ticket[c].amount /\ ticket'[c].payout = ticket[c].payout
      <4>1. \A result \in Grades : result # "Absent"
          BY SettlementAssumption DEF GradeResults, VoidResults
      <4>. QED
          BY <3>1, <3>2, <3>3, <4>1 DEF OnlyGraded, Ticket, Exists
    <3>5. escrow'[b].cash = c /\ escrow'[b].mm = escrow[b].mm
          /\ escrow'[b].amount = escrow[b].amount /\ escrow'[b].removed = escrow[b].removed
        BY <3>1 DEF SameEscrow, c
    <3>. QED
        BY <3>2, <3>4, <3>5 DEF Exists
  <2>2. CASE ~EscrowLive(b)
    <3>1. PICK c \in Cashouts, m \in MMs, payment \in Payments :
              CashoutEffect(b, c, m, payment) /\ NeedsDelay(b, m)
        BY <1>2, <2>2, NewEscrowStep
    <3>2. ticket[b].key = b
        BY <3>1 DEF CashoutEffect, HeldInv, Accounts, BetsKeyed, Exists
    <3>3. /\ ticket'[c].result = "Pending" /\ ticket'[c].by = m /\ ticket'[c].key = b
          /\ escrow'[b].cash = c /\ escrow'[b].mm = m
          /\ escrow'[b].amount = ticket'[c].amount
          /\ escrow'[b].removed = ticket'[c].payout
        BY <3>1, <3>2 DEF CashoutEffect, NeedsDelay
    <3>. QED
        BY <3>3 DEF Exists
  <2>. QED
      BY <2>1, <2>2
<1>3. CashoutHeld'
    BY <1>2 DEF CashoutHeld
<1>. QED
    BY <1>1, <1>3 DEF HeldInv

\* Initially no escrow is live.
LEMMA HeldInit ==
    ASSUME Init PROVE HeldInv
<1>1. \A b \in Bets : ~EscrowLive(b)
    BY DEF Init, EscrowLive, NoEscrow
<1>. QED
    BY <1>1, AccountsInit DEF HeldInv, CashoutHeld

\* When every cashout needs a delay, grades are all that reaches a live escrow's
\* bet.
LEMMA LinkedEscrowStep ==
    ASSUME TypeOK, LinkInv, [Next]_vars, NEW b \in Bets, EscrowLive(b)
    PROVE  \/ escrow'[b] = NoEscrow
           \/ SameEscrow(b) /\ OnlyGraded(b) /\ OnlyGraded(escrow[b].cash)
<1>1. HeldInv
    BY DEF LinkInv, EscrowLinked, HeldInv, CashoutHeld
<1>2. Exists(b) /\ ~BoughtAtOnce(b)
    BY DEF LinkInv, EscrowLinked, StillDelayed, BoughtAtOnce
<1>. QED
    BY <1>1, <1>2, LiveEscrowStep

-----------------------------------------------------------------------------
(* The invariant, when the MMs agree *)

\* The event states agree at first, and leave pregame together.
LEMMA AgreedNext ==
    ASSUME EventGroups \subseteq {MMs}, TypeOK, Agreed, [Next]_vars
    PROVE  Agreed' /\ \A m \in MMs : live[m] => live'[m]
<1>1. CASE EventStep
  <2>1. PICK ms \in EventGroups : GoLive(ms)
      BY <1>1 DEF EventStep
  <2>2. live' = [m \in MMs |-> live[m] \/ m \in MMs]
      BY <2>1 DEF GoLive
  <2>. QED
      BY <2>2 DEF Agreed
<1>2. CASE UNCHANGED live
    BY <1>2 DEF Agreed
<1>3. CASE Quiet
  <2>1. CASE \E m \in MMs : AdminStep(m)
      BY <1>2, <2>1 DEF AdminStep, InitMmMintVault, CreateNettingAccount, CloseMmMintVault,
         CloseNettingAccount, AddLine, RemoveLine, Deposit, Withdraw
  <2>2. CASE (\E k \in Tickets : Donate(k)) \/ ChangeConfigStatus \/ Tick \/ UNCHANGED vars
      BY <1>2, <2>2 DEF Donate, ChangeConfigStatus, Tick, vars
  <2>. QED
      BY <1>1, <1>3, <2>1, <2>2 DEF Quiet
<1>4. CASE \E b \in Bets : FillStep(b)
    BY <1>2, <1>4, FillTicket
<1>5. CASE \E b \in Bets : CashoutStep(b)
  <2>1. UNCHANGED live
      BY <1>5 DEF CashoutStep, CashoutBet
  <2>. QED
      BY <1>2, <2>1
<1>6. CASE \E b \in Bets : ClaimCashoutEscrow(b) \/ RevertCashout(b)
    BY <1>2, <1>6 DEF ClaimCashoutEscrow, RevertCashout
<1>7. CASE \E k \in Tickets, result \in Grades : GradeBet(k, result)
    BY <1>2, <1>7 DEF GradeBet
<1>8. CASE \E k \in Tickets : SettleBet(k)
    BY <1>2, <1>8 DEF SettleBet
<1>. QED
    BY <1>3, <1>4, <1>5, <1>6, <1>7, <1>8, StepKinds

\* The link and the delay of one bet after a step.
LEMMA LinkedAt ==
    ASSUME EventGroups \subseteq {MMs}, TypeOK, LinkInv, [Next]_vars,
           NEW b \in Bets, EscrowLive(b)'
    PROVE  /\ \A m \in MMs : NeedsDelay(b, m)'
           /\ Exists(b)' /\ Exists(escrow[b].cash)'
           /\ ticket'[escrow'[b].cash].key = b
           /\ ticket'[escrow'[b].cash].by = escrow'[b].mm
           /\ ticket'[escrow'[b].cash].amount = escrow'[b].amount
           /\ ticket'[escrow'[b].cash].payout = escrow'[b].removed
           /\ ticket'[escrow'[b].cash].fillers = ticket'[b].fillers
<1>1. \A m \in MMs : live[m] => live'[m]
    BY AgreedNext DEF LinkInv
<1>2. CASE EscrowLive(b)
  <2>. DEFINE c == escrow[b].cash
  <2>1. /\ SameEscrow(b) /\ OnlyGraded(b) /\ OnlyGraded(c)
        /\ escrow[b].cash # None
    <3>1. escrow'[b] # NoEscrow
        BY DEF EscrowLive, NoEscrow
    <3>. QED
        BY <1>2, <3>1, LinkedEscrowStep DEF EscrowLive
  <2>2. /\ c \in Cashouts /\ b \in Tickets /\ c \in Tickets
        /\ ticket[b] \in Ticket /\ ticket[c] \in Ticket
      BY <2>1 DEF TypeOK, Escrow, Tickets
  <2>3. /\ Exists(b) /\ Exists(c) /\ ticket[c].key = b /\ ticket[c].by = escrow[b].mm
        /\ ticket[c].amount = escrow[b].amount /\ ticket[c].payout = escrow[b].removed
        /\ ticket[c].fillers = ticket[b].fillers
        /\ \A m \in MMs : ticket[b].live \/ live[m]
      BY <1>2 DEF LinkInv, EscrowLinked, StillDelayed, NeedsDelay
  <2>4. ASSUME NEW k \in Tickets, ticket[k] \in Ticket, OnlyGraded(k), Exists(k)
        PROVE  /\ ticket'[k].result # "Absent"
               /\ ticket'[k].key = ticket[k].key /\ ticket'[k].by = ticket[k].by
               /\ ticket'[k].amount = ticket[k].amount
               /\ ticket'[k].payout = ticket[k].payout
               /\ ticket'[k].fillers = ticket[k].fillers
               /\ ticket'[k].live = ticket[k].live
    <3>1. \A result \in Grades : result # "Absent"
        BY SettlementAssumption DEF GradeResults, VoidResults
    <3>. QED
        BY <2>4, <3>1 DEF OnlyGraded, Ticket, Exists
  <2>5. escrow'[b].cash = c /\ escrow'[b].mm = escrow[b].mm
        /\ escrow'[b].amount = escrow[b].amount /\ escrow'[b].removed = escrow[b].removed
      BY <2>1 DEF SameEscrow
  <2>. HIDE DEF c
  <2>6. /\ ticket'[b].result # "Absent" /\ ticket'[b].live = ticket[b].live
        /\ ticket'[b].fillers = ticket[b].fillers
      BY <2>1, <2>2, <2>3, <2>4
  <2>7. /\ ticket'[c].result # "Absent"
        /\ ticket'[c].key = ticket[c].key /\ ticket'[c].by = ticket[c].by
        /\ ticket'[c].amount = ticket[c].amount
        /\ ticket'[c].payout = ticket[c].payout
        /\ ticket'[c].fillers = ticket[c].fillers
      BY <2>1, <2>2, <2>3, <2>4 DEF c
  <2>. QED
      BY <1>1, <2>3, <2>5, <2>6, <2>7 DEF NeedsDelay, Exists
<1>3. CASE ~EscrowLive(b)
  <2>1. PICK c \in Cashouts, m \in MMs, payment \in Payments :
            CashoutEffect(b, c, m, payment) /\ NeedsDelay(b, m)
      BY <1>3, NewEscrowStep
  <2>2. /\ ticket[b].result = "Pending"
        /\ ticket'[c].result = "Pending" /\ ticket'[c].by = m
        /\ ticket'[c].key = ticket[b].key
        /\ ticket'[c].fillers = ticket[b].fillers
      BY <2>1 DEF CashoutEffect
  <2>3. /\ ticket'[b].result \in {"Pending", "CashedOut"}
        /\ ticket'[b].live = ticket[b].live /\ ticket'[b].fillers = ticket[b].fillers
        /\ escrow'[b].cash = c /\ escrow'[b].mm = m
        /\ escrow'[b].amount = ticket'[c].amount
        /\ escrow'[b].removed = ticket'[c].payout
      BY <2>1 DEF CashoutEffect, NeedsDelay
  <2>4. ticket[b].key = b
      BY <2>2 DEF LinkInv, Accounts, BetsKeyed, Exists
  <2>5. ASSUME NEW n \in MMs PROVE ticket[b].live \/ live[n]
      BY <2>1 DEF NeedsDelay, LinkInv, Agreed
  <2>. QED
      BY <1>1, <2>2, <2>3, <2>4, <2>5 DEF NeedsDelay, Exists
<1>. QED
    BY <1>2, <1>3

\* Every step keeps the link.
LEMMA LinkNext ==
    ASSUME EventGroups \subseteq {MMs}, TypeOK, LinkInv, [Next]_vars
    PROVE  LinkInv'
<1>1. Accounts' /\ Agreed'
    BY AccountsNext, AgreedNext DEF LinkInv
<1>2. StillDelayed'
    BY LinkedAt DEF StillDelayed
<1>3. EscrowLinked'
    BY LinkedAt DEF EscrowLinked
<1>. QED
    BY <1>1, <1>2, <1>3 DEF LinkInv

\* Initially nothing is live.
LEMMA LinkInit ==
    ASSUME Init PROVE LinkInv
<1>1. \A b \in Bets : ~EscrowLive(b)
    BY DEF Init, EscrowLive, NoEscrow
<1>2. Agreed
    BY DEF Init, Agreed
<1>. QED
    BY <1>1, <1>2, AccountsInit DEF LinkInv, StillDelayed, EscrowLinked

-----------------------------------------------------------------------------

\* Whatever the MMs' event states, the cashout ticket of a live escrow is open
\* and agrees with the escrow on the bet, the MM, the stake and the payout removed,
\* though bets are settled, regraded, cashed out again and closed meanwhile.
THEOREM EscrowsHoldTheirCashouts == Spec => []CashoutHeld
<1>1. Init => TypeOK /\ HeldInv
    BY InitType, HeldInit
<1>2. TypeOK /\ HeldInv /\ [Next]_vars => TypeOK' /\ HeldInv'
    BY NextType, HeldNext
<1>3. HeldInv => CashoutHeld
    BY DEF HeldInv
<1>. QED
    BY <1>1, <1>2, <1>3, PTL DEF Spec

\* Nothing races a live escrow: until it is claimed or reverted, its cashout
\* ticket is only graded, and so is its bet, but for a cashout by an MM for which
\* none needs a delay. No settlement, claim or revert reaches them.
THEOREM NoRacing == Spec => NoRaces
<1>. DEFINE Kept(b) ==
          LET c == escrow[b].cash IN
          /\ ticket'[c] = [ticket[c] EXCEPT !.result = ticket'[c].result]
          /\ \/ ticket'[b] = [ticket[b] EXCEPT !.result = ticket'[b].result]
             \/ ~Exists(b)
             \/ \E m \in MMs : /\ ~NeedsDelay(b, m)
                              /\ vault'[m].cashouts > vault[m].cashouts
            Step == \A b \in Bets :
                       EscrowLive(b) /\ escrow'[b].cash = escrow[b].cash => Kept(b)
<1>1. Init => TypeOK /\ HeldInv
    BY InitType, HeldInit
<1>2. TypeOK /\ HeldInv /\ [Next]_vars => TypeOK' /\ HeldInv'
    BY NextType, HeldNext
<1>3. TypeOK /\ HeldInv /\ [Next]_vars => Step
  <2>. SUFFICES ASSUME TypeOK, HeldInv, [Next]_vars,
                       NEW b \in Bets, EscrowLive(b), escrow'[b].cash = escrow[b].cash
                PROVE  Kept(b)
      OBVIOUS
  <2>. DEFINE c == escrow[b].cash
  <2>1. escrow'[b] # NoEscrow
      BY DEF EscrowLive, NoEscrow
  <2>2. OnlyGraded(c) /\ (OnlyGraded(b) \/ ~Exists(b) \/ BoughtAtOnce(b))
      BY <2>1, LiveEscrowStep
  <2>3. ticket[b] \in Ticket /\ ticket[c] \in Ticket
      BY DEF EscrowLive, TypeOK, Escrow, Tickets
  <2>. HIDE DEF c
  <2>4. ASSUME NEW k, ticket[k] \in Ticket, OnlyGraded(k)
        PROVE  ticket'[k] = [ticket[k] EXCEPT !.result = ticket'[k].result]
      BY <2>4 DEF OnlyGraded, Ticket
  <2>5. ticket'[c] = [ticket[c] EXCEPT !.result = ticket'[c].result]
      BY <2>2, <2>3, <2>4
  <2>6. OnlyGraded(b) => ticket'[b] = [ticket[b] EXCEPT !.result = ticket'[b].result]
      BY <2>3, <2>4
  <2>. QED
      BY <2>2, <2>5, <2>6 DEF c, BoughtAtOnce
<1>. QED
    BY <1>1, <1>2, <1>3, PTL DEF Spec, NoRaces

\* A live escrow whose bet is still there can be claimed, or reverted if one of
\* its tickets was rolled back: the cashout ticket is open, and its being counted
\* keeps the MM's vault open. A bet that is gone is all that can leave an escrow
\* for ever, which the run orphan shows.
THEOREM EscrowResolving == Spec => []ResolvableWithBet
<1>1. Init => TypeOK /\ HeldInv /\ CountInv
    BY InitType, HeldInit, CountInit
<1>2. TypeOK /\ HeldInv /\ CountInv /\ [Next]_vars => TypeOK' /\ HeldInv' /\ CountInv'
    BY NextType, HeldNext, CountNext
<1>3. TypeOK /\ HeldInv /\ CountInv => ResolvableWithBet
  <2>. SUFFICES ASSUME TypeOK, HeldInv, CountInv, NEW b \in Bets, EscrowLive(b), Exists(b)
                PROVE  Resolvable(b)
      BY DEF ResolvableWithBet
  <2>. DEFINE c == escrow[b].cash
  <2>1. Exists(c) /\ ticket[c].by = escrow[b].mm
      BY DEF HeldInv, CashoutHeld
  <2>2. c \in Cashouts /\ c \in Tickets
      BY DEF EscrowLive, TypeOK, Escrow, Tickets
  <2>3. ticket[c].by # None
      BY <2>1, <2>2, CustodyAssumption DEF CountInv, Accounts, CashoutsOwned
  <2>4. vault[ticket[c].by].exists
      BY <2>1, <2>2, <2>3, BuyerCounts
  <2>. QED
      BY <2>1, <2>4 DEF Resolvable
<1>. QED
    BY <1>1, <1>2, <1>3, PTL DEF Spec

-----------------------------------------------------------------------------
(***************************************************************************)
(* The slices of tickets.  A fill makes them, a cashout divides them, a    *)
(* revert merges them again, settlement closes them: through any number of *)
(* these the stakes of a ticket's slices add up to the ticket and every    *)
(* reservation covers the profit that settle_bet would pay on its slice.   *)
(***************************************************************************)

-----------------------------------------------------------------------------
(* How the operations change slices *)

\* s is divided into x, which is cashed out, and y, which remains.
Divides(s, x, y) ==
    /\ x.amount + y.amount = s.amount
    /\ x.reserved + y.reserved = s.reserved
    /\ x.odds = s.odds /\ y.odds = s.odds
    /\ x.netted = s.netted /\ y.netted = s.netted
    /\ y.amount = 0 => y.reserved = 0
    /\ x.amount = 0 /\ s.amount > 0 => x.reserved = 0
    /\ Profit(s.amount, s.odds) <= s.reserved =>
         Profit(x.amount, s.odds) <= x.reserved /\ Profit(y.amount, s.odds) <= y.reserved

\* The two parts that split_fillers makes of a slice divide it.
LEMMA SplitDivides ==
    ASSUME NEW s \in Slice, NEW cashed \in 0..s.amount
    PROVE  Divides(s, CashedSlice(s, cashed), RemainingSlice(s, cashed))
<1>. DEFINE r == CashedReserve(s.reserved, cashed, s.amount - cashed, s.odds)
<1>1. s.amount \in Nat /\ s.reserved \in Nat /\ s.odds \in Odd
    BY SliceFields
<1>2. cashed \in Nat /\ s.amount - cashed \in Nat
    BY <1>1
<1>3. r \in 0..s.reserved
    BY <1>1, <1>2, CashedReserveBounds
<1>4. s.amount - cashed = 0 => r = s.reserved
    BY DEF CashedReserve
<1>5. cashed = 0 /\ s.amount > 0 => r = 0
    BY <1>1 DEF CashedReserve
<1>6. Profit(s.amount, s.odds) <= s.reserved =>
          Profit(cashed, s.odds) <= r /\ Profit(s.amount - cashed, s.odds) <= s.reserved - r
  <2>1. cashed + (s.amount - cashed) = s.amount
      BY <1>1, <1>2
  <2>. QED
      BY <1>1, <1>2, <2>1, CashedReserveCovers
<1>7. CashedSlice(s, cashed) = [s EXCEPT !.amount = cashed, !.reserved = r]
    BY DEF CashedSlice
<1>. HIDE DEF r
<1>8. /\ CashedSlice(s, cashed).amount = cashed /\ CashedSlice(s, cashed).reserved = r
      /\ CashedSlice(s, cashed).odds = s.odds /\ CashedSlice(s, cashed).netted = s.netted
    BY <1>7 DEF Slice
<1>9. RemainingSlice(s, cashed)
        = [s EXCEPT !.amount = s.amount - cashed, !.reserved = s.reserved - r]
    BY <1>8 DEF RemainingSlice
<1>10. /\ RemainingSlice(s, cashed).amount = s.amount - cashed
       /\ RemainingSlice(s, cashed).reserved = s.reserved - r
       /\ RemainingSlice(s, cashed).odds = s.odds
       /\ RemainingSlice(s, cashed).netted = s.netted
    BY <1>9 DEF Slice
<1>. DEFINE x == CashedSlice(s, cashed)
            y == RemainingSlice(s, cashed)
<1>. HIDE DEF x, y
<1>11. /\ x.amount = cashed /\ x.reserved = r
       /\ x.odds = s.odds /\ x.netted = s.netted
       /\ y.amount = s.amount - cashed /\ y.reserved = s.reserved - r
       /\ y.odds = s.odds /\ y.netted = s.netted
    BY <1>8, <1>10 DEF x, y
<1>12. Divides(s, x, y)
    BY <1>1, <1>2, <1>3, <1>4, <1>5, <1>6, <1>11 DEF Divides
<1>. QED
    BY <1>12 DEF x, y

\* The stakes of a family of slices.
Stakes(slices) == [m \in MMs |-> slices[m].amount]

\* What a cashout does to slices: the bet's are divided between the cashout
\* ticket and rest, which is what the bet keeps, if it stays open.
CashoutSlices(b, c, rest) ==
    LET t == ticket[b] IN
    /\ \A m \in MMs : Divides(t.slices[m], ticket'[c].slices[m], rest[m])
    /\ Total(Stakes(ticket'[c].slices)) = ticket'[c].amount
    /\ ticket'[c].mkt = t.mkt /\ ticket'[c].side = t.side
    /\ ticket'[c].amount \in 1..t.amount
    /\ ticket'[c].amount <= stake[b]
    /\ \/ /\ ticket'[b] = NoTicket /\ ticket'[c].amount = t.amount
          /\ stake'[b] = 0
       \/ /\ ticket'[b].slices = rest /\ ticket'[b].mkt = t.mkt /\ ticket'[b].side = t.side
          /\ ticket'[b].amount = t.amount - ticket'[c].amount
          /\ stake'[b] = stake[b] - ticket'[c].amount
    /\ stake'[c] = stake[c] + ticket'[c].amount
    /\ \A k \in Tickets \ {b, c} : stake'[k] = stake[k]
    /\ UNCHANGED book

\* Every cashout does.
LEMMA CashoutDivides ==
    ASSUME TypeOK, NEW b \in Bets, NEW c \in Cashouts, NEW m \in MMs,
           NEW payment \in Payments, NEW amount \in 1..ticket[b].amount,
           CashoutBet(b, c, m, amount, payment)
    PROVE  \E rest \in [MMs -> Slice] : CashoutSlices(b, c, rest)
<1>. DEFINE t == ticket[b]
            split == CashedAmounts(t, amount)
            cash == [n \in MMs |-> CashedSlice(t.slices[n], split[n])]
            rest == [n \in MMs |-> RemainingSlice(t.slices[n], split[n])]
<1>1. b \in Tickets /\ c \in Tickets /\ b # c
    BY CustodyAssumption DEF Tickets
<1>2. t \in Ticket /\ t.amount \in Nat /\ ticket \in [Tickets -> Ticket]
      /\ stake \in [Tickets -> Nat]
    BY <1>1 DEF TypeOK, Ticket
<1>3. CanCashout(b, c, m, amount, payment, split)
    BY DEF CashoutBet
<1>4. /\ ticket' = [ticket EXCEPT
             ![c] = CashoutTicket(b, m, amount, split),
             ![b] = IF Closes(b, m, amount) THEN NoTicket
                    ELSE RemainingTicket(b, amount, split)]
      /\ stake' = [stake EXCEPT ![c] = @ + amount,
             ![b] = @ - amount - (IF Closes(b, m, amount) THEN stake[b] - amount ELSE 0)]
      /\ UNCHANGED book
    BY DEF CashoutBet
<1>5. split \in [MMs -> Nat]
    BY <1>2, <1>3, CashedAmountsType DEF CanCashout
<1>. HIDE DEF split
<1>6. \A n \in MMs : t.slices[n] \in Slice /\ split[n] \in 0..t.slices[n].amount
    BY <1>2, <1>3 DEF CanCashout, SplitOk, Ticket
<1>7. Total(split) = amount /\ amount <= stake[b] /\ amount \in Nat
    BY <1>2, <1>3 DEF CanCashout, SplitOk
<1>8. \A n \in MMs : /\ cash[n] \in Slice /\ rest[n] \in Slice
                     /\ Divides(t.slices[n], cash[n], rest[n])
                     /\ cash[n].amount = split[n]
  <2>1. ASSUME NEW n \in MMs
        PROVE  /\ cash[n] \in Slice /\ rest[n] \in Slice
               /\ Divides(t.slices[n], cash[n], rest[n])
               /\ cash[n].amount = split[n]
    <3>1. /\ CashedSlice(t.slices[n], split[n]) \in Slice
          /\ RemainingSlice(t.slices[n], split[n]) \in Slice
        BY <1>6, SplitType
    <3>2. Divides(t.slices[n], CashedSlice(t.slices[n], split[n]),
                  RemainingSlice(t.slices[n], split[n]))
        BY <1>6, SplitDivides
    <3>3. CashedSlice(t.slices[n], split[n]).amount = split[n]
        BY <1>6 DEF CashedSlice, Slice
    <3>4. cash[n] = CashedSlice(t.slices[n], split[n])
          /\ rest[n] = RemainingSlice(t.slices[n], split[n])
        OBVIOUS
    <3>. QED
        BY <3>1, <3>2, <3>3, <3>4
  <2>. QED
      BY <2>1
<1>9. CashoutTicket(b, m, amount, split)
        = [t EXCEPT !.amount = amount, !.payout = PayoutRemoved(t, split),
                    !.slices = cash, !.by = m]
    BY DEF CashoutTicket
<1>10. RemainingTicket(b, amount, split)
        = [t EXCEPT !.amount = @ - amount, !.payout = @ - PayoutRemoved(t, split),
                    !.slices = rest,
                    !.result = IF amount = t.amount THEN "CashedOut" ELSE "Pending"]
    BY DEF RemainingTicket
<1>11. rest \in [MMs -> Slice] /\ Stakes(cash) = split
  <2>1. rest \in [MMs -> Slice]
      BY <1>8
  <2>2. Stakes(cash) = [n \in MMs |-> split[n]]
      BY <1>8 DEF Stakes
  <2>. QED
      BY <1>5, <2>1, <2>2
<1>. HIDE DEF cash, rest
<1>12. /\ ticket'[c].amount = amount /\ ticket'[c].slices = cash
       /\ ticket'[c].mkt = t.mkt /\ ticket'[c].side = t.side
  <2>1. ticket'[c] = CashoutTicket(b, m, amount, split)
      BY <1>1, <1>2, <1>4
  <2>. HIDE DEF t
  <2>. QED
      BY <1>2, <1>9, <2>1 DEF Ticket
<1>13. /\ stake'[c] = stake[c] + amount
       /\ \A k \in Tickets \ {b, c} : stake'[k] = stake[k]
    BY <1>1, <1>2, <1>4
<1>14. \/ /\ ticket'[b] = NoTicket /\ amount = t.amount
          /\ stake'[b] = 0
       \/ /\ ticket'[b].slices = rest /\ ticket'[b].mkt = t.mkt /\ ticket'[b].side = t.side
          /\ ticket'[b].amount = t.amount - amount
          /\ stake'[b] = stake[b] - amount
  <2>1. CASE Closes(b, m, amount)
    <3>1. amount = t.amount
        BY <2>1 DEF Closes
    <3>2. ticket'[b] = NoTicket
        BY <1>1, <1>2, <1>4, <2>1
    <3>3. stake'[b] = stake[b] - amount - (stake[b] - amount)
        BY <1>1, <1>2, <1>4, <2>1
    <3>. QED
        BY <1>1, <1>2, <1>7, <3>1, <3>2, <3>3
  <2>2. CASE ~Closes(b, m, amount)
    <3>1. ticket'[b] = RemainingTicket(b, amount, split)
        BY <1>1, <1>2, <1>4, <2>2
    <3>2. stake'[b] = stake[b] - amount - 0
        BY <1>1, <1>2, <1>4, <2>2
    <3>3. stake'[b] = stake[b] - amount
        BY <1>1, <1>2, <1>7, <3>2
    <3>. HIDE DEF t
    <3>. QED
        BY <1>2, <1>10, <3>1, <3>3 DEF Ticket
  <2>. QED
      BY <2>1, <2>2
<1>15. CashoutSlices(b, c, rest)
    BY <1>4, <1>7, <1>8, <1>11, <1>12, <1>13, <1>14 DEF CashoutSlices, cash
<1>. QED
    BY <1>11, <1>15

\* The slices of a ticket that a fill creates: each reserves exactly what it
\* would win, only the fillers have one, and they add up to the ticket.
NewSlices(t) ==
    /\ \A m \in MMs :
          /\ Profit(t.slices[m].amount, t.slices[m].odds) <= t.slices[m].reserved
          /\ t.slices[m].amount = 0 => t.slices[m].reserved = 0
          /\ m \notin Range(t.fillers) =>
                t.slices[m].amount = 0 /\ t.slices[m].reserved = 0
    /\ Total(Stakes(t.slices)) = t.amount

\* The slices of one fill.
LEMMA NewBetSlices ==
    ASSUME TypeOK, NEW b \in Bets, NEW mkt \in Mkts, NEW side \in Sides,
           NEW isLive \in BOOLEAN, NEW fills \in FillList
    PROVE  NewSlices(NewBet(b, mkt, side, isLive, fills))
<1>1. PICK n \in Nat : fills \in [1..n -> Fill]
    BY DEF FillList
<1>2. \A i, j \in 1..n : fills[i].mm = fills[j].mm => i = j
    BY <1>1 DEF FillList
<1>. DEFINE new == NewBet(b, mkt, side, isLive, fills)
<1>3. new.fillers = [i \in 1..n |-> fills[i].mm]
    BY <1>1 DEF NewBet
<1>. DEFINE Of(m) == FillOf(fills, m)
            given == Filled(fills)
            netted(m) == Nets(book[m], FillOf(fills, m), mkt, side)
<1>4. /\ \A m \in given : m \in MMs =>
            /\ new.slices[m].amount = Of(m).amount /\ new.slices[m].odds = Of(m).odds
            /\ new.slices[m].reserved = Profit(Of(m).amount, Of(m).odds)
      /\ \A m \in MMs \ given : new.slices[m] = NoSlice
  <2>1. \A m \in MMs : new.slices[m] =
          IF m \in given
          THEN [amount |-> Of(m).amount, reserved |-> Profit(Of(m).amount, Of(m).odds),
                odds |-> Of(m).odds, netted |-> netted(m)]
          ELSE NoSlice
      BY DEF NewBet, FillOf, Filled
  <2>. HIDE DEF new, given, Of, netted
  <2>2. ASSUME NEW m \in given, m \in MMs
        PROVE  /\ new.slices[m].amount = Of(m).amount /\ new.slices[m].odds = Of(m).odds
               /\ new.slices[m].reserved = Profit(Of(m).amount, Of(m).odds)
    <3>. DEFINE f == Of(m)
                p == Profit(f.amount, f.odds)
                net == netted(m)
    <3>1. new.slices[m] =
              [amount |-> f.amount, reserved |-> p, odds |-> f.odds, netted |-> net]
        BY <2>1, <2>2, Zenon
    <3>. HIDE DEF f, p, net
    <3>2. new.slices[m].amount = f.amount /\ new.slices[m].odds = f.odds
          /\ new.slices[m].reserved = p
        BY <3>1
    <3>. QED
        BY <3>2 DEF f, p
  <2>3. \A m \in MMs \ given : new.slices[m] = NoSlice
      BY <2>1
  <2>. QED
      BY <2>2, <2>3
<1>5. new.amount = Total([i \in 1..n |-> fills[i].amount])
    BY <1>1 DEF NewBet
<1>. HIDE DEF new
<1>11. /\ \A i \in 1..n : fills[i].mm \in given
      /\ \A m \in given : \E i \in 1..n : Of(m) = fills[i] /\ fills[i].mm = m
    BY <1>1, FillOfProps DEF Filled
<1>12. given = {fills[i].mm : i \in 1..n}
    BY <1>1 DEF Filled
<1>. HIDE DEF Of, given, netted
<1>6. \A i \in 1..n : fills[i].mm \in MMs /\ fills[i].amount \in Nat \ {0} /\ fills[i].odds \in Odd
    BY <1>1, FillsAssumption DEF Fill, Odd
<1>7. \A i \in 1..n : new.slices[fills[i].mm].amount = fills[i].amount
  <2>. SUFFICES ASSUME NEW i \in 1..n
                PROVE  new.slices[fills[i].mm].amount = fills[i].amount
      OBVIOUS
  <2>1. fills[i].mm \in given
      BY <1>11
  <2>2. Of(fills[i].mm) = fills[i]
    <3>1. PICK j \in 1..n : Of(fills[i].mm) = fills[j] /\ fills[j].mm = fills[i].mm
        BY <1>11, <2>1
    <3>. QED
        BY <1>2, <3>1
  <2>. QED
      BY <1>4, <1>6, <2>1, <2>2
<1>8. \A m \in MMs : m \notin Range(new.fillers) => new.slices[m] = NoSlice
  <2>1. Range(new.fillers) = given
      BY <1>3, <1>12 DEF Range
  <2>. QED
      BY <1>4, <2>1
<1>9. ASSUME NEW m \in MMs
      PROVE  /\ Profit(new.slices[m].amount, new.slices[m].odds) <= new.slices[m].reserved
             /\ new.slices[m].amount = 0 => new.slices[m].reserved = 0
             /\ new.slices[m].amount \in Nat
  <2>1. CASE m \in given
    <3>1. PICK i \in 1..n : Of(m) = fills[i]
        BY <1>11, <2>1
    <3>2. Profit(fills[i].amount, fills[i].odds) \in Nat
        BY <1>6, ProfitType
    <3>3. /\ new.slices[m].amount = fills[i].amount /\ new.slices[m].odds = fills[i].odds
          /\ new.slices[m].reserved = Profit(fills[i].amount, fills[i].odds)
        BY <1>4, <2>1, <3>1
    <3>. QED
        BY <1>6, <3>2, <3>3
  <2>2. CASE m \notin given
    <3>1. new.slices[m].amount = 0 /\ new.slices[m].reserved = 0 /\ new.slices[m].odds = Scale
        BY <1>4, <2>2 DEF NoSlice
    <3>2. Profit(0, Scale) = 0
        BY ScaleAssumption, ProfitOfNothing DEF Odd
    <3>. QED
        BY <3>1, <3>2
  <2>. QED
      BY <2>1, <2>2
<1>10. Total([i \in 1..n |-> fills[i].amount]) = Total(Stakes(new.slices))
  <2>. DEFINE S == 1..n
              f == [i \in 1..n |-> fills[i].amount]
              g == Stakes(new.slices)
              h == [i \in 1..n |-> fills[i].mm]
  <2>1. f \in [S -> Nat] /\ g \in [MMs -> Nat] /\ h \in [S -> MMs]
      BY <1>6, <1>9 DEF Stakes
  <2>2. \A i, j \in S : h[i] = h[j] => i = j
      BY <1>2
  <2>3. \A i \in S : g[h[i]] = f[i]
      BY <1>6, <1>7 DEF Stakes
  <2>4. \A m \in MMs : (\A i \in S : h[i] # m) => g[m] = 0
    <3>1. \A m \in MMs : (\A i \in 1..n : h[i] # m) => m \notin given
        BY <1>12
    <3>. QED
        BY <1>4, <3>1 DEF Stakes, NoSlice
  <2>5. IsFiniteSet(S) /\ IsFiniteSet(MMs)
      BY FS_Interval, CustodyAssumption
  <2>. HIDE DEF S, f, g, h
  <2>6. Total(f) = Total(g)
      BY <2>1, <2>2, <2>3, <2>4, <2>5, TotalReindex
  <2>. QED
      BY <2>6 DEF f, g
<1>. QED
    BY <1>5, <1>8, <1>9, <1>10 DEF NewSlices, NoSlice, new

\* What a fill does to slices and stakes.
LEMMA FillSlices ==
    ASSUME TypeOK, NEW b \in Bets, FillStep(b)
    PROVE  /\ NewSlices(ticket'[b])
           /\ \A k \in Tickets \ {b} : ticket'[k] = ticket[k] /\ stake'[k] = stake[k]
           /\ stake'[b] = stake[b] + ticket'[b].amount
<1>1. PICK mkt \in Mkts, side \in Sides, isLive \in BOOLEAN, fills \in FillList :
          OpenBet(b, mkt, side, isLive, fills)
    BY FillStepLists
<1>. DEFINE new == NewBet(b, mkt, side, isLive, fills)
<1>2. NewSlices(new)
    BY NewBetSlices
<1>3. ticket' = [ticket EXCEPT ![b] = new] /\ stake' = [stake EXCEPT ![b] = @ + new.amount]
    BY <1>1 DEF OpenBet
<1>4. b \in Tickets /\ ticket \in [Tickets -> Ticket] /\ stake \in [Tickets -> Nat]
    BY DEF TypeOK, Tickets
<1>. HIDE DEF new
<1>5. ticket'[b] = new
    BY <1>3, <1>4
<1>. QED
    BY <1>2, <1>3, <1>4, <1>5 DEF NewSlices

\* Slice z is x and y merged, with the price of x.
Merges(x, y, z) ==
    /\ z.amount = x.amount + y.amount
    /\ z.reserved = x.reserved + y.reserved
    /\ z.amount > 0 \/ z.reserved > 0 => z.odds = x.odds /\ z.netted = x.netted

\* Slices are merged by position, which is by MM when the fillers are the
\* same, and an MM that is not a filler has nothing to merge.
LEMMA RestoredMerges ==
    ASSUME NEW t \in Ticket, NEW co \in Ticket, co.fillers = t.fillers, NEW m \in MMs,
           m \notin Range(t.fillers) =>
              /\ t.slices[m].amount = 0 /\ t.slices[m].reserved = 0
              /\ co.slices[m].amount = 0 /\ co.slices[m].reserved = 0
    PROVE  Merges(t.slices[m], co.slices[m], Restored(t, co)[m])
<1>. DEFINE At(n) == CHOOSE i \in DOMAIN t.fillers : t.fillers[i] = n
            back(n) == co.slices[co.fillers[At(n)]]
<1>1. t.slices \in [MMs -> Slice] /\ co.slices \in [MMs -> Slice]
    BY DEF Ticket
<1>2. Restored(t, co)[m] =
          IF m \in Range(t.fillers)
          THEN [t.slices[m] EXCEPT !.amount = @ + back(m).amount,
                                   !.reserved = @ + back(m).reserved]
          ELSE NoSlice
    BY DEF Restored
<1>3. CASE m \in Range(t.fillers)
  <2>1. t.fillers[At(m)] = m
      BY <1>3 DEF Range
  <2>2. back(m) = co.slices[m]
      BY <2>1
  <2>. HIDE DEF back
  <2>3. Restored(t, co)[m] =
            [t.slices[m] EXCEPT !.amount = @ + co.slices[m].amount,
                                !.reserved = @ + co.slices[m].reserved]
      BY <1>2, <1>3, <2>2
  <2>. QED
      BY <1>1, <2>3 DEF Merges, Slice
<1>4. CASE m \notin Range(t.fillers)
    BY <1>2, <1>4 DEF Merges, NoSlice
<1>. QED
    BY <1>3, <1>4

-----------------------------------------------------------------------------
(* The inductive invariant *)

\* Only fillers have a slice.
UnusedEmpty ==
    \A k \in Tickets, m \in MMs :
        m \notin Range(ticket[k].fillers) =>
            ticket[k].slices[m].amount = 0 /\ ticket[k].slices[m].reserved = 0

\* Every ticket is the sum of its slices and within its account.
SlicesAdd ==
    \A k \in Tickets :
        /\ Total(Stakes(ticket[k].slices)) = ticket[k].amount
        /\ ticket[k].amount <= stake[k]

\* What a revert would merge still covers its profit: rounding twice loses
\* nothing, because the escrow's slices were one slice before.
MergeCovers ==
    \A b \in Bets, m \in MMs :
        EscrowLive(b) =>
            LET x == ticket[b].slices[m]
                y == ticket[escrow[b].cash].slices[m] IN
            /\ x.odds = y.odds /\ x.netted = y.netted
            /\ Profit(x.amount + y.amount, x.odds) <= x.reserved + y.reserved

SliceInv == LinkInv /\ UnusedEmpty /\ SlicesAdd /\ MergeCovers /\ ReserveCoversProfit

\* The good shape of the slices of one ticket.
GoodSlices(t) ==
    /\ \A m \in MMs :
          /\ m \notin Range(t.fillers) => t.slices[m].amount = 0 /\ t.slices[m].reserved = 0
          /\ Profit(t.slices[m].amount, t.slices[m].odds) <= t.slices[m].reserved
          /\ t.slices[m].amount = 0 => t.slices[m].reserved = 0
    /\ Total(Stakes(t.slices)) = t.amount

\* It is what the invariant says of every ticket.
LEMMA GoodEverywhere ==
    /\ UnusedEmpty /\ SlicesAdd /\ ReserveCoversProfit =>
          \A k \in Tickets : GoodSlices(ticket[k])
    /\ (\A k \in Tickets : GoodSlices(ticket[k]) /\ ticket[k].amount <= stake[k]) =>
          UnusedEmpty /\ SlicesAdd /\ ReserveCoversProfit
BY DEF UnusedEmpty, SlicesAdd, ReserveCoversProfit, GoodSlices

\* A closed ticket has it.
LEMMA GoodNone == GoodSlices(NoTicket) /\ NoTicket.amount = 0
<1>1. \A m \in MMs : NoTicket.slices[m] = NoSlice
    BY DEF NoTicket
<1>2. NoSlice.amount = 0 /\ NoSlice.reserved = 0 /\ NoSlice.odds = Scale
    BY DEF NoSlice
<1>3. Profit(0, Scale) = 0
    BY ScaleAssumption, ProfitOfNothing DEF Odd
<1>4. Total(Stakes(NoTicket.slices)) = 0
  <2>1. Stakes(NoTicket.slices) \in [MMs -> Nat]
      BY <1>1, <1>2 DEF Stakes
  <2>2. \A m \in MMs : Stakes(NoTicket.slices)[m] = 0
      BY <1>1, <1>2 DEF Stakes
  <2>. QED
      BY <2>1, <2>2, TotalZero
<1>5. NoTicket.amount = 0
    BY DEF NoTicket
<1>. QED
    BY <1>1, <1>2, <1>3, <1>4, <1>5 DEF GoodSlices

\* A cashout leaves two tickets in good shape.
LEMMA CashoutGood ==
    ASSUME TypeOK, TypeOK', SliceInv, NEW b \in Bets, CashoutStep(b), NEW k \in Tickets
    PROVE  GoodSlices(ticket'[k]) /\ ticket'[k].amount <= stake'[k]
<1>1. PICK c \in Cashouts, m \in MMs, payment \in Payments :
          \E amount \in 1..ticket[b].amount : CashoutBet(b, c, m, amount, payment)
    BY DEF CashoutStep
<1>2. PICK rest \in [MMs -> Slice] : CashoutSlices(b, c, rest)
    BY <1>1, CashoutDivides
<1>3. CashoutEffect(b, c, m, payment)
    BY <1>1, CashoutTickets
<1>. DEFINE t == ticket[b]
            cash == ticket'[c].slices
<1>4. /\ b \in Tickets /\ c \in Tickets /\ b # c
      /\ GoodSlices(t) /\ t.amount <= stake[b] /\ stake \in [Tickets -> Nat]
      /\ t.slices \in [MMs -> Slice] /\ cash \in [MMs -> Slice]
      /\ t.amount \in Nat
  <2>1. b \in Tickets /\ c \in Tickets /\ b # c
      BY CustodyAssumption DEF Tickets
  <2>2. t \in Ticket /\ ticket'[c] \in Ticket
      BY <2>1 DEF TypeOK
  <2>3. GoodSlices(t) /\ t.amount <= stake[b]
      BY <2>1, GoodEverywhere DEF SliceInv, SlicesAdd
  <2>. QED
      BY <2>1, <2>2, <2>3 DEF TypeOK, Ticket
<1>5. /\ \A n \in MMs : Divides(t.slices[n], cash[n], rest[n])
      /\ Total(Stakes(cash)) = ticket'[c].amount
      /\ ticket'[c].amount \in 1..t.amount /\ ticket'[c].amount <= stake[b]
      /\ stake'[c] = stake[c] + ticket'[c].amount
      /\ \A n \in Tickets \ {b, c} : stake'[n] = stake[n]
    BY <1>2 DEF CashoutSlices
<1>6. /\ ticket'[c].fillers = t.fillers
      /\ ticket'[b] # NoTicket => ticket'[b].fillers = t.fillers
      /\ \A n \in Tickets \ {b, c} : ticket'[n] = ticket[n]
    BY <1>3 DEF CashoutEffect
<1>7. \/ ticket'[b] = NoTicket /\ stake'[b] = 0
      \/ /\ ticket'[b].slices = rest /\ ticket'[b].amount = t.amount - ticket'[c].amount
         /\ stake'[b] = stake[b] - ticket'[c].amount
    BY <1>2 DEF CashoutSlices
<1>8. ASSUME NEW n \in MMs
      PROVE  /\ n \notin Range(t.fillers) =>
                  /\ cash[n].amount = 0 /\ cash[n].reserved = 0
                  /\ rest[n].amount = 0 /\ rest[n].reserved = 0
             /\ Profit(cash[n].amount, cash[n].odds) <= cash[n].reserved
             /\ Profit(rest[n].amount, rest[n].odds) <= rest[n].reserved
             /\ cash[n].amount = 0 => cash[n].reserved = 0
             /\ rest[n].amount = 0 => rest[n].reserved = 0
             /\ t.slices[n].amount = cash[n].amount + rest[n].amount
             /\ t.slices[n].amount \in Nat /\ cash[n].amount \in Nat /\ rest[n].amount \in Nat
  <2>1. t.slices[n] \in Slice /\ cash[n] \in Slice /\ rest[n] \in Slice
      BY <1>4
  <2>2. /\ n \notin Range(t.fillers) => t.slices[n].amount = 0 /\ t.slices[n].reserved = 0
        /\ Profit(t.slices[n].amount, t.slices[n].odds) <= t.slices[n].reserved
        /\ t.slices[n].amount = 0 => t.slices[n].reserved = 0
      BY <1>4 DEF GoodSlices
  <2>. DEFINE s == t.slices[n]
              x == cash[n]
              y == rest[n]
  <2>3. /\ s.amount \in Nat /\ s.reserved \in Nat
        /\ x.amount \in Nat /\ x.reserved \in Nat
        /\ y.amount \in Nat /\ y.reserved \in Nat
      BY <2>1 DEF Slice
  <2>4. Divides(s, x, y)
      BY <1>5
  <2>. HIDE DEF s, x, y
  <2>5. /\ s.amount = x.amount + y.amount /\ s.reserved = x.reserved + y.reserved
        /\ x.odds = s.odds /\ y.odds = s.odds
        /\ y.amount = 0 => y.reserved = 0
        /\ x.amount = 0 /\ s.amount > 0 => x.reserved = 0
        /\ Profit(s.amount, s.odds) <= s.reserved =>
             Profit(x.amount, s.odds) <= x.reserved /\ Profit(y.amount, s.odds) <= y.reserved
      BY <2>4 DEF Divides
  <2>6. /\ n \notin Range(t.fillers) => s.amount = 0 /\ s.reserved = 0
        /\ Profit(s.amount, s.odds) <= s.reserved
        /\ s.amount = 0 => s.reserved = 0
      BY <2>2 DEF s
  <2>7. /\ Profit(x.amount, x.odds) <= x.reserved
        /\ Profit(y.amount, y.odds) <= y.reserved
      BY <2>5, <2>6
  <2>8. x.amount = 0 => x.reserved = 0
      BY <2>3, <2>5, <2>6
  <2>9. n \notin Range(t.fillers) =>
          x.amount = 0 /\ x.reserved = 0 /\ y.amount = 0 /\ y.reserved = 0
      BY <2>3, <2>5, <2>6
  <2>. QED
      BY <2>3, <2>5, <2>7, <2>8, <2>9 DEF s, x, y
<1>9. Total(Stakes(rest)) = t.amount - ticket'[c].amount
  <2>1. /\ Stakes(t.slices) \in [MMs -> Nat] /\ Stakes(cash) \in [MMs -> Nat]
        /\ Stakes(rest) \in [MMs -> Nat]
      BY <1>8 DEF Stakes
  <2>2. \A n \in MMs : Stakes(t.slices)[n] = Stakes(cash)[n] + Stakes(rest)[n]
      BY <1>8 DEF Stakes
  <2>3. Total(Stakes(t.slices)) = Total(Stakes(cash)) + Total(Stakes(rest))
      BY <2>1, <2>2, TotalSum, CustodyAssumption
  <2>4. Total(Stakes(t.slices)) = t.amount
      BY <1>4 DEF GoodSlices
  <2>5. Total(Stakes(rest)) \in Nat
      BY <2>1, TotalType, CustodyAssumption
  <2>. QED
      BY <1>4, <1>5, <2>3, <2>4, <2>5
<1>10. CASE k = c
  <2>1. GoodSlices(ticket'[c])
      BY <1>5, <1>6, <1>8 DEF GoodSlices
  <2>2. stake'[c] = stake[c] + ticket'[c].amount /\ stake[c] \in Nat
      BY <1>4, <1>5
  <2>3. ticket'[c].amount <= stake'[c]
      BY <1>4, <1>5, <2>2
  <2>. QED
      BY <1>10, <2>1, <2>3
<1>11. CASE k = b /\ ticket'[b] = NoTicket
  <2>1. stake'[b] \in Nat
      BY <1>4 DEF TypeOK
  <2>2. GoodSlices(NoTicket) /\ NoTicket.amount = 0
      BY GoodNone
  <2>. QED
      BY <1>11, <2>1, <2>2
<1>12. CASE k = b /\ ticket'[b] # NoTicket
  <2>1. /\ ticket'[b].slices = rest /\ ticket'[b].amount = t.amount - ticket'[c].amount
        /\ stake'[b] = stake[b] - ticket'[c].amount
        /\ ticket'[b].fillers = t.fillers
      BY <1>6, <1>7, <1>12
  <2>2. GoodSlices(ticket'[b])
      BY <1>8, <1>9, <2>1 DEF GoodSlices
  <2>3. ticket'[b].amount <= stake'[b]
      BY <1>4, <1>5, <2>1
  <2>. QED
      BY <1>12, <2>2, <2>3
<1>13. CASE k \notin {b, c}
  <2>1. ticket'[k] = ticket[k] /\ stake'[k] = stake[k]
      BY <1>5, <1>6, <1>13
  <2>2. GoodSlices(ticket[k]) /\ ticket[k].amount <= stake[k]
      BY GoodEverywhere DEF SliceInv, SlicesAdd
  <2>. QED
      BY <2>1, <2>2
<1>. QED
    BY <1>10, <1>11, <1>12, <1>13

\* So does a revert: the two slices of an MM become one that still covers its
\* profit, because they were one before.
LEMMA RevertGood ==
    ASSUME TypeOK, TypeOK', SliceInv, NEW b \in Bets, RevertCashout(b), NEW k \in Tickets
    PROVE  GoodSlices(ticket'[k]) /\ ticket'[k].amount <= stake'[k]
<1>. DEFINE e == escrow[b]
            c == e.cash
            t == ticket[b]
            co == ticket[c]
            new == Restored(t, co)
<1>1. /\ EscrowLive(b) /\ c \in Cashouts
      /\ ticket'[c] = NoTicket /\ ticket'[b].fillers = t.fillers
      /\ \A n \in Tickets \ {b, c} : ticket'[n] = ticket[n]
    BY RevertTickets, Zenon DEF RevertCashout
<1>2. b \in Tickets /\ c \in Tickets /\ b # c
    BY <1>1, CustodyAssumption DEF Tickets
<1>3. /\ co.amount = e.amount /\ co.fillers = t.fillers
    BY <1>1 DEF SliceInv, LinkInv, EscrowLinked
<1>4. t \in Ticket /\ co \in Ticket /\ e \in Escrow
    BY <1>2 DEF TypeOK
<1>5. /\ ticket' = [ticket EXCEPT
            ![b] = [t EXCEPT !.amount = @ + e.amount, !.payout = @ + e.removed,
                             !.slices = new,
                             !.result = IF @ = "RolledBack" THEN @ ELSE "Pending"],
            ![c] = NoTicket]
      /\ stake' = [stake EXCEPT ![b] = @ + e.amount, ![c] = 0]
    BY DEF RevertCashout
<1>6. /\ GoodSlices(t) /\ GoodSlices(co)
      /\ t.amount <= stake[b] /\ stake \in [Tickets -> Nat]
      /\ t.amount \in Nat /\ e.amount \in Nat
      /\ t.slices \in [MMs -> Slice] /\ co.slices \in [MMs -> Slice]
  <2>1. GoodSlices(t) /\ GoodSlices(co) /\ t.amount <= stake[b]
      BY <1>2, GoodEverywhere DEF SliceInv, SlicesAdd
  <2>. QED
      BY <1>4, <2>1 DEF TypeOK, Ticket, Escrow
<1>7. ASSUME NEW m \in MMs
      PROVE  /\ t.slices[m].odds = co.slices[m].odds
             /\ Profit(t.slices[m].amount + co.slices[m].amount, t.slices[m].odds)
                  <= t.slices[m].reserved + co.slices[m].reserved
    BY <1>1 DEF SliceInv, MergeCovers
<1>8. ASSUME NEW m \in MMs
      PROVE  Merges(t.slices[m], co.slices[m], new[m])
  <2>1. m \notin Range(t.fillers) =>
              /\ t.slices[m].amount = 0 /\ t.slices[m].reserved = 0
              /\ co.slices[m].amount = 0 /\ co.slices[m].reserved = 0
      BY <1>3, <1>6 DEF GoodSlices
  <2>. HIDE DEF t, co
  <2>. QED
      BY <1>3, <1>4, <2>1, RestoredMerges, SMTT(30)
<1>9. /\ ticket'[b].amount = t.amount + e.amount /\ ticket'[b].slices = new
      /\ stake'[b] = stake[b] + e.amount /\ stake'[c] = 0
      /\ \A n \in Tickets \ {b, c} : stake'[n] = stake[n]
  <2>1. ticket'[b] = [t EXCEPT !.amount = @ + e.amount, !.payout = @ + e.removed,
                             !.slices = new,
                             !.result = IF @ = "RolledBack" THEN @ ELSE "Pending"]
      BY <1>2, <1>5 DEF TypeOK
  <2>2. /\ stake'[b] = stake[b] + e.amount /\ stake'[c] = 0
        /\ \A n \in Tickets \ {b, c} : stake'[n] = stake[n]
      BY <1>2, <1>5, <1>6
  <2>. HIDE DEF t, e, new
  <2>. QED
      BY <1>4, <2>1, <2>2 DEF Ticket
<1>. HIDE DEF new, co
<1>10. ASSUME NEW m \in MMs
       PROVE  /\ m \notin Range(t.fillers) => new[m].amount = 0 /\ new[m].reserved = 0
              /\ Profit(new[m].amount, new[m].odds) <= new[m].reserved
              /\ new[m].amount = 0 => new[m].reserved = 0
              /\ new[m].amount = t.slices[m].amount + co.slices[m].amount
              /\ t.slices[m].amount \in Nat /\ co.slices[m].amount \in Nat
              /\ new[m].amount \in Nat
  <2>. DEFINE x == t.slices[m]
              y == co.slices[m]
              z == new[m]
  <2>1. x \in Slice /\ y \in Slice /\ z \in Slice
      BY <1>4, <1>6, <1>3, RestoredType DEF new, co
  <2>2. /\ x.amount \in Nat /\ x.reserved \in Nat /\ y.amount \in Nat /\ y.reserved \in Nat
        /\ x.odds \in Odd /\ z.odds \in Odd
      BY <2>1, SliceFields
  <2>3. /\ m \notin Range(t.fillers) => x.amount = 0 /\ x.reserved = 0
        /\ m \notin Range(t.fillers) => y.amount = 0 /\ y.reserved = 0
        /\ x.amount = 0 => x.reserved = 0
        /\ y.amount = 0 => y.reserved = 0
    <3>1. /\ m \notin Range(t.fillers) => x.amount = 0 /\ x.reserved = 0
          /\ x.amount = 0 => x.reserved = 0
        BY <1>6 DEF GoodSlices
    <3>2. /\ m \notin Range(co.fillers) => y.amount = 0 /\ y.reserved = 0
          /\ y.amount = 0 => y.reserved = 0
        BY <1>6 DEF GoodSlices
    <3>3. co.fillers = t.fillers
        BY <1>3 DEF co
    <3>. QED
        BY <3>1, <3>2, <3>3
  <2>4. Profit(x.amount + y.amount, x.odds) <= x.reserved + y.reserved
      BY <1>7 DEF co
  <2>5. /\ z.amount = x.amount + y.amount /\ z.reserved = x.reserved + y.reserved
        /\ z.amount > 0 \/ z.reserved > 0 => z.odds = x.odds
      BY <1>8 DEF Merges, co
  <2>. HIDE DEF x, y, z
  <2>6. z.amount = 0 => z.reserved = 0
      BY <2>2, <2>3, <2>5
  <2>7. Profit(z.amount, z.odds) <= z.reserved
    <3>1. CASE z.amount > 0
        BY <2>4, <2>5, <3>1
    <3>2. CASE z.amount = 0
      <4>1. Profit(0, z.odds) = 0
          BY <2>2, ProfitOfNothing
      <4>. QED
          BY <2>6, <3>2, <4>1
    <3>3. z.amount \in Nat
        BY <2>2, <2>5
    <3>. QED
        BY <3>1, <3>2, <3>3
  <2>8. m \notin Range(t.fillers) => z.amount = 0 /\ z.reserved = 0
      BY <2>3, <2>5
  <2>9. z.amount \in Nat
      BY <2>2, <2>5
  <2>. QED
      BY <2>2, <2>5, <2>6, <2>7, <2>8, <2>9 DEF x, y, z
<1>11. Total(Stakes(new)) = t.amount + e.amount
  <2>1. /\ Stakes(t.slices) \in [MMs -> Nat] /\ Stakes(co.slices) \in [MMs -> Nat]
        /\ Stakes(new) \in [MMs -> Nat]
      BY <1>10 DEF Stakes
  <2>2. \A m \in MMs : Stakes(new)[m] = Stakes(t.slices)[m] + Stakes(co.slices)[m]
      BY <1>10 DEF Stakes
  <2>3. Total(Stakes(new)) = Total(Stakes(t.slices)) + Total(Stakes(co.slices))
      BY <2>1, <2>2, TotalSum, CustodyAssumption
  <2>4. Total(Stakes(t.slices)) = t.amount /\ Total(Stakes(co.slices)) = co.amount
      BY <1>6 DEF GoodSlices
  <2>5. co.amount = e.amount
      BY <1>3 DEF co
  <2>. QED
      BY <2>3, <2>4, <2>5
<1>12. CASE k = b
  <2>1. GoodSlices(ticket'[b])
      BY <1>1, <1>9, <1>10, <1>11 DEF GoodSlices
  <2>2. ticket'[b].amount <= stake'[b]
      BY <1>2, <1>6, <1>9
  <2>. QED
      BY <1>12, <2>1, <2>2
<1>13. CASE k = c
  <2>1. ticket'[k] = NoTicket /\ stake'[k] = 0
      BY <1>1, <1>9, <1>13
  <2>. QED
      BY <2>1, GoodNone
<1>14. CASE k \notin {b, c}
  <2>1. ticket'[k] = ticket[k] /\ stake'[k] = stake[k]
      BY <1>1, <1>9, <1>14
  <2>2. GoodSlices(ticket[k]) /\ ticket[k].amount <= stake[k]
      BY GoodEverywhere DEF SliceInv, SlicesAdd
  <2>. QED
      BY <2>1, <2>2
<1>. QED
    BY <1>12, <1>13, <1>14, SMTT(30)

\* Every step leaves every ticket in good shape.
LEMMA AllGood ==
    ASSUME TypeOK, TypeOK', SliceInv, [Next]_vars, NEW k \in Tickets
    PROVE  GoodSlices(ticket'[k]) /\ ticket'[k].amount <= stake'[k]
<1>1. /\ GoodSlices(ticket[k]) /\ ticket[k].amount <= stake[k]
      /\ ticket[k].amount \in Nat /\ stake \in [Tickets -> Nat]
      /\ ticket \in [Tickets -> Ticket]
    BY GoodEverywhere DEF SliceInv, SlicesAdd, TypeOK, Ticket
<1>2. ASSUME ticket'[k] = ticket[k], stake'[k] >= stake[k]
      PROVE  GoodSlices(ticket'[k]) /\ ticket'[k].amount <= stake'[k]
  <2>1. stake'[k] \in Nat
      BY DEF TypeOK
  <2>. QED
      BY <1>1, <1>2, <2>1
<1>3. ASSUME ticket'[k] = NoTicket
      PROVE  GoodSlices(ticket'[k]) /\ ticket'[k].amount <= stake'[k]
  <2>1. stake'[k] \in Nat
      BY DEF TypeOK
  <2>. QED
      BY <1>3, <2>1, GoodNone
<1>4. CASE Quiet
  <2>1. ticket'[k] = ticket[k]
      BY <1>4, QuietSteps
  <2>2. CASE \E n \in Tickets : Donate(n)
    <3>1. PICK n \in Tickets : Donate(n)
        BY <2>2
    <3>2. stake'[k] = stake[k] \/ stake'[k] = stake[k] + 1
        BY <1>1, <3>1 DEF Donate
    <3>. QED
        BY <1>1, <1>2, <2>1, <3>2
  <2>3. CASE UNCHANGED stake
      BY <1>1, <1>2, <2>1, <2>3
  <2>4. CASE \E m \in MMs : AdminStep(m)
    <3>1. UNCHANGED positions
        BY <2>4 DEF AdminStep, InitMmMintVault, CreateNettingAccount, CloseMmMintVault,
           CloseNettingAccount, AddLine, RemoveLine, Deposit, Withdraw
    <3>. QED
        BY <2>3, <3>1 DEF positions
  <2>5. CASE EventStep \/ ChangeConfigStatus \/ Tick \/ UNCHANGED vars
    <3>1. UNCHANGED stake
        BY <2>5 DEF EventStep, GoLive, ChangeConfigStatus, Tick, vars, positions
    <3>. QED
        BY <2>3, <3>1
  <2>. QED
      BY <1>4, <2>2, <2>4, <2>5 DEF Quiet
<1>5. CASE \E b \in Bets : FillStep(b)
  <2>1. PICK b \in Bets : FillStep(b)
      BY <1>5
  <2>2. CASE k = b
    <3>1. NewSlices(ticket'[b]) /\ stake'[b] = stake[b] + ticket'[b].amount
        BY <2>1, FillSlices
    <3>2. GoodSlices(ticket'[b])
        BY <3>1 DEF NewSlices, GoodSlices
    <3>3. ticket'[b].amount \in Nat /\ stake[b] \in Nat
        BY <1>1, <2>2 DEF TypeOK, Ticket
    <3>. QED
        BY <2>2, <3>1, <3>2, <3>3
  <2>3. CASE k # b
    <3>1. ticket'[k] = ticket[k] /\ stake'[k] = stake[k]
        BY <2>1, <2>3, FillSlices
    <3>. QED
        BY <1>1, <1>2, <3>1
  <2>. QED
      BY <2>2, <2>3
<1>6. CASE \E b \in Bets : CashoutStep(b)
    BY <1>6, CashoutGood
<1>7. CASE \E b \in Bets : ClaimCashoutEscrow(b)
  <2>1. PICK b \in Bets : ClaimCashoutEscrow(b)
      BY <1>7
  <2>2. CASE ticket'[k] = NoTicket
      BY <1>3, <2>2
  <2>3. CASE ticket'[k] # NoTicket
    <3>1. ticket'[k] = ticket[k]
        BY <1>1, <2>1, <2>3, ClaimTickets
    <3>2. k = b => ticket[b].result # "CashedOut"
        BY <1>1, <2>1, <2>3, ClaimTickets
    <3>3. stake' = [stake EXCEPT ![b] = @ -
                       (IF ticket[b].result = "CashedOut" THEN stake[b] ELSE 0)]
        BY <2>1 DEF ClaimCashoutEscrow
    <3>4. stake'[k] = stake[k]
      <4>1. CASE k = b
        <5>1. stake'[k] = stake[k] - 0 /\ stake[k] \in Nat
            BY <1>1, <3>2, <3>3, <4>1
        <5>. QED
            BY <5>1
      <4>2. CASE k # b
          BY <1>1, <3>3, <4>2
      <4>. QED
          BY <4>1, <4>2
    <3>. QED
        BY <1>1, <1>2, <3>1, <3>4
  <2>. QED
      BY <2>2, <2>3
<1>8. CASE \E b \in Bets : RevertCashout(b)
    BY <1>8, RevertGood
<1>9. CASE \E n \in Tickets, result \in Grades : GradeBet(n, result)
  <2>1. PICK n \in Tickets, result \in Grades : GradeBet(n, result)
      BY <1>9
  <2>2. UNCHANGED stake
      BY <2>1 DEF GradeBet
  <2>3. /\ ticket'[k].slices = ticket[k].slices /\ ticket'[k].amount = ticket[k].amount
        /\ ticket'[k].fillers = ticket[k].fillers
    <3>1. CASE k = n
      <4>1. ticket'[k] = [ticket[k] EXCEPT !.result = result] /\ ticket[k] \in Ticket
          BY <1>1, <2>1, <3>1, GradeTicket
      <4>. QED
          BY <4>1 DEF Ticket
    <3>2. CASE k # n
        BY <2>1, <3>2, GradeTicket
    <3>. QED
        BY <3>1, <3>2
  <2>. QED
      BY <1>1, <2>2, <2>3 DEF GoodSlices
<1>10. CASE \E n \in Tickets : SettleBet(n)
  <2>1. PICK n \in Tickets : SettleBet(n)
      BY <1>10
  <2>2. ticket' = [ticket EXCEPT ![n] = NoTicket] /\ stake' = [stake EXCEPT ![n] = 0]
      BY <2>1 DEF SettleBet
  <2>3. CASE k = n
      BY <1>1, <1>3, <2>2, <2>3
  <2>4. CASE k # n
      BY <1>1, <1>2, <2>2, <2>4
  <2>. QED
      BY <2>3, <2>4
<1>. QED
    BY <1>4, <1>5, <1>6, <1>7, <1>8, <1>9, <1>10, StepKinds

\* What a revert would merge covers its profit after every step: grades leave
\* it alone, and a new escrow holds half of a slice that covered its profit.
LEMMA MergeNext ==
    ASSUME TypeOK, TypeOK', SliceInv, [Next]_vars, NEW b \in Bets, NEW m \in MMs,
           EscrowLive(b)'
    PROVE  LET x == ticket'[b].slices[m]
               y == ticket'[escrow'[b].cash].slices[m] IN
           /\ x.odds = y.odds /\ x.netted = y.netted
           /\ Profit(x.amount + y.amount, x.odds) <= x.reserved + y.reserved
<1>1. CASE EscrowLive(b)
  <2>. DEFINE c == escrow[b].cash
  <2>1. SameEscrow(b) /\ OnlyGraded(b) /\ OnlyGraded(c)
    <3>1. escrow'[b] # NoEscrow
        BY DEF EscrowLive, NoEscrow
    <3>. QED
        BY <1>1, <3>1, LinkedEscrowStep DEF SliceInv
  <2>2. /\ b \in Tickets /\ c \in Tickets
        /\ ticket[b] \in Ticket /\ ticket[c] \in Ticket /\ escrow'[b].cash = c
      BY <1>1, <2>1 DEF TypeOK, Escrow, Tickets, EscrowLive, SameEscrow
  <2>3. ticket'[b].slices = ticket[b].slices
      BY <2>1, <2>2 DEF OnlyGraded, Ticket
  <2>4. ticket'[c].slices = ticket[c].slices
      BY <2>1, <2>2 DEF OnlyGraded, Ticket
  <2>5. /\ ticket[b].slices[m].odds = ticket[c].slices[m].odds
        /\ ticket[b].slices[m].netted = ticket[c].slices[m].netted
        /\ Profit(ticket[b].slices[m].amount + ticket[c].slices[m].amount,
                  ticket[b].slices[m].odds)
             <= ticket[b].slices[m].reserved + ticket[c].slices[m].reserved
      BY <1>1 DEF SliceInv, MergeCovers
  <2>. HIDE DEF c
  <2>. QED
      BY <2>2, <2>3, <2>4, <2>5
<1>2. CASE ~EscrowLive(b)
  <2>1. PICK c \in Cashouts, n \in MMs, payment \in Payments :
            /\ \E amount \in 1..ticket[b].amount : CashoutBet(b, c, n, amount, payment)
            /\ CashoutEffect(b, c, n, payment) /\ NeedsDelay(b, n)
      BY <1>2, NewEscrowStep
  <2>2. PICK rest \in [MMs -> Slice] : CashoutSlices(b, c, rest)
      BY <2>1, CashoutDivides
  <2>3. escrow'[b].cash = c /\ ticket'[b].result \in {"Pending", "CashedOut"}
      BY <2>1 DEF CashoutEffect, NeedsDelay
  <2>4. ticket'[b].slices = rest
    <3>1. ticket'[b] # NoTicket
        BY <2>3 DEF NoTicket
    <3>. QED
        BY <2>2, <3>1 DEF CashoutSlices
  <2>. DEFINE s == ticket[b].slices[m]
              y == ticket'[c].slices[m]
              x == rest[m]
  <2>5. s \in Slice /\ x \in Slice /\ y \in Slice
    <3>1. b \in Tickets /\ c \in Tickets
        BY DEF Tickets
    <3>. QED
        BY <3>1 DEF TypeOK, Ticket
  <2>6. Divides(s, y, x)
      BY <2>2 DEF CashoutSlices
  <2>7. Profit(s.amount, s.odds) <= s.reserved
      BY DEF SliceInv, ReserveCoversProfit, Tickets
  <2>8. /\ s.amount \in Nat /\ s.reserved \in Nat
        /\ x.amount \in Nat /\ x.reserved \in Nat
        /\ y.amount \in Nat /\ y.reserved \in Nat
      BY <2>5 DEF Slice
  <2>. HIDE DEF s, x, y
  <2>9. /\ x.amount + y.amount = s.amount /\ x.reserved + y.reserved = s.reserved
        /\ x.odds = s.odds /\ y.odds = s.odds
        /\ x.netted = s.netted /\ y.netted = s.netted
      BY <2>6, <2>8 DEF Divides
  <2>10. /\ x.odds = y.odds /\ x.netted = y.netted
         /\ Profit(x.amount + y.amount, x.odds) <= x.reserved + y.reserved
      BY <2>7, <2>9
  <2>. QED
      BY <2>3, <2>4, <2>10 DEF x, y
<1>. QED
    BY <1>1, <1>2

\* Every step keeps the invariant.
LEMMA SliceNext ==
    ASSUME EventGroups \subseteq {MMs}, TypeOK, SliceInv, [Next]_vars
    PROVE  SliceInv'
<1>1. TypeOK' /\ LinkInv'
    BY NextType, LinkNext DEF SliceInv
<1>2. \A k \in Tickets : GoodSlices(ticket'[k]) /\ ticket'[k].amount <= stake'[k]
    BY <1>1, AllGood
<1>3. UnusedEmpty' /\ SlicesAdd' /\ ReserveCoversProfit'
    BY <1>2 DEF UnusedEmpty, SlicesAdd, ReserveCoversProfit, GoodSlices
<1>4. MergeCovers'
    BY <1>1, MergeNext DEF MergeCovers
<1>. QED
    BY <1>1, <1>3, <1>4 DEF SliceInv

\* Initially there are no tickets.
LEMMA SliceInit ==
    ASSUME Init PROVE SliceInv
<1>1. \A k \in Tickets : ticket[k] = NoTicket /\ stake[k] = 0
    BY DEF Init
<1>2. \A k \in Tickets : GoodSlices(ticket[k]) /\ ticket[k].amount <= stake[k]
    BY <1>1, GoodNone
<1>3. UnusedEmpty /\ SlicesAdd /\ ReserveCoversProfit
    BY <1>2, GoodEverywhere
<1>4. MergeCovers
  <2>1. \A b \in Bets : ~EscrowLive(b)
      BY DEF Init, EscrowLive, NoEscrow
  <2>. QED
      BY <2>1 DEF MergeCovers
<1>. QED
    BY <1>3, <1>4, LinkInit DEF SliceInv

-----------------------------------------------------------------------------

\* When the MMs agree on the event, a reservation covers the profit of its
\* slice through any number of cashouts and reverts, for every price and every
\* stake, although each division rounds down.
THEOREM ReserveCovering ==
    ASSUME EventGroups \subseteq {MMs}
    PROVE  Spec => []ReserveCoversProfit
<1>1. Init => TypeOK /\ SliceInv
    BY InitType, SliceInit
<1>2. TypeOK /\ SliceInv /\ [Next]_vars => TypeOK' /\ SliceInv'
    BY NextType, SliceNext
<1>3. SliceInv => ReserveCoversProfit
    BY DEF SliceInv
<1>. QED
    BY <1>1, <1>2, <1>3, PTL DEF Spec

\* When the MMs agree on the event, every open ticket is the sum of its slices
\* and its account holds at least as much.
THEOREM StakeBacking ==
    ASSUME EventGroups \subseteq {MMs}
    PROVE  Spec => []StakeBacked
<1>1. Init => TypeOK /\ SliceInv
    BY InitType, SliceInit
<1>2. TypeOK /\ SliceInv /\ [Next]_vars => TypeOK' /\ SliceInv'
    BY NextType, SliceNext
<1>3. SliceInv => StakeBacked
    BY DEF SliceInv, SlicesAdd, StakeBacked, OpenTickets, Stakes
<1>. QED
    BY <1>1, <1>2, <1>3, PTL DEF Spec

-----------------------------------------------------------------------------
(* No tokens are made or lost. *)

Liabilities == [m \in MMs |-> vault[m].liability]
Escrowed == [b \in Bets |-> escrow[b].payment]

\* A closed vault holds nothing and an escrow that is not live holds nothing, so
\* that opening one again overwrites no tokens.
ClosedHoldNothing ==
    /\ \A m \in MMs : ~vault[m].exists => vault[m].liability = 0
    /\ \A b \in Bets : ~EscrowLive(b) => escrow[b].payment = 0

\* The parts of the supply are natural numbers before and after a step.
LEMMA HoldingTypes ==
    ASSUME TypeOK, TypeOK'
    PROVE  /\ IsFiniteSet(MMs) /\ IsFiniteSet(Bets) /\ IsFiniteSet(Tickets)
           /\ Liabilities \in [MMs -> Nat] /\ Liabilities' \in [MMs -> Nat]
           /\ wallet \in [MMs -> Nat] /\ wallet' \in [MMs -> Nat]
           /\ stake \in [Tickets -> Nat] /\ stake' \in [Tickets -> Nat]
           /\ Escrowed \in [Bets -> Nat] /\ Escrowed' \in [Bets -> Nat]
           /\ user \in Nat /\ user' \in Nat
           /\ Total(Liabilities) \in Nat /\ Total(wallet) \in Nat
           /\ Total(stake) \in Nat /\ Total(Escrowed) \in Nat
           /\ Supply = user + Total(wallet) + Total(stake) + Total(Liabilities) + Total(Escrowed)
           /\ Supply' = user' + Total(wallet') + Total(stake') + Total(Liabilities') + Total(Escrowed')
<1>1. IsFiniteSet(MMs) /\ IsFiniteSet(Bets) /\ IsFiniteSet(Tickets)
    BY CustodyAssumption, FS_Union DEF Tickets
<1>2. Liabilities \in [MMs -> Nat] /\ Liabilities' \in [MMs -> Nat]
  <2>1. \A m \in MMs : vault[m] \in Vault /\ vault'[m] \in Vault
      BY DEF TypeOK
  <2>2. \A m \in MMs : vault[m].liability \in Nat /\ vault'[m].liability \in Nat
      BY <2>1 DEF Vault
  <2>. QED
      BY <2>2 DEF Liabilities
<1>3. Escrowed \in [Bets -> Nat] /\ Escrowed' \in [Bets -> Nat]
  <2>1. \A b \in Bets : escrow[b] \in Escrow /\ escrow'[b] \in Escrow
      BY DEF TypeOK
  <2>2. \A b \in Bets : escrow[b].payment \in Nat /\ escrow'[b].payment \in Nat
      BY <2>1 DEF Escrow
  <2>. QED
      BY <2>2 DEF Escrowed
<1>4. /\ wallet \in [MMs -> Nat] /\ wallet' \in [MMs -> Nat]
      /\ stake \in [Tickets -> Nat] /\ stake' \in [Tickets -> Nat]
      /\ user \in Nat /\ user' \in Nat
    BY DEF TypeOK
<1>5. /\ Supply = user + Total(wallet) + Total(stake) + Total(Liabilities) + Total(Escrowed)
      /\ Supply' = user' + Total(wallet') + Total(stake') + Total(Liabilities') + Total(Escrowed')
    BY DEF Supply, Liabilities, Escrowed
<1>6. /\ Total(Liabilities) \in Nat /\ Total(wallet) \in Nat
      /\ Total(stake) \in Nat /\ Total(Escrowed) \in Nat
    BY <1>1, <1>2, <1>3, <1>4, TotalType
<1>. QED
    BY <1>1, <1>2, <1>3, <1>4, <1>5, <1>6

\* Closing a vault, deposits and withdrawals exchange tokens between an MM's
\* own account and its liability account, donations between the users and a
\* ticket's account.
LEMMA QuietConserves ==
    ASSUME TypeOK, TypeOK', ClosedHoldNothing, Quiet
    PROVE  Supply' = Supply
<1>. USE HoldingTypes
<1>1. ASSUME UNCHANGED <<wallet, user, stake>>,
             \A m \in MMs : vault'[m].liability = vault[m].liability,
             \A b \in Bets : escrow'[b].payment = escrow[b].payment
      PROVE  Supply' = Supply
  <2>1. Liabilities' = Liabilities /\ Escrowed' = Escrowed
      BY <1>1 DEF Liabilities, Escrowed
  <2>. QED
      BY <1>1, <2>1
<1>2. ASSUME NEW m \in MMs, UNCHANGED <<user, positions>>,
             \A n \in MMs \ {m} : vault'[n] = vault[n] /\ wallet'[n] = wallet[n],
             vault'[m].liability + wallet'[m] = vault[m].liability + wallet[m]
      PROVE  Supply' = Supply
  <2>1. Liabilities'[m] = vault'[m].liability /\ Liabilities[m] = vault[m].liability
      BY DEF Liabilities
  <2>2. \A n \in MMs \ {m} : Liabilities'[n] = Liabilities[n] /\ wallet'[n] = wallet[n]
      BY <1>2 DEF Liabilities
  <2>3. /\ Total(Liabilities') = Total(Liabilities) - Liabilities[m] + Liabilities'[m]
        /\ Total(wallet') = Total(wallet) - wallet[m] + wallet'[m]
      BY <2>2, TotalUpdate
  <2>4. UNCHANGED <<user, stake, Escrowed>>
      BY <1>2 DEF positions, Escrowed
  <2>5. /\ Liabilities[m] \in Nat /\ Liabilities'[m] \in Nat
        /\ wallet[m] \in Nat /\ wallet'[m] \in Nat
      OBVIOUS
  <2>. QED
      BY <1>2, <2>1, <2>3, <2>4, <2>5
<1>3. ASSUME NEW m \in MMs, AdminStep(m) PROVE Supply' = Supply
  <2>1. vault[m] \in Vault /\ vault \in [MMs -> Vault] /\ wallet \in [MMs -> Nat]
        /\ vault[m].liability \in Nat /\ wallet[m] \in Nat
      BY DEF TypeOK, Vault
  <2>2. CASE CreateNettingAccount(m) \/ CloseNettingAccount(m)
               \/ \E line \in Lines : AddLine(m, line) \/ RemoveLine(m, line)
      BY <1>1, <2>2 DEF CreateNettingAccount, CloseNettingAccount, AddLine, RemoveLine, positions
  <2>3. CASE InitMmMintVault(m)
    <3>1. vault[m].liability = 0 /\ vault' = [vault EXCEPT ![m] = [NoVault EXCEPT !.exists = TRUE]]
          /\ UNCHANGED <<wallet, user, positions>>
        BY <2>3 DEF InitMmMintVault, ClosedHoldNothing
    <3>2. [NoVault EXCEPT !.exists = TRUE].liability = 0
        BY DEF NoVault
    <3>3. \A n \in MMs : vault'[n].liability = vault[n].liability
        BY <2>1, <3>1, <3>2
    <3>. QED
        BY <1>1, <3>1, <3>3 DEF positions
  <2>4. CASE CloseMmMintVault(m)
    <3>1. /\ vault' = [vault EXCEPT ![m] = NoVault] /\ NoVault.liability = 0
          /\ wallet' = [wallet EXCEPT ![m] = @ + vault[m].liability]
          /\ UNCHANGED <<user, positions>>
        BY <2>4 DEF CloseMmMintVault, NoVault
    <3>2. vault'[m].liability = 0 /\ wallet'[m] = wallet[m] + vault[m].liability
          /\ \A n \in MMs \ {m} : vault'[n] = vault[n] /\ wallet'[n] = wallet[n]
        BY <2>1, <3>1
    <3>3. vault'[m].liability + wallet'[m] = vault[m].liability + wallet[m]
        BY <2>1, <3>2
    <3>. QED
        BY <1>2, <3>1, <3>2, <3>3
  <2>5. CASE \E amount \in Transfers : Deposit(m, amount) \/ Withdraw(m, amount)
    <3>1. PICK amount \in Transfers : Deposit(m, amount) \/ Withdraw(m, amount)
        BY <2>5
    <3>2. amount \in Nat
        BY SinglesAssumption
    <3>3. UNCHANGED <<user, positions>>
        BY <3>1 DEF Deposit, Withdraw
    <3>4. \A n \in MMs \ {m} : vault'[n] = vault[n] /\ wallet'[n] = wallet[n]
        BY <2>1, <3>1 DEF Deposit, Withdraw
    <3>5. \/ vault'[m].liability = vault[m].liability + amount /\ wallet'[m] = wallet[m] - amount
          \/ vault'[m].liability = vault[m].liability - amount /\ wallet'[m] = wallet[m] + amount
        BY <2>1, <3>1 DEF Deposit, Withdraw, Vault
    <3>. QED
        BY <1>2, <2>1, <3>2, <3>3, <3>4, <3>5
  <2>. QED
      BY <1>3, <2>2, <2>3, <2>4, <2>5 DEF AdminStep
<1>4. ASSUME NEW k \in Tickets, Donate(k) PROVE Supply' = Supply
  <2>1. /\ user' = user - 1 /\ stake' = [stake EXCEPT ![k] = @ + 1]
        /\ UNCHANGED <<vault, wallet, escrow>>
      BY <1>4 DEF Donate
  <2>2. stake'[k] = stake[k] + 1 /\ stake[k] \in Nat /\ \A n \in Tickets \ {k} : stake'[n] = stake[n]
      BY <2>1
  <2>3. Total(stake') = Total(stake) - stake[k] + stake'[k]
      BY <2>2, TotalUpdate
  <2>4. UNCHANGED <<Liabilities, Escrowed>>
      BY <2>1 DEF Liabilities, Escrowed
  <2>. QED
      BY <2>1, <2>2, <2>3, <2>4
<1>5. CASE EventStep \/ ChangeConfigStatus \/ UNCHANGED vars
    BY <1>1, <1>5 DEF EventStep, GoLive, ChangeConfigStatus, money, positions, vars
<1>6. CASE Tick
  <2>1. \A b \in Bets : escrow'[b].payment = escrow[b].payment
    <3>1. \A b \in Bets : escrow[b] \in Escrow
        BY DEF TypeOK
    <3>. QED
        BY <1>6, <3>1 DEF Tick, Escrow
  <2>. QED
      BY <1>1, <1>6, <2>1 DEF Tick, money
<1>. QED
    BY <1>3, <1>4, <1>5, <1>6 DEF Quiet

\* A fill moves the MMs' deposits from their own accounts to their liability
\* accounts, and the stake from the users to the ticket.
LEMMA FillConserves ==
    ASSUME TypeOK, TypeOK', NEW b \in Bets, FillStep(b)
    PROVE  Supply' = Supply
<1>1. PICK mkt \in Mkts, side \in Sides, isLive \in BOOLEAN, fills \in FillList :
          OpenBet(b, mkt, side, isLive, fills)
    BY FillStepLists
<1>. DEFINE new == NewBet(b, mkt, side, isLive, fills)
            added(m) == Delta(book[m], FillOf(fills, m), mkt, side)
            sent == [m \in MMs |-> IF m \in Filled(fills)
                                   THEN Shortfall(vault[m], added(m)) ELSE 0]
<1>2. /\ \A i \in DOMAIN fills : CanFill(fills[i], mkt, side, isLive)
      /\ vault' = [m \in MMs |->
             IF m \in Filled(fills)
             THEN [vault[m] EXCEPT !.liability = @ + Shortfall(vault[m], added(m)),
                                   !.enc = @ + added(m)]
             ELSE vault[m]]
      /\ wallet' = [m \in MMs |->
             IF m \in Filled(fills) THEN wallet[m] - Shortfall(vault[m], added(m)) ELSE wallet[m]]
      /\ stake' = [stake EXCEPT ![b] = @ + new.amount]
      /\ user' = user - new.amount
      /\ escrow' = escrow
    BY <1>1 DEF OpenBet, FillOf, Filled
<1>3. new.amount \in Nat
    BY <1>2, NewBetType DEF Ticket
<1>4. ASSUME NEW m \in MMs
      PROVE  /\ sent[m] \in Nat
             /\ vault'[m].liability = vault[m].liability + sent[m]
             /\ wallet[m] = wallet'[m] + sent[m]
  <2>1. vault[m] \in Vault /\ vault[m].liability \in Nat /\ wallet[m] \in Nat
      BY DEF TypeOK, Vault
  <2>2. CASE m \in Filled(fills)
    <3>1. Shortfall(vault[m], added(m)) \in 0..wallet[m]
      <4>1. PICK i \in DOMAIN fills : FillOf(fills, m) = fills[i] /\ fills[i].mm = m
          BY <2>2, FillOfProps
      <4>2. fills[i] \in Fill /\ CanFill(fills[i], mkt, side, isLive)
          BY <1>2, FillOfProps
      <4>. QED
          BY <4>1, <4>2, FillAmounts
    <3>2. vault'[m] = [vault[m] EXCEPT !.liability = @ + Shortfall(vault[m], added(m)),
                                       !.enc = @ + added(m)]
          /\ wallet'[m] = wallet[m] - Shortfall(vault[m], added(m))
        BY <1>2, <2>2
    <3>3. sent[m] = Shortfall(vault[m], added(m))
        BY <2>2
    <3>. HIDE DEF sent, added
    <3>4. vault'[m].liability = vault[m].liability + sent[m]
        BY <2>1, <3>2, <3>3 DEF Vault
    <3>. QED
        BY <2>1, <3>1, <3>2, <3>3, <3>4
  <2>3. CASE m \notin Filled(fills)
    <3>1. vault'[m] = vault[m] /\ wallet'[m] = wallet[m]
        BY <1>2, <2>3
    <3>2. sent[m] = 0
        BY <2>3
    <3>. HIDE DEF sent
    <3>. QED
        BY <2>1, <3>1, <3>2
  <2>. QED
      BY <2>2, <2>3
<1>5. sent \in [MMs -> Nat]
    BY <1>4
<1>. HIDE DEF sent, new, added
<1>. USE HoldingTypes
<1>6. Total(Liabilities') = Total(Liabilities) + Total(sent)
  <2>1. \A m \in MMs : Liabilities'[m] = Liabilities[m] + sent[m]
      BY <1>4 DEF Liabilities
  <2>. QED
      BY <1>5, <2>1, TotalSum
<1>7. Total(wallet) = Total(wallet') + Total(sent)
    BY <1>4, <1>5, TotalSum
<1>8. Total(wallet') \in Nat /\ Total(sent) \in Nat
    BY <1>5, TotalType
<1>9. Total(stake') = Total(stake) + new.amount
  <2>1. b \in Tickets
      BY DEF Tickets
  <2>2. stake'[b] = stake[b] + new.amount /\ stake[b] \in Nat
        /\ \A k \in Tickets \ {b} : stake'[k] = stake[k]
      BY <1>2, <2>1
  <2>3. Total(stake') = Total(stake) - stake[b] + stake'[b]
      BY <2>1, <2>2, TotalUpdate
  <2>. QED
      BY <1>3, <2>2, <2>3
<1>10. Escrowed' = Escrowed
    BY <1>2 DEF Escrowed
<1>11. /\ user \in Nat /\ Total(wallet) \in Nat /\ Total(stake) \in Nat
       /\ Total(Liabilities) \in Nat /\ Total(Escrowed) \in Nat
       /\ Supply = user + Total(wallet) + Total(stake) + Total(Liabilities) + Total(Escrowed)
       /\ Supply' = user' + Total(wallet') + Total(stake') + Total(Liabilities') + Total(Escrowed')
    OBVIOUS
<1>12. user' = user - new.amount
    BY <1>2
<1>13. Total(Escrowed') = Total(Escrowed)
    BY <1>10
<1>. HIDE HoldingTypes
<1>. QED
    BY <1>3, <1>6, <1>7, <1>8, <1>9, <1>11, <1>12, <1>13

\* A cashout moves the payment from the MM to the user or into the escrow, the
\* cashed stake to the cashout ticket, and what a closed bet leaves to the user.
LEMMA CashoutConserves ==
    ASSUME TypeOK, TypeOK', ClosedHoldNothing, NEW b \in Bets, NEW c \in Cashouts,
           NEW m \in MMs, NEW payment \in Payments, NEW amount \in 1..ticket[b].amount,
           CashoutBet(b, c, m, amount, payment)
    PROVE  Supply' = Supply
<1>. DEFINE free == FromLiability(m, payment)
            dust == IF Closes(b, m, amount) THEN stake[b] - amount ELSE 0
            late == IF NeedsDelay(b, m) THEN payment ELSE 0
            split == CashedAmounts(ticket[b], amount)
<1>1. b \in Tickets /\ c \in Tickets /\ b # c
    BY CustodyAssumption DEF Tickets
<1>2. /\ vault' = [vault EXCEPT ![m].liability = @ - free, ![m].cashouts = @ + 1]
      /\ wallet' = [wallet EXCEPT ![m] = @ - (payment - free)]
      /\ stake' = [stake EXCEPT ![c] = @ + amount, ![b] = @ - amount - dust]
      /\ user' = user + dust + (IF NeedsDelay(b, m) THEN 0 ELSE payment)
      /\ escrow' = IF NeedsDelay(b, m)
                   THEN [escrow EXCEPT ![b] = NewEscrow(b, c, m, amount, payment, split)]
                   ELSE escrow
      /\ NeedsDelay(b, m) => ~EscrowLive(b)
    BY DEF CashoutBet, CanCashout
<1>3. payment \in Nat /\ amount \in Nat /\ vault[m] \in Vault /\ vault[m].liability \in Nat
      /\ vault[m].enc \in Nat /\ stake[b] \in Nat /\ stake[c] \in Nat /\ wallet[m] \in Nat
  <2>1. ticket[b].amount \in Nat
      BY <1>1 DEF TypeOK, Ticket
  <2>. QED
      BY <1>1, <2>1, CashoutsAssumption DEF TypeOK, Vault
<1>4. free \in Int /\ dust \in Int /\ late \in Int
    BY <1>3 DEF FromLiability, Spare, LesserOf
<1>. HIDE DEF free, dust, split
<1>5. Total(Liabilities') = Total(Liabilities) - free
  <2>1. Liabilities[m] = vault[m].liability /\ Liabilities'[m] = vault[m].liability - free
      BY <1>2, <1>3 DEF Liabilities, TypeOK, Vault
  <2>2. \A n \in MMs \ {m} : Liabilities'[n] = Liabilities[n]
      BY <1>2 DEF Liabilities, TypeOK
  <2>3. Total(Liabilities') = Total(Liabilities) - Liabilities[m] + Liabilities'[m]
      BY <2>2, HoldingTypes, TotalUpdate
  <2>4. Total(Liabilities) \in Nat
      BY HoldingTypes
  <2>. QED
      BY <1>3, <1>4, <2>1, <2>3, <2>4
<1>6. Total(wallet') = Total(wallet) - (payment - free)
  <2>1. /\ wallet'[m] = wallet[m] - (payment - free)
        /\ \A n \in MMs \ {m} : wallet'[n] = wallet[n]
      BY <1>2 DEF TypeOK
  <2>2. Total(wallet') = Total(wallet) - wallet[m] + wallet'[m]
      BY <2>1, HoldingTypes, TotalUpdate
  <2>3. Total(wallet) \in Nat
      BY HoldingTypes
  <2>. QED
      BY <1>3, <1>4, <2>1, <2>2, <2>3
<1>7. Total(stake') = Total(stake) - dust
  <2>1. /\ stake'[b] = stake[b] - amount - dust /\ stake'[c] = stake[c] + amount
        /\ \A k \in Tickets \ {b, c} : stake'[k] = stake[k]
      BY <1>1, <1>2 DEF TypeOK
  <2>2. Total(stake') = Total(stake) - stake[b] - stake[c] + stake'[b] + stake'[c]
      BY <1>1, <2>1, HoldingTypes, TotalUpdateTwo
  <2>3. Total(stake) \in Nat
      BY HoldingTypes
  <2>. QED
      BY <1>3, <1>4, <2>1, <2>2, <2>3
<1>8. Total(Escrowed') = Total(Escrowed) + late
  <2>1. Total(Escrowed) \in Nat
      BY HoldingTypes
  <2>2. CASE ~NeedsDelay(b, m)
    <3>1. Escrowed' = Escrowed
        BY <1>2, <2>2 DEF Escrowed
    <3>. QED
        BY <2>1, <2>2, <3>1
  <2>3. CASE NeedsDelay(b, m)
    <3>1. /\ escrow'[b] = NewEscrow(b, c, m, amount, payment, split)
          /\ \A x \in Bets \ {b} : escrow'[x] = escrow[x]
        BY <1>2, <2>3 DEF TypeOK
    <3>2. Escrowed[b] = 0 /\ Escrowed'[b] = payment
          /\ \A x \in Bets \ {b} : Escrowed'[x] = Escrowed[x]
        BY <1>2, <2>3, <3>1 DEF Escrowed, NewEscrow, ClosedHoldNothing
    <3>3. Total(Escrowed') = Total(Escrowed) - Escrowed[b] + Escrowed'[b]
        BY <3>2, HoldingTypes, TotalUpdate
    <3>. QED
        BY <1>3, <2>1, <2>3, <3>2, <3>3
  <2>. QED
      BY <2>2, <2>3
<1>9. user' = user + dust + (payment - late)
    BY <1>2, <1>3, <1>4
<1>10. /\ user \in Nat /\ Total(wallet) \in Nat /\ Total(stake) \in Nat
       /\ Total(Liabilities) \in Nat /\ Total(Escrowed) \in Nat
       /\ Supply = user + Total(wallet) + Total(stake) + Total(Liabilities) + Total(Escrowed)
       /\ Supply' = user' + Total(wallet') + Total(stake') + Total(Liabilities') + Total(Escrowed')
    BY HoldingTypes
<1>. HIDE DEF late
<1>. QED
    BY <1>3, <1>4, <1>5, <1>6, <1>7, <1>8, <1>9, <1>10

\* A claim pays the escrow, and the dust of a bet it closes, to the user.
LEMMA ClaimConserves ==
    ASSUME TypeOK, TypeOK', NEW b \in Bets, ClaimCashoutEscrow(b)
    PROVE  Supply' = Supply
<1>. DEFINE dust == IF ticket[b].result = "CashedOut" THEN stake[b] ELSE 0
<1>1. /\ user' = user + escrow[b].payment + dust
      /\ escrow' = [escrow EXCEPT ![b] = NoEscrow]
      /\ stake' = [stake EXCEPT ![b] = @ - dust]
      /\ UNCHANGED <<vault, wallet>>
    BY DEF ClaimCashoutEscrow
<1>2. b \in Tickets /\ stake[b] \in Nat /\ dust \in Nat /\ escrow[b].payment \in Nat
    BY DEF TypeOK, Tickets, Escrow
<1>. HIDE DEF dust
<1>3. Total(stake') = Total(stake) - dust
  <2>1. stake'[b] = stake[b] - dust /\ \A k \in Tickets \ {b} : stake'[k] = stake[k]
      BY <1>1, <1>2 DEF TypeOK
  <2>2. Total(stake') = Total(stake) - stake[b] + stake'[b] /\ Total(stake) \in Nat
      BY <1>2, <2>1, HoldingTypes, TotalUpdate
  <2>. QED
      BY <1>2, <2>1, <2>2
<1>4. Total(Escrowed') = Total(Escrowed) - escrow[b].payment
  <2>1. /\ Escrowed[b] = escrow[b].payment /\ Escrowed'[b] = 0
        /\ \A x \in Bets \ {b} : Escrowed'[x] = Escrowed[x]
      BY <1>1 DEF Escrowed, NoEscrow, TypeOK
  <2>2. Total(Escrowed') = Total(Escrowed) - Escrowed[b] + Escrowed'[b]
        /\ Total(Escrowed) \in Nat
      BY <2>1, HoldingTypes, TotalUpdate
  <2>. QED
      BY <1>2, <2>1, <2>2
<1>5. Liabilities' = Liabilities /\ wallet' = wallet
    BY <1>1 DEF Liabilities
<1>6. /\ user \in Nat /\ Total(wallet) \in Nat /\ Total(stake) \in Nat
      /\ Total(Liabilities) \in Nat /\ Total(Escrowed) \in Nat
      /\ Supply = user + Total(wallet) + Total(stake) + Total(Liabilities) + Total(Escrowed)
      /\ Supply' = user' + Total(wallet') + Total(stake') + Total(Liabilities') + Total(Escrowed')
    BY HoldingTypes
<1>. QED
    BY <1>1, <1>2, <1>3, <1>4, <1>5, <1>6

\* A revert pays the escrow back to the MM, and the stake back to the bet; what
\* else the cashout ticket's account held goes to the user.
LEMMA RevertConserves ==
    ASSUME TypeOK, TypeOK', Accounts, NEW b \in Bets, RevertCashout(b)
    PROVE  Supply' = Supply
<1>. DEFINE e == escrow[b]
<1>1. /\ e \in Escrow /\ e.cash \in Cashouts /\ e.mm \in MMs
      /\ e.payment \in Nat /\ e.amount \in Nat
  <2>1. e \in Escrow /\ e.cash \in Cashouts
      BY DEF TypeOK, Escrow, RevertCashout, EscrowLive
  <2>2. Exists(e.cash) /\ ticket[e.cash].by = e.mm
      BY DEF RevertCashout
  <2>. QED
      BY <2>1, <2>2 DEF Accounts, CashoutsOwned, Escrow
<1>2. /\ user' = user + (stake[e.cash] - e.amount)
      /\ escrow' = [escrow EXCEPT ![b] = NoEscrow]
      /\ stake' = [stake EXCEPT ![b] = @ + e.amount, ![e.cash] = 0]
      /\ vault' = [vault EXCEPT ![e.mm].liability = @ + e.payment, ![e.mm].cashouts = @ - 1]
      /\ UNCHANGED wallet
    BY DEF RevertCashout
<1>. HIDE DEF e
<1>3. b \in Tickets /\ e.cash \in Tickets /\ b # e.cash /\ stake[b] \in Nat
      /\ stake[e.cash] \in Nat
    BY <1>1, CustodyAssumption DEF Tickets, TypeOK
<1>4. Total(stake') = Total(stake) + e.amount - stake[e.cash]
  <2>1. /\ stake'[b] = stake[b] + e.amount /\ stake'[e.cash] = 0
        /\ \A k \in Tickets \ {b, e.cash} : stake'[k] = stake[k]
      BY <1>2, <1>3 DEF TypeOK
  <2>2. Total(stake') = Total(stake) - stake[b] - stake[e.cash] + stake'[b] + stake'[e.cash]
        /\ Total(stake) \in Nat
      BY <1>3, <2>1, HoldingTypes, TotalUpdateTwo
  <2>. QED
      BY <1>1, <1>3, <2>1, <2>2
<1>5. Total(Escrowed') = Total(Escrowed) - e.payment
  <2>1. /\ Escrowed[b] = e.payment /\ Escrowed'[b] = 0
      BY <1>2 DEF Escrowed, NoEscrow, TypeOK, e
  <2>2. \A x \in Bets \ {b} : Escrowed'[x] = Escrowed[x]
      BY <1>2 DEF Escrowed, TypeOK
  <2>3. Total(Escrowed') = Total(Escrowed) - Escrowed[b] + Escrowed'[b]
      BY <2>2, HoldingTypes, TotalUpdate
  <2>4. Total(Escrowed) \in Nat
      BY HoldingTypes
  <2>. QED
      BY <1>1, <2>1, <2>3, <2>4
<1>6. Total(Liabilities') = Total(Liabilities) + e.payment
  <2>1. vault[e.mm] \in Vault /\ vault[e.mm].liability \in Nat
      BY <1>1 DEF TypeOK, Vault
  <2>2. /\ Liabilities[e.mm] = vault[e.mm].liability
        /\ Liabilities'[e.mm] = vault[e.mm].liability + e.payment
      BY <1>1, <1>2, <2>1 DEF Liabilities, TypeOK, Vault
  <2>3. \A n \in MMs \ {e.mm} : Liabilities'[n] = Liabilities[n]
      BY <1>2 DEF Liabilities, TypeOK
  <2>4. Total(Liabilities') = Total(Liabilities) - Liabilities[e.mm] + Liabilities'[e.mm]
        /\ Total(Liabilities) \in Nat
      BY <1>1, <2>3, HoldingTypes, TotalUpdate
  <2>. QED
      BY <1>1, <2>1, <2>2, <2>4
<1>7. /\ user \in Nat /\ Total(wallet) \in Nat /\ Total(stake) \in Nat
      /\ Total(Liabilities) \in Nat /\ Total(Escrowed) \in Nat
      /\ Supply = user + Total(wallet) + Total(stake) + Total(Liabilities) + Total(Escrowed)
      /\ Supply' = user' + Total(wallet') + Total(stake') + Total(Liabilities') + Total(Escrowed')
    BY HoldingTypes
<1>. QED
    BY <1>1, <1>2, <1>3, <1>4, <1>5, <1>6, <1>7

\* A settlement moves stakes to the liability accounts of the MMs that won and
\* profits from those that lost; the rest of the ticket's account and all the
\* profits go to the user, or to the liability account of the ticket's buyer.
LEMMA SettleConserves ==
    ASSUME TypeOK, TypeOK', NEW k \in Tickets, SettleBet(k)
    PROVE  Supply' = Supply
<1>. DEFINE t == ticket[k]
            losses == StakeLosses(t)
            paid == [m \in MMs |-> Pays(t, m)]
            proceeds == stake[k] - Total(losses) + Total(paid)
            got == [m \in MMs |-> IF m = t.by THEN proceeds ELSE 0]
            rest == [m \in MMs |-> vault[m].liability - paid[m]]
            topped == [m \in MMs |-> rest[m] + losses[m]]
<1>1. t \in Ticket /\ (\A m \in MMs : CanPay(t, m)) /\ t.by \in MMs \cup {None}
      /\ stake[k] \in Nat
    BY DEF SettleBet, CanSettle, TypeOK, Ticket
<1>2. /\ \A m \in MMs : vault'[m].liability
                          = vault[m].liability - paid[m] + losses[m] + got[m]
      /\ user' = IF t.by = None THEN user + proceeds ELSE user
      /\ stake' = [stake EXCEPT ![k] = 0]
      /\ UNCHANGED <<wallet, escrow>>
  <2>1. /\ user' = IF t.by = None THEN user + proceeds ELSE user
        /\ stake' = [stake EXCEPT ![k] = 0]
        /\ UNCHANGED <<wallet, escrow>>
        /\ Total(losses) + StakeReturned(t.result, t.amount) <= stake[k]
      BY DEF SettleBet, CanSettle
  <2>2. ASSUME NEW m \in MMs
        PROVE  vault'[m].liability = vault[m].liability - paid[m] + losses[m] + got[m]
    <3>1. vault'[m] = [vault[m] EXCEPT
                          !.liability = @ - Pays(t, m) + losses[m]
                                          + (IF m = t.by THEN proceeds ELSE 0),
                          !.enc = @ - Drop(t, m),
                          !.cashouts = @ - (IF m = t.by THEN 1 ELSE 0)]
        BY DEF SettleBet
    <3>2. vault[m] \in Vault
        BY DEF TypeOK
    <3>3. paid[m] = Pays(t, m) /\ got[m] = (IF m = t.by THEN proceeds ELSE 0)
        OBVIOUS
    <3>. HIDE DEF t, losses, paid, proceeds, got
    <3>. QED
        BY <3>1, <3>2, <3>3 DEF Vault
  <2>. QED
      BY <2>1, <2>2, SMTT(30)
<1>3. Total(losses) + StakeReturned(t.result, t.amount) <= stake[k]
    BY DEF SettleBet, CanSettle
<1>. HIDE DEF t
<1>4. \A m \in MMs : /\ Pays(t, m) \in Nat /\ Pays(t, m) <= vault[m].liability
                     /\ losses[m] \in Nat
    BY <1>1, SettleSlice
<1>5. losses \in [MMs -> Nat] /\ paid \in [MMs -> Nat]
    BY <1>4 DEF StakeLosses
<1>6. StakeReturned(t.result, t.amount) \in Nat
  <2>1. t.amount \in Nat /\ t.amount \div 2 \in Nat
      BY <1>1 DEF Ticket
  <2>. QED
      BY <2>1 DEF StakeReturned
<1>7. /\ rest \in [MMs -> Nat]
      /\ \A m \in MMs : Liabilities[m] = rest[m] + paid[m]
  <2>1. \A m \in MMs : vault[m].liability \in Nat
      BY DEF TypeOK, Vault
  <2>2. \A m \in MMs : paid[m] \in Nat /\ paid[m] <= vault[m].liability
      BY <1>4
  <2>. HIDE DEF paid
  <2>. QED
      BY <2>1, <2>2 DEF Liabilities
<1>. HIDE DEF losses, paid
<1>8. IsFiniteSet(MMs) /\ Total(losses) \in Nat /\ Total(paid) \in Nat
    BY <1>5, TotalType, CustodyAssumption
<1>9. proceeds \in Nat
    BY <1>1, <1>3, <1>6, <1>8
<1>10. topped \in [MMs -> Nat] /\ \A m \in MMs : topped[m] = rest[m] + losses[m]
  <2>1. \A m \in MMs : rest[m] \in Nat /\ losses[m] \in Nat
      BY <1>5, <1>7
  <2>. HIDE DEF rest
  <2>. QED
      BY <2>1
<1>. HIDE DEF proceeds
<1>11. got \in [MMs -> Nat]
    BY <1>9
<1>12. Total(got) = IF t.by = None THEN 0 ELSE proceeds
  <2>1. CASE t.by = None
    <3>1. \A m \in MMs : got[m] = 0
        BY <2>1, CustodyAssumption
    <3>. HIDE DEF got
    <3>. QED
        BY <1>11, <2>1, <3>1, TotalZero
  <2>2. CASE t.by # None
    <3>1. t.by \in MMs /\ got[t.by] = proceeds /\ \A m \in MMs \ {t.by} : got[m] = 0
        BY <1>1, <2>2
    <3>. HIDE DEF got
    <3>2. Total(got) = got[t.by]
        BY <1>8, <1>11, <3>1, TotalSingle
    <3>. QED
        BY <2>2, <3>1, <3>2
  <2>. QED
      BY <2>1, <2>2
<1>13. \A m \in MMs : Liabilities'[m] = topped[m] + got[m]
  <2>1. \A m \in MMs : vault[m].liability = Liabilities[m]
      BY DEF Liabilities
  <2>2. \A m \in MMs : rest[m] \in Nat /\ paid[m] \in Nat /\ losses[m] \in Nat /\ got[m] \in Nat
      BY <1>5, <1>7, <1>11
  <2>3. \A m \in MMs : Liabilities'[m] = vault'[m].liability
      BY DEF Liabilities
  <2>. HIDE DEF rest, got, topped
  <2>. QED
      BY <1>2, <1>7, <1>10, <2>1, <2>2, <2>3
<1>. HIDE DEF rest, topped, got
<1>14. Total(Liabilities) = Total(rest) + Total(paid)
    BY <1>5, <1>7, <1>8, HoldingTypes, TotalSum
<1>15. Total(topped) = Total(rest) + Total(losses)
    BY <1>5, <1>7, <1>8, <1>10, TotalSum
<1>16. Total(Liabilities') = Total(topped) + Total(got)
  <2>1. Liabilities' \in [MMs -> Nat]
      BY HoldingTypes
  <2>. QED
      BY <1>8, <1>10, <1>11, <1>13, <2>1, TotalSum
<1>17. Total(rest) \in Nat
    BY <1>7, <1>8, TotalType
<1>18. Total(stake') = Total(stake) - stake[k]
  <2>1. stake'[k] = 0 /\ \A n \in Tickets \ {k} : stake'[n] = stake[n]
      BY <1>2 DEF TypeOK
  <2>2. Total(stake') = Total(stake) - stake[k] + stake'[k] /\ Total(stake) \in Nat
      BY <2>1, HoldingTypes, TotalUpdate
  <2>. QED
      BY <1>1, <2>1, <2>2
<1>19. Total(Escrowed') = Total(Escrowed) /\ Total(wallet') = Total(wallet)
  <2>1. Escrowed' = Escrowed /\ wallet' = wallet
      BY <1>2 DEF Escrowed
  <2>. QED
      BY <2>1
<1>20. /\ user \in Nat /\ Total(wallet) \in Nat /\ Total(stake) \in Nat
       /\ Total(Escrowed) \in Nat
       /\ Supply = user + Total(wallet) + Total(stake) + Total(Liabilities) + Total(Escrowed)
       /\ Supply' = user' + Total(wallet') + Total(stake') + Total(Liabilities') + Total(Escrowed')
    BY HoldingTypes
<1>21. proceeds = stake[k] - Total(losses) + Total(paid)
    BY DEF proceeds
<1>22. user' + Total(got) = user + proceeds
    BY <1>2, <1>9, <1>12, <1>20
<1>23. Total(got) \in Nat /\ user' \in Nat
    BY <1>9, <1>12, HoldingTypes
<1>. QED
    BY <1>1, <1>8, <1>14, <1>15, <1>16, <1>17, <1>18, <1>19, <1>20, <1>21, <1>22, <1>23,
       SMTT(30)

\* A step that closes a vault leaves nothing in its liability account.
LEMMA ClosedVaultNext ==
    ASSUME TypeOK, Accounts, ClosedHoldNothing, [Next]_vars, NEW m \in MMs, ~vault'[m].exists
    PROVE  vault'[m].liability = 0
<1>1. /\ vault[m] \in Vault /\ vault[m].liability \in Nat /\ vault \in [MMs -> Vault]
      /\ ~vault[m].exists => vault[m].liability = 0
    BY DEF TypeOK, Vault, ClosedHoldNothing
<1>2. /\ vault'[m] = vault[m] => vault'[m].liability = 0
      /\ vault'[m].exists # vault[m].exists \/ ~vault[m].exists
    BY <1>1
<1>3. CASE \E n \in MMs : AdminStep(n)
  <2>1. PICK n \in MMs : AdminStep(n)
      BY <1>3
  <2>2. \/ vault' = vault
        \/ vault' = [vault EXCEPT ![n] = [NoVault EXCEPT !.exists = TRUE]]
        \/ vault' = [vault EXCEPT ![n] = NoVault]
        \/ vault[n].exists /\ \E v \in Int : vault' = [vault EXCEPT ![n].liability = v]
    <3>1. vault[n].liability \in Nat /\ Transfers \subseteq Nat
        BY SinglesAssumption DEF TypeOK, Vault
    <3>2. CASE \E amount \in Transfers : Deposit(n, amount) \/ Withdraw(n, amount)
      <4>1. PICK amount \in Transfers : Deposit(n, amount) \/ Withdraw(n, amount)
          BY <3>2
      <4>2. \/ vault' = [vault EXCEPT ![n].liability = @ + amount]
            \/ vault' = [vault EXCEPT ![n].liability = @ - amount]
          BY <4>1 DEF Deposit, Withdraw
      <4>3. vault[n].exists
          BY <4>1 DEF Deposit, Withdraw
      <4>. QED
          BY <3>1, <4>2, <4>3
    <3>3. CASE InitMmMintVault(n) \/ CloseMmMintVault(n)
        BY <3>3 DEF InitMmMintVault, CloseMmMintVault
    <3>4. CASE CreateNettingAccount(n) \/ CloseNettingAccount(n)
                 \/ \E line \in Lines : AddLine(n, line) \/ RemoveLine(n, line)
        BY <3>4 DEF CreateNettingAccount, CloseNettingAccount, AddLine, RemoveLine
    <3>. QED
        BY <2>1, <3>2, <3>3, <3>4 DEF AdminStep
  <2>. QED
      BY <1>1, <1>2, <2>2 DEF NoVault, Vault
<1>4. CASE \/ \E k \in Tickets : Donate(k)
           \/ EventStep \/ ChangeConfigStatus \/ Tick \/ UNCHANGED vars
           \/ \E b \in Bets : ClaimCashoutEscrow(b)
           \/ \E k \in Tickets, result \in Grades : GradeBet(k, result)
  <2>1. UNCHANGED vault
      BY <1>4 DEF Donate, EventStep, GoLive, ChangeConfigStatus, Tick, ClaimCashoutEscrow,
           GradeBet, money, vars
  <2>. QED
      BY <1>2, <2>1
<1>5. CASE \E b \in Bets : FillStep(b)
  <2>1. PICK b \in Bets : FillStep(b)
      BY <1>5
  <2>2. PICK mkt \in Mkts, side \in Sides, isLive \in BOOLEAN, fills \in FillList :
            OpenBet(b, mkt, side, isLive, fills)
      BY <2>1, FillStepLists
  <2>3. m \notin Filled(fills) => vault'[m] = vault[m]
      BY <2>2 DEF OpenBet, Filled
  <2>4. m \in Filled(fills) => vault[m].exists
    <3>1. \A i \in DOMAIN fills : vault[fills[i].mm].exists
        BY <2>2 DEF OpenBet, CanFill
    <3>. QED
        BY <3>1 DEF Filled
  <2>5. m \in Filled(fills) => vault'[m].exists = vault[m].exists
      BY <1>1, <2>2 DEF OpenBet, Filled, Vault
  <2>. QED
      BY <1>2, <2>3, <2>4, <2>5
<1>6. CASE \E b \in Bets : CashoutStep(b)
  <2>1. PICK b \in Bets, c \in Cashouts, n \in MMs, payment \in Payments :
            \E amount \in 1..ticket[b].amount : CashoutBet(b, c, n, amount, payment)
      BY <1>6 DEF CashoutStep
  <2>2. /\ vault' = [vault EXCEPT ![n].liability = @ - FromLiability(n, payment),
                                  ![n].cashouts = @ + 1]
        /\ vault[n].exists
      BY <2>1 DEF CashoutBet, CanCashout
  <2>3. /\ m # n => vault'[m] = vault[m]
        /\ m = n => vault'[m].exists = vault[m].exists
      BY <1>1, <2>2 DEF Vault
  <2>. QED
      BY <1>2, <2>2, <2>3
<1>7. CASE \E b \in Bets : RevertCashout(b)
  <2>1. PICK b \in Bets : RevertCashout(b)
      BY <1>7
  <2>2. /\ vault' = [vault EXCEPT ![escrow[b].mm].liability = @ + escrow[b].payment,
                                  ![escrow[b].mm].cashouts = @ - 1]
        /\ vault[escrow[b].mm].exists
      BY <2>1, RevertTickets
  <2>3. m # escrow[b].mm => vault'[m] = vault[m]
      BY <1>1, <2>2
  <2>4. m = escrow[b].mm => vault'[m].exists = vault[m].exists
      BY <1>1, <2>2 DEF Vault
  <2>. QED
      BY <1>2, <2>2, <2>3, <2>4
<1>8. CASE \E k \in Tickets : SettleBet(k)
  <2>1. PICK k \in Tickets : SettleBet(k)
      BY <1>8
  <2>. DEFINE t == ticket[k]
              s == t.slices[m]
              proceeds == stake[k] - Total(StakeLosses(t)) + Total([n \in MMs |-> Pays(t, n)])
  <2>2. vault'[m] = [vault[m] EXCEPT
                        !.liability = @ - Pays(t, m) + StakeLosses(t)[m]
                                        + (IF m = t.by THEN proceeds ELSE 0),
                        !.enc = @ - Drop(t, m),
                        !.cashouts = @ - (IF m = t.by THEN 1 ELSE 0)]
      BY <2>1 DEF SettleBet
  <2>3. /\ s.amount > 0 => vault[m].exists
        /\ m = t.by => vault[m].exists
      BY <2>1, CustodyAssumption DEF SettleBet, CanSettle, CanPay
  <2>4. t \in Ticket /\ s.amount \in Nat
      BY DEF TypeOK, Ticket, Slice
  <2>5. ~vault[m].exists
      BY <1>1, <1>2, <2>2 DEF Vault
  <2>6. s.amount = 0 /\ m # t.by /\ vault[m].liability = 0
      BY <1>1, <2>3, <2>4, <2>5
  <2>7. Pays(t, m) \in Nat /\ Pays(t, m) <= vault[m].liability
        /\ StakeLosses(t)[m] \in Nat /\ StakeLosses(t)[m] <= s.amount
      BY <2>1, <2>4, SettleSlice DEF SettleBet, CanSettle
  <2>8. Pays(t, m) = 0 /\ StakeLosses(t)[m] = 0
      BY <2>6, <2>7
  <2>. HIDE DEF t, proceeds
  <2>9. vault'[m].liability = vault[m].liability - Pays(t, m) + StakeLosses(t)[m] + 0
      BY <1>1, <2>2, <2>6 DEF Vault
  <2>. QED
      BY <2>6, <2>8, <2>9
<1>. QED
    BY <1>3, <1>4, <1>5, <1>6, <1>7, <1>8, StepKinds DEF Quiet

\* A step that ends an escrow leaves no payment in it.
LEMMA ClosedEscrowNext ==
    ASSUME TypeOK, ClosedHoldNothing, [Next]_vars, NEW x \in Bets, escrow'[x].cash = None
    PROVE  escrow'[x].payment = 0
<1>1. /\ escrow[x] \in Escrow /\ escrow \in [Bets -> Escrow]
      /\ escrow[x].cash = None => escrow[x].payment = 0
    BY DEF TypeOK, ClosedHoldNothing, EscrowLive
<1>2. escrow'[x] = escrow[x] \/ escrow'[x] = NoEscrow => escrow'[x].payment = 0
    BY <1>1 DEF NoEscrow
<1>3. CASE Tick
  <2>1. escrow'[x].cash = escrow[x].cash /\ escrow'[x].payment = escrow[x].payment
      BY <1>1, <1>3 DEF Tick, Escrow
  <2>. QED
      BY <1>1, <2>1
<1>4. CASE \/ \E n \in MMs : AdminStep(n)
           \/ \E k \in Tickets : Donate(k)
           \/ EventStep \/ ChangeConfigStatus \/ UNCHANGED vars
           \/ \E k \in Tickets, result \in Grades : GradeBet(k, result)
           \/ \E k \in Tickets : SettleBet(k)
  <2>1. UNCHANGED escrow
      BY <1>4, Zenon DEF AdminStep, InitMmMintVault, CreateNettingAccount, CloseMmMintVault,
           CloseNettingAccount, AddLine, RemoveLine, Deposit, Withdraw, Donate, EventStep,
           GoLive, ChangeConfigStatus, GradeBet, SettleBet, positions, vars
  <2>. QED
      BY <1>2, <2>1, SMTT(30)
<1>5. CASE \E b \in Bets : FillStep(b)
  <2>1. PICK b \in Bets : FillStep(b)
      BY <1>5
  <2>2. PICK mkt \in Mkts, side \in Sides, isLive \in BOOLEAN, fills \in FillList :
            OpenBet(b, mkt, side, isLive, fills)
      BY <2>1, FillStepLists
  <2>3. UNCHANGED escrow
      BY <2>2 DEF OpenBet
  <2>. QED
      BY <1>2, <2>3
<1>6. CASE \E b \in Bets : CashoutStep(b)
  <2>1. PICK b \in Bets, c \in Cashouts, n \in MMs, payment \in Payments :
            \E amount \in 1..ticket[b].amount : CashoutBet(b, c, n, amount, payment)
      BY <1>6 DEF CashoutStep
  <2>2. CashoutEffect(b, c, n, payment)
      BY <2>1, CashoutTickets
  <2>3. \/ escrow' = escrow
        \/ escrow'[b].cash = c /\ \A y \in Bets \ {b} : escrow'[y] = escrow[y]
      BY <2>2 DEF CashoutEffect
  <2>4. c # None
      BY CustodyAssumption DEF Tickets
  <2>. QED
      BY <1>2, <2>3, <2>4
<1>7. CASE \E b \in Bets : ClaimCashoutEscrow(b) \/ RevertCashout(b)
  <2>1. PICK b \in Bets : ClaimCashoutEscrow(b) \/ RevertCashout(b)
      BY <1>7
  <2>2. escrow' = [escrow EXCEPT ![b] = NoEscrow]
      BY <2>1 DEF ClaimCashoutEscrow, RevertCashout
  <2>. QED
      BY <1>1, <1>2, <2>2
<1>. QED
    BY <1>3, <1>4, <1>5, <1>6, <1>7, StepKinds DEF Quiet

\* Every step keeps the supply.
LEMMA ConservedNext ==
    ASSUME TypeOK, Accounts, ClosedHoldNothing, [Next]_vars
    PROVE  Supply' = Supply
<1>1. TypeOK'
    BY NextType
<1>2. CASE \E k \in Tickets, result \in Grades : GradeBet(k, result)
  <2>1. UNCHANGED <<vault, wallet, user, stake, escrow>>
      BY <1>2 DEF GradeBet, money
  <2>. QED
      BY <2>1 DEF Supply
<1>3. CASE \E b \in Bets : CashoutStep(b)
    BY <1>1, <1>3, CashoutConserves DEF CashoutStep
<1>. QED
    BY <1>1, <1>2, <1>3, StepKinds, QuietConserves, FillConserves, ClaimConserves,
       RevertConserves, SettleConserves

\* Tokens are neither made nor lost by any sequence of fills, cashouts, claims,
\* reverts, settlements, deposits, withdrawals and closings of vaults, for every
\* number of market makers and bets and whatever their event states.
THEOREM Conservation == Spec => []Conserved
<1>1. Init => TypeOK /\ Accounts /\ ClosedHoldNothing /\ Conserved
  <2>. SUFFICES ASSUME Init PROVE TypeOK /\ Accounts /\ ClosedHoldNothing /\ Conserved
      OBVIOUS
  <2>1. /\ \A m \in MMs : vault[m].liability = 0
        /\ \A b \in Bets : escrow[b].payment = 0
      BY DEF Init, NoVault, NoEscrow
  <2>2. ClosedHoldNothing
      BY <2>1 DEF ClosedHoldNothing
  <2>3. Conserved
    <3>. DEFINE zero(S) == [x \in S |-> 0]
    <3>1. /\ wallet = [m \in MMs |-> MMFunds] /\ user = UserFunds
          /\ stake = zero(Tickets) /\ Liabilities = zero(MMs) /\ Escrowed = zero(Bets)
        BY <2>1 DEF Init, Liabilities, Escrowed
    <3>2. ASSUME NEW S PROVE Total(zero(S)) = 0
        BY TotalZero
    <3>3. Total(wallet) \in Nat /\ user \in Nat
        BY <3>1, SinglesAssumption, CustodyAssumption, TotalType
    <3>4. Supply = user + Total(wallet) + Total(stake) + Total(Liabilities) + Total(Escrowed)
        BY DEF Supply, Liabilities, Escrowed
    <3>. HIDE DEF zero
    <3>. QED
        BY <3>1, <3>2, <3>3, <3>4 DEF Conserved
  <2>. QED
      BY <2>2, <2>3, InitType, AccountsInit
<1>2. TypeOK /\ Accounts /\ ClosedHoldNothing /\ Conserved /\ [Next]_vars
        => TypeOK' /\ Accounts' /\ ClosedHoldNothing' /\ Conserved'
  <2>. SUFFICES ASSUME TypeOK, Accounts, ClosedHoldNothing, Conserved, [Next]_vars
                PROVE  TypeOK' /\ Accounts' /\ ClosedHoldNothing' /\ Conserved'
      OBVIOUS
  <2>1. ClosedHoldNothing'
      BY ClosedVaultNext, ClosedEscrowNext DEF ClosedHoldNothing, EscrowLive
  <2>2. Conserved'
      BY ConservedNext DEF Conserved
  <2>. QED
      BY <2>1, <2>2, NextType, AccountsNext
<1>. QED
    BY <1>1, <1>2, PTL DEF Spec

-----------------------------------------------------------------------------
(* The payouts of tickets.  A cashout removes the payout of what it cashes *)
(* from the ticket, rounded down for every slice; a revert puts it back.   *)

Payouts(t) == [m \in MMs |-> Payout(t.slices[m].amount, t.slices[m].odds)]

\* What the slices of two tickets would pay if they were merged.
MergedPayouts(t, co) ==
    [m \in MMs |-> Payout(t.slices[m].amount + co.slices[m].amount, t.slices[m].odds)]

\* A ticket's payout covers its slices, open or closed.
PayoutsCovered == \A k \in Tickets : Total(Payouts(ticket[k])) <= ticket[k].payout

\* The payouts of the two tickets of a live escrow cover the slices that a
\* revert would merge.
MergedPayoutsCovered ==
    \A b \in Bets :
        EscrowLive(b) =>
            LET co == ticket[escrow[b].cash] IN
            Total(MergedPayouts(ticket[b], co)) <= ticket[b].payout + co.payout

PayoutInv == SliceInv /\ PayoutsCovered /\ MergedPayoutsCovered

\* The payouts of slices are natural numbers.
LEMMA PayoutsType ==
    ASSUME NEW t \in Ticket, NEW co \in Ticket
    PROVE  /\ Payouts(t) \in [MMs -> Nat]
           /\ MergedPayouts(t, co) \in [MMs -> Nat]
           /\ Total(Payouts(t)) \in Nat /\ Total(MergedPayouts(t, co)) \in Nat
<1>1. \A m \in MMs : t.slices[m] \in Slice /\ co.slices[m] \in Slice
    BY DEF Ticket
<1>2. \A m \in MMs : /\ t.slices[m].amount \in Nat /\ co.slices[m].amount \in Nat
                     /\ t.slices[m].odds \in Odd
    BY <1>1, SliceFields
<1>3. \A m \in MMs : t.slices[m].amount + co.slices[m].amount \in Nat
    BY <1>2
<1>4. Payouts(t) \in [MMs -> Nat]
    BY <1>2, PayoutType DEF Payouts
<1>5. MergedPayouts(t, co) \in [MMs -> Nat]
    BY <1>2, <1>3, PayoutType DEF MergedPayouts
<1>. QED
    BY <1>4, <1>5, TotalType, CustodyAssumption

\* The payouts of the parts of a stake do not exceed the payout of the whole.
LEMMA PayoutSuperadditive ==
    ASSUME NEW a \in Nat, NEW b \in Nat, NEW odds \in Odd
    PROVE  Payout(a, odds) + Payout(b, odds) <= Payout(a + b, odds)
<1>1. /\ Payout(a, odds) = a + Profit(a, odds) /\ Payout(b, odds) = b + Profit(b, odds)
      /\ Payout(a + b, odds) = (a + b) + Profit(a + b, odds)
    BY PayoutSplit
<1>2. Profit(a, odds) + Profit(b, odds) <= Profit(a + b, odds)
    BY ProfitSuperadditive
<1>3. Profit(a, odds) \in Nat /\ Profit(b, odds) \in Nat /\ Profit(a + b, odds) \in Nat
    BY ProfitType
<1>. QED
    BY <1>1, <1>2, <1>3

\* A closed ticket pays nothing.
LEMMA PayoutNone == Total(Payouts(NoTicket)) = 0 /\ NoTicket.payout = 0
<1>1. \A m \in MMs : NoTicket.slices[m].amount = 0 /\ NoTicket.slices[m].odds = Scale
    BY DEF NoTicket, NoSlice
<1>2. Payout(0, Scale) = 0
    BY ScaleAssumption DEF Payout
<1>3. Payouts(NoTicket) \in [MMs -> Nat] /\ \A m \in MMs : Payouts(NoTicket)[m] = 0
    BY <1>1, <1>2 DEF Payouts
<1>. QED
    BY <1>3, TotalZero DEF NoTicket

\* A fill gives the ticket exactly the payout of its slices.
LEMMA FillPayout ==
    ASSUME TypeOK, NEW b \in Bets, FillStep(b)
    PROVE  Total(Payouts(ticket'[b])) = ticket'[b].payout
<1>1. PICK mkt \in Mkts, side \in Sides, isLive \in BOOLEAN, fills \in FillList :
          OpenBet(b, mkt, side, isLive, fills)
    BY FillStepLists
<1>2. PICK n \in Nat : fills \in [1..n -> Fill]
    BY DEF FillList
<1>3. \A i, j \in 1..n : fills[i].mm = fills[j].mm => i = j
    BY <1>2 DEF FillList
<1>. DEFINE new == NewBet(b, mkt, side, isLive, fills)
            S == 1..n
            f == [i \in S |-> Payout(fills[i].amount, fills[i].odds)]
            g == Payouts(new)
            h == [i \in S |-> fills[i].mm]
            netted(m) == Nets(book[m], FillOf(fills, m), mkt, side)
            given == Filled(fills)
            Of(m) == FillOf(fills, m)
<1>4. ticket'[b] = new
    BY <1>1 DEF OpenBet, TypeOK, Tickets
<1>5. new.payout = Total(f)
    BY <1>2 DEF NewBet
<1>6. \A m \in MMs : new.slices[m] =
          IF m \in given
          THEN [amount |-> Of(m).amount, reserved |-> Profit(Of(m).amount, Of(m).odds),
                odds |-> Of(m).odds, netted |-> netted(m)]
          ELSE NoSlice
    BY DEF NewBet, FillOf, Filled
<1>7. \A i \in S : fills[i].mm \in MMs /\ fills[i].amount \in Nat /\ fills[i].odds \in Odd
    BY <1>2, FillsAssumption DEF Fill, Odd
<1>8. ASSUME NEW i \in S PROVE fills[i].mm \in given /\ Of(fills[i].mm) = fills[i]
  <2>1. fills[i].mm \in given
      BY <1>2 DEF Filled
  <2>2. PICK j \in S : Of(fills[i].mm) = fills[j] /\ fills[j].mm = fills[i].mm
      BY <1>2, <2>1, FillOfProps
  <2>. QED
      BY <1>3, <2>1, <2>2
<1>9. given = {fills[i].mm : i \in S}
    BY <1>2 DEF Filled
<1>10. \A m \in MMs : g[m] = Payout(new.slices[m].amount, new.slices[m].odds)
    BY DEF Payouts
<1>. HIDE DEF new, g, given, Of, netted
<1>11. \A i \in S : g[fills[i].mm] = Payout(fills[i].amount, fills[i].odds)
  <2>. SUFFICES ASSUME NEW i \in S
                PROVE  g[fills[i].mm] = Payout(fills[i].amount, fills[i].odds)
      OBVIOUS
  <2>. DEFINE m == fills[i].mm
              p == Profit(fills[i].amount, fills[i].odds)
              net == netted(m)
  <2>1. m \in MMs
      BY <1>7
  <2>2. new.slices[m] = [amount |-> fills[i].amount, reserved |-> p,
                         odds |-> fills[i].odds, netted |-> net]
      BY <1>6, <1>8, <2>1
  <2>. HIDE DEF m, p, net
  <2>3. new.slices[m].amount = fills[i].amount /\ new.slices[m].odds = fills[i].odds
      BY <2>2
  <2>4. g[m] = Payout(fills[i].amount, fills[i].odds)
      BY <1>10, <2>1, <2>3
  <2>. QED
      BY <2>4 DEF m
<1>12. \A m \in MMs \ given : g[m] = 0
  <2>1. Payout(0, Scale) = 0
      BY ScaleAssumption DEF Payout
  <2>2. \A m \in MMs \ given : new.slices[m] = NoSlice
      BY <1>6
  <2>3. NoSlice.amount = 0 /\ NoSlice.odds = Scale
      BY DEF NoSlice
  <2>. QED
      BY <1>10, <2>1, <2>2, <2>3
<1>13. f \in [S -> Nat] /\ h \in [S -> MMs]
    BY <1>7, PayoutType
<1>14. g \in [MMs -> Nat]
  <2>1. new \in Ticket
    <3>1. \A i \in DOMAIN fills : CanFill(fills[i], mkt, side, isLive)
        BY <1>1 DEF OpenBet
    <3>. QED
        BY <3>1, NewBetType DEF new
  <2>. QED
      BY <2>1, PayoutsType DEF g
<1>15. Total(f) = Total(g)
  <2>1. \A i, j \in S : h[i] = h[j] => i = j
      BY <1>3
  <2>2. \A i \in S : g[h[i]] = f[i]
      BY <1>11
  <2>3. \A m \in MMs : (\A i \in S : h[i] # m) => g[m] = 0
      BY <1>9, <1>12
  <2>4. IsFiniteSet(S) /\ IsFiniteSet(MMs)
      BY FS_Interval, CustodyAssumption
  <2>. HIDE DEF S, f, h
  <2>. QED
      BY <1>13, <1>14, <2>1, <2>2, <2>3, <2>4, TotalReindex
<1>. QED
    BY <1>4, <1>5, <1>15 DEF g

\* A cashout gives the cashout ticket exactly the payout of its slices, and
\* takes as much from the bet.
LEMMA CashoutPayout ==
    ASSUME TypeOK, NEW b \in Bets, NEW c \in Cashouts, NEW m \in MMs,
           NEW payment \in Payments, NEW amount \in 1..ticket[b].amount,
           CashoutBet(b, c, m, amount, payment)
    PROVE  /\ Total(Payouts(ticket'[c])) = ticket'[c].payout
           /\ ticket'[c].payout <= ticket[b].payout
           /\ ticket'[b] # NoTicket => ticket'[b].payout = ticket[b].payout - ticket'[c].payout
<1>. DEFINE t == ticket[b]
            split == CashedAmounts(t, amount)
            cash == [n \in MMs |-> CashedSlice(t.slices[n], split[n])]
            removed == PayoutRemoved(t, split)
<1>1. b \in Tickets /\ c \in Tickets /\ b # c
    BY CustodyAssumption DEF Tickets
<1>2. t \in Ticket /\ t.payout \in Nat /\ ticket \in [Tickets -> Ticket]
    BY <1>1 DEF TypeOK, Ticket
<1>3. CanCashout(b, c, m, amount, payment, split)
    BY DEF CashoutBet
<1>4. /\ ticket'[c] = CashoutTicket(b, m, amount, split)
      /\ ticket'[b] # NoTicket => ticket'[b] = RemainingTicket(b, amount, split)
    BY <1>1, <1>2 DEF CashoutBet
<1>. HIDE DEF split
<1>5. removed <= t.payout
    BY <1>3 DEF CanCashout
<1>6. CashoutTicket(b, m, amount, split)
        = [t EXCEPT !.amount = amount, !.payout = removed, !.slices = cash, !.by = m]
    BY DEF CashoutTicket
<1>7. RemainingTicket(b, amount, split).payout = t.payout - removed
    BY <1>2 DEF RemainingTicket, Ticket
<1>8. \A n \in MMs : t.slices[n] \in Slice
    BY <1>2 DEF Ticket
<1>9. \A n \in MMs : cash[n].amount = split[n] /\ cash[n].odds = t.slices[n].odds
    BY <1>8 DEF CashedSlice, Slice
<1>. HIDE DEF t, cash, removed
<1>10. ticket'[c].payout = removed /\ ticket'[c].slices = cash
    BY <1>2, <1>4, <1>6 DEF Ticket
<1>11. Payouts(ticket'[c]) = [n \in MMs |-> Payout(split[n], t.slices[n].odds)]
    BY <1>9, <1>10 DEF Payouts
<1>12. removed = Total([n \in MMs |-> Payout(split[n], t.slices[n].odds)])
    BY DEF removed, PayoutRemoved
<1>. QED
    BY <1>4, <1>5, <1>7, <1>10, <1>11, <1>12 DEF t

\* A revert gives back what the cashout took.
LEMMA RevertPayout ==
    ASSUME TypeOK, SliceInv, NEW b \in Bets, RevertCashout(b)
    PROVE  LET co == ticket[escrow[b].cash] IN
           /\ Payouts(ticket'[b]) = MergedPayouts(ticket[b], co)
           /\ ticket'[b].payout = ticket[b].payout + co.payout
<1>. DEFINE e == escrow[b]
            t == ticket[b]
            co == ticket[e.cash]
            new == Restored(t, co)
<1>1. EscrowLive(b) /\ e.cash \in Cashouts /\ b \in Tickets
    BY RevertTickets, Zenon DEF RevertCashout, Tickets
<1>2. /\ co.payout = e.removed /\ co.fillers = t.fillers /\ t \in Ticket /\ co \in Ticket
      /\ e.cash \in Tickets /\ b # e.cash
    BY <1>1, CustodyAssumption DEF SliceInv, LinkInv, EscrowLinked, TypeOK, Tickets
<1>3. ticket'[b] = [t EXCEPT !.amount = @ + e.amount, !.payout = @ + e.removed,
                             !.slices = new,
                             !.result = IF @ = "RolledBack" THEN @ ELSE "Pending"]
    BY <1>1, <1>2 DEF RevertCashout, TypeOK
<1>4. ASSUME NEW m \in MMs
      PROVE  Payout(new[m].amount, new[m].odds)
               = Payout(t.slices[m].amount + co.slices[m].amount, t.slices[m].odds)
  <2>1. m \notin Range(t.fillers) =>
              /\ t.slices[m].amount = 0 /\ t.slices[m].reserved = 0
              /\ co.slices[m].amount = 0 /\ co.slices[m].reserved = 0
      BY <1>1, <1>2 DEF SliceInv, UnusedEmpty
  <2>2. new[m].odds \in Odd /\ t.slices[m].odds \in Odd /\ new[m].amount \in Nat
        /\ t.slices[m].amount \in Nat /\ co.slices[m].amount \in Nat
    <3>1. new \in [MMs -> Slice]
        BY <1>2, RestoredType
    <3>2. t.slices[m] \in Slice /\ co.slices[m] \in Slice
        BY <1>2 DEF Ticket
    <3>. QED
        BY <3>1, <3>2, SliceFields
  <2>. HIDE DEF t, co
  <2>3. Merges(t.slices[m], co.slices[m], new[m])
      BY <1>2, <2>1, RestoredMerges
  <2>. HIDE DEF new
  <2>4. /\ new[m].amount = t.slices[m].amount + co.slices[m].amount
        /\ new[m].amount > 0 => new[m].odds = t.slices[m].odds
      BY <2>3 DEF Merges
  <2>5. Payout(0, new[m].odds) = 0 /\ Payout(0, t.slices[m].odds) = 0
      BY <2>2, ScaleAssumption DEF Payout, Odd
  <2>6. CASE new[m].amount > 0
      BY <2>4, <2>6
  <2>7. CASE new[m].amount = 0
      BY <2>4, <2>5, <2>7
  <2>. QED
      BY <2>2, <2>6, <2>7
<1>. HIDE DEF e, t, co, new
<1>5. ticket'[b].slices = new /\ ticket'[b].payout = t.payout + co.payout
    BY <1>2, <1>3 DEF Ticket
<1>6. Payouts(ticket'[b]) = MergedPayouts(t, co)
    BY <1>4, <1>5 DEF Payouts, MergedPayouts
<1>. QED
    BY <1>5, <1>6 DEF e, t, co

\* What a cashout leaves the bet covers the remaining slices, although the
\* removed payout is rounded down for every slice.
LEMMA CashoutCovered ==
    ASSUME TypeOK, TypeOK', PayoutInv, NEW b \in Bets, NEW c \in Cashouts, NEW m \in MMs,
           NEW payment \in Payments, NEW amount \in 1..ticket[b].amount,
           CashoutBet(b, c, m, amount, payment), ticket'[b] # NoTicket
    PROVE  /\ Total(Payouts(ticket'[b])) <= ticket'[b].payout
           /\ Total(MergedPayouts(ticket'[b], ticket'[c])) <= ticket'[b].payout + ticket'[c].payout
<1>. DEFINE t == ticket[b]
            x == ticket'[b]
            y == ticket'[c]
<1>1. /\ b \in Tickets /\ c \in Tickets /\ t \in Ticket /\ x \in Ticket /\ y \in Ticket
    BY DEF TypeOK, Tickets
<1>2. PICK rest \in [MMs -> Slice] : CashoutSlices(b, c, rest)
    BY CashoutDivides
<1>3. /\ Total(Payouts(y)) = y.payout
      /\ x.payout = t.payout - y.payout
    BY CashoutPayout
<1>4. x.slices = rest /\ \A n \in MMs : Divides(t.slices[n], y.slices[n], x.slices[n])
    BY <1>2 DEF CashoutSlices
<1>5. Total(Payouts(t)) <= t.payout
    BY <1>1 DEF PayoutInv, PayoutsCovered
<1>. HIDE DEF t, x, y
<1>6. ASSUME NEW n \in MMs
      PROVE  /\ Payouts(y)[n] + Payouts(x)[n] <= Payouts(t)[n]
             /\ MergedPayouts(x, y)[n] = Payouts(t)[n]
  <2>1. t.slices[n] \in Slice /\ x.slices[n] \in Slice /\ y.slices[n] \in Slice
      BY <1>1 DEF Ticket
  <2>2. /\ t.slices[n].amount \in Nat /\ t.slices[n].odds \in Odd
        /\ x.slices[n].amount \in Nat /\ y.slices[n].amount \in Nat
      BY <2>1, SliceFields
  <2>3. /\ y.slices[n].amount + x.slices[n].amount = t.slices[n].amount
        /\ x.slices[n].odds = t.slices[n].odds /\ y.slices[n].odds = t.slices[n].odds
      BY <1>4 DEF Divides
  <2>4. Payout(y.slices[n].amount, t.slices[n].odds) + Payout(x.slices[n].amount, t.slices[n].odds)
          <= Payout(y.slices[n].amount + x.slices[n].amount, t.slices[n].odds)
      BY <2>2, PayoutSuperadditive
  <2>5. x.slices[n].amount + y.slices[n].amount = t.slices[n].amount
      BY <2>2, <2>3
  <2>. QED
      BY <2>3, <2>4, <2>5 DEF Payouts, MergedPayouts
<1>7. /\ Payouts(t) \in [MMs -> Nat] /\ Payouts(x) \in [MMs -> Nat] /\ Payouts(y) \in [MMs -> Nat]
      /\ MergedPayouts(x, y) \in [MMs -> Nat]
      /\ Total(Payouts(t)) \in Nat /\ Total(Payouts(x)) \in Nat /\ Total(Payouts(y)) \in Nat
    BY <1>1, PayoutsType
<1>8. Total(Payouts(y)) + Total(Payouts(x)) <= Total(Payouts(t))
  <2>. DEFINE both == [n \in MMs |-> Payouts(y)[n] + Payouts(x)[n]]
  <2>1. both \in [MMs -> Nat]
      BY <1>7
  <2>2. \A n \in MMs : both[n] = Payouts(y)[n] + Payouts(x)[n]
      OBVIOUS
  <2>. HIDE DEF both
  <2>3. Total(both) = Total(Payouts(y)) + Total(Payouts(x))
      BY <1>7, <2>1, <2>2, TotalSum, CustodyAssumption
  <2>4. Total(both) <= Total(Payouts(t))
      BY <1>6, <1>7, <2>1, <2>2, TotalMonotone, CustodyAssumption
  <2>. QED
      BY <2>3, <2>4
<1>9. MergedPayouts(x, y) = Payouts(t)
    BY <1>6, <1>7
<1>10. t.payout \in Nat /\ x.payout \in Nat /\ y.payout \in Nat
    BY <1>1 DEF Ticket
<1>11. Total(Payouts(x)) <= x.payout
    BY <1>3, <1>5, <1>7, <1>8, <1>10
<1>12. Total(MergedPayouts(x, y)) <= x.payout + y.payout
    BY <1>3, <1>5, <1>7, <1>9, <1>10
<1>. QED
    BY <1>11, <1>12 DEF x, y

\* Every step leaves every ticket a payout that covers its slices.
LEMMA PayoutsCoveredNext ==
    ASSUME TypeOK, TypeOK', PayoutInv, [Next]_vars, NEW k \in Tickets
    PROVE  Total(Payouts(ticket'[k])) <= ticket'[k].payout
<1>1. ticket \in [Tickets -> Ticket] /\ Total(Payouts(ticket[k])) <= ticket[k].payout
    BY DEF TypeOK, PayoutInv, PayoutsCovered
<1>2. ASSUME \/ ticket'[k] = ticket[k]
             \/ ticket'[k] = NoTicket
             \/ /\ Payouts(ticket'[k]) = Payouts(ticket[k])
                /\ ticket'[k].payout = ticket[k].payout
      PROVE  Total(Payouts(ticket'[k])) <= ticket'[k].payout
    BY <1>1, <1>2, PayoutNone
<1>3. CASE Quiet
    BY <1>2, <1>3, QuietSteps
<1>4. CASE \E b \in Bets : FillStep(b)
  <2>1. PICK b \in Bets : FillStep(b)
      BY <1>4
  <2>2. CASE k = b
    <3>1. Total(Payouts(ticket'[k])) = ticket'[k].payout /\ ticket'[k] \in Ticket
        BY <2>1, <2>2, FillPayout DEF TypeOK
    <3>2. ticket'[k].payout \in Nat
        BY <3>1 DEF Ticket
    <3>. QED
        BY <3>1, <3>2
  <2>3. CASE k # b
    <3>1. ticket'[k] = ticket[k]
        BY <2>1, <2>3, FillSlices
    <3>. QED
        BY <1>2, <3>1
  <2>. QED
      BY <2>2, <2>3
<1>5. CASE \E b \in Bets : CashoutStep(b)
  <2>1. PICK b \in Bets, c \in Cashouts, m \in MMs, payment \in Payments :
            \E amount \in 1..ticket[b].amount : CashoutBet(b, c, m, amount, payment)
      BY <1>5 DEF CashoutStep
  <2>2. CASE k = c
    <3>1. Total(Payouts(ticket'[k])) = ticket'[k].payout
        BY <2>1, <2>2, CashoutPayout
    <3>2. ticket'[k].payout \in Nat
        BY DEF TypeOK, Ticket
    <3>. QED
        BY <3>1, <3>2
  <2>3. CASE k = b
    <3>1. CASE ticket'[b] = NoTicket
        BY <1>2, <2>3, <3>1
    <3>2. CASE ticket'[b] # NoTicket
        BY <2>1, <2>3, <3>2, CashoutCovered
    <3>. QED
        BY <3>1, <3>2
  <2>4. CASE k \notin {b, c}
    <3>0. CashoutEffect(b, c, m, payment)
        BY <2>1, CashoutTickets
    <3>1. ticket'[k] = ticket[k]
        BY <2>4, <3>0 DEF CashoutEffect
    <3>. QED
        BY <1>2, <3>1
  <2>. QED
      BY <2>2, <2>3, <2>4
<1>6. CASE \E b \in Bets : ClaimCashoutEscrow(b)
    BY <1>1, <1>2, <1>6, ClaimTickets
<1>7. CASE \E b \in Bets : RevertCashout(b)
  <2>1. PICK b \in Bets : RevertCashout(b)
      BY <1>7
  <2>. DEFINE c == escrow[b].cash
  <2>2. /\ ticket'[c] = NoTicket
        /\ \A n \in Tickets \ {b, c} : ticket'[n] = ticket[n]
      BY <2>1, RevertTickets
  <2>3. CASE k = b
    <3>1. EscrowLive(b)
        BY <2>1 DEF RevertCashout
    <3>. QED
        BY <2>1, <2>3, <3>1, RevertPayout DEF PayoutInv, MergedPayoutsCovered
  <2>. QED
      BY <1>2, <2>2, <2>3
<1>8. CASE \E n \in Tickets, result \in Grades : GradeBet(n, result)
  <2>1. PICK n \in Tickets, result \in Grades : GradeBet(n, result)
      BY <1>8
  <2>2. CASE k = n
    <3>1. ticket'[k] = [ticket[k] EXCEPT !.result = result] /\ ticket[k] \in Ticket
        BY <1>1, <2>1, <2>2, GradeTicket
    <3>2. ticket'[k].slices = ticket[k].slices /\ ticket'[k].payout = ticket[k].payout
        BY <3>1 DEF Ticket
    <3>. QED
        BY <1>2, <3>2 DEF Payouts
  <2>3. CASE k # n
      BY <1>2, <2>1, <2>3, GradeTicket
  <2>. QED
      BY <2>2, <2>3
<1>9. CASE \E n \in Tickets : SettleBet(n)
    BY <1>1, <1>2, <1>9, SettleTicket
<1>. QED
    BY <1>3, <1>4, <1>5, <1>6, <1>7, <1>8, <1>9, StepKinds

\* Every step leaves the two tickets of a live escrow payouts that cover the
\* slices a revert would merge.
LEMMA MergedCoveredNext ==
    ASSUME TypeOK, TypeOK', PayoutInv, [Next]_vars, NEW b \in Bets, EscrowLive(b)'
    PROVE  LET co == ticket'[escrow'[b].cash] IN
           Total(MergedPayouts(ticket'[b], co)) <= ticket'[b].payout + co.payout
<1>1. CASE EscrowLive(b)
  <2>. DEFINE c == escrow[b].cash
  <2>1. SameEscrow(b) /\ OnlyGraded(b) /\ OnlyGraded(c)
    <3>1. escrow'[b] # NoEscrow
        BY DEF EscrowLive, NoEscrow
    <3>. QED
        BY <1>1, <3>1, LinkedEscrowStep DEF PayoutInv, SliceInv
  <2>2. /\ b \in Tickets /\ c \in Tickets
        /\ ticket[b] \in Ticket /\ ticket[c] \in Ticket /\ escrow'[b].cash = c
      BY <1>1, <2>1 DEF TypeOK, Escrow, Tickets, EscrowLive, SameEscrow
  <2>3. ticket'[b].slices = ticket[b].slices /\ ticket'[b].payout = ticket[b].payout
      BY <2>1, <2>2 DEF OnlyGraded, Ticket
  <2>4. ticket'[c].slices = ticket[c].slices /\ ticket'[c].payout = ticket[c].payout
      BY <2>1, <2>2 DEF OnlyGraded, Ticket
  <2>5. Total(MergedPayouts(ticket[b], ticket[c])) <= ticket[b].payout + ticket[c].payout
      BY <1>1 DEF PayoutInv, MergedPayoutsCovered
  <2>. HIDE DEF c
  <2>6. MergedPayouts(ticket'[b], ticket'[c]) = MergedPayouts(ticket[b], ticket[c])
      BY <2>3, <2>4 DEF MergedPayouts
  <2>. QED
      BY <2>2, <2>3, <2>4, <2>5, <2>6
<1>2. CASE ~EscrowLive(b)
  <2>1. PICK c \in Cashouts, n \in MMs, payment \in Payments :
            /\ \E amount \in 1..ticket[b].amount : CashoutBet(b, c, n, amount, payment)
            /\ CashoutEffect(b, c, n, payment) /\ NeedsDelay(b, n)
      BY <1>2, NewEscrowStep
  <2>2. escrow'[b].cash = c /\ ticket'[b].result \in {"Pending", "CashedOut"}
      BY <2>1 DEF CashoutEffect, NeedsDelay
  <2>3. ticket'[b] # NoTicket
      BY <2>2 DEF NoTicket
  <2>. QED
      BY <2>1, <2>2, <2>3, CashoutCovered
<1>. QED
    BY <1>1, <1>2

\* Every step keeps the invariant.
LEMMA PayoutNext ==
    ASSUME EventGroups \subseteq {MMs}, TypeOK, PayoutInv, [Next]_vars
    PROVE  PayoutInv'
<1>1. TypeOK' /\ SliceInv'
    BY NextType, SliceNext DEF PayoutInv
<1>2. PayoutsCovered'
    BY <1>1, PayoutsCoveredNext DEF PayoutsCovered
<1>3. MergedPayoutsCovered'
    BY <1>1, MergedCoveredNext DEF MergedPayoutsCovered
<1>. QED
    BY <1>1, <1>2, <1>3 DEF PayoutInv

\* Initially there are no tickets.
LEMMA PayoutInit ==
    ASSUME Init PROVE PayoutInv
<1>1. \A k \in Tickets : ticket[k] = NoTicket
    BY DEF Init
<1>2. PayoutsCovered
    BY <1>1, PayoutNone DEF PayoutsCovered
<1>3. MergedPayoutsCovered
  <2>1. \A b \in Bets : ~EscrowLive(b)
      BY DEF Init, EscrowLive, NoEscrow
  <2>. QED
      BY <2>1 DEF MergedPayoutsCovered
<1>. QED
    BY <1>2, <1>3, SliceInit DEF PayoutInv

-----------------------------------------------------------------------------
(* The position of an MM on a bet id.  A claim closes a bet that is empty, *)
(* a live cashout divides a bet between its two tickets and a revert merges*)
(* them again.                                                             *)

\* What ticket t adds to the position of MM m on bet id b.
StakeOn(t, b, m) == IF t.key = b THEN t.slices[m].amount ELSE 0
ReserveOn(t, b, m) == IF t.key = b THEN t.slices[m].reserved ELSE 0

\* Both are natural numbers, and nothing for a closed ticket.
LEMMA OnType ==
    ASSUME NEW b, NEW m \in MMs
    PROVE  /\ \A t \in Ticket : StakeOn(t, b, m) \in Nat /\ ReserveOn(t, b, m) \in Nat
           /\ StakeOn(NoTicket, b, m) = 0 /\ ReserveOn(NoTicket, b, m) = 0
<1>1. \A t \in Ticket : t.slices[m] \in Slice
    BY DEF Ticket
<1>2. \A t \in Ticket : t.slices[m].amount \in Nat /\ t.slices[m].reserved \in Nat
    BY <1>1, SliceFields
<1>3. NoTicket.slices[m].amount = 0 /\ NoTicket.slices[m].reserved = 0
    BY DEF NoTicket, NoSlice
<1>. QED
    BY <1>2, <1>3 DEF StakeOn, ReserveOn

\* A step that changes two tickets and keeps the sum of what they add keeps
\* the position.
LEMMA PositionMoves ==
    ASSUME TypeOK, TypeOK', NEW b \in Bets, NEW m \in MMs,
           NEW x \in Tickets, NEW y \in Tickets, x # y,
           \A k \in Tickets \ {x, y} : ticket'[k] = ticket[k],
           StakeOn(ticket'[x], b, m) + StakeOn(ticket'[y], b, m)
               = StakeOn(ticket[x], b, m) + StakeOn(ticket[y], b, m),
           ReserveOn(ticket'[x], b, m) + ReserveOn(ticket'[y], b, m)
               = ReserveOn(ticket[x], b, m) + ReserveOn(ticket[y], b, m)
    PROVE  /\ PositionStake(b, m)' = PositionStake(b, m)
           /\ PositionReserve(b, m)' = PositionReserve(b, m)
<1>. DEFINE f == [k \in Tickets |-> StakeOn(ticket[k], b, m)]
            f2 == [k \in Tickets |-> StakeOn(ticket'[k], b, m)]
            g == [k \in Tickets |-> ReserveOn(ticket[k], b, m)]
            g2 == [k \in Tickets |-> ReserveOn(ticket'[k], b, m)]
<1>1. \A k \in Tickets : ticket[k] \in Ticket /\ ticket'[k] \in Ticket
    BY DEF TypeOK
<1>2. /\ f \in [Tickets -> Nat] /\ f2 \in [Tickets -> Nat]
      /\ g \in [Tickets -> Nat] /\ g2 \in [Tickets -> Nat]
    BY <1>1, OnType
<1>3. \A k \in Tickets \ {x, y} : f2[k] = f[k] /\ g2[k] = g[k]
    OBVIOUS
<1>4. f[x] + f[y] = f2[x] + f2[y] /\ g[x] + g[y] = g2[x] + g2[y]
    OBVIOUS
<1>5. /\ PositionStake(b, m) = Total(f) /\ PositionReserve(b, m) = Total(g)
    BY DEF PositionStake, PositionReserve, StakeOn, ReserveOn
<1>6. /\ PositionStake(b, m)' = Total(f2) /\ PositionReserve(b, m)' = Total(g2)
    BY DEF PositionStake, PositionReserve, StakeOn, ReserveOn
<1>7. IsFiniteSet(Tickets)
    BY CustodyAssumption, FS_Union DEF Tickets
<1>. HIDE DEF f, f2, g, g2
<1>8. Total(f2) = Total(f)
    BY <1>2, <1>3, <1>4, <1>7, TotalExchange
<1>9. Total(g2) = Total(g)
    BY <1>2, <1>3, <1>4, <1>7, TotalExchange
<1>. QED
    BY <1>5, <1>6, <1>8, <1>9

\* An escrow ends only by a claim or by a revert.
LEMMA EndedEscrowStep ==
    ASSUME TypeOK, LinkInv, [Next]_vars, NEW b \in Bets, EscrowLive(b), ~EscrowLive(b)'
    PROVE  ClaimCashoutEscrow(b) \/ RevertCashout(b)
<1>1. escrow \in [Bets -> Escrow]
    BY DEF TypeOK
<1>2. ~Quiet
    BY QuietSteps DEF EscrowLive
<1>3. ~\E x \in Bets : FillStep(x)
    BY FillTicket DEF EscrowLive
<1>4. ~\E x \in Bets : CashoutStep(x)
  <2>. SUFFICES ASSUME NEW x \in Bets, NEW c \in Cashouts, NEW m \in MMs,
                       NEW payment \in Payments, NEW amount \in 1..ticket[x].amount,
                       CashoutBet(x, c, m, amount, payment)
                PROVE  FALSE
      BY DEF CashoutStep
  <2>1. CashoutEffect(x, c, m, payment)
      BY CashoutTickets
  <2>2. CASE NeedsDelay(x, m)
    <3>1. escrow'[b].cash = c \/ escrow'[b] = escrow[b]
        BY <2>1, <2>2 DEF CashoutEffect
    <3>. QED
        BY <3>1, CustodyAssumption DEF EscrowLive, Tickets
  <2>3. CASE ~NeedsDelay(x, m)
      BY <2>1, <2>3 DEF CashoutEffect, EscrowLive
  <2>. QED
      BY <2>2, <2>3
<1>5. ~\E k \in Tickets, result \in Grades : GradeBet(k, result)
    BY GradeTicket DEF EscrowLive
<1>6. ~\E k \in Tickets : SettleBet(k)
    BY SettleTicket DEF EscrowLive
<1>7. CASE \E x \in Bets : ClaimCashoutEscrow(x)
    BY <1>1, <1>7, ClaimTickets DEF EscrowLive
<1>8. CASE \E x \in Bets : RevertCashout(x)
    BY <1>1, <1>8, RevertTickets DEF EscrowLive
<1>. QED
    BY <1>2, <1>3, <1>4, <1>5, <1>6, <1>7, <1>8, StepKinds

\* A live cashout divides the bet between the two tickets of its escrow.
LEMMA OpeningKeeps ==
    ASSUME TypeOK, TypeOK', LinkInv, [Next]_vars, NEW b \in Bets, ~EscrowLive(b), EscrowLive(b)',
           NEW m \in MMs
    PROVE  /\ PositionStake(b, m)' = PositionStake(b, m)
           /\ PositionReserve(b, m)' = PositionReserve(b, m)
<1>1. PICK c \in Cashouts, n \in MMs, payment \in Payments :
          /\ \E amount \in 1..ticket[b].amount : CashoutBet(b, c, n, amount, payment)
          /\ CashoutEffect(b, c, n, payment) /\ NeedsDelay(b, n)
    BY NewEscrowStep
<1>2. PICK rest \in [MMs -> Slice] : CashoutSlices(b, c, rest)
    BY <1>1, CashoutDivides
<1>3. /\ b \in Tickets /\ c \in Tickets /\ b # c
      /\ \A k \in Tickets : ticket[k] \in Ticket /\ ticket'[k] \in Ticket
    BY CustodyAssumption DEF Tickets, TypeOK
<1>4. /\ Exists(b) /\ ticket[b].key = b /\ ticket[c] = NoTicket
  <2>1. ticket[b].result = "Pending" /\ ~Exists(c)
      BY <1>1 DEF CashoutEffect
  <2>. QED
      BY <1>3, <2>1 DEF Exists, LinkInv, Accounts, AbsentIsEmpty, BetsKeyed
<1>5. /\ ticket'[b] # NoTicket /\ ticket'[b].key = b /\ ticket'[c].key = b
      /\ \A k \in Tickets \ {b, c} : ticket'[k] = ticket[k]
    BY <1>1, <1>4 DEF CashoutEffect, NeedsDelay, NoTicket
<1>6. ticket'[b].slices = rest /\ Divides(ticket[b].slices[m], ticket'[c].slices[m], rest[m])
    BY <1>2, <1>5 DEF CashoutSlices
<1>7. /\ ticket'[c].slices[m].amount + ticket'[b].slices[m].amount = ticket[b].slices[m].amount
      /\ ticket'[c].slices[m].reserved + ticket'[b].slices[m].reserved
           = ticket[b].slices[m].reserved
    BY <1>6 DEF Divides
<1>8. /\ StakeOn(ticket'[c], b, m) + StakeOn(ticket'[b], b, m) = StakeOn(ticket[b], b, m)
      /\ ReserveOn(ticket'[c], b, m) + ReserveOn(ticket'[b], b, m) = ReserveOn(ticket[b], b, m)
    BY <1>4, <1>5, <1>7 DEF StakeOn, ReserveOn
<1>9. /\ StakeOn(ticket[c], b, m) = 0 /\ ReserveOn(ticket[c], b, m) = 0
      /\ StakeOn(ticket[b], b, m) \in Nat /\ ReserveOn(ticket[b], b, m) \in Nat
    BY <1>3, <1>4, OnType
<1>10. /\ StakeOn(ticket'[c], b, m) + StakeOn(ticket'[b], b, m)
            = StakeOn(ticket[c], b, m) + StakeOn(ticket[b], b, m)
       /\ ReserveOn(ticket'[c], b, m) + ReserveOn(ticket'[b], b, m)
            = ReserveOn(ticket[c], b, m) + ReserveOn(ticket[b], b, m)
    BY <1>8, <1>9
<1>. QED
    BY <1>3, <1>5, <1>10, PositionMoves

\* A claim closes the bet only when the cashout took all of it.
LEMMA ClaimingKeeps ==
    ASSUME TypeOK, TypeOK', SliceInv, CashedOutWaits, NEW b \in Bets, ClaimCashoutEscrow(b),
           NEW m \in MMs
    PROVE  /\ PositionStake(b, m)' = PositionStake(b, m)
           /\ PositionReserve(b, m)' = PositionReserve(b, m)
<1>. DEFINE c == escrow[b].cash
<1>1. /\ b \in Tickets /\ c \in Tickets /\ b # c
      /\ ticket[b] \in Ticket /\ ticket \in [Tickets -> Ticket]
  <2>1. EscrowLive(b) /\ escrow[b] \in Escrow
      BY DEF ClaimCashoutEscrow, TypeOK
  <2>. QED
      BY <2>1, CustodyAssumption DEF EscrowLive, Escrow, Tickets, TypeOK
<1>2. CASE ticket'[b] = ticket[b] /\ \A k \in Tickets : ticket'[k] = ticket[k]
    BY <1>1, <1>2, PositionMoves
<1>3. CASE ticket[b].result = "CashedOut" /\ ticket' = [ticket EXCEPT ![b] = NoTicket]
  <2>1. ticket[b].amount = 0
      BY <1>3 DEF CashedOutWaits
  <2>2. Stakes(ticket[b].slices) \in [MMs -> Nat] /\ Total(Stakes(ticket[b].slices)) = 0
    <3>1. Stakes(ticket[b].slices) \in [MMs -> Nat]
      <4>1. \A n \in MMs : ticket[b].slices[n] \in Slice
          BY <1>1 DEF Ticket
      <4>2. \A n \in MMs : ticket[b].slices[n].amount \in Nat
          BY <4>1, SliceFields
      <4>. QED
          BY <4>2 DEF Stakes
    <3>2. GoodSlices(ticket[b])
        BY <1>1, GoodEverywhere DEF SliceInv
    <3>. QED
        BY <2>1, <3>1, <3>2 DEF GoodSlices
  <2>3. Stakes(ticket[b].slices)[m] <= 0 /\ Stakes(ticket[b].slices)[m] \in Nat
      BY <2>2, TotalMember, CustodyAssumption
  <2>4. ticket[b].slices[m].amount = 0
      BY <2>3 DEF Stakes
  <2>5. ticket[b].slices[m].reserved = 0
      BY <1>1, <2>4 DEF SliceInv, ReserveCoversProfit
  <2>6. StakeOn(ticket[b], b, m) = 0 /\ ReserveOn(ticket[b], b, m) = 0
      BY <2>4, <2>5 DEF StakeOn, ReserveOn
  <2>7. /\ StakeOn(ticket'[b], b, m) = 0 /\ ReserveOn(ticket'[b], b, m) = 0
        /\ \A k \in Tickets \ {b} : ticket'[k] = ticket[k]
      BY <1>1, <1>3, OnType
  <2>8. /\ StakeOn(ticket'[b], b, m) + StakeOn(ticket'[c], b, m)
              = StakeOn(ticket[b], b, m) + StakeOn(ticket[c], b, m)
        /\ ReserveOn(ticket'[b], b, m) + ReserveOn(ticket'[c], b, m)
              = ReserveOn(ticket[b], b, m) + ReserveOn(ticket[c], b, m)
      BY <1>1, <2>6, <2>7
  <2>. HIDE DEF c
  <2>. QED
      BY <1>1, <2>7, <2>8, PositionMoves
<1>. QED
    BY <1>2, <1>3, ClaimTickets

\* A revert merges the two tickets of the escrow.
LEMMA RevertingKeeps ==
    ASSUME TypeOK, TypeOK', SliceInv, NEW b \in Bets, RevertCashout(b), NEW m \in MMs
    PROVE  /\ PositionStake(b, m)' = PositionStake(b, m)
           /\ PositionReserve(b, m)' = PositionReserve(b, m)
<1>. DEFINE e == escrow[b]
            c == e.cash
            t == ticket[b]
            co == ticket[c]
            new == Restored(t, co)
<1>1. /\ EscrowLive(b) /\ c \in Cashouts /\ b \in Tickets /\ Exists(b)
      /\ ticket'[c] = NoTicket /\ ticket'[b].key = t.key
      /\ \A k \in Tickets \ {b, c} : ticket'[k] = ticket[k]
    BY RevertTickets, Zenon DEF RevertCashout, Tickets
<1>2. /\ co.fillers = t.fillers /\ co.key = b /\ t \in Ticket /\ co \in Ticket
      /\ c \in Tickets /\ b # c
    BY <1>1, CustodyAssumption, SMTT(30) DEF SliceInv, LinkInv, EscrowLinked, TypeOK, Tickets
<1>3. ticket'[b] = [t EXCEPT !.amount = @ + e.amount, !.payout = @ + e.removed,
                             !.slices = new,
                             !.result = IF @ = "RolledBack" THEN @ ELSE "Pending"]
    BY <1>1, <1>2 DEF RevertCashout, TypeOK
<1>4. t.key = b
    BY <1>1 DEF SliceInv, LinkInv, Accounts, BetsKeyed
<1>5. Merges(t.slices[m], co.slices[m], new[m])
  <2>1. m \notin Range(t.fillers) =>
              /\ t.slices[m].amount = 0 /\ t.slices[m].reserved = 0
              /\ co.slices[m].amount = 0 /\ co.slices[m].reserved = 0
      BY <1>1, <1>2 DEF SliceInv, UnusedEmpty
  <2>. HIDE DEF t, co
  <2>. QED
      BY <1>2, <2>1, RestoredMerges
<1>. HIDE DEF e, c, t, co, new
<1>6. ticket'[b].slices = new
    BY <1>2, <1>3 DEF Ticket
<1>7. /\ StakeOn(ticket'[b], b, m) = StakeOn(t, b, m) + StakeOn(co, b, m)
      /\ ReserveOn(ticket'[b], b, m) = ReserveOn(t, b, m) + ReserveOn(co, b, m)
    BY <1>1, <1>2, <1>4, <1>5, <1>6 DEF StakeOn, ReserveOn, Merges
<1>8. StakeOn(ticket'[c], b, m) = 0 /\ ReserveOn(ticket'[c], b, m) = 0
    BY <1>1, OnType
<1>9. /\ StakeOn(t, b, m) \in Nat /\ StakeOn(co, b, m) \in Nat
      /\ ReserveOn(t, b, m) \in Nat /\ ReserveOn(co, b, m) \in Nat
    BY <1>2, OnType
<1>10. /\ StakeOn(ticket'[b], b, m) + StakeOn(ticket'[c], b, m)
            = StakeOn(t, b, m) + StakeOn(co, b, m)
       /\ ReserveOn(ticket'[b], b, m) + ReserveOn(ticket'[c], b, m)
            = ReserveOn(t, b, m) + ReserveOn(co, b, m)
    BY <1>7, <1>8, <1>9
<1>. QED
    BY <1>1, <1>2, <1>10, PositionMoves, SMTT(30) DEF t, co

\* When the MMs agree on the event, opening, claiming and reverting a live
\* cashout change neither the stake nor the reservation an MM has on a bet id,
\* and no step leaves a ticket a payout that its slices exceed: a cashout
\* never fails because the rounded payouts removed before it were too large.
THEOREM PositionKeeping ==
    ASSUME EventGroups \subseteq {MMs}
    PROVE  Spec => CashoutsKeepPosition
<1>. DEFINE Inv == TypeOK /\ PayoutInv /\ CashedOutWaits
            Kept(b) ==
                escrow'[b].cash # escrow[b].cash =>
                    \A m \in MMs : /\ PositionStake(b, m)' = PositionStake(b, m)
                                   /\ PositionReserve(b, m)' = PositionReserve(b, m)
<1>1. Init => Inv
  <2>1. Init => \A b \in Bets : ticket[b].result = "Absent"
      BY DEF Init, NoTicket, Tickets
  <2>. QED
      BY <2>1, InitType, PayoutInit DEF CashedOutWaits
<1>2. Inv /\ [Next]_vars => Inv'
    BY NextType, PayoutNext, WaitsNext
<1>3. ASSUME Inv, Inv', [Next]_vars, NEW b \in Bets PROVE Kept(b)
  <2>. SUFFICES ASSUME escrow'[b].cash # escrow[b].cash, NEW m \in MMs
                PROVE  /\ PositionStake(b, m)' = PositionStake(b, m)
                       /\ PositionReserve(b, m)' = PositionReserve(b, m)
      OBVIOUS
  <2>1. SliceInv /\ LinkInv
      BY <1>3 DEF PayoutInv, SliceInv
  <2>2. CASE ~EscrowLive(b) /\ EscrowLive(b)'
      BY <1>3, <2>1, <2>2, OpeningKeeps
  <2>3. CASE EscrowLive(b) /\ ~EscrowLive(b)'
    <3>1. ClaimCashoutEscrow(b) \/ RevertCashout(b)
        BY <1>3, <2>1, <2>3, EndedEscrowStep
    <3>. QED
        BY <1>3, <2>1, <3>1, ClaimingKeeps, RevertingKeeps
  <2>4. CASE EscrowLive(b) /\ EscrowLive(b)'
    <3>1. escrow'[b] # NoEscrow
        BY <2>4 DEF EscrowLive, NoEscrow
    <3>. QED
        BY <1>3, <2>1, <2>4, <3>1, LinkedEscrowStep DEF SameEscrow
  <2>5. CASE ~EscrowLive(b) /\ ~EscrowLive(b)'
      BY <2>5 DEF EscrowLive
  <2>. QED
      BY <2>2, <2>3, <2>4, <2>5
<1>4. Inv /\ Inv' /\ [Next]_vars =>
          [/\ PayoutCoversSlices'
           /\ \A b \in Bets : Kept(b)]_vars
  <2>. SUFFICES ASSUME Inv, Inv', [Next]_vars
                PROVE  PayoutCoversSlices' /\ \A b \in Bets : Kept(b)
      OBVIOUS
  <2>1. PayoutCoversSlices'
      BY DEF PayoutInv, PayoutsCovered, PayoutCoversSlices, Payouts, OpenTickets
  <2>2. \A b \in Bets : Kept(b)
      BY <1>3
  <2>. QED
      BY <2>1, <2>2
<1>. HIDE DEF Inv
<1>. QED
    BY <1>1, <1>2, <1>4, PTL DEF Spec, CashoutsKeepPosition
=============================================================================
