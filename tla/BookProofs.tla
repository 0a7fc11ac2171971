----------------------------- MODULE BookProofs -----------------------------
(***************************************************************************)
(* The collateral of a market maker: its book holds exactly the profit of  *)
(* its open netted slices, and its encumbrance is exactly the profit of    *)
(* its open unnetted slices plus the peaks of its book, after any sequence *)
(* of fills, cashouts, claims, reverts, grades and settlements; and under  *)
(* truthful grades its liability account covers what it will have to pay.  *)
(* The last part proves that the auction loop, which stages all this fill  *)
(* by fill, commits what FillBet does and takes the best prices on offer.  *)
(***************************************************************************)
EXTENDS SinglesSafety, Auction

-----------------------------------------------------------------------------
(* Books *)

PeakTotal(bk) == Total([mkt \in Mkts |-> Peak(bk.open[mkt])])

\* The peaks of a book are amounts.
LEMMA PeaksType ==
    ASSUME NEW bk \in Book
    PROVE  /\ [mkt \in Mkts |-> Peak(bk.open[mkt])] \in [Mkts -> Nat]
           /\ PeakTotal(bk) \in Nat
<1>1. \A mkt \in Mkts : Peak(bk.open[mkt]) \in Nat
  <2>1. \A mkt \in Mkts : bk.open[mkt] \in [Sides -> Nat]
      BY DEF Book
  <2>. QED
      BY <2>1, PeakType
<1>2. [mkt \in Mkts |-> Peak(bk.open[mkt])] \in [Mkts -> Nat]
    BY <1>1
<1>. QED
    BY <1>2, TotalType, NettingAssumption DEF PeakTotal

\* Changing one market of a book changes the peak total by the peak's change.
LEMMA PeakTotalUpdate ==
    ASSUME NEW bk \in Book, NEW new \in Book, NEW mkt \in Mkts,
           \A mk \in Mkts \ {mkt} : new.open[mk] = bk.open[mk]
    PROVE  PeakTotal(new) = PeakTotal(bk) - Peak(bk.open[mkt]) + Peak(new.open[mkt])
<1>. DEFINE f == [mk \in Mkts |-> Peak(bk.open[mk])]
            g == [mk \in Mkts |-> Peak(new.open[mk])]
<1>1. f \in [Mkts -> Nat] /\ g \in [Mkts -> Nat]
    BY PeaksType
<1>2. \A mk \in Mkts \ {mkt} : g[mk] = f[mk]
    OBVIOUS
<1>3. f[mkt] = Peak(bk.open[mkt]) /\ g[mkt] = Peak(new.open[mkt])
    OBVIOUS
<1>4. PeakTotal(new) = Total(g) /\ PeakTotal(bk) = Total(f)
    BY DEF PeakTotal
<1>. HIDE DEF f, g
<1>. QED
    BY <1>1, <1>2, <1>3, <1>4, TotalUpdate, NettingAssumption

\* Netting a profit adds it to its side of its market, and the rise of the
\* peak to the peaks.
LEMMA NettedOpen ==
    ASSUME NEW bk \in Book, NEW mkt \in Mkts, NEW side \in Sides, NEW profit \in Nat
    PROVE  LET new == Netted(bk, mkt, side, profit) IN
           /\ \A mk \in Mkts, sd \in Sides :
                 new.open[mk][sd] = IF mk = mkt /\ sd = side THEN bk.open[mk][sd] + profit
                                    ELSE bk.open[mk][sd]
           /\ PeakTotal(new) = PeakTotal(bk) + PeakRise(bk, mkt, side, profit)
           /\ new.exists = bk.exists
           /\ new.lines = bk.lines \cup ({mkt} \cap Lines)
<1>. DEFINE new == Netted(bk, mkt, side, profit)
            rise == PeakRise(bk, mkt, side, profit)
<1>1. new \in Book /\ rise \in Nat
    BY NettedBook
<1>2. bk.open \in [Mkts -> [Sides -> Nat]]
    BY DEF Book
<1>3. /\ new.open = [bk.open EXCEPT ![mkt][side] = @ + profit]
      /\ new.exists = bk.exists /\ new.lines = bk.lines \cup ({mkt} \cap Lines)
    BY DEF Netted, Book
<1>4. \A mk \in Mkts, sd \in Sides :
          new.open[mk][sd] = IF mk = mkt /\ sd = side THEN bk.open[mk][sd] + profit
                             ELSE bk.open[mk][sd]
    BY <1>2, <1>3
<1>5. \A mk \in Mkts \ {mkt} : new.open[mk] = bk.open[mk]
    BY <1>2, <1>3
<1>6. rise = Peak(new.open[mkt]) - Peak(bk.open[mkt])
    BY DEF PeakRise
<1>7. Peak(new.open[mkt]) \in Nat /\ Peak(bk.open[mkt]) \in Nat
  <2>1. new.open[mkt] \in [Sides -> Nat] /\ bk.open[mkt] \in [Sides -> Nat]
      BY <1>1 DEF Book
  <2>. QED
      BY <2>1, PeakType
<1>8. PeakTotal(new) \in Nat /\ PeakTotal(bk) \in Nat
    BY <1>1, PeaksType
<1>. HIDE DEF new, rise
<1>9. PeakTotal(new) = PeakTotal(bk) - Peak(bk.open[mkt]) + Peak(new.open[mkt])
    BY <1>1, <1>5, PeakTotalUpdate
<1>10. PeakTotal(new) = PeakTotal(bk) + rise
    BY <1>6, <1>7, <1>8, <1>9
<1>. QED
    BY <1>3, <1>4, <1>10 DEF new, rise

\* Settling a profit takes it out of its side of its market, and the drop of
\* the peak out of the peaks.
LEMMA UnnettedOpen ==
    ASSUME NEW bk \in Book, NEW mkt, NEW side \in Sides, NEW profit \in Nat,
           CanUnnet(bk, mkt, side, profit)
    PROVE  LET new == Unnetted(bk, mkt, side, profit) IN
           /\ \A mk \in Mkts, sd \in Sides :
                 new.open[mk][sd] = IF mk = mkt /\ sd = side THEN bk.open[mk][sd] - profit
                                    ELSE bk.open[mk][sd]
           /\ PeakTotal(new) = PeakTotal(bk) - PeakDrop(bk, mkt, side, profit)
           /\ new.exists = bk.exists /\ new.lines = bk.lines
<1>1. bk.open \in [Mkts -> [Sides -> Nat]] /\ PeakTotal(bk) \in Nat
    BY PeaksType DEF Book
<1>2. CASE profit = 0
  <2>1. Unnetted(bk, mkt, side, profit) = bk /\ PeakDrop(bk, mkt, side, profit) = 0
      BY <1>2 DEF Unnetted, PeakDrop
  <2>. QED
      BY <1>1, <1>2, <2>1
<1>3. CASE profit > 0
  <2>. DEFINE new == Unnetted(bk, mkt, side, profit)
              drop == PeakDrop(bk, mkt, side, profit)
  <2>1. mkt \in Mkts
      BY <1>3 DEF CanUnnet, Book, Mkts
  <2>2. new \in Book /\ drop \in Nat
      BY UnnettedBook
  <2>3. /\ new.open = [bk.open EXCEPT ![mkt][side] = @ - profit]
        /\ new.exists = bk.exists /\ new.lines = bk.lines
      BY <1>3 DEF Unnetted, Book
  <2>4. \A mk \in Mkts, sd \in Sides :
          new.open[mk][sd] = IF mk = mkt /\ sd = side THEN bk.open[mk][sd] - profit
                             ELSE bk.open[mk][sd]
      BY <1>1, <2>1, <2>3
  <2>5. \A mk \in Mkts \ {mkt} : new.open[mk] = bk.open[mk]
      BY <1>1, <2>1, <2>3
  <2>6. drop = Peak(bk.open[mkt]) - Peak(new.open[mkt])
      BY <1>3 DEF PeakDrop
  <2>7. Peak(new.open[mkt]) \in Nat /\ Peak(bk.open[mkt]) \in Nat
    <3>1. new.open[mkt] \in [Sides -> Nat] /\ bk.open[mkt] \in [Sides -> Nat]
        BY <2>1, <2>2 DEF Book
    <3>. QED
        BY <3>1, PeakType
  <2>8. PeakTotal(new) \in Nat
      BY <2>2, PeaksType
  <2>. HIDE DEF new, drop
  <2>9. PeakTotal(new) = PeakTotal(bk) - Peak(bk.open[mkt]) + Peak(new.open[mkt])
      BY <2>1, <2>2, <2>5, PeakTotalUpdate
  <2>10. PeakTotal(new) = PeakTotal(bk) - drop
      BY <1>1, <2>6, <2>7, <2>8, <2>9
  <2>. QED
      BY <2>3, <2>4, <2>10 DEF new, drop
<1>. QED
    BY <1>2, <1>3

\* A flat book has no peaks.
LEMMA FlatPeaks ==
    ASSUME NEW bk \in Book, bk.open = FlatOpen
    PROVE  PeakTotal(bk) = 0
<1>1. \A mkt \in Mkts : Peak(bk.open[mkt]) = 0
    BY DEF FlatOpen, Peak, GreaterOf, Sides
<1>2. [mkt \in Mkts |-> Peak(bk.open[mkt])] \in [Mkts -> Nat]
    BY PeaksType
<1>. QED
    BY <1>1, <1>2, TotalZero DEF PeakTotal

-----------------------------------------------------------------------------
(* Reservations *)

\* What ticket t reserves for MM m without netting, and on one side of one
\* market with it.
UnnettedIn(t, m) == IF t.slices[m].netted THEN 0 ELSE t.slices[m].reserved
NettedIn(t, m, mkt, side) ==
    IF t.slices[m].netted /\ t.mkt = mkt /\ t.side = side THEN t.slices[m].reserved ELSE 0

Unnets(m) == [k \in Tickets |-> UnnettedIn(ticket[k], m)]
Nettings(m, mkt, side) == [k \in Tickets |-> NettedIn(ticket[k], m, mkt, side)]

\* The sums of the invariants, over those.
LEMMA ReserveSums ==
    ASSUME TypeOK, NEW m \in MMs, NEW mkt, NEW side
    PROVE  /\ UnnettedReserve(m) = Total(Unnets(m))
           /\ NettedReserve(m, mkt, side) = Total(Nettings(m, mkt, side))
           /\ Unnets(m) \in [Tickets -> Nat]
           /\ Nettings(m, mkt, side) \in [Tickets -> Nat]
           /\ IsFiniteSet(Tickets)
           /\ UnnettedReserve(m) \in Nat /\ NettedReserve(m, mkt, side) \in Nat
<1>1. UnnettedReserve(m) = Total(Unnets(m))
    BY DEF UnnettedReserve, Unnets, UnnettedIn
<1>2. NettedReserve(m, mkt, side) = Total(Nettings(m, mkt, side))
    BY DEF NettedReserve, Nettings, NettedIn
<1>3. \A k \in Tickets : ticket[k].slices[m].reserved \in Nat
    BY DEF TypeOK, Ticket, Slice
<1>4. Unnets(m) \in [Tickets -> Nat] /\ Nettings(m, mkt, side) \in [Tickets -> Nat]
    BY <1>3 DEF Unnets, UnnettedIn, Nettings, NettedIn
<1>5. IsFiniteSet(Tickets)
    BY FS_Union, CustodyAssumption DEF Tickets
<1>. QED
    BY <1>1, <1>2, <1>4, <1>5, TotalType

\* A step that changes one ticket changes the sums by what it reserves.
LEMMA ReserveChange ==
    ASSUME TypeOK, TypeOK', NEW m \in MMs, NEW mkt, NEW side, NEW k \in Tickets,
           \A n \in Tickets \ {k} : ticket'[n] = ticket[n]
    PROVE  /\ UnnettedReserve(m)' = UnnettedReserve(m)
                - UnnettedIn(ticket[k], m) + UnnettedIn(ticket'[k], m)
           /\ NettedReserve(m, mkt, side)' = NettedReserve(m, mkt, side)
                - NettedIn(ticket[k], m, mkt, side) + NettedIn(ticket'[k], m, mkt, side)
           /\ UnnettedIn(ticket[k], m) \in Nat /\ UnnettedIn(ticket'[k], m) \in Nat
           /\ NettedIn(ticket[k], m, mkt, side) \in Nat
           /\ NettedIn(ticket'[k], m, mkt, side) \in Nat
<1>. DEFINE f == Unnets(m)
            g == [n \in Tickets |-> UnnettedIn(ticket'[n], m)]
            p == Nettings(m, mkt, side)
            q == [n \in Tickets |-> NettedIn(ticket'[n], m, mkt, side)]
<1>1. /\ UnnettedReserve(m) = Total(f) /\ NettedReserve(m, mkt, side) = Total(p)
      /\ f \in [Tickets -> Nat] /\ p \in [Tickets -> Nat] /\ IsFiniteSet(Tickets)
    BY ReserveSums
<1>2. UnnettedReserve(m)' = Total(g)
    BY DEF UnnettedReserve, UnnettedIn
<1>3. NettedReserve(m, mkt, side)' = Total(q)
    BY DEF NettedReserve, NettedIn
<1>4. \A n \in Tickets : ticket'[n].slices[m].reserved \in Nat
    BY DEF TypeOK, Ticket, Slice
<1>5. g \in [Tickets -> Nat] /\ q \in [Tickets -> Nat]
    BY <1>4 DEF UnnettedIn, NettedIn
<1>6. \A n \in Tickets \ {k} : g[n] = f[n] /\ q[n] = p[n]
    BY DEF Unnets, Nettings, UnnettedIn, NettedIn
<1>7. /\ f[k] = UnnettedIn(ticket[k], m) /\ g[k] = UnnettedIn(ticket'[k], m)
      /\ p[k] = NettedIn(ticket[k], m, mkt, side)
      /\ q[k] = NettedIn(ticket'[k], m, mkt, side)
    BY DEF Unnets, Nettings
<1>. HIDE DEF f, g, p, q
<1>8. Total(g) = Total(f) - f[k] + g[k]
    BY <1>1, <1>5, <1>6, TotalUpdate
<1>9. Total(q) = Total(p) - p[k] + q[k]
    BY <1>1, <1>5, <1>6, TotalUpdate
<1>10. f[k] \in Nat /\ g[k] \in Nat /\ p[k] \in Nat /\ q[k] \in Nat
    BY <1>1, <1>5
<1>. QED
    BY <1>1, <1>2, <1>3, <1>7, <1>8, <1>9, <1>10

\* What MM m has reserved is the same after the step, side by side.
ReservesStay(m) ==
    /\ UnnettedReserve(m)' = UnnettedReserve(m)
    /\ \A mkt \in Mkts, side \in Sides :
          NettedReserve(m, mkt, side)' = NettedReserve(m, mkt, side)

\* What two tickets reserve is only moved between them.
Exchange(b, c, m) ==
    /\ UnnettedIn(ticket'[b], m) + UnnettedIn(ticket'[c], m)
         = UnnettedIn(ticket[b], m) + UnnettedIn(ticket[c], m)
    /\ \A mkt \in Mkts, side \in Sides :
          NettedIn(ticket'[b], m, mkt, side) + NettedIn(ticket'[c], m, mkt, side)
            = NettedIn(ticket[b], m, mkt, side) + NettedIn(ticket[c], m, mkt, side)

\* A step that only exchanges reservations between two tickets keeps what an
\* MM has reserved.
LEMMA ExchangeStays ==
    ASSUME TypeOK, TypeOK', NEW m \in MMs, NEW b \in Tickets, NEW c \in Tickets, b # c,
           \A k \in Tickets \ {b, c} : ticket'[k] = ticket[k], Exchange(b, c, m)
    PROVE  ReservesStay(m)
<1>1. \A k \in Tickets : ticket'[k].slices[m].reserved \in Nat
    BY DEF TypeOK, Ticket, Slice
<1>2. UnnettedReserve(m)' = UnnettedReserve(m)
  <2>. DEFINE f == Unnets(m)
              g == [n \in Tickets |-> UnnettedIn(ticket'[n], m)]
  <2>1. /\ UnnettedReserve(m) = Total(f) /\ f \in [Tickets -> Nat] /\ IsFiniteSet(Tickets)
      BY ReserveSums
  <2>2. UnnettedReserve(m)' = Total(g)
      BY DEF UnnettedReserve, UnnettedIn
  <2>3. g \in [Tickets -> Nat]
      BY <1>1 DEF UnnettedIn
  <2>4. \A n \in Tickets \ {b, c} : g[n] = f[n]
      BY DEF Unnets, UnnettedIn
  <2>5. f[b] + f[c] = g[b] + g[c]
      BY DEF Exchange, Unnets
  <2>. HIDE DEF f, g
  <2>6. Total(g) = Total(f)
      BY <2>1, <2>3, <2>4, <2>5, TotalExchange
  <2>. QED
      BY <2>1, <2>2, <2>6
<1>3. ASSUME NEW mkt \in Mkts, NEW side \in Sides
      PROVE  NettedReserve(m, mkt, side)' = NettedReserve(m, mkt, side)
  <2>. DEFINE f == Nettings(m, mkt, side)
              g == [n \in Tickets |-> NettedIn(ticket'[n], m, mkt, side)]
  <2>1. /\ NettedReserve(m, mkt, side) = Total(f) /\ f \in [Tickets -> Nat]
        /\ IsFiniteSet(Tickets)
      BY ReserveSums
  <2>2. NettedReserve(m, mkt, side)' = Total(g)
      BY DEF NettedReserve, NettedIn
  <2>3. g \in [Tickets -> Nat]
      BY <1>1 DEF NettedIn
  <2>4. \A n \in Tickets \ {b, c} : g[n] = f[n]
      BY DEF Nettings, NettedIn
  <2>5. f[b] + f[c] = g[b] + g[c]
      BY DEF Exchange, Nettings
  <2>. HIDE DEF f, g
  <2>6. Total(g) = Total(f)
      BY <2>1, <2>3, <2>4, <2>5, TotalExchange
  <2>. QED
      BY <2>1, <2>2, <2>6
<1>. QED
    BY <1>2, <1>3 DEF ReservesStay

\* A step that keeps the slices of every ticket keeps what is reserved.
LEMMA SlicesStay ==
    ASSUME NEW m \in MMs,
           \A k \in Tickets : /\ ticket'[k].slices = ticket[k].slices
                              /\ ticket'[k].mkt = ticket[k].mkt
                              /\ ticket'[k].side = ticket[k].side
    PROVE  ReservesStay(m)
BY DEF ReservesStay, UnnettedReserve, NettedReserve

\* A ticket without a reservation reserves nothing.
LEMMA NothingIn ==
    ASSUME NEW t, NEW m \in MMs, t = NoTicket \/ t.slices[m].reserved = 0
    PROVE  /\ UnnettedIn(t, m) = 0
           /\ \A mkt \in Mkts, side \in Sides : NettedIn(t, m, mkt, side) = 0
<1>1. t.slices[m].reserved = 0
    BY DEF NoTicket, NoSlice
<1>. QED
    BY <1>1 DEF UnnettedIn, NettedIn

-----------------------------------------------------------------------------
(* Cashouts, claims and reverts only move reservations *)

\* The vault of m reserves the same and its book is untouched.
AccountsStay(m) ==
    /\ vault'[m].enc = vault[m].enc /\ vault'[m].exists = vault[m].exists
    /\ book'[m] = book[m]

\* A ticket whose stake is nothing reserves nothing.
LEMMA SpentReserves ==
    ASSUME NEW t \in Ticket, GoodSlices(t), t.amount = 0, NEW m \in MMs
    PROVE  t.slices[m].reserved = 0
<1>. DEFINE f == Stakes(t.slices)
<1>1. t.slices \in [MMs -> Slice] /\ \A n \in MMs : t.slices[n].amount \in Nat
    BY DEF Ticket, Slice
<1>2. f \in [MMs -> Nat] /\ f[m] = t.slices[m].amount
    BY <1>1 DEF Stakes
<1>3. Total(f) = 0
    BY DEF GoodSlices
<1>. HIDE DEF f
<1>4. f[m] <= Total(f)
    BY <1>2, TotalMember, CustodyAssumption
<1>5. t.slices[m].amount = 0
    BY <1>1, <1>2, <1>3, <1>4
<1>. QED
    BY <1>5 DEF GoodSlices

\* A slice divided between two tickets on the market of the first.
LEMMA DividedExchange ==
    ASSUME TypeOK, TypeOK', NEW b \in Tickets, NEW c \in Tickets, NEW m \in MMs,
           NEW x \in Slice, ticket[c].slices[m].reserved = 0,
           Divides(ticket[b].slices[m], ticket'[c].slices[m], x),
           ticket'[c].mkt = ticket[b].mkt, ticket'[c].side = ticket[b].side,
           \/ ticket'[b] = NoTicket /\ x.reserved = 0
           \/ /\ ticket'[b].slices[m] = x
              /\ ticket'[b].mkt = ticket[b].mkt /\ ticket'[b].side = ticket[b].side
    PROVE  Exchange(b, c, m)
<1>. DEFINE s == ticket[b].slices[m]
            y == ticket'[c].slices[m]
<1>1. s.reserved \in Nat /\ y.reserved \in Nat /\ x.reserved \in Nat
  <2>1. s \in Slice /\ y \in Slice
      BY DEF TypeOK, Ticket
  <2>. HIDE DEF s, y
  <2>. QED
      BY <2>1 DEF Slice
<1>2. x.reserved + y.reserved = s.reserved /\ x.netted = s.netted /\ y.netted = s.netted
    BY <1>1 DEF Divides
<1>3. /\ UnnettedIn(ticket[c], m) = 0
      /\ \A mkt \in Mkts, side \in Sides : NettedIn(ticket[c], m, mkt, side) = 0
    BY NothingIn
<1>4. CASE ticket'[b] = NoTicket /\ x.reserved = 0
  <2>1. y.reserved = s.reserved
      BY <1>1, <1>2, <1>4
  <2>2. /\ UnnettedIn(ticket'[b], m) = 0
        /\ \A mkt \in Mkts, side \in Sides : NettedIn(ticket'[b], m, mkt, side) = 0
      BY <1>4, NothingIn
  <2>3. /\ UnnettedIn(ticket'[c], m) = UnnettedIn(ticket[b], m)
        /\ UnnettedIn(ticket[b], m) \in Nat
      BY <1>1, <1>2, <2>1 DEF UnnettedIn
  <2>4. \A mkt \in Mkts, side \in Sides :
          /\ NettedIn(ticket'[c], m, mkt, side) = NettedIn(ticket[b], m, mkt, side)
          /\ NettedIn(ticket[b], m, mkt, side) \in Nat
      BY <1>1, <1>2, <2>1 DEF NettedIn
  <2>. QED
      BY <1>3, <2>2, <2>3, <2>4 DEF Exchange
<1>5. CASE /\ ticket'[b].slices[m] = x
           /\ ticket'[b].mkt = ticket[b].mkt /\ ticket'[b].side = ticket[b].side
  <2>1. /\ UnnettedIn(ticket'[b], m) + UnnettedIn(ticket'[c], m) = UnnettedIn(ticket[b], m)
        /\ UnnettedIn(ticket[b], m) \in Nat
      BY <1>1, <1>2, <1>5 DEF UnnettedIn
  <2>2. ASSUME NEW mkt \in Mkts, NEW side \in Sides
        PROVE  /\ NettedIn(ticket'[b], m, mkt, side) + NettedIn(ticket'[c], m, mkt, side)
                    = NettedIn(ticket[b], m, mkt, side)
               /\ NettedIn(ticket[b], m, mkt, side) \in Nat
      BY <1>1, <1>2, <1>5 DEF NettedIn
  <2>. QED
      BY <1>3, <2>1, <2>2 DEF Exchange
<1>. QED
    BY <1>4, <1>5

\* A cashout divides every slice of the bet and keeps the reservation in both
\* parts; when the bet closes there is nothing left in its part.
LEMMA CashoutReserves ==
    ASSUME TypeOK, TypeOK', SliceInv, NEW b \in Bets, CashoutStep(b), NEW m \in MMs
    PROVE  ReservesStay(m) /\ AccountsStay(m)
<1>1. PICK c \in Cashouts, n \in MMs, payment \in Payments :
          \E amount \in 1..ticket[b].amount : CashoutBet(b, c, n, amount, payment)
    BY DEF CashoutStep
<1>2. PICK rest \in [MMs -> Slice] : CashoutSlices(b, c, rest)
    BY <1>1, CashoutDivides
<1>3. CashoutEffect(b, c, n, payment)
    BY <1>1, CashoutTickets
<1>4. /\ b \in Tickets /\ c \in Tickets /\ b # c
      /\ \A k \in Tickets \ {b, c} : ticket'[k] = ticket[k]
      /\ ticket[c] = NoTicket
  <2>1. b \in Tickets /\ c \in Tickets /\ b # c
      BY CustodyAssumption DEF Tickets
  <2>2. ~Exists(c) /\ \A k \in Tickets \ {b, c} : ticket'[k] = ticket[k]
      BY <1>3 DEF CashoutEffect
  <2>. QED
      BY <2>1, <2>2 DEF SliceInv, LinkInv, Accounts, AbsentIsEmpty
<1>5. AccountsStay(m)
  <2>1. /\ UNCHANGED book
        /\ vault' = [vault EXCEPT ![n].liability = @ - FromLiability(n, payment),
                                  ![n].cashouts = @ + 1]
      BY <1>2, <1>3 DEF CashoutSlices, CashoutEffect
  <2>2. vault \in [MMs -> Vault]
      BY DEF TypeOK
  <2>3. vault'[m].enc = vault[m].enc /\ vault'[m].exists = vault[m].exists
      BY <2>1, <2>2 DEF Vault
  <2>. QED
      BY <2>1, <2>3 DEF AccountsStay
<1>. DEFINE t == ticket[b]
            cash == ticket'[c].slices
<1>6. /\ t \in Ticket /\ t.slices \in [MMs -> Slice] /\ cash \in [MMs -> Slice]
      /\ t.amount \in Nat /\ GoodSlices(t)
  <2>1. t \in Ticket /\ t.slices \in [MMs -> Slice] /\ t.amount \in Nat
        /\ cash \in [MMs -> Slice]
      BY <1>4 DEF TypeOK, Ticket
  <2>. QED
      BY <1>4, <2>1, GoodEverywhere DEF SliceInv
<1>7. ticket'[b] = NoTicket => rest[m].reserved = 0
  <2>. SUFFICES ASSUME ticket'[b] = NoTicket PROVE rest[m].reserved = 0
      OBVIOUS
  <2>1. CASE ticket'[c].amount = t.amount
    <3>1. Total(Stakes(cash)) = t.amount /\ Total(Stakes(t.slices)) = t.amount
        BY <1>2, <1>6, <2>1 DEF CashoutSlices, GoodSlices
    <3>2. \A k \in MMs : /\ t.slices[k].amount \in Nat /\ cash[k].amount \in Nat
                         /\ rest[k].amount \in Nat
        BY <1>6 DEF Slice
    <3>3. \A k \in MMs : Divides(t.slices[k], cash[k], rest[k])
        BY <1>2 DEF CashoutSlices
    <3>4. \A k \in MMs : t.slices[k].amount = cash[k].amount + rest[k].amount
        BY <3>3 DEF Divides
    <3>. HIDE DEF t, cash
    <3>5. /\ Stakes(cash) \in [MMs -> Nat] /\ Stakes(rest) \in [MMs -> Nat]
          /\ Stakes(t.slices) \in [MMs -> Nat]
          /\ \A k \in MMs : Stakes(t.slices)[k] = Stakes(cash)[k] + Stakes(rest)[k]
        BY <3>2, <3>4 DEF Stakes
    <3>6. Total(Stakes(t.slices)) = Total(Stakes(cash)) + Total(Stakes(rest))
        BY <3>5, TotalSum, CustodyAssumption
    <3>7. Total(Stakes(rest)) \in Nat /\ Stakes(rest)[m] <= Total(Stakes(rest))
        BY <3>5, TotalType, TotalMember, CustodyAssumption
    <3>8. Total(Stakes(rest)) = 0
      <4>1. t.amount = t.amount + Total(Stakes(rest))
          BY <3>1, <3>6
      <4>2. t.amount \in Nat
          BY <1>6
      <4>. QED
          BY <3>7, <4>1, <4>2
    <3>9. Stakes(rest)[m] = rest[m].amount
        BY DEF Stakes
    <3>10. rest[m].amount \in Nat /\ rest[m].amount <= 0
        BY <3>2, <3>7, <3>8, <3>9
    <3>11. rest[m].amount = 0
        BY <3>10
    <3>. QED
        BY <3>3, <3>11 DEF Divides
  <2>2. CASE ticket'[c].amount # t.amount
    <3>1. ticket'[b].amount = t.amount - ticket'[c].amount /\ ticket'[c].amount \in 1..t.amount
        BY <1>2, <2>2 DEF CashoutSlices
    <3>2. ticket'[b].amount = 0
        BY GoodNone
    <3>. QED
        BY <1>6, <2>2, <3>1, <3>2
  <2>. QED
      BY <2>1, <2>2
<1>8. Exchange(b, c, m)
  <2>1. /\ Divides(t.slices[m], cash[m], rest[m])
        /\ ticket'[c].mkt = t.mkt /\ ticket'[c].side = t.side
        /\ \/ ticket'[b] = NoTicket
           \/ /\ ticket'[b].slices = rest
              /\ ticket'[b].mkt = t.mkt /\ ticket'[b].side = t.side
      BY <1>2 DEF CashoutSlices
  <2>2. ticket[c].slices[m].reserved = 0 /\ rest[m] \in Slice
      BY <1>4 DEF NoTicket, NoSlice
  <2>. QED
      BY <1>4, <1>7, <2>1, <2>2, DividedExchange
<1>9. ReservesStay(m)
    BY <1>4, <1>8, ExchangeStays
<1>. QED
    BY <1>5, <1>9

\* A claim closes at most a bet that has nothing left.
LEMMA ClaimReserves ==
    ASSUME TypeOK, TypeOK', SliceInv, CashedOutWaits, NEW b \in Bets,
           ClaimCashoutEscrow(b), NEW m \in MMs
    PROVE  ReservesStay(m) /\ AccountsStay(m)
<1>1. AccountsStay(m)
    BY DEF ClaimCashoutEscrow, AccountsStay
<1>2. CASE UNCHANGED ticket
  <2>1. ReservesStay(m)
      BY <1>2, SlicesStay
  <2>. QED
      BY <1>1, <2>1
<1>3. CASE ticket[b].result = "CashedOut" /\ ticket' = [ticket EXCEPT ![b] = NoTicket]
  <2>1. b \in Tickets /\ ticket \in [Tickets -> Ticket] /\ ticket[b] \in Ticket
      BY DEF TypeOK, Tickets
  <2>2. ticket'[b] = NoTicket /\ \A k \in Tickets \ {b} : ticket'[k] = ticket[k]
      BY <1>3, <2>1
  <2>3. ticket[b].slices[m].reserved = 0
    <3>1. ticket[b].amount = 0
        BY <1>3 DEF CashedOutWaits
    <3>2. GoodSlices(ticket[b])
        BY <2>1, GoodEverywhere DEF SliceInv
    <3>. QED
        BY <2>1, <3>1, <3>2, SpentReserves
  <2>4. /\ UnnettedIn(ticket[b], m) = 0 /\ UnnettedIn(ticket'[b], m) = 0
        /\ \A mkt \in Mkts, side \in Sides :
              NettedIn(ticket[b], m, mkt, side) = 0 /\ NettedIn(ticket'[b], m, mkt, side) = 0
      BY <2>2, <2>3, NothingIn
  <2>5. /\ UnnettedReserve(m)' = UnnettedReserve(m) - 0 + 0
        /\ \A mkt \in Mkts, side \in Sides :
              NettedReserve(m, mkt, side)' = NettedReserve(m, mkt, side) - 0 + 0
      BY <2>1, <2>2, <2>4, ReserveChange, SMTT(30)
  <2>6. /\ UnnettedReserve(m) \in Nat
        /\ \A mkt \in Mkts, side \in Sides : NettedReserve(m, mkt, side) \in Nat
      BY ReserveSums
  <2>. QED
      BY <1>1, <2>5, <2>6 DEF ReservesStay
<1>. QED
    BY <1>2, <1>3, ClaimTickets

\* The two tickets of a live escrow are on the same side of the same market.
SameMarket ==
    \A b \in Bets :
        EscrowLive(b) =>
            /\ ticket[escrow[b].cash].mkt = ticket[b].mkt
            /\ ticket[escrow[b].cash].side = ticket[b].side

\* A revert merges every slice of the cashout ticket into the bet's slice of
\* the same MM, which is on the same market and netted alike.
LEMMA RevertReserves ==
    ASSUME TypeOK, TypeOK', SliceInv, SameMarket, NEW b \in Bets,
           RevertCashout(b), NEW m \in MMs
    PROVE  ReservesStay(m) /\ AccountsStay(m)
<1>. DEFINE e == escrow[b]
            c == e.cash
            t == ticket[b]
            co == ticket[c]
            new == Restored(t, co)
<1>1. /\ EscrowLive(b) /\ c \in Cashouts
      /\ ticket'[c] = NoTicket
      /\ \A n \in Tickets \ {b, c} : ticket'[n] = ticket[n]
      /\ vault' = [vault EXCEPT ![e.mm].liability = @ + e.payment,
                                ![e.mm].cashouts = @ - 1]
    BY RevertTickets, Zenon DEF RevertCashout
<1>2. b \in Tickets /\ c \in Tickets /\ b # c
    BY <1>1, CustodyAssumption DEF Tickets
<1>3. /\ co.fillers = t.fillers
      /\ co.mkt = t.mkt /\ co.side = t.side
      /\ t.slices[m].netted = co.slices[m].netted
    BY <1>1 DEF SliceInv, LinkInv, EscrowLinked, SameMarket, MergeCovers
<1>4. t \in Ticket /\ co \in Ticket /\ ticket'[b] \in Ticket
    BY <1>2 DEF TypeOK
<1>5. AccountsStay(m)
  <2>1. UNCHANGED book /\ vault \in [MMs -> Vault]
      BY DEF RevertCashout, TypeOK
  <2>2. vault'[m].enc = vault[m].enc /\ vault'[m].exists = vault[m].exists
      BY <1>1, <2>1 DEF Vault
  <2>. QED
      BY <2>1, <2>2 DEF AccountsStay
<1>6. ticket' = [ticket EXCEPT
            ![b] = [t EXCEPT !.amount = @ + e.amount, !.payout = @ + e.removed,
                             !.slices = new,
                             !.result = IF @ = "RolledBack" THEN @ ELSE "Pending"],
            ![c] = NoTicket]
    BY DEF RevertCashout
<1>7. GoodSlices(t) /\ GoodSlices(co)
    BY <1>2, GoodEverywhere DEF SliceInv
<1>8. Merges(t.slices[m], co.slices[m], new[m])
  <2>1. m \notin Range(t.fillers) =>
              /\ t.slices[m].amount = 0 /\ t.slices[m].reserved = 0
              /\ co.slices[m].amount = 0 /\ co.slices[m].reserved = 0
      BY <1>3, <1>7 DEF GoodSlices
  <2>. HIDE DEF t, co
  <2>. QED
      BY <1>3, <1>4, <2>1, RestoredMerges, SMTT(30)
<1>9. ticket'[b].slices = new /\ ticket'[b].mkt = t.mkt /\ ticket'[b].side = t.side
  <2>1. ticket'[b] = [t EXCEPT !.amount = @ + e.amount, !.payout = @ + e.removed,
                             !.slices = new,
                             !.result = IF @ = "RolledBack" THEN @ ELSE "Pending"]
      BY <1>2, <1>6 DEF TypeOK
  <2>. HIDE DEF t, e, new
  <2>. QED
      BY <1>4, <2>1 DEF Ticket
<1>10. Exchange(b, c, m)
  <2>. DEFINE x == t.slices[m]
              y == co.slices[m]
              z == new[m]
  <2>1. x \in Slice /\ y \in Slice /\ z \in Slice
    <3>1. z = ticket'[b].slices[m]
        BY <1>9
    <3>. QED
        BY <1>4, <3>1 DEF Ticket
  <2>2. x.reserved \in Nat /\ y.reserved \in Nat /\ z.reserved \in Nat
      BY <2>1, SliceFields
  <2>3. /\ z.reserved = x.reserved + y.reserved /\ y.netted = x.netted
        /\ z.reserved > 0 => z.netted = x.netted
      BY <1>3, <1>8 DEF Merges
  <2>4. /\ UnnettedIn(ticket'[c], m) = 0
        /\ \A mkt \in Mkts, side \in Sides : NettedIn(ticket'[c], m, mkt, side) = 0
      BY <1>1, NothingIn
  <2>5. /\ UnnettedIn(ticket'[b], m) = IF z.netted THEN 0 ELSE z.reserved
        /\ UnnettedIn(t, m) = IF x.netted THEN 0 ELSE x.reserved
        /\ UnnettedIn(co, m) = IF y.netted THEN 0 ELSE y.reserved
      BY <1>9 DEF UnnettedIn
  <2>6. ASSUME NEW mkt \in Mkts, NEW side \in Sides
        PROVE  /\ NettedIn(ticket'[b], m, mkt, side)
                    = IF z.netted /\ t.mkt = mkt /\ t.side = side THEN z.reserved ELSE 0
               /\ NettedIn(t, m, mkt, side)
                    = IF x.netted /\ t.mkt = mkt /\ t.side = side THEN x.reserved ELSE 0
               /\ NettedIn(co, m, mkt, side)
                    = IF y.netted /\ t.mkt = mkt /\ t.side = side THEN y.reserved ELSE 0
      BY <1>3, <1>9 DEF NettedIn
  <2>. HIDE DEF x, y, z
  <2>7. UnnettedIn(ticket'[b], m) + UnnettedIn(ticket'[c], m)
          = UnnettedIn(t, m) + UnnettedIn(co, m)
      BY <2>2, <2>3, <2>4, <2>5
  <2>8. ASSUME NEW mkt \in Mkts, NEW side \in Sides
        PROVE  NettedIn(ticket'[b], m, mkt, side) + NettedIn(ticket'[c], m, mkt, side)
                 = NettedIn(t, m, mkt, side) + NettedIn(co, m, mkt, side)
      BY <2>2, <2>3, <2>4, <2>6
  <2>. QED
      BY <2>7, <2>8 DEF Exchange
<1>11. ReservesStay(m)
    BY <1>1, <1>2, <1>10, ExchangeStays
<1>. QED
    BY <1>5, <1>11

\* A grade writes a result and leaves every slice and every account alone.
LEMMA GradeReserves ==
    ASSUME TypeOK, NEW k \in Tickets, NEW result \in Grades, GradeBet(k, result), NEW m \in MMs
    PROVE  ReservesStay(m) /\ AccountsStay(m)
<1>1. /\ ticket'[k] = [ticket[k] EXCEPT !.result = result]
      /\ \A n \in Tickets \ {k} : ticket'[n] = ticket[n]
    BY GradeTicket
<1>2. \A n \in Tickets : /\ ticket'[n].slices = ticket[n].slices
                         /\ ticket'[n].mkt = ticket[n].mkt
                         /\ ticket'[n].side = ticket[n].side
  <2>1. \A n \in Tickets : \/ ticket'[n] = ticket[n]
                           \/ ticket'[n] = [ticket[n] EXCEPT !.result = result]
      BY <1>1
  <2>2. \A n \in Tickets : ticket[n] \in Ticket
      BY DEF TypeOK
  <2>. QED
      BY <2>1, <2>2 DEF Ticket
<1>3. AccountsStay(m)
    BY DEF GradeBet, money, AccountsStay
<1>4. ReservesStay(m)
    BY <1>2, SlicesStay
<1>. QED
    BY <1>3, <1>4

\* The tickets of an escrow stay on one side of one market.
LEMMA MarketNext ==
    ASSUME TypeOK, SliceInv, SameMarket, [Next]_vars PROVE SameMarket'
<1>. SUFFICES ASSUME NEW b \in Bets, EscrowLive(b)'
              PROVE  /\ ticket'[escrow'[b].cash].mkt = ticket'[b].mkt
                     /\ ticket'[escrow'[b].cash].side = ticket'[b].side
    BY DEF SameMarket
<1>1. CASE EscrowLive(b)
  <2>. DEFINE c == escrow[b].cash
  <2>1. SameEscrow(b) /\ OnlyGraded(b) /\ OnlyGraded(c)
    <3>1. escrow'[b] # NoEscrow
        BY DEF EscrowLive, NoEscrow
    <3>. QED
        BY <1>1, <3>1, LinkedEscrowStep DEF SliceInv
  <2>2. /\ b \in Tickets /\ c \in Tickets
        /\ ticket[b] \in Ticket /\ ticket[c] \in Ticket /\ escrow'[b].cash = c
      BY <1>1, <2>1 DEF TypeOK, Escrow, Tickets, EscrowLive, SameEscrow
  <2>3. ticket'[b].mkt = ticket[b].mkt /\ ticket'[b].side = ticket[b].side
      BY <2>1, <2>2 DEF OnlyGraded, Ticket
  <2>4. ticket'[c].mkt = ticket[c].mkt /\ ticket'[c].side = ticket[c].side
      BY <2>1, <2>2 DEF OnlyGraded, Ticket
  <2>5. ticket[c].mkt = ticket[b].mkt /\ ticket[c].side = ticket[b].side
      BY <1>1 DEF SameMarket
  <2>. HIDE DEF c
  <2>. QED
      BY <2>2, <2>3, <2>4, <2>5
<1>2. CASE ~EscrowLive(b)
  <2>1. PICK c \in Cashouts, n \in MMs, payment \in Payments :
            /\ \E amount \in 1..ticket[b].amount : CashoutBet(b, c, n, amount, payment)
            /\ CashoutEffect(b, c, n, payment) /\ NeedsDelay(b, n)
      BY <1>2, NewEscrowStep
  <2>2. PICK rest \in [MMs -> Slice] : CashoutSlices(b, c, rest)
      BY <2>1, CashoutDivides
  <2>3. escrow'[b].cash = c /\ ticket'[b].result \in {"Pending", "CashedOut"}
      BY <2>1 DEF CashoutEffect, NeedsDelay
  <2>4. ticket'[b] # NoTicket
      BY <2>3 DEF NoTicket
  <2>. QED
      BY <2>2, <2>3, <2>4 DEF CashoutSlices
<1>. QED
    BY <1>1, <1>2

-----------------------------------------------------------------------------
(* Balance *)

\* The vault and the book of m hold exactly what m has reserved, and nothing
\* while they are closed.
Balanced(m) ==
    /\ ~vault[m].exists => vault[m].enc = 0
    /\ ~book[m].exists => book[m].open = FlatOpen
    /\ vault[m].enc = UnnettedReserve(m) + PeakTotal(book[m])
    /\ \A mkt \in Mkts, side \in Sides :
          book[m].open[mkt][side] = NettedReserve(m, mkt, side)

\* Steps that touch neither the accounts nor the reservations of m.
LEMMA StaysBalanced ==
    ASSUME NEW m \in MMs, Balanced(m), ReservesStay(m), AccountsStay(m)
    PROVE  Balanced(m)'
<1>1. PeakTotal(book[m])' = PeakTotal(book[m])
    BY DEF PeakTotal, AccountsStay
<1>. QED
    BY <1>1 DEF Balanced, ReservesStay, AccountsStay

\* The admin of an MM opens accounts empty, closes them only when they hold no
\* reservation, and otherwise moves free collateral and lines.
LEMMA AdminBalanced ==
    ASSUME TypeOK, TypeOK', NEW n \in MMs, AdminStep(n), NEW m \in MMs, Balanced(m)
    PROVE  Balanced(m)'
<1>1. UNCHANGED ticket
    BY DEF AdminStep, InitMmMintVault, CreateNettingAccount, CloseMmMintVault,
       CloseNettingAccount, AddLine, RemoveLine, Deposit, Withdraw, positions
<1>2. ReservesStay(m)
    BY <1>1, SlicesStay
<1>3. /\ vault \in [MMs -> Vault] /\ vault[m] \in Vault
      /\ book \in [MMs -> Book] /\ book[m] \in Book
    BY DEF TypeOK
<1>4. CASE vault'[m].enc = vault[m].enc /\ vault'[m].exists = vault[m].exists
           /\ book'[m].open = book[m].open /\ book'[m].exists = book[m].exists
  <2>1. PeakTotal(book[m])' = PeakTotal(book[m])
      BY <1>4 DEF PeakTotal
  <2>. QED
      BY <1>2, <1>4, <2>1 DEF Balanced, ReservesStay
<1>5. CASE book'[m] = book[m] /\ vault[m].enc = 0 /\ vault'[m].enc = 0
  <2>1. PeakTotal(book[m])' = PeakTotal(book[m])
      BY <1>5 DEF PeakTotal
  <2>. QED
      BY <1>2, <1>5, <2>1 DEF Balanced, ReservesStay
<1>6. CASE /\ vault'[m] = vault[m]
           /\ book[m].open = FlatOpen /\ book'[m].open = FlatOpen
  <2>1. PeakTotal(book[m])' = PeakTotal(book[m])
      BY <1>6 DEF PeakTotal
  <2>. QED
      BY <1>2, <1>6, <2>1 DEF Balanced, ReservesStay
<1>7. CASE InitMmMintVault(n)
  <2>1. UNCHANGED book /\ ~vault[n].exists
        /\ vault' = [vault EXCEPT ![n] = [NoVault EXCEPT !.exists = TRUE]]
      BY <1>7 DEF InitMmMintVault
  <2>2. CASE m = n
      BY <1>3, <1>5, <2>1, <2>2 DEF Balanced, NoVault
  <2>3. CASE m # n
      BY <1>3, <1>4, <2>1, <2>3
  <2>. QED
      BY <2>2, <2>3
<1>8. CASE CloseMmMintVault(n)
  <2>1. UNCHANGED book /\ vault[n].enc = 0 /\ vault' = [vault EXCEPT ![n] = NoVault]
      BY <1>8 DEF CloseMmMintVault
  <2>2. CASE m = n
      BY <1>3, <1>5, <2>1, <2>2 DEF NoVault
  <2>3. CASE m # n
      BY <1>3, <1>4, <2>1, <2>3
  <2>. QED
      BY <2>2, <2>3
<1>9. CASE CreateNettingAccount(n)
  <2>1. UNCHANGED vault /\ ~book[n].exists
        /\ book' = [book EXCEPT ![n] = [NoBook EXCEPT !.exists = TRUE]]
      BY <1>9 DEF CreateNettingAccount
  <2>2. CASE m = n
    <3>1. book[m].open = FlatOpen
        BY <2>1, <2>2 DEF Balanced
    <3>2. book'[m].open = FlatOpen
        BY <1>3, <2>1, <2>2 DEF NoBook
    <3>. QED
        BY <1>6, <2>1, <3>1, <3>2
  <2>3. CASE m # n
      BY <1>3, <1>4, <2>1, <2>3
  <2>. QED
      BY <2>2, <2>3
<1>10. CASE CloseNettingAccount(n)
  <2>1. UNCHANGED vault /\ book[n].open = FlatOpen /\ book' = [book EXCEPT ![n] = NoBook]
      BY <1>10 DEF CloseNettingAccount
  <2>2. CASE m = n
      BY <1>3, <1>6, <2>1, <2>2 DEF NoBook
  <2>3. CASE m # n
      BY <1>3, <1>4, <2>1, <2>3
  <2>. QED
      BY <2>2, <2>3
<1>11. CASE \E line \in Lines : AddLine(n, line) \/ RemoveLine(n, line)
  <2>1. PICK lines \in SUBSET Lines : book' = [book EXCEPT ![n].lines = lines]
    <3>1. book[n].lines \subseteq Lines
        BY DEF TypeOK, Book
    <3>2. PICK line \in Lines : AddLine(n, line) \/ RemoveLine(n, line)
        BY <1>11
    <3>3. CASE AddLine(n, line)
        BY <3>1, <3>3 DEF AddLine
    <3>4. CASE RemoveLine(n, line)
        BY <3>1, <3>4 DEF RemoveLine
    <3>. QED
        BY <3>2, <3>3, <3>4
  <2>2. UNCHANGED vault
      BY <1>11 DEF AddLine, RemoveLine
  <2>3. book'[m].open = book[m].open /\ book'[m].exists = book[m].exists
      BY <1>3, <2>1 DEF Book
  <2>. QED
      BY <1>4, <2>2, <2>3
<1>12. CASE \E amount \in Transfers : Deposit(n, amount) \/ Withdraw(n, amount)
  <2>1. UNCHANGED book /\ \E liability : vault' = [vault EXCEPT ![n].liability = liability]
      BY <1>12 DEF Deposit, Withdraw
  <2>2. vault'[m].enc = vault[m].enc /\ vault'[m].exists = vault[m].exists
      BY <1>3, <2>1 DEF Vault
  <2>. QED
      BY <1>4, <2>1, <2>2
<1>. QED
    BY <1>7, <1>8, <1>9, <1>10, <1>11, <1>12 DEF AdminStep

\* What a fill adds for MM m: a slice of the new ticket, in the book of m when
\* it is netted and in the encumbrance of m by what it takes.
FilledFor(b, m, mkt, side, f, net) ==
    LET p == Profit(f.amount, f.odds)
        s == ticket'[b].slices[m] IN
    /\ f \in Fill /\ vault[m].exists
    /\ ticket'[b].mkt = mkt /\ ticket'[b].side = side
    /\ s.reserved = p /\ s.netted = net
    /\ vault'[m].exists = vault[m].exists
    /\ vault'[m].enc = vault[m].enc + (IF net THEN PeakRise(book[m], mkt, side, p) ELSE p)
    /\ book'[m] = IF net THEN Netted(book[m], mkt, side, p) ELSE book[m]
    /\ net => CanNet(book[m], mkt, side)

\* A fill leaves the accounts of an MM alone unless the MM filled.
LEMMA FillAccounts ==
    ASSUME TypeOK, NEW b \in Bets, FillStep(b), NEW m \in MMs
    PROVE  \/ AccountsStay(m) /\ ticket'[b].slices[m].reserved = 0
           \/ \E mkt \in Mkts, side \in Sides, f \in Fill, net \in BOOLEAN :
                FilledFor(b, m, mkt, side, f, net)
<1>1. PICK mkt \in Mkts, side \in Sides, isLive \in BOOLEAN, fills \in FillList :
          OpenBet(b, mkt, side, isLive, fills)
    BY FillStepLists
<1>. DEFINE new == NewBet(b, mkt, side, isLive, fills)
            given == Filled(fills)
            f == FillOf(fills, m)
            p == Profit(f.amount, f.odds)
            net == Nets(book[m], f, mkt, side)
            added == Delta(book[m], f, mkt, side)
            sent == Shortfall(vault[m], added)
<1>2. /\ vault'[m] = IF m \in given
                     THEN [vault[m] EXCEPT !.liability = @ + sent, !.enc = @ + added]
                     ELSE vault[m]
      /\ book'[m] = IF m \in given /\ net THEN Netted(book[m], mkt, side, p) ELSE book[m]
      /\ ticket' = [ticket EXCEPT ![b] = new]
      /\ \A i \in DOMAIN fills : CanFill(fills[i], mkt, side, isLive)
    BY <1>1 DEF OpenBet, FillOf, Filled
<1>3. new.slices[m] = IF m \in given
                      THEN [amount |-> f.amount, reserved |-> p,
                            odds |-> f.odds, netted |-> net]
                      ELSE NoSlice
    BY DEF NewBet, FillOf, Filled
<1>4. new.mkt = mkt /\ new.side = side
    BY DEF NewBet
<1>5. b \in Tickets /\ ticket'[b] = new
    BY <1>2 DEF TypeOK, Tickets
<1>6. CASE m \notin given
  <2>1. vault'[m] = vault[m] /\ book'[m] = book[m] /\ ticket'[b].slices[m] = NoSlice
      BY <1>2, <1>3, <1>5, <1>6
  <2>. QED
      BY <2>1 DEF AccountsStay, NoSlice
<1>7. CASE m \in given
  <2>1. f \in Fill /\ f.mm = m /\ CanFill(f, mkt, side, isLive)
      BY <1>2, <1>7, FillOfProps
  <2>2. vault[m].exists
      BY <2>1 DEF CanFill
  <2>3. added = IF net THEN PeakRise(book[m], mkt, side, p) ELSE p
      BY DEF Delta
  <2>4. net \in BOOLEAN /\ (net => CanNet(book[m], mkt, side))
      BY DEF Nets, CanNet
  <2>5. vault[m] \in Vault
      BY DEF TypeOK
  <2>. HIDE DEF new, f, p, net, added, sent
  <2>6. vault'[m].enc = vault[m].enc + added /\ vault'[m].exists = vault[m].exists
      BY <1>2, <1>7, <2>5 DEF Vault
  <2>7. ticket'[b].slices[m].reserved = p /\ ticket'[b].slices[m].netted = net
      BY <1>3, <1>5, <1>7
  <2>8. book'[m] = IF net THEN Netted(book[m], mkt, side, p) ELSE book[m]
      BY <1>2, <1>7
  <2>9. FilledFor(b, m, mkt, side, f, net)
      BY <1>4, <1>5, <2>1, <2>2, <2>3, <2>4, <2>6, <2>7, <2>8 DEF FilledFor, p
  <2>. QED
      BY <2>1, <2>4, <2>9
<1>. QED
    BY <1>6, <1>7

\* A fill reserves on the new ticket what it adds to the accounts.
LEMMA FillBalanced ==
    ASSUME TypeOK, TypeOK', AbsentIsEmpty, NEW b \in Bets, FillStep(b),
           NEW m \in MMs, Balanced(m)
    PROVE  Balanced(m)'
<1>1. /\ b \in Tickets /\ ticket[b] = NoTicket
      /\ \A k \in Tickets \ {b} : ticket'[k] = ticket[k]
  <2>1. ~Exists(b) /\ \E new : ticket' = [ticket EXCEPT ![b] = new]
      BY FillTicket
  <2>2. b \in Tickets /\ ticket \in [Tickets -> Ticket]
      BY DEF Tickets, TypeOK
  <2>. QED
      BY <2>1, <2>2 DEF AbsentIsEmpty
<1>2. /\ UnnettedIn(ticket[b], m) = 0
      /\ \A mkt \in Mkts, side \in Sides : NettedIn(ticket[b], m, mkt, side) = 0
    BY <1>1, NothingIn
<1>3. /\ UnnettedReserve(m)' = UnnettedReserve(m) - 0 + UnnettedIn(ticket'[b], m)
      /\ \A mkt \in Mkts, side \in Sides :
            NettedReserve(m, mkt, side)'
              = NettedReserve(m, mkt, side) - 0 + NettedIn(ticket'[b], m, mkt, side)
    BY <1>1, <1>2, ReserveChange
<1>4. /\ UnnettedReserve(m) \in Nat
      /\ \A mkt \in Mkts, side \in Sides : NettedReserve(m, mkt, side) \in Nat
    BY ReserveSums
<1>5. CASE AccountsStay(m) /\ ticket'[b].slices[m].reserved = 0
  <2>1. /\ UnnettedIn(ticket'[b], m) = 0
        /\ \A mkt \in Mkts, side \in Sides : NettedIn(ticket'[b], m, mkt, side) = 0
      BY <1>5, NothingIn
  <2>2. ReservesStay(m)
      BY <1>3, <1>4, <2>1 DEF ReservesStay
  <2>. QED
      BY <1>5, <2>2, StaysBalanced
<1>6. CASE \E mkt \in Mkts, side \in Sides, f \in Fill, net \in BOOLEAN :
                FilledFor(b, m, mkt, side, f, net)
  <2>1. PICK mkt \in Mkts, side \in Sides, f \in Fill, net \in BOOLEAN :
            FilledFor(b, m, mkt, side, f, net)
      BY <1>6
  <2>. DEFINE p == Profit(f.amount, f.odds)
              rise == PeakRise(book[m], mkt, side, p)
  <2>2. p \in Nat
      BY FillsAssumption, ProfitType DEF Fill, Odd
  <2>3. book[m] \in Book /\ vault[m] \in Vault
      BY DEF TypeOK
  <2>4. rise \in Nat /\ PeakTotal(book[m]) \in Nat
      BY <2>2, <2>3, NettedBook, PeaksType
  <2>5. /\ vault[m].exists /\ vault'[m].exists = vault[m].exists
        /\ vault'[m].enc = vault[m].enc + (IF net THEN rise ELSE p)
        /\ book'[m] = IF net THEN Netted(book[m], mkt, side, p) ELSE book[m]
        /\ net => book[m].exists
      BY <2>1 DEF FilledFor, CanNet
  <2>6. /\ UnnettedIn(ticket'[b], m) = IF net THEN 0 ELSE p
        /\ \A mk \in Mkts, sd \in Sides :
              NettedIn(ticket'[b], m, mk, sd) =
                IF net /\ mk = mkt /\ sd = side THEN p ELSE 0
      BY <2>1 DEF FilledFor, UnnettedIn, NettedIn
  <2>7. /\ vault[m].enc = UnnettedReserve(m) + PeakTotal(book[m])
        /\ \A mk \in Mkts, sd \in Sides :
              book[m].open[mk][sd] = NettedReserve(m, mk, sd)
        /\ ~book[m].exists => book[m].open = FlatOpen
      BY DEF Balanced
  <2>8. PeakTotal(book[m])' = PeakTotal(book'[m])
      BY DEF PeakTotal
  <2>. HIDE DEF p, rise
  <2>9. CASE net
    <3>. DEFINE new == Netted(book[m], mkt, side, p)
    <3>1. /\ \A mk \in Mkts, sd \in Sides :
                new.open[mk][sd] = IF mk = mkt /\ sd = side THEN book[m].open[mk][sd] + p
                                   ELSE book[m].open[mk][sd]
          /\ PeakTotal(new) = PeakTotal(book[m]) + rise
          /\ new.exists = book[m].exists
        BY <2>2, <2>3, NettedOpen DEF rise
    <3>2. book'[m] = new
        BY <2>5, <2>9
    <3>. HIDE DEF new
    <3>3. vault'[m].enc = UnnettedReserve(m)' + PeakTotal(book[m])'
        BY <1>3, <1>4, <2>4, <2>5, <2>6, <2>7, <2>8, <2>9, <3>1, <3>2
    <3>4. ASSUME NEW mk \in Mkts, NEW sd \in Sides
          PROVE  book'[m].open[mk][sd] = NettedReserve(m, mk, sd)'
        BY <1>3, <1>4, <2>2, <2>6, <2>7, <2>9, <3>1, <3>2
    <3>. QED
        BY <2>5, <2>9, <3>1, <3>2, <3>3, <3>4 DEF Balanced
  <2>10. CASE ~net
    <3>1. vault'[m].enc = UnnettedReserve(m)' + PeakTotal(book[m])'
        BY <1>3, <1>4, <2>2, <2>4, <2>5, <2>6, <2>7, <2>8, <2>10
    <3>2. ASSUME NEW mk \in Mkts, NEW sd \in Sides
          PROVE  book'[m].open[mk][sd] = NettedReserve(m, mk, sd)'
        BY <1>3, <1>4, <2>5, <2>6, <2>7, <2>10
    <3>. QED
        BY <2>5, <2>7, <2>10, <3>1, <3>2 DEF Balanced
  <2>. QED
      BY <2>9, <2>10
<1>. QED
    BY <1>5, <1>6, FillAccounts

\* What a settlement releases for MM m: the slice's profit out of the book and
\* the drop of the peak when it was netted, the reservation when it was not.
ReleasedFor(t, m) ==
    LET s == t.slices[m] IN
    /\ vault'[m].exists = vault[m].exists
    /\ vault'[m].enc = vault[m].enc
         - (IF s.netted THEN PeakDrop(book[m], t.mkt, t.side, s.reserved) ELSE s.reserved)
    /\ book'[m] = IF s.netted THEN Unnetted(book[m], t.mkt, t.side, s.reserved) ELSE book[m]
    /\ s.netted /\ s.reserved > 0 => CanUnnet(book[m], t.mkt, t.side, s.reserved)
    /\ vault'[m].enc <= vault[m].enc

\* Every settlement releases that for every MM.
LEMMA SettleReleases ==
    ASSUME TypeOK, NEW k \in Tickets, SettleBet(k), NEW m \in MMs
    PROVE  ReleasedFor(ticket[k], m)
<1>. DEFINE t == ticket[k]
            s == t.slices[m]
            drop == Drop(t, m)
<1>1. t \in Ticket /\ CanPay(t, m) /\ vault[m] \in Vault /\ s \in Slice
    BY DEF SettleBet, CanSettle, TypeOK, Ticket
<1>2. /\ book'[m] = IF s.netted THEN Unnetted(book[m], t.mkt, t.side, s.reserved) ELSE book[m]
      /\ \E liability, cashouts :
            vault'[m] = [vault[m] EXCEPT !.liability = liability, !.enc = @ - drop,
                                         !.cashouts = cashouts]
    BY DEF SettleBet
<1>3. drop \in Nat /\ drop <= vault[m].enc
    BY <1>1, SettleSlice
<1>4. drop = IF s.netted THEN PeakDrop(book[m], t.mkt, t.side, s.reserved) ELSE s.reserved
    BY DEF Drop
<1>5. s.netted /\ s.reserved > 0 => CanUnnet(book[m], t.mkt, t.side, s.reserved)
    BY <1>1 DEF CanPay, Idle
<1>. HIDE DEF drop, s, t
<1>6. vault'[m].enc = vault[m].enc - drop /\ vault'[m].exists = vault[m].exists
    BY <1>1, <1>2 DEF Vault
<1>7. vault'[m].enc <= vault[m].enc
    BY <1>1, <1>3, <1>6 DEF Vault
<1>. QED
    BY <1>2, <1>4, <1>5, <1>6, <1>7 DEF ReleasedFor, s, t

\* A settlement releases exactly what the ticket reserved.
LEMMA SettleBalanced ==
    ASSUME TypeOK, TypeOK', NEW k \in Tickets, SettleBet(k), NEW m \in MMs, Balanced(m)
    PROVE  Balanced(m)'
<1>. DEFINE t == ticket[k]
            s == t.slices[m]
            bk == book[m]
<1>1. /\ ticket'[k] = NoTicket /\ \A n \in Tickets \ {k} : ticket'[n] = ticket[n]
  <2>1. ticket' = [ticket EXCEPT ![k] = NoTicket] /\ ticket \in [Tickets -> Ticket]
      BY SettleTicket DEF TypeOK
  <2>. QED
      BY <2>1
<1>2. /\ UnnettedIn(ticket'[k], m) = 0
      /\ \A mkt \in Mkts, side \in Sides : NettedIn(ticket'[k], m, mkt, side) = 0
    BY <1>1, NothingIn
<1>3. /\ UnnettedReserve(m)' = UnnettedReserve(m) - UnnettedIn(t, m) + 0
      /\ \A mkt \in Mkts, side \in Sides :
            NettedReserve(m, mkt, side)'
              = NettedReserve(m, mkt, side) - NettedIn(t, m, mkt, side) + 0
    BY <1>1, <1>2, ReserveChange
<1>4. /\ UnnettedReserve(m) \in Nat
      /\ \A mkt \in Mkts, side \in Sides : NettedReserve(m, mkt, side) \in Nat
    BY ReserveSums
<1>5. /\ t \in Ticket /\ t.side \in Sides /\ bk \in Book /\ s \in Slice
      /\ vault[m] \in Vault /\ vault'[m] \in Vault
    BY DEF TypeOK, Ticket
<1>6. s.reserved \in Nat /\ PeakTotal(bk) \in Nat /\ vault[m].enc \in Nat /\ vault'[m].enc \in Nat
    BY <1>5, SliceFields, PeaksType DEF Vault
<1>7. /\ vault'[m].exists = vault[m].exists
      /\ vault'[m].enc = vault[m].enc
           - (IF s.netted THEN PeakDrop(bk, t.mkt, t.side, s.reserved) ELSE s.reserved)
      /\ book'[m] = IF s.netted THEN Unnetted(bk, t.mkt, t.side, s.reserved) ELSE bk
      /\ s.netted /\ s.reserved > 0 => CanUnnet(bk, t.mkt, t.side, s.reserved)
      /\ vault'[m].enc <= vault[m].enc
    BY SettleReleases DEF ReleasedFor
<1>8. /\ UnnettedIn(t, m) = IF s.netted THEN 0 ELSE s.reserved
      /\ \A mkt \in Mkts, side \in Sides :
            NettedIn(t, m, mkt, side) =
              IF s.netted /\ t.mkt = mkt /\ t.side = side THEN s.reserved ELSE 0
    BY DEF UnnettedIn, NettedIn
<1>9. /\ vault[m].enc = UnnettedReserve(m) + PeakTotal(bk)
      /\ \A mkt \in Mkts, side \in Sides : bk.open[mkt][side] = NettedReserve(m, mkt, side)
      /\ ~bk.exists => bk.open = FlatOpen
      /\ ~vault[m].exists => vault[m].enc = 0
    BY DEF Balanced
<1>10. ~vault'[m].exists => vault'[m].enc = 0
    BY <1>6, <1>7, <1>9
<1>11. PeakTotal(book[m])' = PeakTotal(book'[m])
    BY DEF PeakTotal
<1>. HIDE DEF t, s, bk
<1>12. CASE s.netted /\ s.reserved > 0
  <2>. DEFINE new == Unnetted(bk, t.mkt, t.side, s.reserved)
              drop == PeakDrop(bk, t.mkt, t.side, s.reserved)
  <2>1. /\ \A mkt \in Mkts, side \in Sides :
              new.open[mkt][side] = IF mkt = t.mkt /\ side = t.side
                                    THEN bk.open[mkt][side] - s.reserved
                                    ELSE bk.open[mkt][side]
        /\ PeakTotal(new) = PeakTotal(bk) - drop
        /\ new.exists = bk.exists
    <3>. DEFINE mk == t.mkt
                sd == t.side
                r == s.reserved
    <3>1. CanUnnet(bk, mk, sd, r) /\ bk \in Book /\ sd \in Sides /\ r \in Nat
        BY <1>5, <1>6, <1>7, <1>12
    <3>. HIDE DEF mk, sd, r
    <3>2. LET after == Unnetted(bk, mk, sd, r) IN
          /\ \A mkt \in Mkts, side \in Sides :
                after.open[mkt][side] = IF mkt = mk /\ side = sd
                                        THEN bk.open[mkt][side] - r
                                        ELSE bk.open[mkt][side]
          /\ PeakTotal(after) = PeakTotal(bk) - PeakDrop(bk, mk, sd, r)
          /\ after.exists = bk.exists
        BY <3>1, UnnettedOpen
    <3>. QED
        BY <3>2 DEF mk, sd, r
  <2>2. bk.exists /\ drop \in Nat
      BY <1>5, <1>6, <1>7, <1>12, UnnettedBook DEF CanUnnet
  <2>3. book'[m] = new /\ vault'[m].enc = vault[m].enc - drop
      BY <1>7, <1>12
  <2>. HIDE DEF new, drop
  <2>4. vault'[m].enc = UnnettedReserve(m)' + PeakTotal(book[m])'
      BY <1>3, <1>4, <1>6, <1>8, <1>9, <1>11, <1>12, <2>1, <2>2, <2>3
  <2>5. ASSUME NEW mkt \in Mkts, NEW side \in Sides
        PROVE  book'[m].open[mkt][side] = NettedReserve(m, mkt, side)'
      BY <1>3, <1>4, <1>6, <1>8, <1>9, <1>12, <2>1, <2>3
  <2>. QED
      BY <1>10, <2>1, <2>2, <2>3, <2>4, <2>5 DEF Balanced
<1>13. CASE ~(s.netted /\ s.reserved > 0)
  <2>1. /\ book'[m] = bk
        /\ vault'[m].enc = vault[m].enc - (IF s.netted THEN 0 ELSE s.reserved)
      BY <1>6, <1>7, <1>13 DEF Unnetted, PeakDrop
  <2>2. vault'[m].enc = UnnettedReserve(m)' + PeakTotal(book[m])'
      BY <1>3, <1>4, <1>6, <1>8, <1>9, <1>11, <2>1
  <2>3. ASSUME NEW mkt \in Mkts, NEW side \in Sides
        PROVE  book'[m].open[mkt][side] = NettedReserve(m, mkt, side)'
      BY <1>3, <1>4, <1>6, <1>8, <1>9, <1>13, <2>1
  <2>. QED
      BY <1>9, <1>10, <2>1, <2>2, <2>3 DEF Balanced
<1>. QED
    BY <1>12, <1>13

-----------------------------------------------------------------------------
(* The inductive invariant *)

BookInv ==
    /\ SliceInv /\ CashedOutWaits /\ SameMarket
    /\ \A m \in MMs : Balanced(m)

\* Every step keeps every MM balanced.
LEMMA BalancedNext ==
    ASSUME TypeOK, TypeOK', BookInv, [Next]_vars, NEW m \in MMs
    PROVE  Balanced(m)'
<1>1. /\ SliceInv /\ CashedOutWaits /\ SameMarket /\ Balanced(m)
      /\ AbsentIsEmpty
    BY DEF BookInv, SliceInv, LinkInv, Accounts
<1>2. CASE Quiet
  <2>1. CASE \E n \in MMs : AdminStep(n)
      BY <1>1, <2>1, AdminBalanced
  <2>2. CASE ~\E n \in MMs : AdminStep(n)
    <3>1. AccountsStay(m)
        BY <1>2, <2>2 DEF Quiet, Donate, EventStep, GoLive, ChangeConfigStatus, Tick,
           vars, money, AccountsStay
    <3>2. UNCHANGED ticket
        BY <1>2, QuietSteps
    <3>3. ReservesStay(m)
        BY <3>2, SlicesStay
    <3>. QED
        BY <1>1, <3>1, <3>3, StaysBalanced
  <2>. QED
      BY <2>1, <2>2
<1>3. CASE \E b \in Bets : FillStep(b)
    BY <1>1, <1>3, FillBalanced
<1>4. CASE \E b \in Bets : CashoutStep(b)
    BY <1>1, <1>4, CashoutReserves, StaysBalanced
<1>5. CASE \E b \in Bets : ClaimCashoutEscrow(b)
    BY <1>1, <1>5, ClaimReserves, StaysBalanced
<1>6. CASE \E b \in Bets : RevertCashout(b)
    BY <1>1, <1>6, RevertReserves, StaysBalanced
<1>7. CASE \E k \in Tickets, result \in Grades : GradeBet(k, result)
    BY <1>1, <1>7, GradeReserves, StaysBalanced
<1>8. CASE \E k \in Tickets : SettleBet(k)
    BY <1>1, <1>8, SettleBalanced
<1>. QED
    BY <1>2, <1>3, <1>4, <1>5, <1>6, <1>7, <1>8, StepKinds

\* Every step keeps the invariant.
LEMMA BookInvNext ==
    ASSUME EventGroups \subseteq {MMs}, TypeOK, BookInv, [Next]_vars
    PROVE  BookInv'
<1>1. TypeOK'
    BY NextType
<1>2. SliceInv' /\ CashedOutWaits' /\ SameMarket'
    BY SliceNext, WaitsNext, MarketNext DEF BookInv
<1>3. \A m \in MMs : Balanced(m)'
    BY <1>1, BalancedNext
<1>. QED
    BY <1>2, <1>3 DEF BookInv

\* Initially nothing is reserved and every book is flat.
LEMMA BookInvInit ==
    ASSUME Init PROVE BookInv
<1>1. TypeOK /\ SliceInv
    BY InitType, SliceInit
<1>2. /\ \A k \in Tickets : ticket[k] = NoTicket
      /\ \A b \in Bets : ~EscrowLive(b)
    BY DEF Init, EscrowLive, NoEscrow
<1>3. CashedOutWaits /\ SameMarket
    BY <1>2 DEF CashedOutWaits, SameMarket, Tickets, NoTicket
<1>4. ASSUME NEW m \in MMs PROVE Balanced(m)
  <2>1. /\ book[m] \in Book /\ book[m].open = FlatOpen /\ vault[m].enc = 0
      BY <1>1 DEF Init, NoBook, NoVault, TypeOK
  <2>2. PeakTotal(book[m]) = 0
      BY <2>1, FlatPeaks
  <2>3. UnnettedReserve(m) = 0
    <3>1. Unnets(m) \in [Tickets -> Nat] /\ UnnettedReserve(m) = Total(Unnets(m))
        BY <1>1, ReserveSums
    <3>2. \A k \in Tickets : Unnets(m)[k] = 0
        BY <1>2, NothingIn DEF Unnets
    <3>. QED
        BY <3>1, <3>2, TotalZero
  <2>4. ASSUME NEW mkt \in Mkts, NEW side \in Sides
        PROVE  NettedReserve(m, mkt, side) = 0
    <3>1. /\ Nettings(m, mkt, side) \in [Tickets -> Nat]
          /\ NettedReserve(m, mkt, side) = Total(Nettings(m, mkt, side))
        BY <1>1, ReserveSums
    <3>2. \A k \in Tickets : Nettings(m, mkt, side)[k] = 0
        BY <1>2, NothingIn DEF Nettings
    <3>. QED
        BY <3>1, <3>2, TotalZero
  <2>. QED
      BY <2>1, <2>2, <2>3, <2>4 DEF Balanced, FlatOpen
<1>. QED
    BY <1>1, <1>3, <1>4 DEF BookInv

-----------------------------------------------------------------------------

\* When the MMs agree on the event, an MM's encumbrance is exactly what its
\* open slices reserve: nothing is released twice, and nothing is kept when
\* the last ticket is gone.
THEOREM EncumbranceExactness ==
    ASSUME EventGroups \subseteq {MMs}
    PROVE  Spec => []EncumbranceExact
<1>1. Init => TypeOK /\ BookInv
    BY InitType, BookInvInit
<1>2. TypeOK /\ BookInv /\ [Next]_vars => TypeOK' /\ BookInv'
    BY NextType, BookInvNext
<1>3. BookInv => EncumbranceExact
    BY DEF BookInv, Balanced, EncumbranceExact, PeakTotal
<1>. QED
    BY <1>1, <1>2, <1>3, PTL DEF Spec

\* When the MMs agree on the event, an MM's book holds exactly the profit of
\* its open netted slices, so that settling them never underflows a line.
THEOREM BookExactness ==
    ASSUME EventGroups \subseteq {MMs}
    PROVE  Spec => []BookExact
<1>1. Init => TypeOK /\ BookInv
    BY InitType, BookInvInit
<1>2. TypeOK /\ BookInv /\ [Next]_vars => TypeOK' /\ BookInv'
    BY NextType, BookInvNext
<1>3. BookInv => BookExact
    BY DEF BookInv, Balanced, BookExact
<1>. QED
    BY <1>1, <1>2, <1>3, PTL DEF Spec

-----------------------------------------------------------------------------
(* Where reservations are held *)

\* Profit is open only on outcomes that a book has a slot for.
Placed(bk) ==
    \A mkt \in Mkts, side \in Sides :
        bk.open[mkt][side] > 0 => side \in NetSides(mkt) /\ mkt \in Headers \cup bk.lines

\* An open ticket is on a market.
OnMarket(t) == t.result # "Absent" => t.mkt \in Mkts

PlaceInv ==
    /\ BookInv
    /\ \A m \in MMs : Placed(book[m])
    /\ \A k \in Tickets : OnMarket(ticket[k])

\* A flat book has nothing to place.
LEMMA FlatPlaced ==
    ASSUME NEW bk, bk.open = FlatOpen PROVE Placed(bk)
BY DEF Placed, FlatOpen

\* A fill places profit only where calculate_netting found a slot.
LEMMA NettedPlaced ==
    ASSUME NEW bk \in Book, NEW mkt \in Mkts, NEW side \in Sides, NEW profit \in Nat,
           Placed(bk), CanNet(bk, mkt, side)
    PROVE  Placed(Netted(bk, mkt, side, profit))
<1>. DEFINE new == Netted(bk, mkt, side, profit)
<1>1. /\ \A mk \in Mkts, sd \in Sides :
            new.open[mk][sd] = IF mk = mkt /\ sd = side THEN bk.open[mk][sd] + profit
                               ELSE bk.open[mk][sd]
      /\ new.lines = bk.lines \cup ({mkt} \cap Lines)
    BY NettedOpen
<1>2. side \in NetSides(mkt) /\ mkt \in Headers \cup Lines
    BY DEF CanNet, NetSides
<1>. HIDE DEF new
<1>3. Placed(new)
    BY <1>1, <1>2 DEF Placed
<1>. QED
    BY <1>3 DEF new

\* A settlement takes profit away.
LEMMA UnnettedPlaced ==
    ASSUME NEW bk \in Book, NEW mkt, NEW side \in Sides, NEW profit \in Nat,
           Placed(bk), CanUnnet(bk, mkt, side, profit)
    PROVE  Placed(Unnetted(bk, mkt, side, profit))
<1>. DEFINE new == Unnetted(bk, mkt, side, profit)
<1>1. /\ \A mk \in Mkts, sd \in Sides :
            new.open[mk][sd] = IF mk = mkt /\ sd = side THEN bk.open[mk][sd] - profit
                               ELSE bk.open[mk][sd]
      /\ new.lines = bk.lines
    BY UnnettedOpen
<1>2. \A mk \in Mkts, sd \in Sides : bk.open[mk][sd] \in Nat
    BY DEF Book
<1>. HIDE DEF new
<1>3. \A mk \in Mkts, sd \in Sides : new.open[mk][sd] > 0 => bk.open[mk][sd] > 0
    BY <1>1, <1>2
<1>4. Placed(new)
    BY <1>1, <1>3 DEF Placed
<1>. QED
    BY <1>4 DEF new

\* Removing a line whose two outcomes are flat removes no profit.
LEMMA LinesPlaced ==
    ASSUME TypeOK, NEW n \in MMs, NEW line \in Lines,
           AddLine(n, line) \/ RemoveLine(n, line), NEW m \in MMs, Placed(book[m])
    PROVE  Placed(book'[m])
<1>1. book \in [MMs -> Book] /\ book[n] \in Book /\ book[n].lines \subseteq Lines
    BY DEF TypeOK, Book
<1>2. CASE m # n
  <2>1. book'[m] = book[m]
      BY <1>1, <1>2 DEF AddLine, RemoveLine
  <2>. QED
      BY <2>1
<1>3. CASE m = n /\ AddLine(n, line)
  <2>1. book'[m] = [book[m] EXCEPT !.lines = @ \cup {line}]
      BY <1>1, <1>3 DEF AddLine
  <2>2. book'[m].open = book[m].open /\ book'[m].lines = book[m].lines \cup {line}
      BY <1>1, <1>3, <2>1 DEF Book
  <2>. QED
      BY <2>2 DEF Placed
<1>4. CASE m = n /\ RemoveLine(n, line)
  <2>1. /\ book'[m] = [book[m] EXCEPT !.lines = @ \ {line}]
        /\ book[m].open[line][0] = 0 /\ book[m].open[line][1] = 0
      BY <1>1, <1>4 DEF RemoveLine
  <2>2. book'[m].open = book[m].open /\ book'[m].lines = book[m].lines \ {line}
      BY <1>1, <1>4, <2>1 DEF Book
  <2>3. line \in Mkts /\ NetSides(line) = 0..1
      BY NettingAssumption DEF Mkts, NetSides
  <2>4. \A side \in Sides : ~(book[m].open[line][side] > 0)
    <3>1. \A side \in Sides : book[m].open[line][side] > 0 => side \in 0..1
        BY <2>3 DEF Placed
    <3>. QED
        BY <2>1, <3>1
  <2>. QED
      BY <2>2, <2>4 DEF Placed
<1>. QED
    BY <1>2, <1>3, <1>4

\* Every step keeps profit where there is a slot for it.
LEMMA PlacedNext ==
    ASSUME TypeOK, TypeOK', PlaceInv, [Next]_vars, NEW m \in MMs
    PROVE  Placed(book'[m])
<1>1. /\ Placed(book[m]) /\ book \in [MMs -> Book] /\ book[m] \in Book
      /\ SliceInv /\ CashedOutWaits /\ SameMarket
    BY DEF PlaceInv, BookInv, TypeOK
<1>2. CASE book'[m] = book[m]
    BY <1>1, <1>2
<1>3. CASE Quiet
  <2>1. CASE \E n \in MMs : AdminStep(n)
    <3>1. PICK n \in MMs : AdminStep(n)
        BY <2>1
    <3>2. CASE CreateNettingAccount(n) \/ CloseNettingAccount(n)
      <4>1. PICK new \in {NoBook, [NoBook EXCEPT !.exists = TRUE]} :
                book' = [book EXCEPT ![n] = new]
          BY <3>2 DEF CreateNettingAccount, CloseNettingAccount
      <4>2. new.open = FlatOpen
          BY DEF NoBook
      <4>3. CASE m = n
        <5>1. book'[m].open = FlatOpen
            BY <1>1, <4>1, <4>2, <4>3
        <5>. QED
            BY <5>1, FlatPlaced
      <4>4. CASE m # n
          BY <1>1, <1>2, <4>1, <4>4
      <4>. QED
          BY <4>3, <4>4
    <3>3. CASE \E line \in Lines : AddLine(n, line) \/ RemoveLine(n, line)
        BY <1>1, <3>3, LinesPlaced
    <3>4. CASE \/ InitMmMintVault(n) \/ CloseMmMintVault(n)
               \/ \E amount \in Transfers : Deposit(n, amount) \/ Withdraw(n, amount)
      <4>1. UNCHANGED book
          BY <3>4 DEF InitMmMintVault, CloseMmMintVault, Deposit, Withdraw
      <4>. QED
          BY <1>2, <4>1
    <3>. QED
        BY <3>1, <3>2, <3>3, <3>4 DEF AdminStep
  <2>2. CASE ~\E n \in MMs : AdminStep(n)
    <3>1. UNCHANGED book
        BY <1>3, <2>2 DEF Quiet, Donate, EventStep, GoLive, ChangeConfigStatus, Tick,
           vars, money
    <3>. QED
        BY <1>2, <3>1
  <2>. QED
      BY <2>1, <2>2
<1>4. CASE \E b \in Bets : FillStep(b)
  <2>1. PICK b \in Bets : FillStep(b)
      BY <1>4
  <2>2. CASE AccountsStay(m)
      BY <1>2, <2>2 DEF AccountsStay
  <2>3. CASE \E mkt \in Mkts, side \in Sides, f \in Fill, net \in BOOLEAN :
                FilledFor(b, m, mkt, side, f, net)
    <3>1. PICK mkt \in Mkts, side \in Sides, f \in Fill, net \in BOOLEAN :
              FilledFor(b, m, mkt, side, f, net)
        BY <2>3
    <3>. DEFINE p == Profit(f.amount, f.odds)
    <3>2. p \in Nat
        BY FillsAssumption, ProfitType DEF Fill, Odd
    <3>3. /\ book'[m] = IF net THEN Netted(book[m], mkt, side, p) ELSE book[m]
          /\ net => CanNet(book[m], mkt, side)
        BY <3>1 DEF FilledFor
    <3>. HIDE DEF p
    <3>. QED
        BY <1>1, <1>2, <3>2, <3>3, NettedPlaced
  <2>. QED
      BY <2>1, <2>2, <2>3, FillAccounts
<1>5. CASE \E b \in Bets : CashoutStep(b)
  <2>1. AccountsStay(m)
      BY <1>1, <1>5, CashoutReserves
  <2>. QED
      BY <1>2, <2>1 DEF AccountsStay
<1>6. CASE \E b \in Bets : ClaimCashoutEscrow(b) \/ RevertCashout(b)
  <2>1. UNCHANGED book
      BY <1>6 DEF ClaimCashoutEscrow, RevertCashout
  <2>. QED
      BY <1>2, <2>1
<1>7. CASE \E k \in Tickets, result \in Grades : GradeBet(k, result)
  <2>1. UNCHANGED book
      BY <1>7 DEF GradeBet, money
  <2>. QED
      BY <1>2, <2>1
<1>8. CASE \E k \in Tickets : SettleBet(k)
  <2>1. PICK k \in Tickets : SettleBet(k)
      BY <1>8
  <2>. DEFINE t == ticket[k]
              s == t.slices[m]
  <2>2. t.side \in Sides /\ s.reserved \in Nat
    <3>1. t.side \in Sides /\ s \in Slice
        BY DEF TypeOK, Ticket
    <3>. QED
        BY <3>1, SliceFields
  <2>3. /\ book'[m] = IF s.netted THEN Unnetted(book[m], t.mkt, t.side, s.reserved) ELSE book[m]
        /\ s.netted /\ s.reserved > 0 => CanUnnet(book[m], t.mkt, t.side, s.reserved)
      BY <2>1, SettleReleases DEF ReleasedFor
  <2>4. CASE s.netted /\ s.reserved > 0
    <3>. DEFINE mk == t.mkt
                sd == t.side
                r == s.reserved
    <3>1. /\ CanUnnet(book[m], mk, sd, r) /\ sd \in Sides /\ r \in Nat
          /\ book'[m] = Unnetted(book[m], mk, sd, r)
        BY <2>2, <2>3, <2>4
    <3>. HIDE DEF mk, sd, r
    <3>. QED
        BY <1>1, <3>1, UnnettedPlaced
  <2>5. CASE ~(s.netted /\ s.reserved > 0)
    <3>1. book'[m] = book[m]
        BY <2>2, <2>3, <2>5 DEF Unnetted
    <3>. QED
        BY <1>2, <3>1
  <2>. QED
      BY <2>4, <2>5
<1>. QED
    BY <1>3, <1>4, <1>5, <1>6, <1>7, <1>8, StepKinds

\* Every ticket stays on its market.
LEMMA OnMarketNext ==
    ASSUME TypeOK, TypeOK', PlaceInv, [Next]_vars, NEW k \in Tickets
    PROVE  OnMarket(ticket'[k])
<1>1. OnMarket(ticket[k]) /\ ticket \in [Tickets -> Ticket] /\ ticket[k] \in Ticket
    BY DEF PlaceInv, TypeOK
<1>2. CASE ticket'[k] = ticket[k] \/ ticket'[k] = NoTicket
    BY <1>1, <1>2 DEF OnMarket, NoTicket
<1>3. CASE ticket'[k].mkt = ticket[k].mkt /\ Exists(k)
    BY <1>1, <1>3 DEF OnMarket, Exists
<1>4. CASE Quiet
    BY <1>2, <1>4, QuietSteps
<1>5. CASE \E b \in Bets : FillStep(b)
  <2>1. PICK b \in Bets, mkt \in Mkts, side \in Sides, isLive \in BOOLEAN, fills \in FillList :
            OpenBet(b, mkt, side, isLive, fills)
      BY <1>5, FillStepLists
  <2>. DEFINE new == NewBet(b, mkt, side, isLive, fills)
  <2>2. ticket' = [ticket EXCEPT ![b] = new]
      BY <2>1 DEF OpenBet
  <2>3. new.mkt = mkt
      BY DEF NewBet
  <2>. HIDE DEF new
  <2>4. CASE k = b
      BY <1>1, <2>2, <2>3, <2>4 DEF OnMarket
  <2>5. CASE k # b
      BY <1>1, <1>2, <2>2, <2>5
  <2>. QED
      BY <2>4, <2>5
<1>6. CASE \E b \in Bets : CashoutStep(b)
  <2>1. PICK b \in Bets, c \in Cashouts, m \in MMs, payment \in Payments :
            \E amount \in 1..ticket[b].amount : CashoutBet(b, c, m, amount, payment)
      BY <1>6 DEF CashoutStep
  <2>2. CashoutEffect(b, c, m, payment)
      BY <2>1, CashoutTickets
  <2>3. PICK rest \in [MMs -> Slice] : CashoutSlices(b, c, rest)
      BY <2>1, CashoutDivides
  <2>4. ticket[b].mkt \in Mkts
    <3>1. ticket[b].result = "Pending" /\ b \in Tickets
        BY <2>2 DEF CashoutEffect, Tickets
    <3>. QED
        BY <3>1 DEF PlaceInv, OnMarket
  <2>5. CASE k = c
      BY <2>3, <2>4, <2>5 DEF CashoutSlices, OnMarket
  <2>6. CASE k = b
      BY <1>2, <2>3, <2>4, <2>6 DEF CashoutSlices, OnMarket
  <2>7. CASE k \notin {b, c}
    <3>1. ticket'[k] = ticket[k]
        BY <2>2, <2>7 DEF CashoutEffect
    <3>. QED
        BY <1>2, <3>1
  <2>. QED
      BY <2>5, <2>6, <2>7
<1>7. CASE \E b \in Bets : ClaimCashoutEscrow(b)
    BY <1>1, <1>2, <1>7, ClaimTickets
<1>8. CASE \E b \in Bets : RevertCashout(b)
  <2>1. PICK b \in Bets : RevertCashout(b)
      BY <1>8
  <2>2. CASE k = b
    <3>. DEFINE t == ticket[b]
                new == [t EXCEPT
                    !.amount = @ + escrow[b].amount, !.payout = @ + escrow[b].removed,
                    !.slices = Restored(t, ticket[escrow[b].cash]),
                    !.result = IF @ = "RolledBack" THEN @ ELSE "Pending"]
    <3>1. /\ escrow[b].cash \in Cashouts /\ Exists(b)
          /\ ticket' = [ticket EXCEPT ![b] = new, ![escrow[b].cash] = NoTicket]
        BY <2>1, RevertTickets, Zenon DEF RevertCashout
    <3>2. b \in Tickets /\ b \notin Cashouts
        BY CustodyAssumption DEF Tickets
    <3>3. new.mkt = t.mkt
        BY <1>1, <2>2 DEF Ticket
    <3>. HIDE DEF new
    <3>4. ticket'[b].mkt = ticket[b].mkt
        BY <1>1, <3>1, <3>2, <3>3
    <3>. QED
        BY <1>3, <2>2, <3>1, <3>4, SMTT(30)
  <2>3. CASE k # b
      BY <1>2, <2>1, <2>3, RevertTickets
  <2>. QED
      BY <2>2, <2>3
<1>9. CASE \E n \in Tickets, result \in Grades : GradeBet(n, result)
  <2>1. PICK n \in Tickets, result \in Grades : GradeBet(n, result)
      BY <1>9
  <2>2. CASE k = n
    <3>1. ticket'[k] = [ticket[k] EXCEPT !.result = result] /\ Exists(k)
        BY <2>1, <2>2, GradeTicket
    <3>2. ticket'[k].mkt = ticket[k].mkt
        BY <1>1, <3>1 DEF Ticket
    <3>. QED
        BY <1>3, <3>1, <3>2
  <2>3. CASE k # n
      BY <1>2, <2>1, <2>3, GradeTicket
  <2>. QED
      BY <2>2, <2>3
<1>10. CASE \E n \in Tickets : SettleBet(n)
    BY <1>1, <1>2, <1>10, SettleTicket
<1>. QED
    BY <1>4, <1>5, <1>6, <1>7, <1>8, <1>9, <1>10, StepKinds

\* Every step keeps the invariant.
LEMMA PlaceInvNext ==
    ASSUME EventGroups \subseteq {MMs}, TypeOK, PlaceInv, [Next]_vars
    PROVE  PlaceInv'
<1>1. TypeOK'
    BY NextType
<1>2. BookInv'
    BY BookInvNext DEF PlaceInv
<1>3. (\A m \in MMs : Placed(book'[m])) /\ \A k \in Tickets : OnMarket(ticket'[k])
    BY <1>1, PlacedNext, OnMarketNext
<1>. QED
    BY <1>2, <1>3 DEF PlaceInv, Placed, OnMarket

\* Initially every book is flat and there are no tickets.
LEMMA PlaceInvInit ==
    ASSUME Init PROVE PlaceInv
<1>1. \A m \in MMs : book[m].open = FlatOpen
    BY DEF Init, NoBook
<1>2. \A k \in Tickets : OnMarket(ticket[k])
    BY DEF Init, NoTicket, OnMarket
<1>. QED
    BY <1>1, <1>2, FlatPlaced, BookInvInit DEF PlaceInv

\* A reservation is part of the encumbrance, and of the book when it is netted.
LEMMA ReservedIsHeld ==
    ASSUME TypeOK, PlaceInv, NEW k \in Tickets, NEW m \in MMs,
           ticket[k].slices[m].reserved > 0
    PROVE  /\ vault[m].exists
           /\ ticket[k].slices[m].netted =>
                CanUnnet(book[m], ticket[k].mkt, ticket[k].side, ticket[k].slices[m].reserved)
<1>. DEFINE t == ticket[k]
            s == t.slices[m]
            bk == book[m]
<1>1. /\ t \in Ticket /\ s \in Slice /\ bk \in Book /\ t.side \in Sides /\ vault[m].enc \in Nat
    BY DEF TypeOK, Ticket, Vault
<1>2. s.reserved \in Nat /\ PeakTotal(bk) \in Nat
    BY <1>1, SliceFields, PeaksType
<1>3. t.mkt \in Mkts
  <2>1. t # NoTicket
      BY <1>2 DEF NoTicket, NoSlice
  <2>2. Exists(k)
      BY <2>1 DEF PlaceInv, BookInv, SliceInv, LinkInv, Accounts, AbsentIsEmpty
  <2>. QED
      BY <2>2 DEF PlaceInv, OnMarket, Exists
<1>4. /\ ~vault[m].exists => vault[m].enc = 0
      /\ ~bk.exists => bk.open = FlatOpen
      /\ vault[m].enc = UnnettedReserve(m) + PeakTotal(bk)
      /\ \A mkt \in Mkts, side \in Sides : bk.open[mkt][side] = NettedReserve(m, mkt, side)
      /\ Placed(bk)
    BY DEF PlaceInv, BookInv, Balanced
<1>5. UnnettedReserve(m) \in Nat
    BY ReserveSums
<1>6. CASE ~s.netted
  <2>1. /\ UnnettedReserve(m) = Total(Unnets(m)) /\ Unnets(m) \in [Tickets -> Nat]
        /\ IsFiniteSet(Tickets)
      BY ReserveSums
  <2>2. Unnets(m)[k] <= Total(Unnets(m))
      BY <2>1, TotalMember
  <2>3. Unnets(m)[k] = s.reserved
      BY <1>6 DEF Unnets, UnnettedIn
  <2>. QED
      BY <1>2, <1>4, <1>5, <1>6, <2>1, <2>2, <2>3
<1>7. CASE s.netted
  <2>. DEFINE f == Nettings(m, t.mkt, t.side)
  <2>1. /\ NettedReserve(m, t.mkt, t.side) = Total(f) /\ f \in [Tickets -> Nat]
        /\ IsFiniteSet(Tickets) /\ NettedReserve(m, t.mkt, t.side) \in Nat
      BY ReserveSums
  <2>2. f[k] = s.reserved
      BY <1>7 DEF Nettings, NettedIn
  <2>. HIDE DEF f
  <2>3. f[k] <= Total(f)
      BY <2>1, TotalMember
  <2>4. s.reserved <= bk.open[t.mkt][t.side] /\ bk.open[t.mkt][t.side] \in Nat
      BY <1>1, <1>3, <1>4, <2>1, <2>2, <2>3
  <2>5. bk.open[t.mkt][t.side] > 0
      BY <1>2, <2>4
  <2>6. bk.exists
      BY <1>1, <1>3, <1>4, <2>5 DEF FlatOpen
  <2>7. t.side \in NetSides(t.mkt) /\ t.mkt \in Headers \cup bk.lines
      BY <1>1, <1>3, <1>4, <2>5 DEF Placed
  <2>8. vault[m].exists
    <3>. DEFINE g == [mkt \in Mkts |-> Peak(bk.open[mkt])]
    <3>1. g \in [Mkts -> Nat] /\ Total(g) = PeakTotal(bk)
        BY <1>1, PeaksType DEF PeakTotal
    <3>2. g[t.mkt] = Peak(bk.open[t.mkt]) /\ bk.open[t.mkt] \in [Sides -> Nat]
        BY <1>1, <1>3 DEF Book
    <3>3. bk.open[t.mkt][t.side] <= Peak(bk.open[t.mkt]) /\ Peak(bk.open[t.mkt]) \in Nat
        BY <1>1, <3>2, PeakType
    <3>. HIDE DEF g
    <3>4. g[t.mkt] <= Total(g)
        BY <1>3, <3>1, TotalMember, NettingAssumption
    <3>5. /\ PeakTotal(bk) \in Nat
          /\ g[t.mkt] \in Nat
          /\ g[t.mkt] <= PeakTotal(bk)
      <4>1. Total(g) \in Nat
          BY <3>1, TotalType, NettingAssumption
      <4>2. g[t.mkt] \in Nat
          BY <3>2, <3>3
      <4>. QED
          BY <3>1, <3>4, <4>1, <4>2
    <3>. DEFINE pt == PeakTotal(bk)
                gt == g[t.mkt]
                ot == bk.open[t.mkt][t.side]
                un == UnnettedReserve(m)
    <3>6. gt \in Nat /\ ot \in Nat /\ ot > 0 /\ ot <= gt /\ gt <= pt
          /\ pt \in Nat /\ un \in Nat
        BY <1>5, <2>4, <2>5, <3>2, <3>3, <3>5
    <3>7. vault[m].enc = un + pt /\ (~vault[m].exists => vault[m].enc = 0)
        BY <1>4
    <3>. HIDE DEF pt, gt, ot, un
    <3>8. un + pt # 0
        BY <3>6
    <3>. QED
        BY <3>7, <3>8
  <2>9. CanUnnet(bk, t.mkt, t.side, s.reserved)
      BY <2>4, <2>6, <2>7 DEF CanUnnet
  <2>. QED
      BY <2>8, <2>9
<1>. QED
    BY <1>6, <1>7

\* When the MMs agree on the event, the vault of every MM that reserves
\* something is open, and the outcome of its book holds what it reserves
\* there: no admin step takes away what a settlement needs.
THEOREM ReservedAccountsStay ==
    ASSUME EventGroups \subseteq {MMs}
    PROVE  Spec => []ReservedAccountsExist
<1>1. Init => TypeOK /\ PlaceInv
    BY InitType, PlaceInvInit
<1>2. TypeOK /\ PlaceInv /\ [Next]_vars => TypeOK' /\ PlaceInv'
    BY NextType, PlaceInvNext
<1>3. TypeOK /\ PlaceInv => ReservedAccountsExist
    BY ReservedIsHeld DEF ReservedAccountsExist
<1>. QED
    BY <1>1, <1>2, <1>3, PTL DEF Spec

-----------------------------------------------------------------------------
(* Solvency under truthful grades: a market maker reserves only the peak   *)
(* of every market of its book, yet its liability account always covers    *)
(* what the side that really won is owed, and with it every settlement.    *)

-----------------------------------------------------------------------------
(* What is owed *)

\* The profit owed to the winners of every market through netted slices.
WinnerOpen(bk) == [mkt \in Mkts |-> bk.open[mkt][Winner[mkt]]]
Owed(m) == UnnettedReserve(m) + Total(WinnerOpen(book[m]))

\* The winners are owed amounts, and no more than the peaks.
LEMMA WinnersWithinPeaks ==
    ASSUME NEW bk \in Book
    PROVE  /\ WinnerOpen(bk) \in [Mkts -> Nat]
           /\ Total(WinnerOpen(bk)) \in Nat
           /\ Total(WinnerOpen(bk)) <= PeakTotal(bk)
<1>. DEFINE f == WinnerOpen(bk)
            g == [mkt \in Mkts |-> Peak(bk.open[mkt])]
<1>1. ASSUME NEW mkt \in Mkts
      PROVE  /\ bk.open[mkt][Winner[mkt]] \in Nat
             /\ bk.open[mkt][Winner[mkt]] <= Peak(bk.open[mkt])
  <2>1. bk.open[mkt] \in [Sides -> Nat] /\ Winner[mkt] \in Sides
      BY SinglesAssumption DEF Book
  <2>. QED
      BY <2>1, PeakType
<1>2. f \in [Mkts -> Nat] /\ g \in [Mkts -> Nat] /\ \A mkt \in Mkts : f[mkt] <= g[mkt]
    BY <1>1, PeaksType DEF WinnerOpen
<1>. HIDE DEF f, g
<1>3. Total(f) \in Nat /\ Total(f) <= Total(g)
    BY <1>2, TotalType, TotalMonotone, NettingAssumption
<1>. QED
    BY <1>2, <1>3 DEF f, g, PeakTotal

\* So what an MM owes is within its encumbrance.
LEMMA OwedWithinReserve ==
    ASSUME TypeOK, NEW m \in MMs, Balanced(m)
    PROVE  Owed(m) \in Nat /\ Owed(m) <= vault[m].enc
<1>1. book[m] \in Book /\ UnnettedReserve(m) \in Nat
    BY ReserveSums DEF TypeOK
<1>2. /\ Total(WinnerOpen(book[m])) \in Nat
      /\ Total(WinnerOpen(book[m])) <= PeakTotal(book[m])
      /\ PeakTotal(book[m]) \in Nat
    BY <1>1, WinnersWithinPeaks, PeaksType
<1>3. vault[m].enc = UnnettedReserve(m) + PeakTotal(book[m])
    BY DEF Balanced
<1>. QED
    BY <1>1, <1>2, <1>3 DEF Owed

\* Settling a profit on the side that won takes it off what is owed.
LEMMA UnnettedWinner ==
    ASSUME NEW bk \in Book, NEW mkt, NEW side \in Sides, NEW profit \in Nat,
           CanUnnet(bk, mkt, side, profit)
    PROVE  LET new == Unnetted(bk, mkt, side, profit) IN
           /\ Total(WinnerOpen(new)) <= Total(WinnerOpen(bk))
           /\ profit > 0 /\ side = Winner[mkt] =>
                Total(WinnerOpen(new)) = Total(WinnerOpen(bk)) - profit
<1>. DEFINE new == Unnetted(bk, mkt, side, profit)
            f == WinnerOpen(bk)
            g == WinnerOpen(new)
<1>1. new \in Book
    BY UnnettedBook
<1>2. f \in [Mkts -> Nat] /\ g \in [Mkts -> Nat]
    BY <1>1, WinnersWithinPeaks
<1>3. \A mk \in Mkts, sd \in Sides :
          new.open[mk][sd] = IF mk = mkt /\ sd = side THEN bk.open[mk][sd] - profit
                             ELSE bk.open[mk][sd]
    BY UnnettedOpen
<1>. HIDE DEF new
<1>4. \A mk \in Mkts : g[mk] = IF mk = mkt /\ Winner[mk] = side THEN f[mk] - profit ELSE f[mk]
    BY <1>3, SinglesAssumption DEF WinnerOpen
<1>. HIDE DEF f, g
<1>5. Total(g) <= Total(f)
    BY <1>2, <1>4, TotalMonotone, NettingAssumption
<1>6. ASSUME profit > 0, side = Winner[mkt]
      PROVE  Total(g) = Total(f) - profit
  <2>1. mkt \in Mkts
      BY <1>6 DEF CanUnnet, Book, Mkts
  <2>2. Total(g) = Total(f) - f[mkt] + g[mkt]
      BY <1>2, <1>4, <2>1, TotalUpdate, NettingAssumption
  <2>3. g[mkt] = f[mkt] - profit /\ f[mkt] \in Nat /\ Total(f) \in Nat
      BY <1>2, <1>4, <1>6, <2>1, TotalType, NettingAssumption
  <2>. QED
      BY <2>2, <2>3
<1>. QED
    BY <1>5, <1>6 DEF f, g, new

-----------------------------------------------------------------------------
(* What a settlement pays *)

\* A slice is paid only when its side won, and then within its reservation,
\* for half a win as for a whole one.
LEMMA PaysWithinReserve ==
    ASSUME NEW t \in Ticket, TruthfulResult(t), NEW m \in MMs,
           Profit(t.slices[m].amount, t.slices[m].odds) <= t.slices[m].reserved
    PROVE  /\ Pays(t, m) \in Nat /\ Pays(t, m) <= t.slices[m].reserved
           /\ Pays(t, m) > 0 => t.side = Winner[t.mkt]
<1>. DEFINE s == t.slices[m]
            half == s.amount \div 2
            rest == s.amount - half
<1>1. s.amount \in Nat /\ s.reserved \in Nat /\ s.odds \in Odd
    BY SliceFields DEF Ticket
<1>. HIDE DEF s
<1>2. half \in Nat /\ rest \in Nat /\ half + rest = s.amount
    BY <1>1
<1>. HIDE DEF half, rest
<1>3. /\ Profit(half, s.odds) \in Nat /\ Profit(rest, s.odds) \in Nat
      /\ Profit(s.amount, s.odds) \in Nat
    BY <1>1, <1>2, ProfitType
<1>4. Profit(half, s.odds) + Profit(rest, s.odds) <= Profit(s.amount, s.odds)
    BY <1>1, <1>2, ProfitSuperadditive
<1>5. Profit(half, s.odds) <= Profit(s.amount, s.odds)
    BY <1>3, <1>4
<1>6. CASE t.result = "Won" /\ m # t.by
  <2>1. Pays(t, m) = Profit(s.amount, s.odds)
      BY <1>6 DEF Pays, ProfitDue, s
  <2>2. t.side = Winner[t.mkt]
      BY <1>6 DEF TruthfulResult
  <2>. QED
      BY <1>3, <2>1, <2>2 DEF s
<1>7. CASE t.result = "HalfWon" /\ m # t.by
  <2>1. Pays(t, m) = Profit(half, s.odds)
      BY <1>7 DEF Pays, ProfitDue, s, half
  <2>2. t.side = Winner[t.mkt]
      BY <1>7 DEF TruthfulResult
  <2>3. Profit(s.amount, s.odds) <= s.reserved
      BY DEF s
  <2>4. Profit(half, s.odds) <= s.reserved
      BY <1>1, <1>3, <1>5, <2>3
  <2>. QED
      BY <1>3, <2>1, <2>2, <2>4 DEF s
<1>8. CASE m = t.by \/ t.result \notin {"Won", "HalfWon"}
  <2>1. Pays(t, m) = 0
      BY <1>8 DEF Pays, ProfitDue
  <2>. QED
      BY <1>1, <2>1 DEF s
<1>. QED
    BY <1>6, <1>7, <1>8

\* A settlement lowers what an MM owes by at least what it pays.
LEMMA SettleOwed ==
    ASSUME TypeOK, TypeOK', PlaceInv, Truthful, NEW k \in Tickets, SettleBet(k), NEW m \in MMs
    PROVE  /\ Pays(ticket[k], m) \in Nat /\ Owed(m)' \in Int
           /\ Owed(m)' <= Owed(m) - Pays(ticket[k], m)
<1>. DEFINE t == ticket[k]
            s == t.slices[m]
            bk == book[m]
<1>1. /\ t \in Ticket /\ s \in Slice /\ t.side \in Sides /\ bk \in Book /\ book'[m] \in Book
    BY DEF TypeOK, Ticket
<1>2. s.reserved \in Nat
    BY <1>1, SliceFields
<1>3. /\ Pays(t, m) \in Nat /\ Pays(t, m) <= s.reserved
      /\ Pays(t, m) > 0 => t.side = Winner[t.mkt]
  <2>1. Profit(s.amount, s.odds) <= s.reserved
      BY DEF PlaceInv, BookInv, SliceInv, ReserveCoversProfit
  <2>2. TruthfulResult(t)
      BY DEF Truthful
  <2>. QED
      BY <1>1, <2>1, <2>2, PaysWithinReserve
<1>4. /\ book'[m] = IF s.netted THEN Unnetted(bk, t.mkt, t.side, s.reserved) ELSE bk
      /\ s.netted /\ s.reserved > 0 => CanUnnet(bk, t.mkt, t.side, s.reserved)
    BY SettleReleases DEF ReleasedFor
<1>5. UnnettedReserve(m)' = UnnettedReserve(m) - (IF s.netted THEN 0 ELSE s.reserved)
  <2>1. ticket' = [ticket EXCEPT ![k] = NoTicket] /\ ticket \in [Tickets -> Ticket]
      BY SettleTicket DEF TypeOK
  <2>2. ticket'[k] = NoTicket /\ \A n \in Tickets \ {k} : ticket'[n] = ticket[n]
      BY <2>1
  <2>3. UnnettedIn(ticket'[k], m) = 0
      BY <2>2, NothingIn
  <2>4. UnnettedReserve(m)' = UnnettedReserve(m) - UnnettedIn(t, m) + 0
        /\ UnnettedReserve(m) \in Nat
      BY <2>2, <2>3, ReserveChange, ReserveSums
  <2>5. UnnettedIn(t, m) = IF s.netted THEN 0 ELSE s.reserved
      BY DEF UnnettedIn
  <2>. HIDE DEF t, s
  <2>. QED
      BY <1>2, <2>4, <2>5 DEF t
<1>6. /\ UnnettedReserve(m) \in Nat
      /\ Total(WinnerOpen(bk)) \in Nat /\ Total(WinnerOpen(book'[m])) \in Nat
    BY <1>1, ReserveSums, WinnersWithinPeaks
<1>7. Owed(m)' = UnnettedReserve(m)' + Total(WinnerOpen(book'[m]))
    BY DEF Owed, WinnerOpen
<1>8. Owed(m) = UnnettedReserve(m) + Total(WinnerOpen(bk))
    BY DEF Owed
<1>. HIDE DEF t, s, bk
<1>9. Owed(m)' \in Int
    BY <1>2, <1>5, <1>6, <1>7
<1>10. CASE s.netted /\ s.reserved > 0
  <2>. DEFINE mk == t.mkt
              sd == t.side
              r == s.reserved
  <2>1. /\ CanUnnet(bk, mk, sd, r) /\ sd \in Sides /\ r \in Nat /\ bk \in Book /\ r > 0
        /\ book'[m] = Unnetted(bk, mk, sd, r)
      BY <1>1, <1>2, <1>4, <1>10
  <2>. HIDE DEF mk, sd, r
  <2>2. /\ Total(WinnerOpen(book'[m])) <= Total(WinnerOpen(bk))
        /\ sd = Winner[mk] => Total(WinnerOpen(book'[m])) = Total(WinnerOpen(bk)) - r
      BY <2>1, UnnettedWinner
  <2>3. UnnettedReserve(m)' = UnnettedReserve(m)
      BY <1>5, <1>6, <1>10
  <2>4. Total(WinnerOpen(book'[m])) <= Total(WinnerOpen(bk)) - Pays(t, m)
    <3>1. CASE Pays(t, m) = 0
        BY <1>6, <2>2, <3>1
    <3>2. CASE Pays(t, m) > 0
        BY <1>2, <1>3, <1>6, <2>2, <3>2 DEF mk, sd, r
    <3>. QED
        BY <1>3, <3>1, <3>2
  <2>. QED
      BY <1>3, <1>6, <1>7, <1>8, <2>3, <2>4 DEF t
<1>11. CASE s.netted /\ s.reserved = 0
  <2>1. book'[m] = bk /\ UnnettedReserve(m)' = UnnettedReserve(m) /\ Pays(t, m) = 0
      BY <1>3, <1>4, <1>5, <1>6, <1>11 DEF Unnetted
  <2>. QED
      BY <1>6, <1>7, <1>8, <2>1 DEF t
<1>12. CASE ~s.netted
  <2>1. book'[m] = bk /\ UnnettedReserve(m)' = UnnettedReserve(m) - s.reserved
      BY <1>4, <1>5, <1>12
  <2>. QED
      BY <1>2, <1>3, <1>6, <1>7, <1>8, <2>1 DEF t
<1>. QED
    BY <1>2, <1>3, <1>9, <1>10, <1>11, <1>12 DEF t

-----------------------------------------------------------------------------
(* Every step keeps what is owed covered *)

Covered(m) == Owed(m) <= vault[m].liability

\* A step that leaves the encumbrance of an MM covered, covers what it owes.
LEMMA CoveredByReserve ==
    ASSUME TypeOK', NEW m \in MMs, Balanced(m)', vault'[m].enc <= vault'[m].liability
    PROVE  Covered(m)'
<1>. DEFINE f == [k \in Tickets |-> UnnettedIn(ticket'[k], m)]
<1>1. book'[m] \in Book /\ vault'[m] \in Vault
    BY DEF TypeOK
<1>2. /\ Total(WinnerOpen(book'[m])) \in Nat
      /\ Total(WinnerOpen(book'[m])) <= PeakTotal(book'[m])
      /\ PeakTotal(book'[m]) \in Nat
    BY <1>1, WinnersWithinPeaks, PeaksType
<1>3. UnnettedReserve(m)' = Total(f)
    BY DEF UnnettedReserve, UnnettedIn
<1>4. f \in [Tickets -> Nat] /\ IsFiniteSet(Tickets)
  <2>1. \A k \in Tickets : ticket'[k].slices[m].reserved \in Nat
      BY DEF TypeOK, Ticket, Slice
  <2>2. IsFiniteSet(Tickets)
      BY FS_Union, CustodyAssumption DEF Tickets
  <2>. QED
      BY <2>1, <2>2 DEF UnnettedIn
<1>. HIDE DEF f
<1>5. UnnettedReserve(m)' \in Nat
    BY <1>3, <1>4, TotalType
<1>6. vault'[m].enc = UnnettedReserve(m)' + PeakTotal(book'[m])
    BY DEF Balanced, PeakTotal
<1>7. Owed(m)' = UnnettedReserve(m)' + Total(WinnerOpen(book'[m]))
    BY DEF Owed, WinnerOpen
<1>8. vault'[m].liability \in Nat /\ vault'[m].enc \in Nat
    BY <1>1 DEF Vault
<1>. QED
    BY <1>2, <1>5, <1>6, <1>7, <1>8 DEF Covered

\* A step that changes neither what is owed nor takes from the liability
\* account keeps it covered.
LEMMA CoveredStays ==
    ASSUME TypeOK, TypeOK', NEW m \in MMs, Covered(m), ReservesStay(m),
           book'[m].open = book[m].open, vault[m].liability <= vault'[m].liability
    PROVE  Covered(m)'
<1>1. UnnettedReserve(m)' = UnnettedReserve(m) /\ UnnettedReserve(m) \in Nat
    BY ReserveSums DEF ReservesStay
<1>2. Owed(m)' = UnnettedReserve(m)' + Total(WinnerOpen(book'[m]))
    BY DEF Owed, WinnerOpen
<1>3. WinnerOpen(book'[m]) = WinnerOpen(book[m])
    BY DEF WinnerOpen
<1>4. Owed(m)' = Owed(m)
    BY <1>1, <1>2, <1>3 DEF Owed
<1>5. Total(WinnerOpen(book[m])) \in Nat
    BY WinnersWithinPeaks DEF TypeOK
<1>6. Owed(m) \in Nat
    BY <1>1, <1>5 DEF Owed
<1>7. vault[m].liability \in Nat /\ vault'[m].liability \in Nat
    BY DEF TypeOK, Vault
<1>. QED
    BY <1>4, <1>6, <1>7 DEF Covered

\* The admin of an MM takes at most free collateral.
LEMMA AdminCovers ==
    ASSUME TypeOK, TypeOK', NEW n \in MMs, AdminStep(n), NEW m \in MMs,
           Balanced(m), Balanced(m)', Covered(m)
    PROVE  Covered(m)'
<1>1. UNCHANGED ticket
    BY DEF AdminStep, InitMmMintVault, CreateNettingAccount, CloseMmMintVault,
       CloseNettingAccount, AddLine, RemoveLine, Deposit, Withdraw, positions
<1>2. ReservesStay(m)
    BY <1>1, SlicesStay
<1>3. /\ vault \in [MMs -> Vault] /\ vault[m] \in Vault
      /\ book \in [MMs -> Book] /\ book[m] \in Book
    BY DEF TypeOK
<1>4. vault[m].liability \in Nat /\ vault[m].enc \in Nat
    BY <1>3 DEF Vault
<1>5. CASE InitMmMintVault(n) \/ CloseMmMintVault(n)
  <2>1. UNCHANGED book /\ \E v \in {NoVault, [NoVault EXCEPT !.exists = TRUE]} :
            vault' = [vault EXCEPT ![n] = v]
      BY <1>5 DEF InitMmMintVault, CloseMmMintVault
  <2>2. CASE m = n
    <3>1. vault'[m].enc = 0 /\ vault'[m].liability = 0
        BY <1>3, <2>1, <2>2 DEF NoVault
    <3>. QED
        BY <3>1, CoveredByReserve
  <2>3. CASE m # n
      BY <1>2, <1>3, <1>4, <2>1, <2>3, CoveredStays
  <2>. QED
      BY <2>2, <2>3
<1>6. CASE CreateNettingAccount(n) \/ CloseNettingAccount(n)
  <2>1. /\ UNCHANGED vault /\ (~book[n].exists \/ book[n].open = FlatOpen)
        /\ \E bk \in {NoBook, [NoBook EXCEPT !.exists = TRUE]} : book' = [book EXCEPT ![n] = bk]
      BY <1>6 DEF CreateNettingAccount, CloseNettingAccount
  <2>2. m = n => book[m].open = FlatOpen
      BY <2>1 DEF Balanced
  <2>3. m = n => book'[m].open = FlatOpen
      BY <1>3, <2>1 DEF NoBook
  <2>4. book'[m].open = book[m].open
      BY <1>3, <2>1, <2>2, <2>3
  <2>. QED
      BY <1>2, <1>4, <1>6, <2>4, CoveredStays DEF CreateNettingAccount, CloseNettingAccount
<1>7. CASE \E line \in Lines : AddLine(n, line) \/ RemoveLine(n, line)
  <2>1. UNCHANGED vault /\ \E lines : book' = [book EXCEPT ![n].lines = lines]
      BY <1>7 DEF AddLine, RemoveLine
  <2>2. book'[m].open = book[m].open
      BY <1>3, <2>1 DEF Book
  <2>. QED
      BY <1>2, <1>4, <2>1, <2>2, CoveredStays
<1>8. CASE \E amount \in Transfers : Deposit(n, amount)
  <2>1. PICK amount \in Nat : UNCHANGED book /\ vault' = [vault EXCEPT ![n].liability = @ + amount]
      BY <1>8, SinglesAssumption DEF Deposit
  <2>2. vault[m].liability <= vault'[m].liability
      BY <1>3, <1>4, <2>1 DEF Vault
  <2>. QED
      BY <1>2, <2>1, <2>2, CoveredStays
<1>9. CASE \E amount \in Transfers : Withdraw(n, amount)
  <2>1. PICK amount \in Nat : /\ UNCHANGED book
                              /\ vault[n].enc <= vault[n].liability
                              /\ amount <= vault[n].liability - vault[n].enc
                              /\ vault' = [vault EXCEPT ![n].liability = @ - amount]
      BY <1>9, SinglesAssumption DEF Withdraw
  <2>2. CASE m = n
    <3>1. vault'[m].enc = vault[m].enc /\ vault'[m].liability = vault[m].liability - amount
        BY <1>3, <2>1, <2>2 DEF Vault
    <3>2. vault'[m].enc <= vault'[m].liability
        BY <1>4, <2>1, <2>2, <3>1
    <3>. QED
        BY <3>2, CoveredByReserve
  <2>3. CASE m # n
      BY <1>2, <1>3, <1>4, <2>1, <2>3, CoveredStays
  <2>. QED
      BY <2>2, <2>3
<1>. QED
    BY <1>5, <1>6, <1>7, <1>8, <1>9 DEF AdminStep

\* An MM that fills ends with its whole encumbrance covered.
LEMMA FillLiability ==
    ASSUME TypeOK, NEW b \in Bets, FillStep(b), NEW m \in MMs
    PROVE  \/ /\ vault'[m] = vault[m] /\ book'[m] = book[m]
              /\ ticket'[b].slices[m].reserved = 0
           \/ vault'[m].enc <= vault'[m].liability
<1>1. PICK mkt \in Mkts, side \in Sides, isLive \in BOOLEAN, fills \in FillList :
          OpenBet(b, mkt, side, isLive, fills)
    BY FillStepLists
<1>. DEFINE new == NewBet(b, mkt, side, isLive, fills)
            f == FillOf(fills, m)
            added == Delta(book[m], f, mkt, side)
            sent == Shortfall(vault[m], added)
<1>2. /\ vault'[m] = IF m \in Filled(fills)
                     THEN [vault[m] EXCEPT !.liability = @ + sent, !.enc = @ + added]
                     ELSE vault[m]
      /\ m \notin Filled(fills) => book'[m] = book[m]
      /\ ticket' = [ticket EXCEPT ![b] = new]
      /\ \A i \in DOMAIN fills : CanFill(fills[i], mkt, side, isLive)
    BY <1>1 DEF OpenBet, FillOf, Filled
<1>3. m \notin Filled(fills) => new.slices[m] = NoSlice
    BY DEF NewBet, Filled
<1>4. CASE m \notin Filled(fills)
  <2>1. b \in Tickets /\ ticket'[b] = new
      BY <1>2 DEF TypeOK, Tickets
  <2>. QED
      BY <1>2, <1>3, <1>4, <2>1 DEF NoSlice
<1>5. CASE m \in Filled(fills)
  <2>1. f \in Fill /\ f.mm = m /\ CanFill(f, mkt, side, isLive)
      BY <1>2, <1>5, FillOfProps
  <2>2. added \in Nat
      BY <2>1, FillAmounts
  <2>3. vault[m] \in Vault /\ vault[m].enc <= vault[m].liability
      BY <2>1 DEF TypeOK, CanFill
  <2>4. vault[m].enc \in Nat /\ vault[m].liability \in Nat
      BY <2>3 DEF Vault
  <2>. HIDE DEF added, f
  <2>5. vault[m].enc + added <= vault[m].liability + sent
      BY <2>2, <2>3, <2>4 DEF Shortfall, LesserOf
  <2>. HIDE DEF sent
  <2>6. vault'[m].enc = vault[m].enc + added /\ vault'[m].liability = vault[m].liability + sent
      BY <1>2, <1>5, <2>3 DEF Vault
  <2>. QED
      BY <2>5, <2>6
<1>. QED
    BY <1>4, <1>5

\* A fill keeps what every MM owes covered: whoever fills sends what its free
\* collateral does not cover.
LEMMA FillCovers ==
    ASSUME TypeOK, TypeOK', AbsentIsEmpty, NEW b \in Bets, FillStep(b),
           NEW m \in MMs, Balanced(m)', Covered(m)
    PROVE  Covered(m)'
<1>1. CASE vault'[m].enc <= vault'[m].liability
    BY <1>1, CoveredByReserve
<1>2. CASE /\ vault'[m] = vault[m] /\ book'[m] = book[m]
           /\ ticket'[b].slices[m].reserved = 0
  <2>1. /\ b \in Tickets /\ ticket[b] = NoTicket
        /\ \A k \in Tickets \ {b} : ticket'[k] = ticket[k]
    <3>1. ~Exists(b) /\ \E new : ticket' = [ticket EXCEPT ![b] = new]
        BY FillTicket
    <3>2. b \in Tickets /\ ticket \in [Tickets -> Ticket]
        BY DEF Tickets, TypeOK
    <3>. QED
        BY <3>1, <3>2 DEF AbsentIsEmpty
  <2>2. /\ UnnettedIn(ticket[b], m) = 0 /\ UnnettedIn(ticket'[b], m) = 0
        /\ \A mkt \in Mkts, side \in Sides :
              NettedIn(ticket[b], m, mkt, side) = 0 /\ NettedIn(ticket'[b], m, mkt, side) = 0
      BY <1>2, <2>1, NothingIn
  <2>3. /\ UnnettedReserve(m)' = UnnettedReserve(m) - 0 + UnnettedIn(ticket'[b], m)
        /\ \A mkt \in Mkts, side \in Sides :
              NettedReserve(m, mkt, side)'
                = NettedReserve(m, mkt, side) - 0 + NettedIn(ticket'[b], m, mkt, side)
    <3>1. /\ UnnettedIn(ticket[b], m) = 0
          /\ \A mkt \in Mkts, side \in Sides : NettedIn(ticket[b], m, mkt, side) = 0
        BY <2>2
    <3>. QED
        BY <2>1, <3>1, ReserveChange
  <2>4. /\ UnnettedReserve(m) \in Nat
        /\ \A mkt \in Mkts, side \in Sides : NettedReserve(m, mkt, side) \in Nat
      BY ReserveSums
  <2>5. ReservesStay(m)
      BY <2>2, <2>3, <2>4 DEF ReservesStay
  <2>6. vault[m].liability <= vault'[m].liability
      BY <1>2 DEF TypeOK, Vault
  <2>. QED
      BY <1>2, <2>5, <2>6, CoveredStays
<1>. QED
    BY <1>1, <1>2, FillLiability

\* The MM that buys a slice pays with free collateral only.
LEMMA CashoutCovers ==
    ASSUME TypeOK, TypeOK', SliceInv, NEW b \in Bets, CashoutStep(b),
           NEW m \in MMs, Balanced(m)', Covered(m)
    PROVE  Covered(m)'
<1>1. PICK c \in Cashouts, n \in MMs, payment \in Payments :
          \E amount \in 1..ticket[b].amount : CashoutBet(b, c, n, amount, payment)
    BY DEF CashoutStep
<1>2. /\ vault' = [vault EXCEPT ![n].liability = @ - FromLiability(n, payment),
                                ![n].cashouts = @ + 1]
      /\ vault[n].enc <= vault[n].liability
    BY <1>1 DEF CashoutBet, CanCashout
<1>3. /\ vault \in [MMs -> Vault] /\ vault[n].liability \in Nat /\ vault[n].enc \in Nat
      /\ payment \in Nat
    BY CashoutsAssumption DEF TypeOK, Vault
<1>. DEFINE free == FromLiability(n, payment)
<1>4. free \in Nat /\ vault[n].enc <= vault[n].liability - free
    BY <1>2, <1>3 DEF FromLiability, Spare, LesserOf
<1>. HIDE DEF free
<1>5. ReservesStay(m) /\ AccountsStay(m)
    BY CashoutReserves
<1>6. CASE m = n
  <2>1. vault'[m].enc = vault[m].enc /\ vault'[m].liability = vault[m].liability - free
      BY <1>2, <1>3, <1>6 DEF Vault, free
  <2>2. vault'[m].enc <= vault'[m].liability
      BY <1>4, <1>6, <2>1
  <2>. QED
      BY <2>2, CoveredByReserve
<1>7. CASE m # n
  <2>1. vault'[m] = vault[m]
      BY <1>2, <1>3, <1>7
  <2>2. vault[m].liability <= vault'[m].liability
      BY <2>1 DEF TypeOK, Vault
  <2>. QED
      BY <1>5, <2>2, CoveredStays DEF AccountsStay
<1>. QED
    BY <1>6, <1>7

\* A revert returns the payment to the liability account of the MM.
LEMMA RevertCovers ==
    ASSUME TypeOK, TypeOK', SliceInv, SameMarket, NEW b \in Bets, RevertCashout(b),
           NEW m \in MMs, Covered(m)
    PROVE  Covered(m)'
<1>1. ReservesStay(m) /\ AccountsStay(m)
    BY RevertReserves
<1>2. \E n : vault' = [vault EXCEPT ![n].liability = @ + escrow[b].payment,
                                    ![n].cashouts = @ - 1]
    BY DEF RevertCashout
<1>3. escrow[b].payment \in Nat /\ vault \in [MMs -> Vault] /\ vault[m].liability \in Nat
    BY DEF TypeOK, Escrow, Vault
<1>4. \/ vault'[m].liability = vault[m].liability
      \/ vault'[m].liability = vault[m].liability + escrow[b].payment
    BY <1>2, <1>3 DEF Vault
<1>5. vault[m].liability <= vault'[m].liability
    BY <1>3, <1>4
<1>. QED
    BY <1>1, <1>5, CoveredStays DEF AccountsStay

\* A settlement takes what a slice pays from the liability account, and at
\* most brings lost stakes and proceeds.
LEMMA SettleLiability ==
    ASSUME TypeOK, NEW k \in Tickets, SettleBet(k), NEW m \in MMs
    PROVE  vault[m].liability - Pays(ticket[k], m) <= vault'[m].liability
<1>. DEFINE t == ticket[k]
            losses == StakeLosses(t)
            paid == [n \in MMs |-> Pays(t, n)]
            proceeds == stake[k] - Total(losses) + Total(paid)
            pay == Pays(t, m)
<1>1. t \in Ticket /\ \A n \in MMs : CanPay(t, n)
    BY DEF SettleBet, CanSettle, TypeOK
<1>. HIDE DEF t
<1>2. \A n \in MMs : Pays(t, n) \in Nat /\ losses[n] \in Nat
    BY <1>1, SettleSlice
<1>3. Total(losses) \in Nat /\ Total(paid) \in Nat
  <2>1. losses \in [MMs -> Nat] /\ paid \in [MMs -> Nat]
      BY <1>2 DEF StakeLosses
  <2>. QED
      BY <2>1, TotalType, CustodyAssumption
<1>4. StakeReturned(t.result, t.amount) \in Nat
  <2>1. t.amount \in Nat /\ t.amount \div 2 \in Nat
      BY <1>1 DEF Ticket
  <2>. QED
      BY <2>1 DEF StakeReturned
<1>5. Total(losses) + StakeReturned(t.result, t.amount) <= stake[k] /\ stake[k] \in Nat
    BY DEF SettleBet, CanSettle, TypeOK, t
<1>6. vault'[m] = [vault[m] EXCEPT
                      !.liability = @ - pay + losses[m]
                                      + (IF m = t.by THEN proceeds ELSE 0),
                      !.enc = @ - Drop(t, m),
                      !.cashouts = @ - (IF m = t.by THEN 1 ELSE 0)]
    BY DEF SettleBet, t
<1>7. pay \in Nat /\ losses[m] \in Nat
    BY <1>2
<1>. HIDE DEF losses, paid, pay
<1>8. proceeds \in Nat
    BY <1>3, <1>4, <1>5
<1>. HIDE DEF proceeds
<1>9. vault[m] \in Vault /\ vault[m].liability \in Nat
    BY DEF TypeOK, Vault
<1>10. vault'[m].liability = vault[m].liability - pay + losses[m]
                               + (IF m = t.by THEN proceeds ELSE 0)
    BY <1>6, <1>9 DEF Vault
<1>11. vault[m].liability - pay <= vault'[m].liability
    BY <1>7, <1>8, <1>9, <1>10
<1>. QED
    BY <1>11 DEF pay, t

\* Under truthful grades every step keeps what an MM owes covered.
LEMMA CoveredNext ==
    ASSUME TypeOK, TypeOK', PlaceInv, PlaceInv', Truthful, [Next]_vars,
           NEW m \in MMs, Covered(m)
    PROVE  Covered(m)'
<1>1. /\ SliceInv /\ CashedOutWaits /\ SameMarket /\ AbsentIsEmpty
      /\ Balanced(m) /\ Balanced(m)'
    BY DEF PlaceInv, BookInv, SliceInv, LinkInv, Accounts
<1>2. ASSUME ReservesStay(m), AccountsStay(m), UNCHANGED vault PROVE Covered(m)'
  <2>1. vault[m].liability <= vault'[m].liability
      BY <1>2 DEF TypeOK, Vault
  <2>. QED
      BY <1>2, <2>1, CoveredStays DEF AccountsStay
<1>3. CASE Quiet
  <2>1. CASE \E n \in MMs : AdminStep(n)
      BY <1>1, <2>1, AdminCovers
  <2>2. CASE ~\E n \in MMs : AdminStep(n)
    <3>1. UNCHANGED vault /\ AccountsStay(m)
        BY <1>3, <2>2 DEF Quiet, Donate, EventStep, GoLive, ChangeConfigStatus, Tick,
           vars, money, AccountsStay
    <3>2. UNCHANGED ticket
        BY <1>3, QuietSteps
    <3>3. ReservesStay(m)
        BY <3>2, SlicesStay
    <3>. QED
        BY <1>2, <3>1, <3>3
  <2>. QED
      BY <2>1, <2>2
<1>4. CASE \E b \in Bets : FillStep(b)
    BY <1>1, <1>4, FillCovers
<1>5. CASE \E b \in Bets : CashoutStep(b)
    BY <1>1, <1>5, CashoutCovers
<1>6. CASE \E b \in Bets : ClaimCashoutEscrow(b)
    BY <1>1, <1>2, <1>6, ClaimReserves DEF ClaimCashoutEscrow
<1>7. CASE \E b \in Bets : RevertCashout(b)
    BY <1>1, <1>7, RevertCovers
<1>8. CASE \E k \in Tickets, result \in Grades : GradeBet(k, result)
    BY <1>2, <1>8, GradeReserves DEF GradeBet, money
<1>9. CASE \E k \in Tickets : SettleBet(k)
  <2>1. PICK k \in Tickets : SettleBet(k)
      BY <1>9
  <2>. DEFINE pay == Pays(ticket[k], m)
  <2>2. pay \in Nat /\ Owed(m)' \in Int /\ Owed(m)' <= Owed(m) - pay
      BY <2>1, SettleOwed
  <2>3. vault[m].liability - pay <= vault'[m].liability
      BY <2>1, SettleLiability
  <2>. HIDE DEF pay
  <2>4. Owed(m) \in Nat
      BY <1>1, OwedWithinReserve
  <2>5. vault[m].liability \in Nat /\ vault'[m].liability \in Nat
      BY DEF TypeOK, Vault
  <2>. QED
      BY <2>2, <2>3, <2>4, <2>5 DEF Covered
<1>. QED
    BY <1>3, <1>4, <1>5, <1>6, <1>7, <1>8, <1>9, StepKinds

-----------------------------------------------------------------------------
(* What a graded ticket needs is there *)

\* The winning profit of a slice is part of what its MM owes, and the
\* reservation that it releases part of the encumbrance.
LEMMA PaysWithinOwed ==
    ASSUME TypeOK, PlaceInv, Truthful, NEW k \in Tickets, NEW m \in MMs
    PROVE  /\ Pays(ticket[k], m) \in Nat /\ Pays(ticket[k], m) <= Owed(m)
           /\ Drop(ticket[k], m) <= vault[m].enc
<1>. DEFINE t == ticket[k]
            s == t.slices[m]
            bk == book[m]
<1>1. /\ t \in Ticket /\ s \in Slice /\ t.side \in Sides /\ bk \in Book
    BY DEF TypeOK, Ticket
<1>2. /\ s.reserved \in Nat
      /\ UnnettedReserve(m) \in Nat /\ PeakTotal(bk) \in Nat
      /\ Total(WinnerOpen(bk)) \in Nat
    BY <1>1, SliceFields, ReserveSums, PeaksType, WinnersWithinPeaks
<1>3. /\ Pays(t, m) \in Nat /\ Pays(t, m) <= s.reserved
      /\ Pays(t, m) > 0 => t.side = Winner[t.mkt]
  <2>1. Profit(s.amount, s.odds) <= s.reserved
      BY DEF PlaceInv, BookInv, SliceInv, ReserveCoversProfit
  <2>2. TruthfulResult(t)
      BY DEF Truthful
  <2>. QED
      BY <1>1, <2>1, <2>2, PaysWithinReserve
<1>4. /\ vault[m].enc = UnnettedReserve(m) + PeakTotal(bk)
      /\ Owed(m) = UnnettedReserve(m) + Total(WinnerOpen(bk))
    BY DEF PlaceInv, BookInv, Balanced, Owed
<1>5. CASE ~s.netted
  <2>1. /\ UnnettedReserve(m) = Total(Unnets(m)) /\ Unnets(m) \in [Tickets -> Nat]
        /\ IsFiniteSet(Tickets)
      BY ReserveSums
  <2>2. Unnets(m)[k] <= Total(Unnets(m))
      BY <2>1, TotalMember
  <2>3. Unnets(m)[k] = s.reserved /\ Drop(t, m) = s.reserved
      BY <1>5 DEF Unnets, UnnettedIn, Drop
  <2>. HIDE DEF t, s, bk
  <2>4. s.reserved <= UnnettedReserve(m)
      BY <2>1, <2>2, <2>3
  <2>. QED
      BY <1>2, <1>3, <1>4, <2>3, <2>4 DEF t
<1>6. CASE s.netted /\ s.reserved = 0
  <2>1. Drop(t, m) = 0
      BY <1>6 DEF Drop, PeakDrop
  <2>. HIDE DEF t, s, bk
  <2>. QED
      BY <1>2, <1>3, <1>4, <1>6, <2>1 DEF t
<1>7. CASE s.netted /\ s.reserved > 0
  <2>. DEFINE mk == t.mkt
              sd == t.side
              r == s.reserved
              f == WinnerOpen(bk)
              g == [mkt \in Mkts |-> Peak(bk.open[mkt])]
              new == Unnetted(bk, mk, sd, r)
  <2>1. CanUnnet(bk, mk, sd, r)
      BY <1>7, ReservedIsHeld
  <2>2. Drop(t, m) = PeakDrop(bk, mk, sd, r)
      BY <1>7 DEF Drop
  <2>3. r \in Nat /\ r > 0 /\ sd \in Sides
      BY <1>1, <1>2, <1>7
  <2>. HIDE DEF mk, sd, r
  <2>4. mk \in Mkts /\ r <= bk.open[mk][sd]
      BY <1>1, <2>1, <2>3 DEF CanUnnet, Book, Mkts
  <2>5. Total(f) \in Nat /\ f \in [Mkts -> Nat]
      BY <1>1, WinnersWithinPeaks
  <2>6. f[mk] = bk.open[mk][Winner[mk]]
      BY <2>4 DEF WinnerOpen
  <2>7. g \in [Mkts -> Nat] /\ Total(g) = PeakTotal(bk)
      BY <1>1, PeaksType DEF PeakTotal
  <2>8. g[mk] = Peak(bk.open[mk])
      BY <2>4
  <2>9. new \in Book
      BY <1>1, <2>1, <2>3, UnnettedBook
  <2>10. Peak(bk.open[mk]) \in Nat /\ Peak(new.open[mk]) \in Nat
      BY <1>1, <2>4, <2>9, PeakType DEF Book
  <2>11. PeakDrop(bk, mk, sd, r) = Peak(bk.open[mk]) - Peak(new.open[mk])
      BY <2>3 DEF PeakDrop
  <2>12. Pays(t, m) > 0 => sd = Winner[mk]
      BY <1>3 DEF mk, sd
  <2>13. Pays(t, m) <= r
      BY <1>3 DEF r
  <2>. HIDE DEF t, s, bk, f, g, new
  <2>14. f[mk] <= Total(f) /\ g[mk] <= Total(g)
      BY <2>4, <2>5, <2>7, TotalMember, NettingAssumption
  <2>15. Pays(t, m) <= Total(f)
    <3>1. CASE Pays(t, m) = 0
        BY <2>5, <3>1
    <3>2. CASE Pays(t, m) > 0
      <4>1. r <= f[mk] /\ f[mk] \in Nat
          BY <2>4, <2>5, <2>6, <2>12, <3>2
      <4>. QED
          BY <1>3, <2>3, <2>5, <2>13, <2>14, <4>1
    <3>. QED
        BY <1>3, <3>1, <3>2
  <2>16. Drop(t, m) <= PeakTotal(bk)
      BY <1>2, <2>2, <2>7, <2>8, <2>10, <2>11, <2>14
  <2>17. PeakDrop(bk, mk, sd, r) \in Int
      BY <2>10, <2>11
  <2>. QED
      BY <1>2, <1>3, <1>4, <2>2, <2>15, <2>16, <2>17 DEF t, f
<1>. QED
    BY <1>2, <1>5, <1>6, <1>7

\* A ticket's account covers the stake that is lost and the stake returned,
\* although half of every slice rounds down.
LEMMA StakeCovers ==
    ASSUME TypeOK, SlicesAdd, NEW k \in Tickets
    PROVE  Total(StakeLosses(ticket[k])) + StakeReturned(ticket[k].result, ticket[k].amount)
             <= stake[k]
<1>. DEFINE t == ticket[k]
            f == Stakes(t.slices)
            losses == StakeLosses(t)
<1>1. t \in Ticket /\ t.amount \in Nat /\ stake[k] \in Nat
    BY DEF TypeOK, Ticket
<1>2. \A m \in MMs : t.slices[m].amount \in Nat
    BY <1>1 DEF Ticket, Slice
<1>3. Total(f) = t.amount /\ t.amount <= stake[k]
    BY DEF SlicesAdd
<1>. HIDE DEF t
<1>4. f \in [MMs -> Nat]
    BY <1>2 DEF Stakes
<1>5. losses \in [MMs -> Nat] /\ Total(losses) \in Nat
  <2>1. \A m \in MMs : t.slices[m].amount \div 2 \in Nat
      BY <1>2
  <2>2. losses \in [MMs -> Nat]
      BY <1>2, <2>1 DEF StakeLosses, StakeLost
  <2>. QED
      BY <2>2, TotalType, CustodyAssumption
<1>. SUFFICES Total(losses) + StakeReturned(t.result, t.amount) <= stake[k]
    BY DEF t
<1>6. CASE t.result = "Lost"
  <2>1. losses = f
      BY <1>6 DEF StakeLosses, StakeLost, Stakes
  <2>2. StakeReturned(t.result, t.amount) = 0
      BY <1>6 DEF StakeReturned
  <2>. QED
      BY <1>1, <1>3, <2>1, <2>2
<1>7. CASE t.result = "HalfLost"
  <2>. DEFINE twice == [m \in MMs |-> losses[m] + losses[m]]
  <2>1. \A m \in MMs : losses[m] = t.slices[m].amount \div 2
      BY <1>7 DEF StakeLosses, StakeLost
  <2>2. \A m \in MMs : f[m] = t.slices[m].amount
      BY DEF Stakes
  <2>3. StakeReturned(t.result, t.amount) = t.amount \div 2
      BY <1>7 DEF StakeReturned
  <2>. HIDE DEF f, losses
  <2>4. twice \in [MMs -> Nat] /\ \A m \in MMs : twice[m] = losses[m] + losses[m]
      BY <1>5
  <2>5. \A m \in MMs : twice[m] <= f[m]
      BY <1>2, <2>1, <2>2, <2>4
  <2>. HIDE DEF twice
  <2>6. Total(twice) = Total(losses) + Total(losses)
      BY <1>5, <2>4, TotalSum, CustodyAssumption
  <2>7. Total(twice) <= Total(f)
      BY <1>4, <2>4, <2>5, TotalMonotone, CustodyAssumption
  <2>8. (t.amount \div 2) + (t.amount \div 2) <= t.amount /\ t.amount \div 2 \in Nat
      BY <1>1
  <2>. QED
      BY <1>1, <1>3, <1>5, <2>3, <2>6, <2>7, <2>8
<1>8. CASE t.result \notin {"Lost", "HalfLost"}
  <2>1. \A m \in MMs : losses[m] = 0
      BY <1>8 DEF StakeLosses, StakeLost
  <2>2. Total(losses) = 0
      BY <1>5, <2>1, TotalZero
  <2>3. StakeReturned(t.result, t.amount) = t.amount
      BY <1>8 DEF StakeReturned
  <2>. QED
      BY <1>1, <1>3, <2>2, <2>3
<1>. QED
    BY <1>6, <1>7, <1>8

\* Nothing that settle_bet checks can fail on a graded ticket.
LEMMA FinalIsPayable ==
    ASSUME TypeOK, PlaceInv, CountInv, Truthful, \A m \in MMs : Covered(m),
           NEW k \in Tickets, Exists(k), Final(ticket[k]), Reserving(ticket[k]), ~paused
    PROVE  CanSettle(k)
<1>. DEFINE t == ticket[k]
<1>1. ASSUME NEW m \in MMs PROVE CanPay(t, m)
  <2>. DEFINE s == t.slices[m]
  <2>1. s.amount \in Nat /\ s.reserved \in Nat
      BY SliceFields DEF TypeOK, Ticket
  <2>2. s.amount > 0 => s.reserved > 0
      BY DEF Reserving
  <2>3. s.reserved > 0 => /\ vault[m].exists
                          /\ s.netted => CanUnnet(book[m], t.mkt, t.side, s.reserved)
      BY ReservedIsHeld
  <2>4. Pays(t, m) \in Nat /\ Pays(t, m) <= Owed(m) /\ Drop(t, m) <= vault[m].enc
      BY PaysWithinOwed
  <2>5. Owed(m) <= vault[m].liability
      BY DEF Covered
  <2>6. Owed(m) \in Nat /\ vault[m].liability \in Nat
    <3>1. Balanced(m)
        BY DEF PlaceInv, BookInv
    <3>. QED
        BY <3>1, OwedWithinReserve DEF TypeOK, Vault
  <2>7. Pays(t, m) <= vault[m].liability
      BY <2>4, <2>5, <2>6
  <2>8. ~Idle(s) => s.reserved > 0
    <3>. HIDE DEF s
    <3>. QED
        BY <2>1, <2>2 DEF Idle
  <2>. QED
      BY <2>2, <2>3, <2>4, <2>7, <2>8 DEF CanPay
<1>2. t.by # None => vault[t.by].exists /\ vault[t.by].cashouts > 0
    BY BuyerCounts
<1>3. Total(StakeLosses(t)) + StakeReturned(t.result, t.amount) <= stake[k]
    BY StakeCovers DEF PlaceInv, BookInv, SliceInv
<1>. QED
    BY <1>1, <1>2, <1>3 DEF CanSettle

-----------------------------------------------------------------------------
(* The inductive invariant *)

SolvencyInv ==
    /\ TypeOK /\ CountInv /\ PlaceInv /\ Truthful
    /\ \A m \in MMs : Covered(m)

\* Initially nothing is owed.
LEMMA SolvencyInit ==
    ASSUME Init PROVE SolvencyInv
<1>1. TypeOK /\ PlaceInv /\ CountInv
    BY InitType, PlaceInvInit, CountInit
<1>2. Truthful
    BY DEF Init, NoTicket, Truthful, TruthfulResult
<1>3. ASSUME NEW m \in MMs PROVE Covered(m)
  <2>1. Balanced(m) /\ vault[m].enc = 0
      BY <1>1 DEF PlaceInv, BookInv, Init, NoVault
  <2>2. Owed(m) \in Nat /\ Owed(m) <= vault[m].enc
      BY <1>1, <2>1, OwedWithinReserve
  <2>3. vault[m].liability \in Nat
      BY <1>1 DEF TypeOK, Vault
  <2>. QED
      BY <2>1, <2>2, <2>3 DEF Covered
<1>. QED
    BY <1>1, <1>2, <1>3 DEF SolvencyInv

\* Every step of a trusted operator keeps the invariant.
LEMMA SolvencyNext ==
    ASSUME EventGroups \subseteq {MMs}, SolvencyInv, [TrustedNext]_vars
    PROVE  SolvencyInv'
<1>1. [Next]_vars
    BY DEF TrustedNext
<1>2. TypeOK' /\ PlaceInv' /\ CountInv'
    BY <1>1, NextType, PlaceInvNext, CountNext DEF SolvencyInv
<1>3. Truthful'
  <2>1. CASE TrustedNext
      BY <2>1 DEF TrustedNext
  <2>2. CASE UNCHANGED vars
    <3>1. UNCHANGED ticket
        BY <2>2 DEF vars
    <3>. QED
        BY <3>1 DEF SolvencyInv, Truthful
  <2>. QED
      BY <2>1, <2>2
<1>4. \A m \in MMs : Covered(m)'
    BY <1>1, <1>2, CoveredNext DEF SolvencyInv
<1>. QED
    BY <1>2, <1>3, <1>4 DEF SolvencyInv

-----------------------------------------------------------------------------

\* When the MMs agree on the event and results are truthful, every MM's
\* liability account covers what it owes to the side that won, although it
\* reserves only the peak of each market and may withdraw all the rest.
THEOREM Solvency ==
    ASSUME EventGroups \subseteq {MMs}
    PROVE  TrustedSpec => []Solvent
<1>1. Init => SolvencyInv
    BY SolvencyInit
<1>2. SolvencyInv /\ [TrustedNext]_vars => SolvencyInv'
    BY SolvencyNext
<1>3. SolvencyInv => Solvent
  <2>. SUFFICES ASSUME SolvencyInv, NEW m \in MMs
                PROVE  vault[m].liability >= UnnettedReserve(m)
                         + Total([mkt \in Mkts |-> book[m].open[mkt][Winner[mkt]]])
      BY DEF Solvent
  <2>1. Covered(m) /\ vault[m].liability \in Nat /\ Balanced(m)
      BY DEF SolvencyInv, TypeOK, Vault, PlaceInv, BookInv
  <2>2. Owed(m) \in Nat
      BY <2>1, OwedWithinReserve DEF SolvencyInv
  <2>3. vault[m].liability >= Owed(m)
      BY <2>1, <2>2 DEF Covered
  <2>. QED
      BY <2>3 DEF Owed, WinnerOpen
<1>. QED
    BY <1>1, <1>2, <1>3, PTL DEF TrustedSpec

\* When the MMs agree on the event and results are truthful, a graded ticket
\* whose slices all reserve something can always be settled: accounts, lines,
\* encumbrance and balances are there whatever happened before.
THEOREM Payability ==
    ASSUME EventGroups \subseteq {MMs}
    PROVE  TrustedSpec => []PayableWhenFinal
<1>1. Init => SolvencyInv
    BY SolvencyInit
<1>2. SolvencyInv /\ [TrustedNext]_vars => SolvencyInv'
    BY SolvencyNext
<1>3. SolvencyInv => PayableWhenFinal
    BY FinalIsPayable DEF SolvencyInv, PayableWhenFinal, OpenTickets
<1>. QED
    BY <1>1, <1>2, <1>3, PTL DEF TrustedSpec

-----------------------------------------------------------------------------
(* The auction loop of fill_bet stages what FillBet does *)

\* What the fills add to the encumbrance of m, and what they make m send.
Added(fills, mkt, side, m) == Delta(book[m], FillOf(fills, m), mkt, side)
Sent(fills, mkt, side, m) == Shortfall(vault[m], Added(fills, mkt, side, m))

\* The accounts after these fills, each computed from the accounts before them.
StagedVault(fills, mkt, side) ==
    [m \in MMs |-> IF m \in Filled(fills)
                   THEN [vault[m] EXCEPT !.liability = @ + Sent(fills, mkt, side, m),
                                         !.enc = @ + Added(fills, mkt, side, m)]
                   ELSE vault[m]]
StagedWallet(fills, mkt, side) ==
    [m \in MMs |-> IF m \in Filled(fills)
                   THEN wallet[m] - Sent(fills, mkt, side, m) ELSE wallet[m]]
StagedBook(fills, mkt, side) ==
    [m \in MMs |->
        IF m \in Filled(fills) /\ Nets(book[m], FillOf(fills, m), mkt, side)
        THEN Netted(book[m], mkt, side,
                    Profit(FillOf(fills, m).amount, FillOf(fills, m).odds))
        ELSE book[m]]

\* The running transaction.
Loop == [pc: {"fill"}, bet: Bets, mkt: Wanted, side: Sides, request: Requests,
         quotes: QuoteLists, at: Nat, fills: Seq(Fill), refused: SUBSET MMs,
         vault: [MMs -> Vault], book: [MMs -> Book], wallet: [MMs -> Nat]]

\* Market makers take part, pregame, with vaults that cover what they reserve.
MakersReady ==
    \A m \in MMs : vault[m].exists /\ vault[m].enc <= vault[m].liability /\ ~live[m]

\* The fills are of quotes already passed, in their order.
FillsOfQuotes ==
    /\ Len(auction.fills) < auction.at
    /\ \A i, j \in DOMAIN auction.fills : i < j =>
           /\ auction.fills[i].mm # auction.fills[j].mm
           /\ auction.fills[i].odds >= auction.fills[j].odds
    /\ \A i \in DOMAIN auction.fills : \E k \in 1..(auction.at - 1) :
           /\ auction.quotes[k].mm = auction.fills[i].mm
           /\ auction.quotes[k].odds = auction.fills[i].odds

\* Every one of them can be made from the accounts of before the transaction.
FillsGood ==
    \A i \in DOMAIN auction.fills :
        /\ auction.fills[i].amount >= MinFill
        /\ CanFill(auction.fills[i], auction.mkt, auction.side, FALSE)

\* The staged accounts are those after the fills.
StagedRight ==
    /\ auction.vault = StagedVault(auction.fills, auction.mkt, auction.side)
    /\ auction.wallet = StagedWallet(auction.fills, auction.mkt, auction.side)
    /\ auction.book = StagedBook(auction.fills, auction.mkt, auction.side)

\* Amounts by list: in all, and of one market maker.
AmountOf(fills) == Total([i \in DOMAIN fills |-> fills[i].amount])
AmountBy(fills, m) ==
    Total([i \in DOMAIN fills |-> IF fills[i].mm = m THEN fills[i].amount ELSE 0])

\* Nothing more is to be had from a quote.
Exhausted(fills, refused, q) ==
    AmountBy(fills, q.mm) = q.max \/ q.mm \in refused \/ q.max < MinFill

\* The quotes passed are exhausted, or next to nothing of the request is left;
\* those with a better price than a fill are exhausted.
PassedExhausted ==
    /\ filled_amount <= auction.request
    /\ remaining_amount >= MinFill =>
           \A k \in 1..(auction.at - 1) :
               Exhausted(auction.fills, auction.refused, auction.quotes[k])
    /\ \A i \in DOMAIN auction.fills, k \in DOMAIN auction.quotes :
           auction.quotes[k].odds > auction.fills[i].odds =>
               Exhausted(auction.fills, auction.refused, auction.quotes[k])

LoopInv ==
    /\ auction \in Loop /\ MayOpen(auction.bet)
    /\ auction.at \in 1..(Len(auction.quotes) + 1)
    /\ FillsOfQuotes /\ FillsGood /\ StagedRight /\ PassedExhausted

AuctionInv == TypeOK /\ MakersReady /\ (auction = NoAuction \/ LoopInv)

-----------------------------------------------------------------------------
(* Lists of fills that grow *)

\* One more summand at the end.
LEMMA TotalAppend ==
    ASSUME NEW n \in Nat, NEW f \in [1..n -> Nat], NEW g \in [1..(n + 1) -> Nat],
           \A i \in 1..n : g[i] = f[i]
    PROVE  Total(f) \in Nat /\ Total(g) = Total(f) + g[n + 1]
<1>1. IsFiniteSet(1..n) /\ IsFiniteSet(1..(n + 1)) /\ n + 1 \in 1..(n + 1)
    BY FS_Interval
<1>2. Total(g) = Cardinality(UnitsBut(g, {n + 1})) + g[n + 1]
    BY <1>1, TotalSplit
<1>3. 1..(n + 1) \ {n + 1} = 1..n
    OBVIOUS
<1>4. UnitsBut(g, {n + 1}) = UNION {Units(f, y) : y \in 1..n}
    BY <1>3 DEF UnitsBut, Units
<1>5. Total(f) = Cardinality(UnitsBut(g, {n + 1}))
    BY <1>4 DEF Total
<1>6. Total(f) \in Nat
    BY <1>1, TotalType
<1>. QED
    BY <1>2, <1>5, <1>6

\* Fills of distinct market makers, none of them m's.
Distinct(fills) ==
    \A i, j \in DOMAIN fills : i < j => fills[i].mm # fills[j].mm

\* The list with one more fill at the end.
LEMMA AppendedFills ==
    ASSUME NEW fills \in Seq(Fill), NEW f \in Fill
    PROVE  LET more == Append(fills, f) IN
           /\ more \in Seq(Fill) /\ Len(more) = Len(fills) + 1 /\ Len(fills) \in Nat
           /\ DOMAIN fills = 1..Len(fills) /\ DOMAIN more = 1..(Len(fills) + 1)
           /\ more[Len(fills) + 1] = f
           /\ \A i \in DOMAIN fills : more[i] = fills[i] /\ fills[i] \in Fill
OBVIOUS

\* A market maker of the list keeps its fill, and the new one has its own.
LEMMA FillOfAppended ==
    ASSUME NEW fills \in Seq(Fill), NEW f \in Fill, Distinct(fills),
           f.mm \notin Filled(fills)
    PROVE  LET more == Append(fills, f) IN
           /\ Distinct(more)
           /\ Filled(more) = Filled(fills) \cup {f.mm}
           /\ FillOf(more, f.mm) = f
           /\ \A m \in Filled(fills) : FillOf(more, m) = FillOf(fills, m)
<1>. DEFINE more == Append(fills, f)
            n == Len(fills)
<1>1. /\ n \in Nat /\ DOMAIN fills = 1..n /\ DOMAIN more = 1..(n + 1)
      /\ more[n + 1] = f /\ \A i \in 1..n : more[i] = fills[i]
    BY AppendedFills
<1>. HIDE DEF more, n
<1>2. \A i \in 1..n : fills[i].mm # f.mm
    BY <1>1 DEF Filled
<1>3. \A i \in 1..(n + 1) : i = n + 1 \/ i \in 1..n
    BY <1>1
<1>4. n + 1 \in 1..(n + 1) /\ \A i \in 1..n : i \in 1..(n + 1)
    BY <1>1
<1>5. Distinct(more)
  <2>. SUFFICES ASSUME NEW i \in 1..(n + 1), NEW j \in 1..(n + 1), i < j
                PROVE  more[i].mm # more[j].mm
      BY <1>1 DEF Distinct
  <2>1. i \in 1..n
      BY <1>1
  <2>2. CASE j = n + 1
      BY <1>1, <1>2, <2>1, <2>2
  <2>3. CASE j \in 1..n
      BY <1>1, <2>1, <2>3 DEF Distinct
  <2>. QED
      BY <1>3, <2>2, <2>3
<1>6. Filled(more) = Filled(fills) \cup {f.mm}
    BY <1>1, <1>3, <1>4 DEF Filled
<1>7. FillOf(more, f.mm) = f
  <2>1. \A i \in 1..(n + 1) : more[i].mm = f.mm => i = n + 1
      BY <1>1, <1>2, <1>3
  <2>2. (CHOOSE i \in DOMAIN more : more[i].mm = f.mm) = n + 1
      BY <1>1, <1>4, <2>1
  <2>. QED
      BY <1>1, <2>2 DEF FillOf
<1>8. ASSUME NEW m \in Filled(fills)
      PROVE  FillOf(more, m) = FillOf(fills, m)
  <2>1. PICK k \in 1..n : fills[k].mm = m
      BY <1>1 DEF Filled
  <2>2. \A i \in 1..n : fills[i].mm = m => i = k
    <3>. SUFFICES ASSUME NEW i \in 1..n, fills[i].mm = m, i # k
                  PROVE  FALSE
        OBVIOUS
    <3>1. i < k \/ k < i
        BY <1>1
    <3>. QED
        BY <1>1, <2>1, <3>1 DEF Distinct
  <2>3. \A i \in 1..(n + 1) : more[i].mm = m => i = k
      BY <1>1, <1>2, <1>3, <2>1, <2>2
  <2>4. (CHOOSE i \in DOMAIN more : more[i].mm = m) = k
      BY <1>1, <1>4, <2>1, <2>3
  <2>5. (CHOOSE i \in DOMAIN fills : fills[i].mm = m) = k
      BY <1>1, <2>1, <2>2
  <2>. QED
      BY <1>1, <2>1, <2>4, <2>5 DEF FillOf
<1>. QED
    BY <1>5, <1>6, <1>7, <1>8 DEF more

\* What is staged for one more fill is staged on top of what was.
LEMMA StagedAppended ==
    ASSUME auction.fills \in Seq(Fill), fill \in Fill, Distinct(auction.fills),
           fill.mm \notin Filled(auction.fills)
    PROVE  LET more == Append(auction.fills, fill)
               fills == auction.fills
               mkt == auction.mkt
               side == auction.side
               m == fill.mm
               d == Delta(book[m], fill, mkt, side)
               s == Shortfall(vault[m], d)
           IN  /\ StagedVault(fills, mkt, side)[m] = vault[m]
               /\ StagedWallet(fills, mkt, side)[m] = wallet[m]
               /\ StagedBook(fills, mkt, side)[m] = book[m]
               /\ StagedVault(more, mkt, side)
                    = [StagedVault(fills, mkt, side) EXCEPT
                          ![m] = [vault[m] EXCEPT !.liability = @ + s, !.enc = @ + d]]
               /\ StagedWallet(more, mkt, side)
                    = [StagedWallet(fills, mkt, side) EXCEPT ![m] = wallet[m] - s]
               /\ StagedBook(more, mkt, side)
                    = [StagedBook(fills, mkt, side) EXCEPT
                          ![m] = IF Nets(book[m], fill, mkt, side)
                                 THEN Netted(book[m], mkt, side, Profit(fill.amount, fill.odds))
                                 ELSE book[m]]
<1>. DEFINE fills == auction.fills
            more == Append(auction.fills, fill)
            mkt == auction.mkt
            side == auction.side
            mm == fill.mm
<1>1. /\ Filled(more) = Filled(fills) \cup {mm}
      /\ FillOf(more, mm) = fill
      /\ \A m \in Filled(fills) : FillOf(more, m) = FillOf(fills, m)
    BY FillOfAppended
<1>2. mm \in MMs /\ mm \notin Filled(fills)
    BY DEF Fill
<1>. HIDE DEF more, fills, mkt, side, mm
<1>3. /\ Added(more, mkt, side, mm) = Delta(book[mm], fill, mkt, side)
      /\ Sent(more, mkt, side, mm) = Shortfall(vault[mm], Delta(book[mm], fill, mkt, side))
    BY <1>1 DEF Added, Sent
<1>4. \A m \in Filled(fills) : /\ Added(more, mkt, side, m) = Added(fills, mkt, side, m)
                               /\ Sent(more, mkt, side, m) = Sent(fills, mkt, side, m)
    BY <1>1 DEF Added, Sent
<1>5. \A m \in MMs \ {mm} : m \in Filled(more) <=> m \in Filled(fills)
    BY <1>1
<1>6. mm \in Filled(more)
    BY <1>1
<1>7. StagedVault(more, mkt, side)
        = [StagedVault(fills, mkt, side) EXCEPT
              ![mm] = [vault[mm] EXCEPT !.liability = @ + Sent(more, mkt, side, mm),
                                        !.enc = @ + Added(more, mkt, side, mm)]]
    BY <1>2, <1>4, <1>5, <1>6 DEF StagedVault
<1>8. StagedWallet(more, mkt, side)
        = [StagedWallet(fills, mkt, side) EXCEPT
              ![mm] = wallet[mm] - Sent(more, mkt, side, mm)]
    BY <1>2, <1>4, <1>5, <1>6 DEF StagedWallet
<1>9. StagedBook(more, mkt, side)
        = [StagedBook(fills, mkt, side) EXCEPT
              ![mm] = IF Nets(book[mm], fill, mkt, side)
                      THEN Netted(book[mm], mkt, side, Profit(fill.amount, fill.odds))
                      ELSE book[mm]]
    BY <1>1, <1>2, <1>5, <1>6 DEF StagedBook
<1>10. /\ StagedVault(fills, mkt, side)[mm] = vault[mm]
       /\ StagedWallet(fills, mkt, side)[mm] = wallet[mm]
       /\ StagedBook(fills, mkt, side)[mm] = book[mm]
    BY <1>2 DEF StagedVault, StagedWallet, StagedBook
<1>. QED
    BY <1>3, <1>7, <1>8, <1>9, <1>10 DEF more, fills, mkt, side, mm

\* The totals of a list with one more fill.
LEMMA AmountsAppended ==
    ASSUME NEW fills \in Seq(Fill), NEW f \in Fill
    PROVE  /\ AmountOf(fills) \in Nat /\ f.amount \in Nat
           /\ AmountOf(Append(fills, f)) = AmountOf(fills) + f.amount
           /\ \A m : /\ AmountBy(fills, m) \in Nat
                     /\ AmountBy(Append(fills, f), m)
                          = AmountBy(fills, m) + (IF f.mm = m THEN f.amount ELSE 0)
<1>. DEFINE more == Append(fills, f)
            n == Len(fills)
<1>1. /\ n \in Nat /\ DOMAIN fills = 1..n /\ DOMAIN more = 1..(n + 1)
      /\ more[n + 1] = f /\ \A i \in 1..n : more[i] = fills[i] /\ fills[i] \in Fill
    BY AppendedFills
<1>. HIDE DEF more, n
<1>2. \A e \in Fill : e.amount \in Nat
    BY FillsAssumption DEF Fill
<1>3. \A i \in 1..n : i \in 1..(n + 1)
    BY <1>1
<1>4. \A i \in 1..(n + 1) : more[i] \in Fill
  <2>1. \A i \in 1..(n + 1) : i = n + 1 \/ i \in 1..n
      BY <1>1
  <2>. QED
      BY <1>1, <2>1
<1>5. AmountOf(fills) \in Nat /\ AmountOf(more) = AmountOf(fills) + f.amount
  <2>. DEFINE a == [i \in 1..n |-> fills[i].amount]
              b == [i \in 1..(n + 1) |-> more[i].amount]
  <2>1. a \in [1..n -> Nat] /\ b \in [1..(n + 1) -> Nat]
      BY <1>1, <1>2, <1>4
  <2>2. \A i \in 1..n : b[i] = a[i]
      BY <1>1, <1>3
  <2>3. b[n + 1] = f.amount
      BY <1>1
  <2>4. AmountOf(fills) = Total(a) /\ AmountOf(more) = Total(b)
      BY <1>1 DEF AmountOf
  <2>. HIDE DEF a, b
  <2>5. Total(a) \in Nat /\ Total(b) = Total(a) + b[n + 1]
      BY <1>1, <2>1, <2>2, TotalAppend
  <2>. QED
      BY <2>3, <2>4, <2>5
<1>6. ASSUME NEW m
      PROVE  /\ AmountBy(fills, m) \in Nat
             /\ AmountBy(more, m)
                  = AmountBy(fills, m) + (IF f.mm = m THEN f.amount ELSE 0)
  <2>. DEFINE a == [i \in 1..n |-> IF fills[i].mm = m THEN fills[i].amount ELSE 0]
              b == [i \in 1..(n + 1) |-> IF more[i].mm = m THEN more[i].amount ELSE 0]
  <2>1. a \in [1..n -> Nat] /\ b \in [1..(n + 1) -> Nat]
      BY <1>1, <1>2, <1>4
  <2>2. \A i \in 1..n : b[i] = a[i]
      BY <1>1, <1>3
  <2>3. b[n + 1] = IF f.mm = m THEN f.amount ELSE 0
      BY <1>1
  <2>4. AmountBy(fills, m) = Total(a) /\ AmountBy(more, m) = Total(b)
      BY <1>1 DEF AmountBy
  <2>. HIDE DEF a, b
  <2>5. Total(a) \in Nat /\ Total(b) = Total(a) + b[n + 1]
      BY <1>1, <2>1, <2>2, TotalAppend
  <2>. QED
      BY <2>3, <2>4, <2>5
<1>. QED
    BY <1>2, <1>5, <1>6 DEF more

\* What a market maker has filled is a natural number.
LEMMA AmountByType ==
    ASSUME NEW fills \in Seq(Fill), NEW m
    PROVE  AmountBy(fills, m) \in Nat
<1>. DEFINE a == [i \in DOMAIN fills |-> IF fills[i].mm = m THEN fills[i].amount ELSE 0]
            n == Len(fills)
<1>1. n \in Nat /\ DOMAIN fills = 1..n /\ \A i \in 1..n : fills[i] \in Fill
    OBVIOUS
<1>2. \A e \in Fill : e.amount \in Nat
    BY FillsAssumption DEF Fill
<1>3. a \in [1..n -> Nat] /\ IsFiniteSet(1..n)
    BY <1>1, <1>2, FS_Interval
<1>. HIDE DEF a, n
<1>4. Total(a) \in Nat
    BY <1>3, TotalType
<1>. QED
    BY <1>4 DEF AmountBy, a

\* A market maker that is not in the list has filled nothing.
LEMMA NothingBy ==
    ASSUME NEW fills \in Seq(Fill), NEW m, m \notin Filled(fills)
    PROVE  AmountBy(fills, m) = 0
<1>. DEFINE a == [i \in DOMAIN fills |-> IF fills[i].mm = m THEN fills[i].amount ELSE 0]
<1>1. \A i \in DOMAIN fills : a[i] = 0
    BY DEF Filled
<1>2. a \in [DOMAIN fills -> Nat]
    BY <1>1
<1>. HIDE DEF a
<1>3. Total(a) = 0
    BY <1>1, <1>2, TotalZero
<1>. QED
    BY <1>3 DEF AmountBy, a

-----------------------------------------------------------------------------
(* The loop *)

\* A list of quotes is a short sequence of quotes.
LEMMA QuotesAre ==
    ASSUME NEW quotes \in QuoteLists
    PROVE  /\ Len(quotes) \in Nat /\ DOMAIN quotes = 1..Len(quotes)
           /\ Len(quotes) <= Cardinality(MMs)
           /\ \A i \in 1..Len(quotes) : quotes[i] \in MMQuote
<1>1. Cardinality(MMs) \in Nat
    BY CustodyAssumption, FS_CardinalityType
<1>2. PICK n \in 0..Cardinality(MMs) : quotes \in [1..n -> MMQuote]
    BY DEF QuoteLists, SeqOf
<1>. QED
    BY <1>1, <1>2

\* The transaction that runs, field by field.
LEMMA LoopFields ==
    ASSUME LoopInv
    PROVE  /\ auction.pc = "fill" /\ auction.bet \in Bets /\ auction.mkt \in Mkts
           /\ auction.side \in Sides /\ auction.request \in Nat
           /\ auction.quotes \in QuoteLists /\ auction.fills \in Seq(Fill)
           /\ auction.at \in Nat \ {0} /\ Len(auction.quotes) \in Nat
           /\ auction.at <= Len(auction.quotes) + 1
           /\ Distinct(auction.fills)
           /\ filled_amount = AmountOf(auction.fills)
           /\ \A m : FilledBy(m) = AmountBy(auction.fills, m)
           /\ filled_amount \in Nat /\ filled_amount <= auction.request
           /\ remaining_amount \in Nat /\ remaining_amount <= auction.request
<1>1. auction \in Loop
    BY DEF LoopInv
<1>2. /\ auction.pc = "fill" /\ auction.bet \in Bets /\ auction.mkt \in Wanted
      /\ auction.side \in Sides /\ auction.request \in Requests
      /\ auction.quotes \in QuoteLists /\ auction.fills \in Seq(Fill) /\ auction.at \in Nat
    BY <1>1 DEF Loop
<1>3. auction.mkt \in Mkts /\ auction.request \in Nat
    BY <1>2, AuctionAssumption
<1>4. Len(auction.quotes) \in Nat
    BY <1>2, QuotesAre
<1>5. auction.at \in Nat \ {0} /\ auction.at <= Len(auction.quotes) + 1
    BY <1>2, <1>4 DEF LoopInv
<1>6. Distinct(auction.fills)
    BY DEF LoopInv, FillsOfQuotes, Distinct
<1>7. filled_amount = AmountOf(auction.fills) /\ \A m : FilledBy(m) = AmountBy(auction.fills, m)
    BY DEF filled_amount, AmountOf, FilledBy, AmountBy
<1>8. AmountOf(auction.fills) \in Nat
  <2>. DEFINE a == [i \in DOMAIN auction.fills |-> auction.fills[i].amount]
              n == Len(auction.fills)
  <2>1. n \in Nat /\ DOMAIN auction.fills = 1..n /\ \A i \in 1..n : auction.fills[i] \in Fill
      BY <1>2
  <2>2. \A e \in Fill : e.amount \in Nat
      BY FillsAssumption DEF Fill
  <2>3. a \in [1..n -> Nat]
      BY <2>1, <2>2
  <2>4. IsFiniteSet(1..n)
      BY FS_Interval
  <2>. HIDE DEF a, n
  <2>5. Total(a) \in Nat
      BY <2>3, <2>4, TotalType
  <2>. QED
      BY <2>5 DEF AmountOf, a
<1>9. filled_amount <= auction.request
    BY DEF LoopInv, PassedExhausted
<1>10. remaining_amount \in Nat /\ remaining_amount <= auction.request
    BY <1>3, <1>7, <1>8, <1>9 DEF remaining_amount
<1>. QED
    BY <1>2, <1>3, <1>4, <1>5, <1>6, <1>7, <1>8, <1>9, <1>10

\* The quote that is tried is the first of those not passed: its market maker
\* has filled nothing.
LEMMA QuoteTried ==
    ASSUME LoopInv, Trying
    PROVE  /\ auction.at \in 1..Len(auction.quotes) /\ quote \in MMQuote
           /\ quote.mm \in MMs /\ quote.max \in Nat /\ quote.odds \in Nat
           /\ quote.mm \notin Filled(auction.fills)
           /\ \A i \in 1..(auction.at - 1) : auction.quotes[i].mm # quote.mm
           /\ \A i \in DOMAIN auction.fills : auction.fills[i].odds >= quote.odds
           /\ \A i \in DOMAIN auction.quotes :
                 auction.quotes[i].odds > quote.odds => i \in 1..(auction.at - 1)
<1>1. /\ auction.quotes \in QuoteLists /\ auction.at \in Nat \ {0}
      /\ Len(auction.quotes) \in Nat
    BY LoopFields
<1>2. auction.at \in 1..Len(auction.quotes)
    BY <1>1 DEF Trying
<1>3. /\ DOMAIN auction.quotes = 1..Len(auction.quotes)
      /\ \A i \in 1..Len(auction.quotes) : auction.quotes[i] \in MMQuote
      /\ Sorted(auction.quotes)
    BY <1>1, QuotesAre DEF QuoteLists
<1>4. \A q \in MMQuote : q.mm \in MMs /\ q.max \in Nat /\ q.odds \in Nat
    BY FillsAssumption DEF MMQuote
<1>5. quote \in MMQuote
    BY <1>2, <1>3 DEF quote
<1>6. \A i \in 1..(auction.at - 1) : /\ i \in 1..Len(auction.quotes) /\ i < auction.at
                                     /\ auction.quotes[i].mm # quote.mm
                                     /\ auction.quotes[i].odds >= quote.odds
    BY <1>1, <1>2, <1>3 DEF Sorted, quote
<1>7. \A i \in DOMAIN auction.fills : \E k \in 1..(auction.at - 1) :
           /\ auction.quotes[k].mm = auction.fills[i].mm
           /\ auction.quotes[k].odds = auction.fills[i].odds
    BY DEF LoopInv, FillsOfQuotes
<1>8. \A i \in DOMAIN auction.fills : /\ auction.fills[i].mm # quote.mm
                                      /\ auction.fills[i].odds >= quote.odds
    BY <1>6, <1>7
<1>9. quote.mm \notin Filled(auction.fills)
    BY <1>8 DEF Filled
<1>10. ASSUME NEW i \in DOMAIN auction.quotes, auction.quotes[i].odds > quote.odds
       PROVE  i \in 1..(auction.at - 1)
  <2>. SUFFICES ASSUME i = auction.at \/ auction.at < i
                PROVE  FALSE
      BY <1>1, <1>3
  <2>1. auction.quotes[i].odds \in Nat /\ quote.odds \in Nat
      BY <1>3, <1>4, <1>5
  <2>2. quote.odds >= auction.quotes[i].odds
      BY <1>2, <1>3, <2>1 DEF Sorted, quote
  <2>. QED
      BY <1>10, <2>1, <2>2
<1>. QED
    BY <1>2, <1>4, <1>5, <1>6, <1>8, <1>9, <1>10

\* The fill that is tried: its market maker's accounts are still as they were.
LEMMA FillTried ==
    ASSUME TypeOK, MakersReady, LoopInv, Trying, amount_to_fill >= MinFill
    PROVE  /\ fill \in Fill /\ fill.mm = quote.mm /\ fill.odds = quote.odds
           /\ fill.amount = amount_to_fill /\ fill.amount \in Nat
           /\ fill.amount <= quote.max /\ fill.amount <= remaining_amount
           /\ fill.amount = quote.max \/ fill.amount = remaining_amount
           /\ auction.vault[quote.mm] = vault[quote.mm]
           /\ auction.book[quote.mm] = book[quote.mm]
           /\ auction.wallet[quote.mm] = wallet[quote.mm]
           /\ amount_to_send <= auction.wallet[quote.mm]
                => CanFill(fill, auction.mkt, auction.side, FALSE)
<1>1. /\ remaining_amount \in Nat /\ auction.request \in Requests
      /\ remaining_amount <= auction.request /\ auction.fills \in Seq(Fill)
      /\ Distinct(auction.fills)
    BY LoopFields DEF LoopInv, Loop
<1>2. quote \in MMQuote /\ quote.mm \in MMs /\ quote.max \in Nat
    BY QuoteTried
<1>3. /\ amount_to_fill \in Nat /\ amount_to_fill <= quote.max
      /\ amount_to_fill <= remaining_amount
      /\ amount_to_fill = quote.max \/ amount_to_fill = remaining_amount
    BY <1>1, <1>2 DEF amount_to_fill, LesserOf
<1>4. amount_to_fill \in Amounts
  <2>1. CASE amount_to_fill = quote.max
      BY <1>2, <2>1 DEF MMQuote
  <2>2. CASE amount_to_fill = remaining_amount
    <3>1. MinFill \in Nat \ {0} /\ auction.request \in Nat
        BY <1>1, FillsAssumption, AuctionAssumption
    <3>2. remaining_amount \in 1..auction.request
        BY <1>1, <2>2, <3>1
    <3>. QED
        BY <1>1, <2>2, <3>2, AuctionAssumption
  <2>. QED
      BY <1>3, <2>1, <2>2
<1>5. fill \in Fill /\ fill.mm = quote.mm /\ fill.odds = quote.odds /\ fill.amount = amount_to_fill
      /\ fill.slot = quote.slot
    BY <1>2, <1>4 DEF fill, Fill, MMQuote
<1>6. quote.mm \notin Filled(auction.fills)
    BY QuoteTried
<1>7. /\ auction.vault[quote.mm] = vault[quote.mm]
      /\ auction.book[quote.mm] = book[quote.mm]
      /\ auction.wallet[quote.mm] = wallet[quote.mm]
    BY <1>1, <1>2, <1>6 DEF LoopInv, StagedRight, StagedVault, StagedBook, StagedWallet
<1>8. ASSUME amount_to_send <= auction.wallet[quote.mm]
      PROVE  CanFill(fill, auction.mkt, auction.side, FALSE)
  <2>1. Shortfall(vault[fill.mm], Delta(book[fill.mm], fill, auction.mkt, auction.side))
          <= wallet[fill.mm]
      BY <1>5, <1>7, <1>8 DEF amount_to_send, delta
  <2>2. vault[fill.mm].exists /\ vault[fill.mm].enc <= vault[fill.mm].liability
      BY <1>2, <1>5 DEF MakersReady
  <2>3. live[fill.mm] = FALSE
      BY <1>2, <1>5 DEF MakersReady, TypeOK
  <2>. QED
      BY <2>1, <2>2, <2>3 DEF CanFill
<1>. QED
    BY <1>3, <1>5, <1>7, <1>8

\* A quote that adds nothing is passed: the rest of the transaction stays.
LEMMA QuotePassed ==
    ASSUME TypeOK, MakersReady, LoopInv, Trying, UNCHANGED vars,
           NEW refused \in SUBSET MMs, auction.refused \subseteq refused,
           auction' = [auction EXCEPT !.at = @ + 1, !.refused = refused],
           remaining_amount >= MinFill => quote.max < MinFill \/ quote.mm \in refused
    PROVE  LoopInv'
<1>1. auction \in Loop
    BY DEF LoopInv
<1>2. auction.at \in 1..Len(auction.quotes) /\ Len(auction.quotes) \in Nat
    BY QuoteTried, LoopFields
<1>3. /\ auction' \in Loop /\ auction'.at = auction.at + 1 /\ auction'.refused = refused
      /\ auction'.bet = auction.bet /\ auction'.mkt = auction.mkt
      /\ auction'.side = auction.side /\ auction'.request = auction.request
      /\ auction'.quotes = auction.quotes /\ auction'.fills = auction.fills
      /\ auction'.vault = auction.vault /\ auction'.book = auction.book
      /\ auction'.wallet = auction.wallet
  <2>1. auction.at + 1 \in Nat
      BY <1>2
  <2>. DEFINE mid == [auction EXCEPT !.at = auction.at + 1]
  <2>2. /\ mid \in Loop /\ mid.at = auction.at + 1
        /\ mid.bet = auction.bet /\ mid.mkt = auction.mkt
        /\ mid.side = auction.side /\ mid.request = auction.request
        /\ mid.quotes = auction.quotes /\ mid.fills = auction.fills
        /\ mid.vault = auction.vault /\ mid.book = auction.book
        /\ mid.wallet = auction.wallet
      BY <1>1, <2>1 DEF Loop
  <2>3. auction' = [mid EXCEPT !.refused = refused]
      BY <1>1 DEF Loop
  <2>. HIDE DEF mid
  <2>. QED
      BY <2>2, <2>3 DEF Loop
<1>4. /\ vault' = vault /\ book' = book /\ wallet' = wallet /\ live' = live
      /\ ticket' = ticket /\ paused' = paused
    BY DEF vars
<1>5. MayOpen(auction.bet)'
    BY <1>3, <1>4 DEF LoopInv, MayOpen, Exists
<1>6. auction'.at \in 1..(Len(auction'.quotes) + 1)
    BY <1>2, <1>3
<1>7. \A k \in 1..(auction.at - 1) : k \in 1..(auction'.at - 1)
    BY <1>2, <1>3
<1>8. FillsOfQuotes'
  <2>1. Len(auction.fills) \in Nat
      BY <1>1 DEF Loop
  <2>2. FillsOfQuotes
      BY DEF LoopInv
  <2>3. Len(auction'.fills) < auction'.at
      BY <1>2, <1>3, <2>1, <2>2 DEF FillsOfQuotes
  <2>4. \A i \in DOMAIN auction'.fills : \E k \in 1..(auction'.at - 1) :
           /\ auction'.quotes[k].mm = auction'.fills[i].mm
           /\ auction'.quotes[k].odds = auction'.fills[i].odds
      BY <1>3, <1>7, <2>2 DEF FillsOfQuotes
  <2>. QED
      BY <1>3, <2>2, <2>3, <2>4 DEF FillsOfQuotes
<1>9. FillsGood'
    BY <1>3, <1>4 DEF LoopInv, FillsGood, CanFill
<1>10. StagedRight'
    BY <1>3, <1>4
       DEF LoopInv, StagedRight, StagedVault, StagedWallet, StagedBook, Sent, Added
<1>11. PassedExhausted'
  <2>1. filled_amount' = filled_amount /\ remaining_amount' = remaining_amount
      BY <1>3 DEF filled_amount, remaining_amount
  <2>2. \A q : Exhausted(auction.fills, auction.refused, q)
                 => Exhausted(auction.fills, refused, q)
      BY DEF Exhausted
  <2>3. PassedExhausted
      BY DEF LoopInv
  <2>4. filled_amount' <= auction'.request
      BY <1>3, <2>1, <2>3 DEF PassedExhausted
  <2>5. ASSUME remaining_amount >= MinFill, NEW k \in 1..auction.at
        PROVE  Exhausted(auction.fills, refused, auction.quotes[k])
    <3>1. CASE k = auction.at
        BY <2>5, <3>1 DEF Exhausted, quote
    <3>2. CASE k # auction.at
      <4>1. k \in 1..(auction.at - 1)
          BY <1>2, <3>2
      <4>. QED
          BY <2>2, <2>3, <2>5, <4>1 DEF PassedExhausted
    <3>. QED
        BY <3>1, <3>2
  <2>6. \A i \in DOMAIN auction.fills, k \in DOMAIN auction.quotes :
           auction.quotes[k].odds > auction.fills[i].odds =>
               Exhausted(auction.fills, refused, auction.quotes[k])
      BY <2>2, <2>3 DEF PassedExhausted
  <2>7. 1..(auction'.at - 1) = 1..auction.at
      BY <1>2, <1>3
  <2>. QED
      BY <1>3, <2>1, <2>4, <2>5, <2>6, <2>7 DEF PassedExhausted
<1>. QED
    BY <1>3, <1>5, <1>6, <1>8, <1>9, <1>10, <1>11 DEF LoopInv

\* What the transaction holds after a fill was taken.
LEMMA TakenFields ==
    ASSUME TypeOK, MakersReady, LoopInv, TakeFill
    PROVE  /\ auction'.pc = "fill" /\ auction'.at = auction.at + 1
           /\ auction'.bet = auction.bet /\ auction'.mkt = auction.mkt
           /\ auction'.side = auction.side /\ auction'.request = auction.request
           /\ auction'.quotes = auction.quotes /\ auction'.refused = auction.refused
           /\ auction'.fills = Append(auction.fills, fill)
           /\ auction'.wallet
                = [auction.wallet EXCEPT ![quote.mm] = wallet[quote.mm] - amount_to_send]
           /\ auction'.vault
                = [auction.vault EXCEPT ![quote.mm] =
                      [vault[quote.mm] EXCEPT !.liability = @ + amount_to_send,
                                              !.enc = @ + delta]]
           /\ auction'.book
                = [auction.book EXCEPT ![quote.mm] =
                      IF Nets(book[quote.mm], fill, auction.mkt, auction.side)
                      THEN Netted(book[quote.mm], auction.mkt, auction.side,
                                  Profit(fill.amount, fill.odds))
                      ELSE book[quote.mm]]
           /\ auction' = [x \in DOMAIN auction |-> auction'[x]]
<1>1. auction \in Loop
    BY DEF LoopInv
<1>2. Trying /\ amount_to_fill >= MinFill
    BY DEF TakeFill
<1>3. /\ auction.vault[quote.mm] = vault[quote.mm]
      /\ auction.book[quote.mm] = book[quote.mm]
      /\ auction.wallet[quote.mm] = wallet[quote.mm]
    BY <1>2, FillTried
<1>4. quote.mm \in MMs
    BY <1>2, QuoteTried
<1>. DEFINE mm == quote.mm
            sent == amount_to_send
            added == delta
            staged == IF Nets(auction.book[mm], fill, auction.mkt, auction.side)
                      THEN Netted(auction.book[mm], auction.mkt, auction.side,
                                  Profit(fill.amount, fill.odds))
                      ELSE auction.book[mm]
            taken == Append(auction.fills, fill)
<1>5. auction' = [auction EXCEPT
          !.at = @ + 1, !.fills = taken, !.wallet[mm] = @ - sent,
          !.vault[mm].liability = @ + sent, !.vault[mm].enc = @ + added,
          !.book[mm] = staged]
    BY DEF TakeFill
<1>. HIDE DEF mm, sent, added, staged, taken
<1>6. /\ DOMAIN auction = {"pc", "bet", "mkt", "side", "request", "quotes", "at", "fills",
                           "refused", "vault", "book", "wallet"}
      /\ DOMAIN auction.vault = MMs
    BY <1>1 DEF Loop
<1>7. /\ auction'.pc = auction.pc /\ auction'.at = auction.at + 1
      /\ auction'.bet = auction.bet /\ auction'.mkt = auction.mkt
      /\ auction'.side = auction.side /\ auction'.request = auction.request
      /\ auction'.quotes = auction.quotes /\ auction'.refused = auction.refused
      /\ auction'.fills = taken
      /\ DOMAIN auction' = DOMAIN auction
    BY <1>5, <1>6
<1>8. auction'.wallet = [auction.wallet EXCEPT ![mm] = @ - sent]
    BY <1>5, <1>6
<1>9. auction'.book = [auction.book EXCEPT ![mm] = staged]
    BY <1>5, <1>6
<1>10. auction'.vault = [auction.vault EXCEPT ![mm].liability = @ + sent,
                                              ![mm].enc = @ + added]
    BY <1>5, <1>6
<1>11. auction'.vault = [auction.vault EXCEPT ![mm] =
           [auction.vault[mm] EXCEPT !.liability = @ + sent, !.enc = @ + added]]
    BY <1>4, <1>6, <1>10 DEF mm
<1>12. auction.pc = "fill"
    BY <1>1 DEF Loop
<1>13. auction' = [x \in DOMAIN auction |-> auction'[x]]
  <2>1. PICK r : r = [auction EXCEPT !.at = @ + 1, !.fills = taken, !.wallet[mm] = @ - sent]
      OBVIOUS
  <2>2. PICK s : s = [r EXCEPT !.vault[mm].liability = @ + sent]
      OBVIOUS
  <2>3. PICK t : t = [s EXCEPT !.vault[mm].enc = @ + added]
      OBVIOUS
  <2>4. PICK u : u = [t EXCEPT !.book[mm] = staged]
      OBVIOUS
  <2>5. auction' = u
      BY <1>5, <1>6, <2>1, <2>2, <2>3, <2>4
  <2>6. u = [x \in DOMAIN u |-> u[x]]
      BY <2>4
  <2>7. DOMAIN u = DOMAIN auction
      BY <2>1, <2>2, <2>3, <2>4
  <2>. QED
      BY <2>5, <2>6, <2>7
<1>. QED
    BY <1>3, <1>7, <1>8, <1>9, <1>11, <1>12, <1>13 DEF mm, sent, added, staged, taken

\* A fill that is taken is staged on top of those before it.
LEMMA FillTaken ==
    ASSUME TypeOK, MakersReady, LoopInv, TakeFill
    PROVE  LoopInv'
<1>. DEFINE more == Append(auction.fills, fill)
            n == Len(auction.fills)
<1>1. auction \in Loop
    BY DEF LoopInv
<1>2. Trying /\ amount_to_fill >= MinFill /\ amount_to_send <= auction.wallet[quote.mm]
      /\ UNCHANGED vars
    BY DEF TakeFill
<1>3. auction.at \in 1..Len(auction.quotes) /\ Len(auction.quotes) \in Nat
    BY <1>2, QuoteTried, LoopFields
<1>4. /\ auction'.pc = "fill" /\ auction'.at = auction.at + 1
      /\ auction'.bet = auction.bet /\ auction'.mkt = auction.mkt
      /\ auction'.side = auction.side /\ auction'.request = auction.request
      /\ auction'.quotes = auction.quotes /\ auction'.refused = auction.refused
      /\ auction'.fills = more
    BY TakenFields
<1>5. /\ vault' = vault /\ book' = book /\ wallet' = wallet /\ live' = live
      /\ ticket' = ticket /\ paused' = paused
    BY <1>2 DEF vars
<1>6. /\ fill \in Fill /\ fill.mm = quote.mm /\ fill.odds = quote.odds
      /\ fill.amount = amount_to_fill /\ fill.amount \in Nat
      /\ fill.amount <= quote.max /\ fill.amount <= remaining_amount
      /\ fill.amount = quote.max \/ fill.amount = remaining_amount
      /\ CanFill(fill, auction.mkt, auction.side, FALSE)
    BY <1>2, FillTried
<1>7. auction.fills \in Seq(Fill) /\ Distinct(auction.fills)
      /\ fill.mm \notin Filled(auction.fills)
    BY <1>2, <1>6, LoopFields, QuoteTried
<1>8. /\ more \in Seq(Fill) /\ Len(more) = n + 1 /\ n \in Nat
      /\ DOMAIN auction.fills = 1..n /\ DOMAIN more = 1..(n + 1)
      /\ more[n + 1] = fill
      /\ \A i \in 1..n : more[i] = auction.fills[i]
    BY <1>6, <1>7, AppendedFills
<1>9. \A i \in 1..(n + 1) : i = n + 1 \/ i \in 1..n
    BY <1>8
<1>. HIDE DEF more, n
<1>10. FillsOfQuotes'
  <2>1. FillsOfQuotes
      BY DEF LoopInv
  <2>2. n < auction.at
      BY <2>1 DEF FillsOfQuotes, n
  <2>3. Len(auction'.fills) < auction'.at
      BY <1>3, <1>4, <1>8, <2>2
  <2>4. \A i \in DOMAIN auction.fills : auction.fills[i].odds >= quote.odds
      BY <1>2, QuoteTried
  <2>5. ASSUME NEW i \in 1..(n + 1), NEW j \in 1..(n + 1), i < j
        PROVE  more[i].mm # more[j].mm /\ more[i].odds >= more[j].odds
    <3>1. i \in 1..n
        BY <1>8, <2>5
    <3>2. CASE j = n + 1
      <4>1. auction.fills[i].mm # fill.mm
          BY <1>7, <1>8, <3>1 DEF Filled
      <4>. QED
          BY <1>6, <1>8, <2>4, <3>1, <3>2, <4>1
    <3>3. CASE j \in 1..n
        BY <1>8, <2>1, <2>5, <3>1, <3>3 DEF FillsOfQuotes
    <3>. QED
        BY <1>9, <3>2, <3>3
  <2>6. ASSUME NEW i \in 1..(n + 1)
        PROVE  \E k \in 1..auction.at : /\ auction.quotes[k].mm = more[i].mm
                                        /\ auction.quotes[k].odds = more[i].odds
    <3>1. CASE i = n + 1
        BY <1>3, <1>6, <1>8, <3>1 DEF quote
    <3>2. CASE i \in 1..n
      <4>1. PICK k \in 1..(auction.at - 1) :
                /\ auction.quotes[k].mm = auction.fills[i].mm
                /\ auction.quotes[k].odds = auction.fills[i].odds
          BY <1>8, <2>1, <3>2 DEF FillsOfQuotes
      <4>2. k \in 1..auction.at
          BY <1>3
      <4>. QED
          BY <1>8, <3>2, <4>1, <4>2
    <3>. QED
        BY <1>9, <3>1, <3>2
  <2>7. 1..(auction'.at - 1) = 1..auction.at
      BY <1>3, <1>4
  <2>. QED
    <3>1. DOMAIN auction'.fills = 1..(n + 1)
        BY <1>4, <1>8
    <3>2. \A i, j \in DOMAIN auction'.fills : i < j =>
              /\ auction'.fills[i].mm # auction'.fills[j].mm
              /\ auction'.fills[i].odds >= auction'.fills[j].odds
        BY <1>4, <2>5, <3>1
    <3>3. \A i \in DOMAIN auction'.fills : \E k \in 1..(auction'.at - 1) :
              /\ auction'.quotes[k].mm = auction'.fills[i].mm
              /\ auction'.quotes[k].odds = auction'.fills[i].odds
      <4>. SUFFICES ASSUME NEW i \in 1..(n + 1)
                    PROVE  \E k \in 1..(auction'.at - 1) :
                               /\ auction'.quotes[k].mm = auction'.fills[i].mm
                               /\ auction'.quotes[k].odds = auction'.fills[i].odds
          BY <3>1
      <4>1. PICK k \in 1..auction.at : /\ auction.quotes[k].mm = more[i].mm
                                       /\ auction.quotes[k].odds = more[i].odds
          BY <2>6
      <4>2. k \in 1..(auction'.at - 1)
          BY <2>7
      <4>. QED
          BY <1>4, <4>1, <4>2
    <3>. QED
        BY <2>3, <3>2, <3>3 DEF FillsOfQuotes
<1>11. FillsGood'
  <2>1. \A i \in 1..n : /\ auction.fills[i].amount >= MinFill
                        /\ CanFill(auction.fills[i], auction.mkt, auction.side, FALSE)
      BY <1>8 DEF LoopInv, FillsGood
  <2>2. \A i \in 1..(n + 1) : /\ more[i].amount >= MinFill
                              /\ CanFill(more[i], auction.mkt, auction.side, FALSE)
      BY <1>2, <1>6, <1>8, <1>9, <2>1
  <2>. QED
      BY <1>4, <1>5, <1>8, <2>2 DEF FillsGood, CanFill
<1>12. StagedRight'
  <2>1. StagedRight
      BY DEF LoopInv
  <2>2. /\ auction.vault[quote.mm] = vault[quote.mm]
        /\ auction.book[quote.mm] = book[quote.mm]
        /\ auction.wallet[quote.mm] = wallet[quote.mm]
      BY <1>2, FillTried
  <2>3. /\ delta = Delta(book[fill.mm], fill, auction.mkt, auction.side)
        /\ amount_to_send = Shortfall(vault[fill.mm], delta)
      BY <1>6, <2>2 DEF delta, amount_to_send
  <2>. DEFINE mk == auction.mkt
              sd == auction.side
  <2>4. /\ auction.vault = StagedVault(auction.fills, mk, sd)
        /\ auction.wallet = StagedWallet(auction.fills, mk, sd)
        /\ auction.book = StagedBook(auction.fills, mk, sd)
      BY <2>1 DEF StagedRight
  <2>5. /\ auction'.vault = [auction.vault EXCEPT ![fill.mm] =
               [vault[fill.mm] EXCEPT !.liability = @ + amount_to_send, !.enc = @ + delta]]
        /\ auction'.wallet = [auction.wallet EXCEPT ![fill.mm] =
               wallet[fill.mm] - amount_to_send]
        /\ auction'.book = [auction.book EXCEPT ![fill.mm] =
               IF Nets(book[fill.mm], fill, mk, sd)
               THEN Netted(book[fill.mm], mk, sd, Profit(fill.amount, fill.odds))
               ELSE book[fill.mm]]
      BY <1>6, TakenFields
  <2>. HIDE DEF mk, sd
  <2>6. /\ StagedVault(more, mk, sd) = [StagedVault(auction.fills, mk, sd) EXCEPT
               ![fill.mm] = [vault[fill.mm] EXCEPT !.liability = @ + amount_to_send,
                                                   !.enc = @ + delta]]
        /\ StagedWallet(more, mk, sd) = [StagedWallet(auction.fills, mk, sd) EXCEPT
               ![fill.mm] = wallet[fill.mm] - amount_to_send]
        /\ StagedBook(more, mk, sd) = [StagedBook(auction.fills, mk, sd) EXCEPT
               ![fill.mm] = IF Nets(book[fill.mm], fill, mk, sd)
                            THEN Netted(book[fill.mm], mk, sd, Profit(fill.amount, fill.odds))
                            ELSE book[fill.mm]]
    <3>. DEFINE d == Delta(book[fill.mm], fill, mk, sd)
                s == Shortfall(vault[fill.mm], d)
    <3>1. /\ StagedVault(more, mk, sd) = [StagedVault(auction.fills, mk, sd) EXCEPT
                 ![fill.mm] = [vault[fill.mm] EXCEPT !.liability = @ + s, !.enc = @ + d]]
          /\ StagedWallet(more, mk, sd) = [StagedWallet(auction.fills, mk, sd) EXCEPT
                 ![fill.mm] = wallet[fill.mm] - s]
          /\ StagedBook(more, mk, sd) = [StagedBook(auction.fills, mk, sd) EXCEPT
                 ![fill.mm] = IF Nets(book[fill.mm], fill, mk, sd)
                              THEN Netted(book[fill.mm], mk, sd, Profit(fill.amount, fill.odds))
                              ELSE book[fill.mm]]
        BY <1>6, <1>7, StagedAppended DEF more, mk, sd
    <3>2. d = delta /\ s = amount_to_send
        BY <2>3 DEF mk, sd
    <3>. HIDE DEF d, s
    <3>. QED
        BY <3>1, <3>2
  <2>7. /\ auction'.vault = StagedVault(more, mk, sd)
        /\ auction'.wallet = StagedWallet(more, mk, sd)
        /\ auction'.book = StagedBook(more, mk, sd)
      BY <2>4, <2>5, <2>6
  <2>. QED
      BY <1>4, <1>5, <2>7
         DEF StagedRight, StagedVault, StagedWallet, StagedBook, Sent, Added, mk, sd
<1>13. PassedExhausted'
  <2>1. PassedExhausted /\ filled_amount = AmountOf(auction.fills)
        /\ filled_amount \in Nat /\ auction.request \in Nat /\ MinFill \in Nat \ {0}
      BY LoopFields, FillsAssumption DEF LoopInv
  <2>2. filled_amount' = AmountOf(more)
      BY <1>4 DEF filled_amount, AmountOf
  <2>3. /\ AmountOf(more) = filled_amount + fill.amount
        /\ \A m : /\ AmountBy(auction.fills, m) \in Nat
                  /\ AmountBy(more, m) = AmountBy(auction.fills, m)
                                           + (IF fill.mm = m THEN fill.amount ELSE 0)
      BY <1>6, <1>7, <2>1, AmountsAppended DEF more
  <2>4. filled_amount' <= auction'.request
        /\ remaining_amount' = remaining_amount - fill.amount
      BY <1>4, <1>6, <2>1, <2>2, <2>3 DEF remaining_amount
  <2>5. remaining_amount \in Nat /\ remaining_amount >= MinFill
      BY <1>2, <1>6, LoopFields, <2>1
  <2>6. \A q : Exhausted(auction.fills, auction.refused, q) /\ q.mm # fill.mm
                 => Exhausted(more, auction.refused, q)
      BY <2>3 DEF Exhausted
  <2>7. \A k \in 1..(auction.at - 1) :
            Exhausted(more, auction.refused, auction.quotes[k])
    <3>1. \A k \in 1..(auction.at - 1) :
              Exhausted(auction.fills, auction.refused, auction.quotes[k])
        BY <2>1, <2>5 DEF PassedExhausted
    <3>2. \A k \in 1..(auction.at - 1) : auction.quotes[k].mm # fill.mm
        BY <1>2, <1>6, QuoteTried
    <3>. QED
        BY <2>6, <3>1, <3>2
  <2>8. ASSUME remaining_amount' >= MinFill
        PROVE  Exhausted(more, auction.refused, quote)
    <3>1. fill.amount = quote.max
        BY <1>6, <2>1, <2>4, <2>5, <2>8
    <3>2. AmountBy(auction.fills, fill.mm) = 0
        BY <1>7, NothingBy
    <3>. QED
        BY <1>6, <2>3, <3>1, <3>2 DEF Exhausted
  <2>9. ASSUME remaining_amount' >= MinFill, NEW k \in 1..(auction'.at - 1)
        PROVE  Exhausted(more, auction.refused, auction.quotes[k])
    <3>1. k = auction.at \/ k \in 1..(auction.at - 1)
        BY <1>3, <1>4
    <3>. QED
        BY <2>7, <2>8, <2>9, <3>1 DEF quote
  <2>10. ASSUME NEW i \in 1..(n + 1), NEW k \in DOMAIN auction.quotes,
                auction.quotes[k].odds > more[i].odds
         PROVE  Exhausted(more, auction.refused, auction.quotes[k])
    <3>1. CASE i = n + 1
      <4>1. k \in 1..(auction.at - 1)
          BY <1>2, <1>6, <1>8, <2>10, <3>1, QuoteTried
      <4>. QED
          BY <2>7, <4>1
    <3>2. CASE i \in 1..n
      <4>1. auction.fills[i].odds \in Nat /\ quote.odds \in Nat
            /\ auction.quotes[k].odds \in Nat
        <5>1. \A e \in Fill : e.odds \in Nat
            BY FillsAssumption DEF Fill
        <5>2. \A q \in MMQuote : q.odds \in Nat
            BY FillsAssumption DEF MMQuote
        <5>3. auction.fills[i] \in Fill
            BY <1>7, <1>8, <3>2
        <5>4. auction.quotes \in QuoteLists
            BY LoopFields
        <5>5. auction.quotes[k] \in MMQuote
            BY <5>4, QuotesAre
        <5>6. quote \in MMQuote
            BY <1>2, QuoteTried
        <5>. QED
            BY <5>1, <5>2, <5>3, <5>5, <5>6
      <4>2. auction.fills[i].odds >= quote.odds
          BY <1>2, <1>8, <3>2, QuoteTried
      <4>3. auction.quotes[k].odds > quote.odds
          BY <1>8, <2>10, <3>2, <4>1, <4>2
      <4>4. k \in 1..(auction.at - 1)
          BY <1>2, <4>3, QuoteTried
      <4>. QED
          BY <2>7, <4>4
    <3>. QED
        BY <1>9, <3>1, <3>2
  <2>. QED
      BY <1>4, <1>8, <2>4, <2>9, <2>10 DEF PassedExhausted
<1>14. auction' \in Loop
  <2>1. /\ auction'.vault \in [MMs -> Vault] /\ auction'.book \in [MMs -> Book]
        /\ auction'.wallet \in [MMs -> Nat]
    <3>1. /\ delta \in Nat /\ amount_to_send \in 0..wallet[quote.mm]
          /\ Netted(book[quote.mm], auction.mkt, auction.side,
                    Profit(fill.amount, fill.odds)) \in Book
      <4>1. auction.mkt \in Mkts /\ auction.side \in Sides
          BY LoopFields
      <4>2. /\ Delta(book[fill.mm], fill, auction.mkt, auction.side) \in Nat
            /\ Shortfall(vault[fill.mm], Delta(book[fill.mm], fill, auction.mkt, auction.side))
                 \in 0..wallet[fill.mm]
            /\ Netted(book[fill.mm], auction.mkt, auction.side,
                      Profit(fill.amount, fill.odds)) \in Book
          BY <1>6, <4>1, FillAmounts
      <4>3. /\ auction.vault[quote.mm] = vault[quote.mm]
            /\ auction.book[quote.mm] = book[quote.mm]
          BY <1>2, FillTried
      <4>. QED
          BY <1>6, <4>2, <4>3 DEF delta, amount_to_send
    <3>2. quote.mm \in MMs
        BY <1>2, QuoteTried
    <3>3. vault[quote.mm] \in Vault /\ book[quote.mm] \in Book /\ wallet[quote.mm] \in Nat
        BY <3>2 DEF TypeOK
    <3>4. [vault[quote.mm] EXCEPT !.liability = @ + amount_to_send, !.enc = @ + delta] \in Vault
      <4>. DEFINE v == vault[quote.mm]
                  sent == amount_to_send
                  added == delta
      <4>1. v \in Vault /\ v.liability + sent \in Nat /\ v.enc + added \in Nat
          BY <3>1, <3>3 DEF Vault
      <4>. HIDE DEF v, sent, added
      <4>2. [v EXCEPT !.liability = @ + sent] \in Vault
          BY <4>1 DEF Vault
      <4>3. [v EXCEPT !.liability = @ + sent, !.enc = @ + added] \in Vault
          BY <4>1 DEF Vault
      <4>. QED
          BY <4>3 DEF v, sent, added
    <3>5. wallet[quote.mm] - amount_to_send \in Nat
        BY <3>1, <3>3
    <3>6. /\ auction.vault \in [MMs -> Vault] /\ auction.book \in [MMs -> Book]
          /\ auction.wallet \in [MMs -> Nat]
        BY <1>1 DEF Loop
    <3>7. auction'.vault \in [MMs -> Vault]
        BY <3>4, <3>6, TakenFields, ZenonT(40)
    <3>8. auction'.wallet \in [MMs -> Nat]
        BY <3>5, <3>6, TakenFields, ZenonT(40)
    <3>9. auction'.book \in [MMs -> Book]
        BY <3>1, <3>3, <3>6, TakenFields
    <3>. QED
        BY <3>7, <3>8, <3>9
  <2>2. /\ auction.bet \in Bets /\ auction.mkt \in Wanted /\ auction.side \in Sides
        /\ auction.request \in Requests /\ auction.quotes \in QuoteLists
        /\ auction.refused \in SUBSET MMs /\ auction.at + 1 \in Nat
        /\ DOMAIN auction = {"pc", "bet", "mkt", "side", "request", "quotes", "at", "fills",
                             "refused", "vault", "book", "wallet"}
      BY <1>1 DEF Loop
  <2>3. auction' = [x \in DOMAIN auction |-> auction'[x]]
      BY TakenFields
  <2>4. auction' = [pc |-> auction'.pc, bet |-> auction'.bet, mkt |-> auction'.mkt,
                    side |-> auction'.side, request |-> auction'.request,
                    quotes |-> auction'.quotes, at |-> auction'.at,
                    fills |-> auction'.fills, refused |-> auction'.refused,
                    vault |-> auction'.vault, book |-> auction'.book,
                    wallet |-> auction'.wallet]
      BY <2>2, <2>3
  <2>. QED
      BY <1>4, <1>8, <2>1, <2>2, <2>4 DEF Loop
<1>15. MayOpen(auction.bet)'
    BY <1>4, <1>5 DEF LoopInv, MayOpen, Exists
<1>16. auction'.at \in 1..(Len(auction'.quotes) + 1)
    BY <1>3, <1>4
<1>. QED
    BY <1>10, <1>11, <1>12, <1>13, <1>14, <1>15, <1>16 DEF LoopInv

\* A quote that is too small to be tried, or whose market maker does not send
\* what is asked, is passed.
LEMMA QuoteNotFilled ==
    ASSUME TypeOK, MakersReady, LoopInv, SkipSmall \/ RefuseFill
    PROVE  LoopInv'
<1>1. auction \in Loop
    BY DEF LoopInv
<1>2. CASE SkipSmall
  <2>1. Trying /\ amount_to_fill < MinFill /\ UNCHANGED vars
        /\ auction' = [auction EXCEPT !.at = @ + 1]
      BY <1>2 DEF SkipSmall
  <2>2. auction.refused \in SUBSET MMs
      BY <1>1 DEF Loop
  <2>3. auction' = [auction EXCEPT !.at = @ + 1, !.refused = auction.refused]
      BY <1>1, <2>1 DEF Loop
  <2>4. remaining_amount \in Nat /\ quote.max \in Nat /\ MinFill \in Nat
      BY <2>1, LoopFields, QuoteTried, FillsAssumption
  <2>5. amount_to_fill = quote.max \/ amount_to_fill = remaining_amount
      BY DEF amount_to_fill, LesserOf
  <2>6. remaining_amount >= MinFill => quote.max < MinFill
      BY <2>1, <2>4, <2>5
  <2>. QED
      BY <2>1, <2>2, <2>3, <2>6, QuotePassed
<1>3. CASE RefuseFill
  <2>. DEFINE refused == auction.refused \cup {quote.mm}
  <2>1. Trying /\ UNCHANGED vars
        /\ auction' = [auction EXCEPT !.at = @ + 1, !.refused = refused]
      BY <1>3 DEF RefuseFill
  <2>2. refused \in SUBSET MMs /\ auction.refused \subseteq refused /\ quote.mm \in refused
      BY <1>1, <2>1, QuoteTried DEF Loop
  <2>. HIDE DEF refused
  <2>. QED
      BY <2>1, <2>2, QuotePassed
<1>. QED
    BY <1>2, <1>3

\* A transaction starts with nothing filled and the accounts as they are.
LEMMA QuotesCollected ==
    ASSUME TypeOK, NEW b \in Bets, NEW mkt \in Wanted, NEW side \in Sides,
           NEW request \in Requests, CollectQuotes(b, mkt, side, request)
    PROVE  LoopInv'
<1>1. MayOpen(b) /\ UNCHANGED vars
    BY DEF CollectQuotes
<1>2. PICK quotes \in QuoteLists :
          auction' = [pc |-> "fill", bet |-> b, mkt |-> mkt, side |-> side,
                      request |-> request, quotes |-> quotes, at |-> 1,
                      fills |-> << >>, refused |-> {},
                      vault |-> vault, book |-> book, wallet |-> wallet]
    BY DEF CollectQuotes
<1>3. << >> \in Seq(Fill) /\ DOMAIN << >> = {} /\ Len(<< >>) = 0
    OBVIOUS
<1>4. auction' \in Loop
    BY <1>2, <1>3 DEF Loop, TypeOK
<1>5. /\ auction'.bet = b /\ auction'.mkt = mkt /\ auction'.side = side
      /\ auction'.request = request /\ auction'.quotes = quotes /\ auction'.at = 1
      /\ auction'.fills = << >> /\ auction'.vault = vault /\ auction'.book = book
      /\ auction'.wallet = wallet
    BY <1>2
<1>6. /\ vault' = vault /\ book' = book /\ wallet' = wallet
      /\ ticket' = ticket /\ paused' = paused
    BY <1>1 DEF vars
<1>7. Len(quotes) \in Nat
    BY QuotesAre
<1>8. MayOpen(auction.bet)'
    BY <1>1, <1>5, <1>6 DEF MayOpen, Exists
<1>9. auction'.at \in 1..(Len(auction'.quotes) + 1)
    BY <1>5, <1>7
<1>10. FillsOfQuotes' /\ FillsGood'
    BY <1>3, <1>5 DEF FillsOfQuotes, FillsGood
<1>11. StagedRight'
  <2>1. Filled(<< >>) = {}
      BY <1>3 DEF Filled
  <2>2. /\ StagedVault(<< >>, mkt, side) = vault
        /\ StagedWallet(<< >>, mkt, side) = wallet
        /\ StagedBook(<< >>, mkt, side) = book
      BY <2>1 DEF StagedVault, StagedWallet, StagedBook, TypeOK
  <2>. QED
      BY <1>5, <1>6, <2>2
         DEF StagedRight, StagedVault, StagedWallet, StagedBook, Sent, Added
<1>12. PassedExhausted'
  <2>. DEFINE none == [i \in DOMAIN << >> |-> << >>[i].amount]
  <2>1. none \in [{} -> Nat]
      BY <1>3
  <2>2. filled_amount' = Total(none)
      BY <1>5 DEF filled_amount
  <2>. HIDE DEF none
  <2>3. filled_amount' = 0
      BY <2>1, <2>2, TotalZero
  <2>4. request \in Nat
      BY AuctionAssumption
  <2>5. 1..(auction'.at - 1) = {}
      BY <1>5
  <2>. QED
      BY <1>3, <1>5, <2>3, <2>4, <2>5 DEF PassedExhausted
<1>. QED
    BY <1>4, <1>8, <1>9, <1>10, <1>11, <1>12 DEF LoopInv

\* What is committed is a fill.
LEMMA CommitIsFill ==
    ASSUME TypeOK, MakersReady, LoopInv, CommitFill
    PROVE  StepIsFill /\ FillStep(auction.bet)
<1>1. /\ auction.pc = "fill" /\ auction.bet \in Bets /\ auction.mkt \in Mkts
      /\ auction.side \in Sides /\ auction.fills \in Seq(Fill)
      /\ auction.quotes \in QuoteLists /\ auction.at \in Nat \ {0}
      /\ auction.at <= Len(auction.quotes) + 1
      /\ Len(auction.quotes) \in Nat
    BY LoopFields
<1>. DEFINE fills == auction.fills
            mkt == auction.mkt
            side == auction.side
            b == auction.bet
            n == Len(fills)
<1>2. ~AtRest /\ MayOpen(b)
    BY <1>1 DEF AtRest, LoopInv
<1>3. fills \in AuctionFills
  <2>1. n \in Nat /\ fills \in [1..n -> Fill] /\ DOMAIN fills = 1..n
      BY <1>1
  <2>2. n < auction.at
      BY DEF LoopInv, FillsOfQuotes
  <2>3. Len(auction.quotes) <= Cardinality(MMs) /\ Cardinality(MMs) \in Nat
      BY <1>1, QuotesAre, CustodyAssumption, FS_CardinalityType
  <2>4. n \in 0..Cardinality(MMs)
      BY <1>1, <2>1, <2>2, <2>3
  <2>5. fills \in SeqOf(Fill, Cardinality(MMs))
      BY <2>1, <2>4 DEF SeqOf
  <2>6. fills # << >>
      BY DEF CommitFill
  <2>7. \A i, j \in DOMAIN fills : i < j =>
            /\ fills[i].mm # fills[j].mm
            /\ fills[i].odds >= fills[j].odds
      BY DEF LoopInv, FillsOfQuotes
  <2>8. \A i \in DOMAIN fills : fills[i].amount >= MinFill
      BY DEF LoopInv, FillsGood
  <2>. QED
      BY <2>5, <2>6, <2>7, <2>8 DEF AuctionFills
<1>4. OpenBet(b, mkt, side, FALSE, fills)
  <2>1. \A i \in DOMAIN fills : CanFill(fills[i], mkt, side, FALSE)
      BY DEF LoopInv, FillsGood
  <2>2. NewBet(b, mkt, side, FALSE, fills).amount = filled_amount
      BY DEF NewBet, filled_amount
  <2>. DEFINE new == NewBet(b, mkt, side, FALSE, fills)
  <2>3. /\ filled_amount <= user
        /\ vault' = auction.vault /\ book' = auction.book /\ wallet' = auction.wallet
        /\ ticket' = [ticket EXCEPT ![b] = new]
        /\ stake' = [stake EXCEPT ![b] = @ + filled_amount]
        /\ user' = user - filled_amount
        /\ UNCHANGED <<escrow, live, paused>>
      BY DEF CommitFill
  <2>4. /\ auction.vault = StagedVault(fills, mkt, side)
        /\ auction.wallet = StagedWallet(fills, mkt, side)
        /\ auction.book = StagedBook(fills, mkt, side)
      BY DEF LoopInv, StagedRight
  <2>. HIDE DEF new
  <2>5. new.amount <= user /\ stake' = [stake EXCEPT ![b] = @ + new.amount]
        /\ user' = user - new.amount
      BY <2>2, <2>3 DEF new
  <2>. HIDE DEF fills, mkt, side, b
  <2>6. /\ vault' = [m \in MMs |->
               IF m \in Filled(fills)
               THEN [vault[m] EXCEPT !.liability = @ + Sent(fills, mkt, side, m),
                                     !.enc = @ + Added(fills, mkt, side, m)]
               ELSE vault[m]]
        /\ wallet' = [m \in MMs |->
               IF m \in Filled(fills) THEN wallet[m] - Sent(fills, mkt, side, m)
               ELSE wallet[m]]
        /\ book' = [m \in MMs |->
               IF m \in Filled(fills) /\ Nets(book[m], FillOf(fills, m), mkt, side)
               THEN Netted(book[m], mkt, side,
                           Profit(FillOf(fills, m).amount, FillOf(fills, m).odds))
               ELSE book[m]]
      BY <2>3, <2>4 DEF StagedVault, StagedWallet, StagedBook
  <2>. QED
      BY <2>1, <2>3, <2>5, <2>6 DEF OpenBet, Filled, FillOf, Sent, Added, new
<1>5. StepIsFill
    BY <1>2, <1>3, <1>4 DEF StepIsFill
<1>6. FillBet(b, mkt, side, FALSE)
    BY <1>2, <1>3, <1>4 DEF FillBet
<1>7. FillStep(b)
    BY <1>1, <1>6 DEF FillStep
<1>. QED
    BY <1>5, <1>7

\* A reservation is covered by what was there and what was sent for it.
LEMMA SentCovers ==
    ASSUME NEW v \in Vault, v.enc <= v.liability, NEW d \in Nat
    PROVE  v.enc + d <= v.liability + Shortfall(v, d)
<1>1. v.enc \in Nat /\ v.liability \in Nat
    BY DEF Vault
<1>. QED
    BY <1>1 DEF Shortfall, LesserOf

\* A committed fill leaves the market makers ready for the next.
LEMMA CommitReady ==
    ASSUME TypeOK, MakersReady, LoopInv, CommitFill
    PROVE  MakersReady'
<1>. DEFINE fills == auction.fills
            mkt == auction.mkt
            side == auction.side
<1>1. vault' = StagedVault(fills, mkt, side) /\ live' = live
    BY DEF CommitFill, LoopInv, StagedRight
<1>2. mkt \in Mkts /\ side \in Sides /\ fills \in Seq(Fill) /\ Distinct(fills)
    BY LoopFields
<1>3. \A i \in DOMAIN fills : CanFill(fills[i], mkt, side, FALSE)
    BY DEF LoopInv, FillsGood
<1>. HIDE DEF fills, mkt, side
<1>4. ASSUME NEW m \in MMs
      PROVE  vault'[m].exists /\ vault'[m].enc <= vault'[m].liability /\ ~live'[m]
  <2>1. vault[m] \in Vault /\ vault[m].exists /\ vault[m].enc <= vault[m].liability /\ ~live[m]
      BY DEF TypeOK, MakersReady
  <2>2. CASE m \notin Filled(fills)
    <3>1. vault'[m] = vault[m]
        BY <1>1, <2>2 DEF StagedVault
    <3>. QED
        BY <1>1, <2>1, <3>1
  <2>3. CASE m \in Filled(fills)
    <3>. DEFINE d == Added(fills, mkt, side, m)
                s == Sent(fills, mkt, side, m)
    <3>1. PICK i \in DOMAIN fills : FillOf(fills, m) = fills[i] /\ fills[i].mm = m
        BY <2>3 DEF Filled, FillOf
    <3>2. fills[i] \in Fill /\ CanFill(fills[i], mkt, side, FALSE)
      <4>1. fills[i] \in Fill
          BY <1>2
      <4>2. CanFill(fills[i], mkt, side, FALSE)
          BY <1>3
      <4>. QED
          BY <4>1, <4>2
    <3>3. Delta(book[fills[i].mm], fills[i], mkt, side) \in Nat
        BY <1>2, <3>2, FillAmounts
    <3>4. d \in Nat /\ s = Shortfall(vault[m], d)
        BY <3>1, <3>3 DEF Added, Sent
    <3>. HIDE DEF d
    <3>5. vault[m].enc + d <= vault[m].liability + s
        BY <2>1, <3>4, SentCovers
    <3>. HIDE DEF s
    <3>6. vault'[m] = [vault[m] EXCEPT !.liability = @ + s, !.enc = @ + d]
        BY <1>1, <2>3 DEF StagedVault, s, d
    <3>7. /\ vault'[m].exists = vault[m].exists /\ vault'[m].enc = vault[m].enc + d
          /\ vault'[m].liability = vault[m].liability + s
        BY <2>1, <3>6 DEF Vault
    <3>. QED
        BY <1>1, <2>1, <3>5, <3>7
  <2>. QED
      BY <2>2, <2>3
<1>. QED
    BY <1>4 DEF MakersReady

\* A transaction starts from vaults that reserve nothing.
LEMMA AuctionStarts ==
    ASSUME AuctionInit PROVE AuctionInv
<1>1. /\ [NoVault EXCEPT !.exists = TRUE] \in Vault
      /\ [NoVault EXCEPT !.exists = TRUE].exists
      /\ [NoVault EXCEPT !.exists = TRUE].enc = 0
      /\ [NoVault EXCEPT !.exists = TRUE].liability = 0
    BY DEF NoVault, Vault
<1>2. [NoBook EXCEPT !.exists = TRUE] \in Book
    BY DEF NoBook, Book, FlatOpen
<1>. DEFINE v == [NoVault EXCEPT !.exists = TRUE]
            bk == [NoBook EXCEPT !.exists = TRUE]
<1>3. vault = [m \in MMs |-> v] /\ book = [m \in MMs |-> bk]
    BY DEF AuctionInit
<1>. HIDE DEF v, bk
<1>4. vault \in [MMs -> Vault] /\ book \in [MMs -> Book]
    BY <1>1, <1>2, <1>3 DEF v, bk
<1>5. wallet \in [MMs -> Nat] /\ user \in Nat
    BY CustodyAssumption DEF AuctionInit
<1>6. ticket \in [Tickets -> Ticket] /\ stake \in [Tickets -> Nat] /\ escrow \in [Bets -> Escrow]
    BY EmptyTypes DEF AuctionInit
<1>7. live \in [MMs -> BOOLEAN] /\ paused \in BOOLEAN
    BY DEF AuctionInit
<1>8. MakersReady
  <2>1. \A m \in MMs : vault[m] = v /\ ~live[m]
      BY <1>3 DEF AuctionInit
  <2>2. v.exists /\ v.enc <= v.liability
      BY <1>1 DEF v
  <2>. QED
      BY <2>1, <2>2 DEF MakersReady
<1>9. auction = NoAuction
    BY DEF AuctionInit
<1>. QED
    BY <1>4, <1>5, <1>6, <1>7, <1>8, <1>9 DEF AuctionInv, TypeOK

\* Every step of the transaction keeps the invariant.
LEMMA AuctionSteps ==
    ASSUME AuctionInv, [AuctionNext]_auctionVars PROVE AuctionInv'
<1>1. TypeOK /\ MakersReady
    BY DEF AuctionInv
<1>2. ASSUME UNCHANGED vars
      PROVE  TypeOK' /\ MakersReady'
    BY <1>1, <1>2 DEF TypeOK, MakersReady, vars
<1>3. CASE UNCHANGED auctionVars
  <2>1. UNCHANGED vars /\ auction' = auction
      BY <1>3 DEF auctionVars, vars
  <2>2. MayOpen(auction.bet)' <=> MayOpen(auction.bet)
      BY <2>1 DEF MayOpen, Exists, vars
  <2>3. FillsOfQuotes' <=> FillsOfQuotes
      BY <2>1 DEF FillsOfQuotes, vars
  <2>4. FillsGood' <=> FillsGood
      BY <2>1 DEF FillsGood, CanFill, vars
  <2>5. StagedRight' <=> StagedRight
      BY <2>1 DEF StagedRight, StagedVault, StagedWallet, StagedBook, Sent, Added, vars
  <2>6. PassedExhausted' <=> PassedExhausted
      BY <2>1 DEF PassedExhausted, filled_amount, remaining_amount, vars
  <2>7. LoopInv => LoopInv'
      BY <2>1, <2>2, <2>3, <2>4, <2>5, <2>6 DEF LoopInv
  <2>. QED
      BY <1>2, <2>1, <2>7 DEF AuctionInv
<1>4. auction.pc = "fill" => LoopInv
    BY DEF AuctionInv, NoAuction
<1>5. ASSUME NEW b \in Bets, NEW mkt \in Wanted, NEW side \in Sides,
             NEW request \in Requests, CollectQuotes(b, mkt, side, request)
      PROVE  AuctionInv'
  <2>1. LoopInv'
      BY <1>1, <1>5, QuotesCollected
  <2>2. UNCHANGED vars
      BY <1>5 DEF CollectQuotes
  <2>. QED
      BY <1>2, <2>1, <2>2 DEF AuctionInv
<1>6. CASE SkipSmall \/ RefuseFill
  <2>1. LoopInv
      BY <1>4, <1>6 DEF SkipSmall, RefuseFill, Trying
  <2>2. LoopInv'
      BY <1>1, <1>6, <2>1, QuoteNotFilled
  <2>3. UNCHANGED vars
      BY <1>6 DEF SkipSmall, RefuseFill
  <2>. QED
      BY <1>2, <2>2, <2>3 DEF AuctionInv
<1>7. CASE TakeFill
  <2>1. LoopInv
      BY <1>4, <1>7 DEF TakeFill, Trying
  <2>2. LoopInv'
      BY <1>1, <1>7, <2>1, FillTaken
  <2>3. UNCHANGED vars
      BY <1>7 DEF TakeFill
  <2>. QED
      BY <1>2, <2>2, <2>3 DEF AuctionInv
<1>8. CASE AbortFill
  <2>1. UNCHANGED vars /\ auction' = NoAuction
      BY <1>8 DEF AbortFill
  <2>2. auction' = NoAuction'
      BY <2>1 DEF NoAuction
  <2>. QED
      BY <1>2, <2>1, <2>2 DEF AuctionInv
<1>9. CASE CommitFill
  <2>1. LoopInv
      BY <1>4, <1>9 DEF CommitFill, LoopDone
  <2>2. auction.bet \in Bets
      BY <2>1, LoopFields
  <2>3. FillStep(auction.bet) /\ MakersReady'
      BY <1>1, <1>9, <2>1, CommitIsFill, CommitReady
  <2>4. TypeOK'
      BY <1>1, <2>2, <2>3, FillType
  <2>5. auction' = NoAuction'
      BY <1>9 DEF CommitFill, NoAuction
  <2>. QED
      BY <2>3, <2>4, <2>5 DEF AuctionInv
<1>. QED
    BY <1>3, <1>5, <1>6, <1>7, <1>8, <1>9 DEF AuctionNext

\* The transaction runs within the invariant.
LEMMA AuctionInvariant == AuctionSpec => []AuctionInv
<1>1. AuctionInit => AuctionInv
    BY AuctionStarts
<1>2. AuctionInv /\ [AuctionNext]_auctionVars => AuctionInv'
    BY AuctionSteps
<1>. QED
    BY <1>1, <1>2, PTL DEF AuctionSpec

\* What the auction loop of fill_bet commits is, as one step, a fill that FillBet
\* allows (IsFillBet): the accounts staged fill by fill, each from what the fills
\* before it left, end where FillBet puts them at once from the accounts before
\* the transaction.
THEOREM AuctionIsFillBet == AuctionSpec => IsFillBet
<1>1. ASSUME AuctionInv, [AuctionNext]_auctionVars
      PROVE  [StepIsFill]_vars
  <2>1. CASE CommitFill
    <3>1. auction.pc = "fill"
        BY <2>1 DEF CommitFill, LoopDone
    <3>2. TypeOK /\ MakersReady /\ LoopInv
        BY <1>1, <3>1 DEF AuctionInv, NoAuction
    <3>. QED
        BY <2>1, <3>2, CommitIsFill
  <2>2. CASE ~CommitFill
    <3>1. UNCHANGED vars
        BY <1>1, <2>2 DEF AuctionNext, CollectQuotes, SkipSmall, TakeFill, RefuseFill,
                          AbortFill, auctionVars, vars
    <3>. QED
        BY <3>1
  <2>. QED
      BY <2>1, <2>2
<1>. QED
    BY <1>1, AuctionInvariant, PTL DEF AuctionSpec, IsFillBet

\* What is left of a quote, bounded by the quote and by the request.
LEMMA LeftOfQuote ==
    ASSUME NEW max \in Nat, NEW filled \in Nat, NEW remaining \in Nat
    PROVE  LET more == LesserOf(max - filled, remaining) IN
           /\ more <= max /\ more <= remaining /\ more \in Int
           /\ filled = max => more = 0
BY DEF LesserOf

\* When the loop ends, the best prices on offer were taken.
LEMMA LoopTakesTheBest ==
    ASSUME LoopInv PROVE TakesTheBest
<1>. SUFFICES ASSUME LoopDone
              PROVE  TakesTheBest
    BY DEF TakesTheBest
<1>1. /\ auction.quotes \in QuoteLists /\ auction.fills \in Seq(Fill)
      /\ auction.at \in Nat \ {0} /\ Len(auction.quotes) \in Nat
      /\ auction.at <= Len(auction.quotes) + 1
      /\ \A m : FilledBy(m) = AmountBy(auction.fills, m)
      /\ remaining_amount \in Nat
    BY LoopFields
<1>2. /\ DOMAIN auction.quotes = 1..Len(auction.quotes)
      /\ \A i \in 1..Len(auction.quotes) : auction.quotes[i] \in MMQuote
      /\ Sorted(auction.quotes)
    BY <1>1, QuotesAre DEF QuoteLists
<1>3. \A q \in MMQuote : q.mm \in MMs /\ q.max \in Nat /\ q.odds \in Nat
    BY FillsAssumption DEF MMQuote
<1>4. MinFill \in Nat
    BY FillsAssumption
<1>5. ASSUME NEW i \in DOMAIN auction.quotes, NEW j \in DOMAIN auction.quotes,
             FilledBy(auction.quotes[j].mm) > 0,
             auction.quotes[i].odds > auction.quotes[j].odds
      PROVE  \/ FilledBy(auction.quotes[i].mm) = auction.quotes[i].max
             \/ auction.quotes[i].mm \in auction.refused
             \/ auction.quotes[i].max < MinFill
  <2>1. auction.quotes[j].mm \in Filled(auction.fills)
    <3>1. AmountBy(auction.fills, auction.quotes[j].mm) # 0
        BY <1>1, <1>5
    <3>. QED
        BY <1>1, <3>1, NothingBy
  <2>2. PICK f \in DOMAIN auction.fills : auction.fills[f].mm = auction.quotes[j].mm
      BY <2>1 DEF Filled
  <2>3. PICK k \in 1..(auction.at - 1) :
            /\ auction.quotes[k].mm = auction.fills[f].mm
            /\ auction.quotes[k].odds = auction.fills[f].odds
      BY DEF LoopInv, FillsOfQuotes
  <2>4. k \in DOMAIN auction.quotes
      BY <1>1, <1>2
  <2>5. k = j
    <3>1. k < j \/ j < k \/ k = j
        BY <1>2, <2>4
    <3>. QED
        BY <1>2, <2>2, <2>3, <2>4, <3>1 DEF Sorted
  <2>6. auction.quotes[i].odds > auction.fills[f].odds
      BY <1>5, <2>3, <2>5
  <2>7. Exhausted(auction.fills, auction.refused, auction.quotes[i])
      BY <2>6 DEF LoopInv, PassedExhausted
  <2>. QED
      BY <1>1, <2>7 DEF Exhausted
<1>6. ASSUME remaining_amount # 0, NEW i \in DOMAIN auction.quotes
      PROVE  LET q == auction.quotes[i]
                 more == LesserOf(q.max - FilledBy(q.mm), remaining_amount)
             IN  more = 0 \/ more < MinFill \/ q.mm \in auction.refused
  <2>. DEFINE q == auction.quotes[i]
              filled == AmountBy(auction.fills, q.mm)
              more == LesserOf(q.max - filled, remaining_amount)
  <2>1. auction.at > Len(auction.quotes)
    <3>1. remaining_amount > 0
        BY <1>1, <1>6
    <3>. QED
        BY <1>1, <3>1 DEF LoopDone, Trying
  <2>2. i \in 1..(auction.at - 1)
      BY <1>1, <1>2, <2>1
  <2>3. q \in MMQuote /\ q.max \in Nat
      BY <1>2, <1>3
  <2>4. filled \in Nat
      BY <1>1, AmountByType
  <2>5. remaining_amount >= MinFill
          => Exhausted(auction.fills, auction.refused, q)
      BY <2>2 DEF LoopInv, PassedExhausted
  <2>. HIDE DEF filled
  <2>6. /\ more <= q.max /\ more <= remaining_amount /\ more \in Int
        /\ filled = q.max => more = 0
      BY <1>1, <2>3, <2>4, LeftOfQuote
  <2>. HIDE DEF q, more
  <2>7. CASE remaining_amount < MinFill
    <3>1. more < MinFill
        BY <1>1, <1>4, <2>6, <2>7
    <3>. QED
        BY <1>1, <3>1 DEF more, q, filled
  <2>8. CASE remaining_amount >= MinFill
    <3>1. filled = q.max \/ q.mm \in auction.refused \/ q.max < MinFill
        BY <2>5, <2>8 DEF Exhausted, filled
    <3>2. more = 0 \/ more < MinFill \/ q.mm \in auction.refused
        BY <1>4, <2>3, <2>6, <3>1
    <3>. QED
        BY <1>1, <3>2 DEF more, q, filled
  <2>. QED
      BY <1>1, <1>4, <2>7, <2>8
<1>. QED
    BY <1>5, <1>6 DEF TakesTheBest

\* When the auction loop of fill_bet ends, an MM was filled only after every MM
\* with a better price took all it quoted, refused or was too small to be tried,
\* and a request that is not filled leaves nothing on offer (TakesTheBest).
THEOREM AuctionTakesTheBest == AuctionSpec => []TakesTheBest
<1>1. AuctionInv => TakesTheBest
  <2>1. auction = NoAuction => TakesTheBest
      BY DEF NoAuction, TakesTheBest, LoopDone
  <2>. QED
      BY <2>1, LoopTakesTheBest DEF AuctionInv
<1>. QED
    BY <1>1, AuctionInvariant, PTL
=============================================================================
