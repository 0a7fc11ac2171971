---------------------------- MODULE ParlayProofs ----------------------------
(***************************************************************************)
(* Parlay tickets and their collateral, for every number of market makers, *)
(* tickets and legs and all amounts and prices.                            *)
(***************************************************************************)
EXTENDS Parlays, AmountProofs

-----------------------------------------------------------------------------
(* Folds over the legs *)

\* The price that is left is a number: by induction on the legs, first that
\* the fold is defined and then that every leg leaves a number.
LEMMA LeftOddsType ==
    ASSUME NEW legs \in Seq(Leg), NEW results
    PROVE  LeftOdds(legs, results) \in Nat
<1>. DEFINE n == Len(legs)
            odds(i) == IF legs[i].odds > 0 THEN legs[i].odds ELSE Scale
            times(acc, i) ==
                CASE i \in Dropped(legs, results) -> acc
                  [] results[i] = "Won" -> (acc * odds(i)) \div Scale
                  [] results[i] = "HalfWon" -> (acc * (odds(i) + Scale)) \div (2 * Scale)
                  [] results[i] = "HalfLost" -> acc \div 2
                  [] OTHER -> acc
            Fold(f, m) == f = [i \in 0..m |-> IF i = 0 THEN Scale ELSE times(f[i - 1], i)]
            S == {m \in Nat : \E f : Fold(f, m)}
<1>1. n \in Nat /\ \A i \in 1..n : legs[i].odds \in Nat
  <2>1. n \in Nat /\ \A i \in 1..n : legs[i] \in Leg
      OBVIOUS
  <2>. QED
      BY <2>1 DEF Leg
<1>2. ASSUME NEW acc \in Nat, NEW i \in 1..n
      PROVE  times(acc, i) \in Nat
  <2>1. odds(i) \in Nat
      BY <1>1, ScaleAssumption
  <2>. HIDE DEF odds
  <2>2. acc * odds(i) \in Nat /\ acc * (odds(i) + Scale) \in Nat /\ 2 * Scale \in Nat \ {0}
      BY <2>1, ScaleAssumption
  <2>3. /\ (acc * odds(i)) \div Scale \in Nat
        /\ (acc * (odds(i) + Scale)) \div (2 * Scale) \in Nat
        /\ acc \div 2 \in Nat
      BY <2>2, ScaleAssumption
  <2>. QED
      BY <2>3
<1>. HIDE DEF times
<1>3. 0 \in S
  <2>1. Fold([i \in 0..0 |-> Scale], 0)
      OBVIOUS
  <2>. QED
      BY <2>1
<1>4. ASSUME NEW m \in Nat, m \in S
      PROVE  m + 1 \in S
  <2>1. PICK f : Fold(f, m)
      BY <1>4
  <2>. DEFINE g == [i \in 0..m + 1 |-> IF i <= m THEN f[i] ELSE times(f[m], m + 1)]
  <2>2. Fold(g, m + 1)
    <3>1. \A i \in 0..m + 1 : g[i] = IF i = 0 THEN Scale ELSE times(g[i - 1], i)
        BY <2>1
    <3>2. g = [i \in 0..m + 1 |-> g[i]]
        OBVIOUS
    <3>. HIDE DEF g
    <3>. QED
        BY <3>1, <3>2
  <2>. HIDE DEF g
  <2>3. \E h : Fold(h, m + 1)
      BY <2>2
  <2>. HIDE DEF Fold
  <2>. QED
      BY <2>3
<1>5. n \in S
    BY <1>1, <1>3, <1>4, SetInduction
<1>. DEFINE fold == CHOOSE f : Fold(f, n)
<1>6. LeftOdds(legs, results) = fold[n]
    BY DEF LeftOdds, OverLegs, times
<1>7. Fold(fold, n)
  <2>1. \E h : Fold(h, n)
      BY <1>5
  <2>. HIDE DEF Fold
  <2>. QED
      BY <2>1
<1>. HIDE DEF fold, n
<1>8. fold[0] = Scale /\ \A i \in 1..n : fold[i] = times(fold[i - 1], i)
  <2>1. \A i \in 0..n : fold[i] = IF i = 0 THEN Scale ELSE times(fold[i - 1], i)
      BY <1>7
  <2>. QED
      BY <1>1, <2>1
<1>. DEFINE T == {i \in Nat : i <= n => fold[i] \in Nat}
<1>9. 0 \in T
    BY <1>8, ScaleAssumption
<1>10. ASSUME NEW i \in Nat, i \in T
       PROVE  i + 1 \in T
  <2>1. CASE i + 1 <= n
    <3>1. fold[i] \in Nat /\ i + 1 \in 1..n /\ (i + 1) - 1 = i
        BY <1>1, <1>10, <2>1
    <3>2. fold[i + 1] = times(fold[i], i + 1)
        BY <1>8, <3>1
    <3>3. times(fold[i], i + 1) \in Nat
        BY <1>2, <3>1
    <3>. QED
        BY <3>2, <3>3
  <2>2. CASE ~(i + 1 <= n)
      BY <2>2
  <2>. QED
      BY <2>1, <2>2
<1>11. n \in T
    BY <1>1, <1>9, <1>10, SetInduction
<1>. QED
    BY <1>1, <1>6, <1>11

-----------------------------------------------------------------------------
(* The strengthening *)

\* A ticket t at key k with s tokens in its account.
Fine(k, t, s) ==
    /\ t.result = "Absent" => t = NoParlay
    /\ t.result # "Absent" =>
          /\ t.filler \in MMs
          /\ k \in Bets => t.key = k /\ t.by = None
          /\ k \in Cashouts => t.key \in Bets /\ t.by \in MMs
    /\ t.amount <= t.payout /\ t.amount <= s
    /\ t.result = "CashedOut" => t.amount = 0 /\ t.payout = 0
    /\ t.result = "ModifiedWin" => "Pending" \notin Range(t.grades)

TicketsKept == \A k \in Keys : Fine(k, parlay[k], stake[k])

\* The escrow e of bet id b and its tickets, if a parlay's; the ticket it was cut
\* from may be gone, and the bet id used again.
Linked(b, e, p, used) ==
    e.live /\ e.is_parlay =>
        /\ e.cash \in Cashouts /\ e.mm \in MMs
        /\ p[e.cash].result # "Absent" /\ p[e.cash].key = b /\ p[e.cash].by = e.mm
        /\ p[e.cash].amount = e.amount /\ p[e.cash].payout = e.removed
        /\ p[b].result # "Absent" /\ b \notin used => p[e.cash].filler = p[b].filler

\* An escrow that is not a parlay's holds nothing for one.
Quiet(e) ==
    /\ ~e.live => e = NoEscrow
    /\ e.live /\ ~e.is_parlay => e.payment = 0

EscrowsKept ==
    \A b \in Bets : Linked(b, escrow[b], parlay, reused) /\ Quiet(escrow[b])

\* What a ticket reserves with m, and whether m bought it.
Gap(t, m) == IF t.filler = m THEN t.payout - t.amount ELSE 0
Mark(t, m) == IF t.by = m THEN 1 ELSE 0
Gaps(p, m) == Total([k \in Keys |-> Gap(p[k], m)])
Marks(p, m) == Total([k \in Keys |-> Mark(p[k], m)])

\* Nothing is netted, so a reservation is covered by itself.
VaultsKept ==
    \A m \in MMs :
        /\ vault[m].enc <= vault[m].liability
        /\ vault[m].cashouts = Marks(parlay, m)
        /\ reused = {} => vault[m].enc = Gaps(parlay, m)

IInv == TypeOK /\ TicketsKept /\ EscrowsKept /\ VaultsKept

-----------------------------------------------------------------------------
(* Sums over the tickets *)

\* There are finitely many tickets.
LEMMA KeysFinite ==
    IsFiniteSet(Keys)
BY ParlaysAssumption, FS_Union DEF Keys

\* A function of tickets of which none is negative.
Sound(p) == p \in [Keys -> Parlay] /\ \A k \in Keys : p[k].amount <= p[k].payout

\* What tickets reserve and count is never negative.
LEMMA GapType ==
    ASSUME NEW p, Sound(p), NEW m
    PROVE  /\ [k \in Keys |-> Gap(p[k], m)] \in [Keys -> Nat]
           /\ [k \in Keys |-> Mark(p[k], m)] \in [Keys -> Nat]
<1>1. \A k \in Keys : p[k].amount \in Nat /\ p[k].payout \in Nat /\ p[k].amount <= p[k].payout
    BY DEF Sound, Parlay
<1>. QED
    BY <1>1 DEF Gap, Mark

\* The tickets q are p but for t at k.
Changes(p, q, k, t) ==
    /\ q \in [Keys -> Parlay] /\ t \in Parlay /\ t.amount <= t.payout
    /\ q[k] = t /\ \A j \in Keys \ {k} : q[j] = p[j]

\* Changing one ticket changes the sums by what it reserves.
LEMMA SetOne ==
    ASSUME NEW p, Sound(p), NEW k \in Keys, NEW t, NEW q, Changes(p, q, k, t)
    PROVE  /\ Sound(q)
           /\ \A m : /\ Gaps(q, m) = Gaps(p, m) - Gap(p[k], m) + Gap(t, m)
                     /\ Marks(q, m) = Marks(p, m) - Mark(p[k], m) + Mark(t, m)
<1>1. Sound(q) /\ q[k] = t /\ \A j \in Keys \ {k} : q[j] = p[j]
    BY DEF Sound, Changes
<1>2. ASSUME NEW m
      PROVE  /\ Gaps(q, m) = Gaps(p, m) - Gap(p[k], m) + Gap(t, m)
             /\ Marks(q, m) = Marks(p, m) - Mark(p[k], m) + Mark(t, m)
  <2>. DEFINE f == [j \in Keys |-> Gap(p[j], m)]
              g == [j \in Keys |-> Gap(q[j], m)]
              ff == [j \in Keys |-> Mark(p[j], m)]
              gg == [j \in Keys |-> Mark(q[j], m)]
  <2>1. /\ f \in [Keys -> Nat] /\ g \in [Keys -> Nat]
        /\ ff \in [Keys -> Nat] /\ gg \in [Keys -> Nat]
      BY <1>1, GapType
  <2>2. /\ \A j \in Keys \ {k} : g[j] = f[j] /\ gg[j] = ff[j]
        /\ f[k] = Gap(p[k], m) /\ g[k] = Gap(t, m)
        /\ ff[k] = Mark(p[k], m) /\ gg[k] = Mark(t, m)
      BY <1>1
  <2>. HIDE DEF f, g, ff, gg
  <2>3. Total(g) = Total(f) - f[k] + g[k]
      BY <2>1, <2>2, KeysFinite, TotalUpdate
  <2>4. Total(gg) = Total(ff) - ff[k] + gg[k]
      BY <2>1, <2>2, KeysFinite, TotalUpdate
  <2>. QED
      BY <2>2, <2>3, <2>4 DEF Gaps, Marks, f, g, ff, gg
<1>. QED
    BY <1>1, <1>2

\* A single ticket reserves and counts at most what all do.
LEMMA GapMember ==
    ASSUME NEW p, Sound(p), NEW k \in Keys, NEW m
    PROVE  /\ Gaps(p, m) \in Nat /\ Gap(p[k], m) \in Nat /\ Gap(p[k], m) <= Gaps(p, m)
           /\ Marks(p, m) \in Nat /\ Mark(p[k], m) \in Nat /\ Mark(p[k], m) <= Marks(p, m)
<1>. DEFINE f == [j \in Keys |-> Gap(p[j], m)]
            g == [j \in Keys |-> Mark(p[j], m)]
<1>1. f \in [Keys -> Nat] /\ g \in [Keys -> Nat]
    BY GapType
<1>2. f[k] = Gap(p[k], m) /\ g[k] = Mark(p[k], m)
    OBVIOUS
<1>. HIDE DEF f, g
<1>3. Total(f) \in Nat /\ Total(g) \in Nat /\ f[k] <= Total(f) /\ g[k] <= Total(g)
    BY <1>1, KeysFinite, TotalType, TotalMember
<1>. QED
    BY <1>1, <1>2, <1>3 DEF Gaps, Marks, f, g

-----------------------------------------------------------------------------
(* Amounts *)

\* What is sold of a ticket and what is left both pay at least their stake.
LEMMA RemovedBounds ==
    ASSUME NEW stakes \in Nat, NEW payout \in Nat, stakes <= payout, NEW a \in 1..stakes
    PROVE  LET x == ProportionalPayout(stakes, payout, a) IN
           /\ x \in Nat /\ a <= x /\ x <= payout
           /\ stakes - a <= payout - x
           /\ a = stakes => x = payout
<1>. DEFINE x == (payout * a) \div stakes
<1>1. a \in Nat /\ stakes > 0 /\ a <= stakes /\ payout * a \in Nat
    OBVIOUS
<1>2. \A n, y \in Nat : /\ stakes * y <= n => y <= n \div stakes
                        /\ n <= stakes * y => n \div stakes <= y
                        /\ n \div stakes \in Nat
    BY <1>1
<1>3. stakes * a <= payout * a
    BY <1>1
<1>4. payout * a <= stakes * payout
    BY <1>1
<1>5. payout * a <= stakes * (a + (payout - stakes))
  <2>. DEFINE d == payout - stakes
  <2>1. d \in Nat /\ payout = stakes + d
      OBVIOUS
  <2>2. (stakes + d) * a = stakes * a + d * a
      BY <2>1
  <2>3. d * a <= d * stakes
      BY <1>1, <2>1
  <2>4. stakes * (a + d) = stakes * a + stakes * d
      BY <2>1
  <2>. HIDE DEF d
  <2>5. d * stakes = stakes * d
      BY <2>1
  <2>6. payout * a = (stakes + d) * a
      BY <2>1
  <2>7. payout * a <= stakes * (a + d)
      BY <1>1, <2>1, <2>2, <2>3, <2>4, <2>5, <2>6
  <2>. QED
      BY <2>7 DEF d
<1>6. x \in Nat /\ a <= x /\ x <= payout /\ x <= a + (payout - stakes)
    BY <1>1, <1>2, <1>3, <1>4, <1>5
<1>7. a = stakes => x = payout
  <2>1. \A y \in Nat : (y * stakes) \div stakes = y
      BY <1>1
  <2>. QED
      BY <2>1
<1>8. x = ProportionalPayout(stakes, payout, a)
    BY DEF ProportionalPayout
<1>. HIDE DEF x
<1>9. stakes - a <= payout - x
    BY <1>1, <1>6
<1>. QED
    BY <1>6, <1>7, <1>8, <1>9

\* A ModifiedWin returns a number of tokens.
LEMMA ReturnType ==
    ASSUME NEW t \in Parlay
    PROVE  ModifiedReturn(t.amount, t.legs, t.grades) \in Nat
<1>1. t.amount \in Nat /\ t.legs \in Seq(Leg)
    BY DEF Parlay
<1>. DEFINE odds == LeftOdds(t.legs, t.grades)
<1>2. odds \in Nat
    BY <1>1, LeftOddsType
<1>. HIDE DEF odds
<1>3. Payout(t.amount, odds) \in Nat
  <2>1. odds * t.amount \in Nat
      BY <1>1, <1>2
  <2>. QED
      BY <2>1, ScaleAssumption DEF Payout
<1>. QED
    BY <1>3 DEF ModifiedReturn, odds

\* Whatever its result, a ticket moves at most the profit it reserves and
\* keeps at most its stake.
LEMMA ReturnBounds ==
    ASSUME NEW t \in Parlay, t.amount <= t.payout
    PROVE  /\ ProfitMoved(t) \in 0..(t.payout - t.amount)
           /\ StakeKept(t) \in 0..t.amount
<1>1. t.amount \in Nat /\ t.payout \in Nat
    BY DEF Parlay
<1>. DEFINE r == ModifiedReturn(t.amount, t.legs, t.grades)
<1>2. r \in Nat
    BY ReturnType
<1>. HIDE DEF r
<1>3. UserReturn(t) \in 0..t.payout
    BY <1>1, <1>2 DEF UserReturn, LesserOf, r
<1>. QED
    BY <1>1, <1>3 DEF ProfitMoved, StakeKept, LesserOf

\* The fold never closes a ticket, and calls none a ModifiedWin too early.
LEMMA FoldRange ==
    ASSUME NEW results
    PROVE  /\ FoldResult(results) \in Results \ {"Absent", "CashedOut"}
           /\ FoldResult(results) = "ModifiedWin" => "Pending" \notin Range(results)
BY DEF FoldResult, Results, LegGrades, LegVoids

-----------------------------------------------------------------------------
(* What every step may use *)

\* A ticket that is not there reserves and counts nothing.
LEMMA NothingKept ==
    /\ NoParlay \in Parlay /\ NoParlay.amount = 0 /\ NoParlay.payout = 0
    /\ NoParlay.result = "Absent" /\ NoEscrow \in Escrow
    /\ \A m \in MMs : Gap(NoParlay, m) = 0 /\ Mark(NoParlay, m) = 0
<1>1. << >> \in Seq(Leg) /\ << >> \in Seq(LegResults)
    OBVIOUS
<1>2. None \notin MMs
    BY ParlaysAssumption
<1>. QED
    BY <1>1, <1>2 DEF NoParlay, Parlay, Results, NoEscrow, Escrow, Gap, Mark

\* Bet ids and cashout ids are different, and None is neither.
LEMMA KeysApart ==
    /\ Bets \subseteq Keys /\ Cashouts \subseteq Keys
    /\ \A b \in Bets : b \notin Cashouts
    /\ None \notin MMs /\ None \notin Bets /\ None \notin Cashouts
BY ParlaysAssumption DEF Keys

\* The invariant, ticket by ticket and vault by vault.
LEMMA Kept ==
    ASSUME IInv
    PROVE  /\ Sound(parlay)
           /\ \A k \in Keys : /\ parlay[k] \in Parlay /\ stake[k] \in Nat
                              /\ Fine(k, parlay[k], stake[k])
                              /\ parlay[k].amount \in Nat /\ parlay[k].payout \in Nat
                              /\ parlay[k].amount <= parlay[k].payout
           /\ \A b \in Bets : /\ escrow[b] \in Escrow
                              /\ Linked(b, escrow[b], parlay, reused)
                              /\ Quiet(escrow[b])
           /\ \A m \in MMs : /\ vault[m] \in Vault /\ wallet[m] \in Nat
                             /\ vault[m].liability \in Nat /\ vault[m].enc \in Nat
                             /\ vault[m].cashouts \in Nat
                             /\ vault[m].enc <= vault[m].liability
                             /\ vault[m].cashouts = Marks(parlay, m)
                             /\ Gaps(parlay, m) \in Nat
                             /\ reused = {} => vault[m].enc = Gaps(parlay, m)
<1>1. \A k \in Keys : /\ parlay[k] \in Parlay /\ stake[k] \in Nat
                      /\ Fine(k, parlay[k], stake[k])
    BY DEF IInv, TypeOK, TicketsKept
<1>2. \A k \in Keys : /\ parlay[k].amount \in Nat /\ parlay[k].payout \in Nat
                      /\ parlay[k].amount <= parlay[k].payout
    BY <1>1 DEF Fine, Parlay
<1>3. Sound(parlay)
    BY <1>2 DEF Sound, IInv, TypeOK
<1>4. \A b \in Bets : /\ escrow[b] \in Escrow
                      /\ Linked(b, escrow[b], parlay, reused)
                      /\ Quiet(escrow[b])
    BY DEF IInv, TypeOK, EscrowsKept
<1>5. \A m \in MMs : /\ vault[m] \in Vault /\ wallet[m] \in Nat
                     /\ vault[m].enc <= vault[m].liability
                     /\ vault[m].cashouts = Marks(parlay, m)
                     /\ reused = {} => vault[m].enc = Gaps(parlay, m)
    BY DEF IInv, TypeOK, VaultsKept
<1>6. \A m \in MMs : /\ vault[m].liability \in Nat /\ vault[m].enc \in Nat
                     /\ vault[m].cashouts \in Nat
    BY <1>5 DEF Vault
<1>7. \A m \in MMs : Gaps(parlay, m) \in Nat
  <2>1. \A m \in MMs : [k \in Keys |-> Gap(parlay[k], m)] \in [Keys -> Nat]
      BY <1>3, GapType
  <2>. QED
      BY <2>1, KeysFinite, TotalType DEF Gaps
<1>. QED
    BY <1>1, <1>2, <1>3, <1>4, <1>5, <1>6, <1>7

\* The parts of the invariant that are about tickets, as an assembly.
LEMMA Keep ==
    ASSUME TypeOK', \A k \in Keys : Fine(k, parlay'[k], stake'[k]),
           \A b \in Bets : /\ Linked(b, escrow'[b], parlay', reused')
                           /\ Quiet(escrow'[b]),
           \A m \in MMs : /\ vault'[m].enc <= vault'[m].liability
                          /\ vault'[m].cashouts = Marks(parlay', m)
                          /\ reused' = {} => vault'[m].enc = Gaps(parlay', m)
    PROVE  IInv'
BY DEF IInv, TicketsKept, EscrowsKept, VaultsKept

-----------------------------------------------------------------------------
(* Filling *)

\* A price the user accepts gives a ticket that is sound.
LEMMA NewTicket ==
    ASSUME TypeOK, NEW b \in Bets, NEW m \in MMs, NEW legs \in Seq(Leg),
           NEW odds \in Odd, NEW amount \in Nat
    PROVE  LET t == NewParlay(b, m, legs, odds, amount) IN
           /\ t \in Parlay /\ t.result = "Pending" /\ t.by = None /\ t.key = b
           /\ t.filler = m /\ t.amount = amount
           /\ t.payout = amount + Profit(amount, odds)
<1>1. Payout(amount, odds) \in Nat /\ Payout(amount, odds) = amount + Profit(amount, odds)
    BY PayoutType, PayoutSplit
<1>2. [i \in DOMAIN legs |-> "Pending"] \in Seq(LegResults)
  <2>1. Len(legs) \in Nat /\ DOMAIN legs = 1..Len(legs)
      OBVIOUS
  <2>2. "Pending" \in LegResults
      BY DEF LegResults
  <2>3. [i \in 1..Len(legs) |-> "Pending"] \in [1..Len(legs) -> LegResults]
      BY <2>2
  <2>4. \A n \in Nat : [1..n -> LegResults] \subseteq Seq(LegResults)
      OBVIOUS
  <2>. QED
      BY <2>1, <2>3, <2>4
<1>. QED
    BY <1>1, <1>2 DEF NewParlay, Parlay, Results

\* A ticket is filled: its profit is reserved and paid in.
LEMMA FillKeeps ==
    ASSUME IInv, NEW b \in Bets, NEW m \in MMs, NEW legs \in Seq(Leg),
           NEW odds \in Odd, NEW amount \in Nat, OpenParlay(b, m, legs, odds, amount)
    PROVE  IInv'
<1>. DEFINE t == NewParlay(b, m, legs, odds, amount)
            profit == Profit(amount, odds)
            sent == Shortfall(vault[m], profit)
            q == [parlay EXCEPT ![b] = t]
<1>1. /\ t \in Parlay /\ t.result = "Pending" /\ t.by = None /\ t.key = b
      /\ t.filler = m /\ t.amount = amount /\ t.payout = amount + profit
    BY NewTicket DEF IInv
<1>2. profit \in Nat
    BY ProfitType
<1>3. sent \in Nat /\ vault[m].enc + profit <= vault[m].liability + sent
    BY <1>2, Kept DEF Shortfall, LesserOf, OpenParlay
<1>4. /\ vault' = [vault EXCEPT ![m].liability = @ + sent, ![m].enc = @ + profit]
      /\ wallet' = [wallet EXCEPT ![m] = @ - sent] /\ sent <= wallet[m]
      /\ user' = user - amount /\ amount <= user
      /\ parlay' = q /\ parlay[b].result = "Absent"
      /\ stake' = [stake EXCEPT ![b] = @ + amount]
      /\ escrow' = escrow /\ single' = single /\ inPlay' = inPlay /\ paused' = paused
      /\ fills' = fills + 1
      /\ reused' = IF escrow[b].live /\ escrow[b].is_parlay THEN reused \cup {b} ELSE reused
    BY DEF OpenParlay, Exists, ParlayHolds
<1>. HIDE DEF t, profit, sent, q
<1>5. b \in Keys /\ parlay[b] = NoParlay
    BY <1>4, Kept, KeysApart DEF Fine
<1>6. /\ Sound(q) /\ q[b] = t /\ \A k \in Keys \ {b} : q[k] = parlay[k]
      /\ \A n : /\ Gaps(q, n) = Gaps(parlay, n) - Gap(parlay[b], n) + Gap(t, n)
                /\ Marks(q, n) = Marks(parlay, n) - Mark(parlay[b], n) + Mark(t, n)
  <2>1. t.amount <= t.payout /\ Sound(parlay)
      BY <1>1, <1>2, Kept
  <2>2. Changes(parlay, q, b, t)
      BY <1>1, <1>5, <2>1 DEF q, Changes, Sound
  <2>3. q[b] = t /\ \A k \in Keys \ {b} : q[k] = parlay[k]
      BY <2>2 DEF Changes
  <2>. HIDE DEF q
  <2>. QED
      BY <1>5, <2>1, <2>2, <2>3, SetOne
<1>7. \A n \in MMs : /\ Gaps(q, n) = Gaps(parlay, n) + (IF n = m THEN profit ELSE 0)
                     /\ Marks(q, n) = vault[n].cashouts
  <2>1. \A n \in MMs : /\ Gap(t, n) = (IF n = m THEN profit ELSE 0)
                       /\ Mark(t, n) = 0
      BY <1>1, <1>2, KeysApart DEF Gap, Mark
  <2>. QED
      BY <1>2, <1>5, <1>6, <2>1, Kept, NothingKept
<1>8. \A n \in MMs : /\ vault'[n] \in Vault
                     /\ vault'[n].liability = vault[n].liability + (IF n = m THEN sent ELSE 0)
                     /\ vault'[n].enc = vault[n].enc + (IF n = m THEN profit ELSE 0)
                     /\ vault'[n].cashouts = vault[n].cashouts
  <2>1. vault \in [MMs -> Vault]
      BY DEF IInv, TypeOK
  <2>2. \A n \in MMs \ {m} : vault'[n] = vault[n]
      BY <1>4, <2>1
  <2>3. vault'[m] = [vault[m] EXCEPT !.liability = @ + sent, !.enc = @ + profit]
      BY <1>4, <2>1 DEF Vault
  <2>4. /\ vault[m].liability + sent \in Nat /\ vault[m].enc + profit \in Nat
        /\ vault[m] \in Vault
    <3>1. vault[m].liability \in Nat /\ vault[m].enc \in Nat /\ vault[m] \in Vault
        BY Kept
    <3>. QED
        BY <1>2, <1>3, <3>1
  <2>5. /\ vault'[m] \in Vault
        /\ vault'[m].liability = vault[m].liability + sent
        /\ vault'[m].enc = vault[m].enc + profit
        /\ vault'[m].cashouts = vault[m].cashouts
      BY <2>3, <2>4 DEF Vault
  <2>6. \A n \in MMs \ {m} : /\ vault[n] \in Vault /\ vault[n].liability \in Nat
                             /\ vault[n].enc \in Nat
      BY Kept
  <2>. QED
      BY <2>2, <2>5, <2>6
<1>9. TypeOK'
  <2>1. vault' \in [MMs -> Vault]
      BY <1>4, <1>8 DEF IInv, TypeOK
  <2>2. parlay' \in [Keys -> Parlay]
      BY <1>4, <1>6 DEF Sound
  <2>3. wallet' \in [MMs -> Nat]
    <3>1. wallet[m] - sent \in Nat /\ wallet \in [MMs -> Nat]
        BY <1>3, <1>4, Kept DEF IInv, TypeOK
    <3>. QED
        BY <1>4, <3>1, SMTT(30)
  <2>4. stake' \in [Keys -> Nat]
    <3>1. stake[b] + amount \in Nat /\ stake \in [Keys -> Nat]
        BY <1>5, Kept DEF IInv, TypeOK
    <3>. QED
        BY <1>4, <3>1
  <2>5. user' \in Nat /\ fills' \in Nat /\ reused' \subseteq Bets
      BY <1>4 DEF IInv, TypeOK
  <2>. QED
      BY <1>4, <2>1, <2>2, <2>3, <2>4, <2>5 DEF IInv, TypeOK
<1>10. \A k \in Keys : Fine(k, parlay'[k], stake'[k])
  <2>1. stake'[b] = stake[b] + amount /\ \A k \in Keys \ {b} : stake'[k] = stake[k]
      BY <1>4, <1>5 DEF IInv, TypeOK
  <2>2. Fine(b, t, stake[b] + amount)
      BY <1>1, <1>2, <1>5, Kept, KeysApart DEF Fine
  <2>. QED
      BY <1>4, <1>6, <2>1, <2>2, Kept
<1>11. \A d \in Bets : /\ Linked(d, escrow'[d], parlay', reused')
                       /\ Quiet(escrow'[d])
  <2>1. ASSUME NEW d \in Bets PROVE Linked(d, escrow[d], q, reused')
    <3>1. Linked(d, escrow[d], parlay, reused)
        BY Kept
    <3>2. \A k \in Keys : parlay[k].result # "Absent" => q[k] = parlay[k]
        BY <1>4, <1>6
    <3>3. CASE d = b
        BY <1>4, <3>1, <3>2, <3>3, KeysApart DEF Linked
    <3>4. CASE d # b
      <4>1. q[d] = parlay[d] /\ (d \notin reused' => d \notin reused)
          BY <1>4, <1>6, <3>4, KeysApart
      <4>. QED
          BY <3>1, <3>2, <4>1, KeysApart DEF Linked
    <3>. QED
        BY <3>3, <3>4
  <2>2. \A d \in Bets : Quiet(escrow[d])
      BY Kept
  <2>. QED
      BY <1>4, <2>1, <2>2
<1>12. \A n \in MMs : /\ vault'[n].enc <= vault'[n].liability
                      /\ vault'[n].cashouts = Marks(parlay', n)
                      /\ reused' = {} => vault'[n].enc = Gaps(parlay', n)
  <2>1. \A n \in MMs : /\ vault[n].liability \in Nat /\ vault[n].enc \in Nat
                       /\ vault[n].enc <= vault[n].liability
      BY Kept
  <2>2. \A n \in MMs : /\ Gaps(parlay', n) = Gaps(parlay, n) + (IF n = m THEN profit ELSE 0)
                       /\ Marks(parlay', n) = vault[n].cashouts
                       /\ reused' = {} => vault[n].enc = Gaps(parlay, n)
      BY <1>4, <1>7, Kept
  <2>3. \A n \in MMs \ {m} : vault'[n].enc <= vault'[n].liability
      BY <1>8, <2>1
  <2>4. vault'[m].enc <= vault'[m].liability
      BY <1>2, <1>3, <1>8, <2>1
  <2>. QED
      BY <1>8, <2>2, <2>3, <2>4
<1>. QED
    BY <1>9, <1>10, <1>11, <1>12, Keep

-----------------------------------------------------------------------------
(* Grading *)

\* The grades of a ticket are results of legs.
LEMMA MarkedType ==
    ASSUME NEW t \in Parlay, NEW marks \in [DOMAIN t.grades -> Grades \cup {None}]
    PROVE  Marked(t, marks) \in Seq(LegResults)
<1>. DEFINE n == Len(t.grades)
<1>1. t.grades \in Seq(LegResults)
    BY DEF Parlay
<1>2. n \in Nat /\ DOMAIN t.grades = 1..n /\ \A i \in 1..n : t.grades[i] \in LegResults
    BY <1>1
<1>3. Grades \subseteq LegResults
    BY ParlaysAssumption DEF LegResults
<1>. HIDE DEF n
<1>4. Marked(t, marks) = [i \in 1..n |-> IF marks[i] = None THEN t.grades[i] ELSE marks[i]]
    BY <1>2 DEF Marked
<1>5. \A i \in 1..n : (IF marks[i] = None THEN t.grades[i] ELSE marks[i]) \in LegResults
    BY <1>2, <1>3
<1>6. Marked(t, marks) \in [1..n -> LegResults]
    BY <1>4, <1>5
<1>7. [1..n -> LegResults] \subseteq Seq(LegResults)
    BY <1>2
<1>. QED
    BY <1>6, <1>7

\* A grade changes neither amounts nor owners, so nothing else has to follow.
LEMMA GradeKeeps ==
    ASSUME IInv, NEW k \in Keys,
           NEW marks \in [DOMAIN parlay[k].grades -> Grades \cup {None}],
           GradeParlay(k, marks)
    PROVE  IInv'
<1>. DEFINE t == parlay[k]
            g == Marked(t, marks)
            r == FoldResult(g)
            u == [t EXCEPT !.grades = g, !.result = r]
<1>1. /\ parlay' = [parlay EXCEPT ![k].grades = g, ![k].result = r]
      /\ t.result # "Absent"
      /\ vault' = vault /\ wallet' = wallet /\ user' = user /\ stake' = stake
      /\ escrow' = escrow /\ single' = single /\ inPlay' = inPlay /\ paused' = paused
      /\ fills' = fills /\ reused' = reused
    BY DEF GradeParlay, Exists, money
<1>2. t \in Parlay /\ Fine(k, t, stake[k]) /\ t.amount <= t.payout
    BY Kept
<1>3. g \in Seq(LegResults)
    BY <1>2, MarkedType
<1>4. r \in Results \ {"Absent", "CashedOut"} /\ (r = "ModifiedWin" => "Pending" \notin Range(g))
    BY FoldRange
<1>. HIDE DEF g, r, t
<1>5. /\ u \in Parlay /\ u.result = r /\ u.grades = g /\ u.amount = t.amount
      /\ u.payout = t.payout /\ u.filler = t.filler /\ u.key = t.key /\ u.by = t.by
     
    BY <1>2, <1>3, <1>4 DEF Parlay
<1>6. Changes(parlay, parlay', k, u)
  <2>1. parlay \in [Keys -> Parlay]
      BY DEF IInv, TypeOK
  <2>2. parlay'[k] = u /\ \A j \in Keys \ {k} : parlay'[j] = parlay[j]
      BY <1>1, <2>1 DEF t
  <2>3. parlay' = [j \in Keys |-> parlay'[j]]
      BY <1>1, <2>1
  <2>. HIDE DEF u
  <2>. QED
      BY <1>2, <1>5, <2>1, <2>2, <2>3 DEF Changes
<1>. HIDE DEF u
<1>7. parlay'[k] = u /\ \A j \in Keys \ {k} : parlay'[j] = parlay[j]
    BY <1>6 DEF Changes
<1>8. \A n \in MMs : Gaps(parlay', n) = Gaps(parlay, n) /\ Marks(parlay', n) = Marks(parlay, n)
  <2>1. \A n \in MMs : Gap(u, n) = Gap(t, n) /\ Mark(u, n) = Mark(t, n)
      BY <1>5 DEF Gap, Mark
  <2>2. \A n \in MMs : /\ Gaps(parlay, n) \in Nat /\ Gap(t, n) \in Nat
                       /\ Marks(parlay, n) \in Nat /\ Mark(t, n) \in Nat
      BY Kept, GapMember DEF t
  <2>3. \A n \in MMs : /\ Gaps(parlay', n) = Gaps(parlay, n) - Gap(t, n) + Gap(u, n)
                       /\ Marks(parlay', n) = Marks(parlay, n) - Mark(t, n) + Mark(u, n)
      BY <1>6, Kept, SetOne DEF t
  <2>. QED
      BY <2>1, <2>2, <2>3
<1>9. TypeOK'
    BY <1>1, <1>6 DEF IInv, TypeOK, Changes
<1>10. \A j \in Keys : Fine(j, parlay'[j], stake'[j])
  <2>1. Fine(k, u, stake[k])
      BY <1>1, <1>2, <1>4, <1>5 DEF Fine
  <2>. QED
      BY <1>1, <1>7, <2>1, Kept
<1>11. \A d \in Bets : /\ Linked(d, escrow'[d], parlay', reused')
                       /\ Quiet(escrow'[d])
  <2>1. \A j \in Keys :
            /\ parlay[j].result # "Absent" <=> parlay'[j].result # "Absent"
            /\ parlay'[j].key = parlay[j].key /\ parlay'[j].by = parlay[j].by
            /\ parlay'[j].filler = parlay[j].filler
            /\ parlay'[j].amount = parlay[j].amount /\ parlay'[j].payout = parlay[j].payout
      BY <1>1, <1>4, <1>5, <1>7 DEF t
  <2>2. ASSUME NEW d \in Bets PROVE Linked(d, escrow[d], parlay', reused')
    <3>1. Linked(d, escrow[d], parlay, reused) /\ reused' = reused
        BY <1>1, Kept
    <3>. QED
        BY <2>1, <3>1, KeysApart DEF Linked
  <2>. QED
      BY <1>1, <2>2, Kept
<1>12. \A n \in MMs : /\ vault'[n].enc <= vault'[n].liability
                      /\ vault'[n].cashouts = Marks(parlay', n)
                      /\ reused' = {} => vault'[n].enc = Gaps(parlay', n)
    BY <1>1, <1>8, Kept
<1>. QED
    BY <1>9, <1>10, <1>11, <1>12, Keep

-----------------------------------------------------------------------------
(* Settling *)

\* What settling a ticket may take from its filler's vault is there.
LEMMA Covered ==
    ASSUME IInv, NEW k \in Keys, Exists(k)
    PROVE  LET t == parlay[k] IN
           /\ t.filler \in MMs
           /\ ProfitMoved(t) \in 0..(t.payout - t.amount) /\ StakeKept(t) \in 0..t.amount
           /\ reused = {} => t.payout - t.amount <= vault[t.filler].enc
           /\ t.by # None => t.by \in MMs /\ vault[t.by].cashouts > 0
<1>. DEFINE t == parlay[k]
<1>1. /\ t \in Parlay /\ t.amount <= t.payout /\ t.filler \in MMs
      /\ t.by # None => t.by \in MMs
    BY Kept DEF Exists, Fine, Keys
<1>. HIDE DEF t
<1>2. \A n \in MMs : /\ reused = {} => Gap(t, n) <= vault[n].enc
                     /\ Mark(t, n) <= vault[n].cashouts
    BY Kept, GapMember DEF t
<1>3. reused = {} => t.payout - t.amount <= vault[t.filler].enc
    BY <1>1, <1>2 DEF Gap
<1>4. t.by # None => vault[t.by].cashouts > 0
  <2>1. \A n \in MMs : vault[n].cashouts \in Nat
      BY Kept
  <2>. QED
      BY <1>1, <1>2, <2>1 DEF Mark
<1>5. ProfitMoved(t) \in 0..(t.payout - t.amount) /\ StakeKept(t) \in 0..t.amount
    BY <1>1, ReturnBounds
<1>. QED
    BY <1>1, <1>3, <1>4, <1>5 DEF t

\* A ticket is settled: at most what it reserved leaves the vault with it.
LEMMA SettleKeeps ==
    ASSUME IInv, NEW k \in Keys, SettleParlay(k)
    PROVE  IInv'
<1>. DEFINE t == parlay[k]
            moved == ProfitMoved(t)
            kept == StakeKept(t)
            gap == t.payout - t.amount
            proceeds == stake[k] - kept + moved
            liability(n) == vault[n].liability + (IF n = t.filler THEN kept - moved ELSE 0)
                                               + (IF n = t.by THEN proceeds ELSE 0)
            enc(n) == vault[n].enc - (IF n = t.filler THEN gap ELSE 0)
            cashouts(n) == vault[n].cashouts - (IF n = t.by THEN 1 ELSE 0)
<1>1. /\ vault' = [n \in MMs |-> [vault[n] EXCEPT !.liability = liability(n),
                                      !.enc = enc(n), !.cashouts = cashouts(n)]]
      /\ user' = IF t.by = None THEN user + proceeds ELSE user
      /\ parlay' = [parlay EXCEPT ![k] = NoParlay]
      /\ stake' = [stake EXCEPT ![k] = 0]
      /\ wallet' = wallet /\ escrow' = escrow /\ single' = single
      /\ inPlay' = inPlay /\ paused' = paused
      /\ fills' = fills /\ reused' = reused
    BY DEF SettleParlay
<1>2. /\ Exists(k) /\ t.result # "Absent" /\ ~escrow[t.key].live /\ moved <= vault[t.filler].liability
      /\ t.amount <= stake[k] /\ gap <= vault[t.filler].enc
    BY DEF SettleParlay, CanSettle, Final, Exists
<1>3. /\ t.filler \in MMs /\ moved \in 0..gap /\ kept \in 0..t.amount
      /\ t.by # None => t.by \in MMs /\ vault[t.by].cashouts > 0
    BY <1>2, Covered
<1>4. /\ t \in Parlay /\ Fine(k, t, stake[k]) /\ t.amount \in Nat /\ t.payout \in Nat
      /\ t.amount <= t.payout /\ stake[k] \in Nat
    BY Kept
<1>5. \A n \in MMs : Gap(t, n) = (IF n = t.filler THEN gap ELSE 0)
                     /\ Mark(t, n) = (IF n = t.by THEN 1 ELSE 0)
    BY DEF Gap, Mark
<1>. HIDE DEF t, moved, kept
<1>6. gap \in Nat /\ moved \in Nat /\ moved <= gap /\ proceeds \in Nat /\ kept \in Nat
    BY <1>2, <1>3, <1>4
<1>. HIDE DEF gap, proceeds
<1>7. \A n \in MMs : /\ liability(n) \in Nat /\ enc(n) \in Nat /\ cashouts(n) \in Nat
                     /\ enc(n) <= liability(n)
  <2>1. \A n \in MMs : /\ vault[n].liability \in Nat /\ vault[n].enc \in Nat
                       /\ vault[n].cashouts \in Nat /\ vault[n].enc <= vault[n].liability
      BY Kept
  <2>2. \A n \in MMs : enc(n) \in Nat
      BY <1>2, <1>6, <2>1
  <2>3. \A n \in MMs : cashouts(n) \in Nat
      BY <1>3, <2>1, KeysApart
  <2>4. kept - moved \in Int /\ kept + vault[t.filler].liability - moved \in Nat
      BY <1>2, <1>3, <1>6, <2>1
  <2>5. \A n \in MMs : liability(n) \in Nat
      BY <1>6, <2>1, <2>4
  <2>6. \A n \in MMs : enc(n) <= liability(n)
      BY <1>2, <1>3, <1>6, <2>1, <2>4
  <2>. QED
      BY <2>2, <2>3, <2>5, <2>6
<1>8. \A n \in MMs : /\ vault'[n] \in Vault /\ vault'[n].liability = liability(n)
                     /\ vault'[n].enc = enc(n) /\ vault'[n].cashouts = cashouts(n)
  <2>. HIDE DEF liability, enc, cashouts
  <2>1. \A n \in MMs : vault[n] \in Vault
      BY Kept
  <2>2. \A n \in MMs : vault'[n] = [vault[n] EXCEPT !.liability = liability(n),
                                        !.enc = enc(n), !.cashouts = cashouts(n)]
      BY <1>1
  <2>. QED
      BY <1>7, <2>1, <2>2 DEF Vault
<1>9. Changes(parlay, parlay', k, NoParlay)
  <2>1. parlay \in [Keys -> Parlay] /\ parlay' = [parlay EXCEPT ![k] = NoParlay]
      BY <1>1 DEF IInv, TypeOK
  <2>2. NoParlay \in Parlay /\ NoParlay.amount <= NoParlay.payout
      BY NothingKept
  <2>. QED
      BY <2>1, <2>2 DEF Changes
<1>10. parlay'[k] = NoParlay /\ \A j \in Keys \ {k} : parlay'[j] = parlay[j]
    BY <1>9 DEF Changes
<1>11. \A n \in MMs : /\ reused = {} => Gaps(parlay', n) = enc(n)
                      /\ Marks(parlay', n) = cashouts(n)
  <2>1. \A n \in MMs : /\ Gaps(parlay', n) = Gaps(parlay, n) - Gap(t, n) + Gap(NoParlay, n)
                       /\ Marks(parlay', n) = Marks(parlay, n) - Mark(t, n) + Mark(NoParlay, n)
      BY <1>9, Kept, SetOne DEF t
  <2>2. \A n \in MMs : /\ reused = {} => vault[n].enc = Gaps(parlay, n)
                       /\ vault[n].cashouts = Marks(parlay, n)
                       /\ vault[n].enc \in Nat /\ vault[n].cashouts \in Nat
      BY Kept
  <2>3. \A n \in MMs : reused = {} => Gaps(parlay', n) = enc(n)
      BY <1>5, <1>6, <2>1, <2>2, NothingKept
  <2>4. \A n \in MMs : Marks(parlay', n) = cashouts(n)
      BY <1>5, <2>1, <2>2, NothingKept
  <2>. QED
      BY <2>3, <2>4
<1>12. TypeOK'
  <2>1. vault' \in [MMs -> Vault]
      BY <1>1, <1>8
  <2>2. user' \in Nat
    <3>1. user' = user \/ user' = user + proceeds
        BY <1>1
    <3>. QED
        BY <1>6, <3>1 DEF IInv, TypeOK
  <2>3. stake' \in [Keys -> Nat]
      BY <1>1 DEF IInv, TypeOK
  <2>. QED
      BY <1>1, <1>9, <2>1, <2>2, <2>3 DEF IInv, TypeOK, Changes
<1>13. \A j \in Keys : Fine(j, parlay'[j], stake'[j])
  <2>1. stake'[k] = 0 /\ \A j \in Keys \ {k} : stake'[j] = stake[j]
      BY <1>1 DEF IInv, TypeOK
  <2>2. Fine(k, NoParlay, 0)
      BY NothingKept DEF Fine
  <2>. QED
      BY <1>10, <2>1, <2>2, Kept
<1>14. \A d \in Bets : /\ Linked(d, escrow'[d], parlay', reused')
                       /\ Quiet(escrow'[d])
  <2>1. \A d \in Bets : escrow[d].live => k # d
      BY <1>2, <1>4 DEF Fine
  <2>2. \A d \in Bets : escrow[d].live /\ escrow[d].is_parlay => k # escrow[d].cash
      BY <1>2, Kept DEF Linked, t
  <2>3. ASSUME NEW d \in Bets PROVE Linked(d, escrow[d], parlay', reused')
    <3>1. Linked(d, escrow[d], parlay, reused) /\ reused' = reused
        BY <1>1, Kept
    <3>. QED
        BY <1>10, <2>1, <2>2, <3>1, KeysApart DEF Linked
  <2>. QED
      BY <1>1, <2>3, Kept
<1>15. \A n \in MMs : /\ vault'[n].enc <= vault'[n].liability
                      /\ vault'[n].cashouts = Marks(parlay', n)
                      /\ reused' = {} => vault'[n].enc = Gaps(parlay', n)
  <2>1. reused' = {} => reused = {}
      BY <1>1
  <2>. QED
      BY <1>7, <1>8, <1>11, <2>1
<1>. QED
    BY <1>12, <1>13, <1>14, <1>15, Keep

-----------------------------------------------------------------------------
(* Cashing out *)

\* Cutting a ticket changes two tickets; the sums follow both.
LEMMA SetTwo ==
    ASSUME NEW p, Sound(p), NEW k \in Keys, NEW j \in Keys, k # j, NEW t, NEW u,
           t \in Parlay, t.amount <= t.payout, u \in Parlay, u.amount <= u.payout,
           NEW q, q \in [Keys -> Parlay], q[k] = t, q[j] = u,
           \A i \in Keys \ {k, j} : q[i] = p[i]
    PROVE  /\ Sound(q)
           /\ \A m : /\ Gaps(q, m) = Gaps(p, m) - Gap(p[k], m) - Gap(p[j], m)
                                                + Gap(t, m) + Gap(u, m)
                     /\ Marks(q, m) = Marks(p, m) - Mark(p[k], m) - Mark(p[j], m)
                                                  + Mark(t, m) + Mark(u, m)
<1>. DEFINE r == [i \in Keys |-> IF i = k THEN t ELSE p[i]]
<1>1. p \in [Keys -> Parlay]
    BY DEF Sound
<1>2. r \in [Keys -> Parlay] /\ r[k] = t /\ \A i \in Keys \ {k} : r[i] = p[i]
    BY <1>1
<1>. HIDE DEF r
<1>3. Changes(p, r, k, t)
    BY <1>2 DEF Changes
<1>4. Changes(r, q, j, u)
    BY <1>2 DEF Changes
<1>5. Sound(r) /\ Sound(q) /\ r[j] = p[j]
    BY <1>2, <1>3, <1>4, SetOne
<1>6. ASSUME NEW m
      PROVE  /\ Gaps(q, m) = Gaps(p, m) - Gap(p[k], m) - Gap(p[j], m)
                                        + Gap(t, m) + Gap(u, m)
             /\ Marks(q, m) = Marks(p, m) - Mark(p[k], m) - Mark(p[j], m)
                                          + Mark(t, m) + Mark(u, m)
  <2>1. /\ Gaps(r, m) = Gaps(p, m) - Gap(p[k], m) + Gap(t, m)
        /\ Marks(r, m) = Marks(p, m) - Mark(p[k], m) + Mark(t, m)
      BY <1>3, SetOne
  <2>2. /\ Gaps(q, m) = Gaps(r, m) - Gap(p[j], m) + Gap(u, m)
        /\ Marks(q, m) = Marks(r, m) - Mark(p[j], m) + Mark(u, m)
      BY <1>4, <1>5, SetOne
  <2>3. /\ Gaps(p, m) \in Nat /\ Gap(p[k], m) \in Nat /\ Gap(p[j], m) \in Nat
        /\ Marks(p, m) \in Nat /\ Mark(p[k], m) \in Nat /\ Mark(p[j], m) \in Nat
      BY GapMember
  <2>4. /\ Gap(t, m) \in Nat /\ Mark(t, m) \in Nat
        /\ Gap(u, m) \in Nat /\ Mark(u, m) \in Nat
      BY <1>2, <1>5, GapMember
  <2>. QED
      BY <2>1, <2>2, <2>3, <2>4
<1>. QED
    BY <1>5, <1>6

\* The two tickets of a cashout: between them they hold the stake, the payout
\* and the profit that the one had.
LEMMA CutTicket ==
    ASSUME IInv, NEW b \in Bets, NEW m \in MMs, NEW amount \in 1..parlay[b].amount,
           Exists(b)
    PROVE  LET t == parlay[b]
               x == Removed(b, amount)
               s == CashoutTicket(b, m, amount)
               r == RemainingTicket(b, amount)
           IN
           /\ t.filler \in MMs /\ t.by = None /\ t.key = b
           /\ x \in Nat /\ amount <= x /\ x <= t.payout
           /\ t.amount - amount <= t.payout - x
           /\ amount = t.amount => x = t.payout
           /\ s \in Parlay /\ s.amount = amount /\ s.payout = x /\ s.by = m
           /\ s.result = t.result /\ s.filler = t.filler /\ s.key = b /\ s.grades = t.grades
           /\ r \in Parlay /\ r.amount = t.amount - amount /\ r.payout = t.payout - x
           /\ r.by = None /\ r.filler = t.filler /\ r.key = b /\ r.grades = t.grades
          
           /\ r.result = IF amount = t.amount THEN "CashedOut" ELSE "Pending"
<1>. DEFINE t == parlay[b]
            x == Removed(b, amount)
<1>1. t \in Parlay /\ t.amount \in Nat /\ t.payout \in Nat /\ t.amount <= t.payout
    BY Kept, KeysApart
<1>2. t.filler \in MMs /\ t.by = None /\ t.key = b
    BY Kept, KeysApart DEF Exists, Fine
<1>3. x = ProportionalPayout(t.amount, t.payout, amount)
    BY DEF Removed
<1>4. CashoutTicket(b, m, amount) = [t EXCEPT !.amount = amount, !.payout = x, !.by = m]
    BY DEF CashoutTicket
<1>5. RemainingTicket(b, amount) =
          [t EXCEPT !.amount = @ - amount, !.payout = @ - x,
                    !.result = IF amount = t.amount THEN "CashedOut" ELSE "Pending"]
    BY DEF RemainingTicket
<1>6. amount \in 1..t.amount
    OBVIOUS
<1>. HIDE DEF t, x
<1>7. /\ x \in Nat /\ amount <= x /\ x <= t.payout
      /\ t.amount - amount <= t.payout - x
      /\ amount = t.amount => x = t.payout
    BY <1>1, <1>3, <1>6, RemovedBounds
<1>8. t.amount - amount \in Nat /\ t.payout - x \in Nat /\ amount \in Nat
    BY <1>1, <1>6, <1>7
<1>. DEFINE s == CashoutTicket(b, m, amount)
            r == RemainingTicket(b, amount)
<1>9. /\ s \in Parlay /\ s.amount = amount /\ s.payout = x /\ s.by = m
      /\ s.result = t.result /\ s.filler = t.filler /\ s.key = t.key /\ s.grades = t.grades
    BY <1>1, <1>4, <1>7, <1>8 DEF Parlay
<1>10. /\ r \in Parlay /\ r.amount = t.amount - amount /\ r.payout = t.payout - x
       /\ r.by = t.by /\ r.filler = t.filler /\ r.key = t.key /\ r.grades = t.grades
      
       /\ r.result = IF amount = t.amount THEN "CashedOut" ELSE "Pending"
    BY <1>1, <1>5, <1>8 DEF Parlay, Results
<1>. HIDE DEF s, r
<1>. QED
    BY <1>2, <1>7, <1>9, <1>10 DEF t, x, s, r

\* A ticket is cashed out: what it reserved is divided between the two.
LEMMA CashoutKeeps ==
    ASSUME IInv, NEW b \in Bets, NEW c \in Cashouts, NEW m \in MMs, NEW seen,
           NEW amount \in 1..parlay[b].amount, NEW payment \in Nat,
           CashoutParlay(b, c, m, seen, amount, payment)
    PROVE  IInv'
<1>. DEFINE t == parlay[b]
            x == Removed(b, amount)
            s == CashoutTicket(b, m, amount)
            r == RemainingTicket(b, amount)
            u == IF Closes(b, seen, amount) THEN NoParlay ELSE r
            paid == FromLiability(m, payment)
            dust == IF Closes(b, seen, amount) THEN stake[b] - amount ELSE 0
<1>1. /\ vault' = [vault EXCEPT ![m].liability = @ - paid, ![m].cashouts = @ + 1]
      /\ wallet' = [wallet EXCEPT ![m] = @ - (payment - paid)]
      /\ user' = user + dust + (IF NeedsDelay(b, seen) THEN 0 ELSE payment)
      /\ escrow' = IF NeedsDelay(b, seen)
                   THEN [escrow EXCEPT ![b] = NewEscrow(b, c, m, amount, payment)]
                   ELSE escrow
      /\ parlay' = [parlay EXCEPT ![c] = s, ![b] = u]
      /\ stake' = [stake EXCEPT ![c] = @ + amount, ![b] = @ - amount - dust]
      /\ single' = single /\ inPlay' = inPlay /\ paused' = paused
      /\ fills' = fills /\ reused' = reused
    BY DEF CashoutParlay
<1>2. /\ t.result = "Pending" /\ parlay[c].result = "Absent" /\ amount <= stake[b]
      /\ NeedsDelay(b, seen) => ~escrow[b].live
      /\ vault[m].enc <= vault[m].liability /\ payment - paid <= wallet[m]
    BY DEF CashoutParlay, CanCashout, Exists
<1>3. /\ t.filler \in MMs /\ t.by = None /\ t.key = b
      /\ x \in Nat /\ amount <= x /\ x <= t.payout
      /\ t.amount - amount <= t.payout - x
      /\ amount = t.amount => x = t.payout
    BY <1>2, CutTicket DEF Exists
<1>4. /\ s \in Parlay /\ s.amount = amount /\ s.payout = x /\ s.by = m
      /\ s.result = "Pending" /\ s.filler = t.filler /\ s.key = b
    BY <1>2, CutTicket DEF Exists
<1>5. /\ r \in Parlay /\ r.amount = t.amount - amount /\ r.payout = t.payout - x
      /\ r.by = None /\ r.filler = t.filler /\ r.key = b
      /\ r.result = IF amount = t.amount THEN "CashedOut" ELSE "Pending"
    BY <1>2, CutTicket DEF Exists
<1>6. /\ b \in Keys /\ c \in Keys /\ b # c /\ t \in Parlay /\ t.amount \in Nat /\ t.payout \in Nat
      /\ t.amount <= t.payout /\ stake[b] \in Nat /\ stake[c] \in Nat /\ parlay[c] = NoParlay
      /\ t.amount <= stake[b] /\ amount \in Nat /\ amount <= t.amount
  <2>1. b \in Keys /\ c \in Keys /\ b # c
      BY KeysApart
  <2>2. /\ t \in Parlay /\ t.amount \in Nat /\ t.payout \in Nat
        /\ t.amount <= t.payout /\ stake[b] \in Nat /\ stake[c] \in Nat
        /\ Fine(b, t, stake[b]) /\ Fine(c, parlay[c], stake[c])
      BY <2>1, Kept
  <2>3. parlay[c] = NoParlay /\ t.amount <= stake[b]
      BY <1>2, <2>2 DEF Fine
  <2>4. amount \in Nat /\ amount <= t.amount
      BY <2>2
  <2>. QED
      BY <2>1, <2>2, <2>3, <2>4
<1>7. /\ Closes(b, seen, amount) => amount = t.amount /\ ~NeedsDelay(b, seen)
      /\ Closes(b, seen, amount) => u = NoParlay
      /\ ~Closes(b, seen, amount) => u = r
    BY DEF Closes
<1>8. paid \in 0..payment /\ paid <= vault[m].liability - vault[m].enc
    BY <1>2, Kept DEF FromLiability, LesserOf
<1>9. dust \in Nat /\ stake[b] - amount - dust \in Nat /\ dust <= stake[b] - amount
    BY <1>2, <1>6
<1>. HIDE DEF t, x, s, r, u, paid, dust
<1>10. u \in Parlay /\ u.amount <= u.payout /\ s.amount <= s.payout
    BY <1>3, <1>4, <1>5, <1>6, <1>7, NothingKept
<1>11. /\ parlay' \in [Keys -> Parlay] /\ parlay'[c] = s /\ parlay'[b] = u
       /\ \A i \in Keys \ {c, b} : parlay'[i] = parlay[i]
  <2>1. parlay \in [Keys -> Parlay]
      BY DEF IInv, TypeOK
  <2>. QED
      BY <1>1, <1>4, <1>6, <1>10, <2>1
<1>12. \A n \in MMs :
           /\ Gap(s, n) + Gap(u, n) = Gap(t, n)
           /\ Mark(s, n) + Mark(u, n) = (IF n = m THEN 1 ELSE 0)
           /\ Mark(t, n) = 0
  <2>1. \A n \in MMs : Mark(s, n) = (IF n = m THEN 1 ELSE 0) /\ Mark(u, n) = 0 /\ Mark(t, n) = 0
      BY <1>3, <1>4, <1>5, <1>7, KeysApart, NothingKept DEF Mark
  <2>2. \A n \in MMs : Gap(s, n) = (IF t.filler = n THEN x - amount ELSE 0)
      BY <1>4 DEF Gap
  <2>3. \A n \in MMs :
            Gap(u, n) = (IF t.filler = n THEN (t.payout - x) - (t.amount - amount) ELSE 0)
    <3>1. CASE Closes(b, seen, amount)
        BY <1>3, <1>6, <1>7, <3>1, NothingKept
    <3>2. CASE ~Closes(b, seen, amount)
        BY <1>5, <1>7, <3>2 DEF Gap
    <3>. QED
        BY <3>1, <3>2
  <2>4. \A n \in MMs : Gap(t, n) = (IF t.filler = n THEN t.payout - t.amount ELSE 0)
      BY DEF Gap
  <2>. QED
      BY <1>3, <1>6, <2>1, <2>2, <2>3, <2>4
<1>13. \A n \in MMs : /\ Gaps(parlay', n) = Gaps(parlay, n)
                      /\ Marks(parlay', n) = vault[n].cashouts + (IF n = m THEN 1 ELSE 0)
  <2>0. Sound(parlay) /\ c # b
      BY <1>6, Kept
  <2>1. \A n : /\ Gaps(parlay', n) = Gaps(parlay, n) - Gap(parlay[c], n) - Gap(parlay[b], n)
                                                     + Gap(s, n) + Gap(u, n)
               /\ Marks(parlay', n) = Marks(parlay, n) - Mark(parlay[c], n) - Mark(parlay[b], n)
                                                       + Mark(s, n) + Mark(u, n)
      BY <1>4, <1>6, <1>10, <1>11, <2>0, SetTwo
  <2>2. \A n \in MMs : /\ Gaps(parlay, n) \in Nat /\ vault[n].cashouts = Marks(parlay, n)
                       /\ vault[n].cashouts \in Nat
                       /\ Gap(parlay[c], n) = 0 /\ Mark(parlay[c], n) = 0
      BY <1>6, Kept, NothingKept
  <2>3. \A n \in MMs : /\ Gap(s, n) \in Nat /\ Gap(u, n) \in Nat
                       /\ Mark(s, n) \in Nat /\ Mark(u, n) \in Nat
    <3>1. Sound(parlay')
        BY <1>4, <1>6, <1>10, <1>11, <2>0, SetTwo
    <3>. QED
        BY <1>6, <1>11, <3>1, GapMember
  <2>4. parlay[b] = t
      BY DEF t
  <2>. QED
      BY <1>12, <2>1, <2>2, <2>3, <2>4
<1>14. \A n \in MMs : /\ vault'[n] \in Vault
                      /\ vault'[n].liability = vault[n].liability - (IF n = m THEN paid ELSE 0)
                      /\ vault'[n].enc = vault[n].enc
                      /\ vault'[n].cashouts = vault[n].cashouts + (IF n = m THEN 1 ELSE 0)
  <2>1. vault \in [MMs -> Vault]
      BY DEF IInv, TypeOK
  <2>2. \A n \in MMs \ {m} : vault'[n] = vault[n]
      BY <1>1, <2>1
  <2>3. vault'[m] = [vault[m] EXCEPT !.liability = @ - paid, !.cashouts = @ + 1]
      BY <1>1, <2>1 DEF Vault
  <2>4. /\ vault[m].liability - paid \in Nat /\ vault[m].cashouts + 1 \in Nat
        /\ vault[m] \in Vault
      BY <1>8, Kept
  <2>5. /\ vault'[m] \in Vault
        /\ vault'[m].liability = vault[m].liability - paid
        /\ vault'[m].enc = vault[m].enc
        /\ vault'[m].cashouts = vault[m].cashouts + 1
      BY <2>3, <2>4 DEF Vault
  <2>6. \A n \in MMs : /\ vault[n] \in Vault /\ vault[n].liability \in Nat
                       /\ vault[n].cashouts \in Nat
      BY Kept
  <2>. QED
      BY <2>2, <2>5, <2>6
<1>15. \A k \in Keys : stake'[k] = IF k = c THEN stake[c] + amount
                                   ELSE IF k = b THEN stake[b] - amount - dust ELSE stake[k]
    BY <1>1, <1>6 DEF IInv, TypeOK
<1>16. /\ NeedsDelay(b, seen) => /\ escrow'[b] = NewEscrow(b, c, m, amount, payment)
                           /\ NewEscrow(b, c, m, amount, payment) \in Escrow
       /\ ~NeedsDelay(b, seen) => escrow' = escrow
       /\ \A d \in Bets \ {b} : escrow'[d] = escrow[d]
       /\ escrow' \in [Bets -> Escrow]
  <2>1. NewEscrow(b, c, m, amount, payment) \in Escrow
      BY <1>3, <1>6 DEF NewEscrow, Escrow, x
  <2>2. escrow \in [Bets -> Escrow]
      BY DEF IInv, TypeOK
  <2>. QED
      BY <1>1, <2>1, <2>2
<1>17. TypeOK'
  <2>1. vault' \in [MMs -> Vault]
      BY <1>1, <1>14 DEF IInv, TypeOK
  <2>2. wallet' \in [MMs -> Nat]
    <3>1. wallet[m] - (payment - paid) \in Nat /\ wallet \in [MMs -> Nat]
        BY <1>2, <1>8, Kept DEF IInv, TypeOK
    <3>. QED
        BY <1>1, <3>1
  <2>3. user' \in Nat
    <3>1. user' = user + dust \/ user' = user + dust + payment
        BY <1>1, <1>9 DEF IInv, TypeOK
    <3>. QED
        BY <1>9, <3>1 DEF IInv, TypeOK
  <2>4. stake' \in [Keys -> Nat]
    <3>1. \A k \in Keys : stake'[k] \in Nat
        BY <1>6, <1>9, <1>15, Kept
    <3>2. stake' = [k \in Keys |-> stake'[k]]
        BY <1>1 DEF IInv, TypeOK
    <3>. QED
        BY <3>1, <3>2
  <2>. QED
      BY <1>1, <1>11, <1>16, <2>1, <2>2, <2>3, <2>4 DEF IInv, TypeOK
<1>18. \A k \in Keys : Fine(k, parlay'[k], stake'[k])
  <2>1. Fine(c, s, stake[c] + amount)
      BY <1>3, <1>4, <1>6, <1>10, KeysApart DEF Fine
  <2>2. Fine(b, u, stake[b] - amount - dust)
    <3>1. CASE Closes(b, seen, amount)
        BY <1>7, <1>9, <3>1, NothingKept DEF Fine
    <3>2. CASE ~Closes(b, seen, amount)
      <4>1. dust = 0
          BY <3>2 DEF dust
      <4>. QED
          BY <1>3, <1>5, <1>6, <1>7, <1>10, <3>2, <4>1, KeysApart DEF Fine
    <3>. QED
        BY <3>1, <3>2
  <2>. QED
      BY <1>6, <1>11, <1>15, <2>1, <2>2, Kept
<1>19. \A d \in Bets : /\ Linked(d, escrow'[d], parlay', reused')
                       /\ Quiet(escrow'[d])
  <2>1. \A d \in Bets \ {b} : /\ Linked(d, escrow'[d], parlay', reused')
                              /\ Quiet(escrow'[d])
    <3>1. \A d \in Bets \ {b} : d \in Keys \ {c, b} /\ d # c
        BY KeysApart
    <3>2. \A d \in Bets \ {b} : Linked(d, escrow[d], parlay, reused) /\ Quiet(escrow[d])
        BY Kept
    <3>3. \A d \in Bets \ {b} : Linked(d, escrow[d], parlay', reused')
        BY <1>1, <1>2, <1>11, <3>1, <3>2, KeysApart DEF Linked
    <3>. QED
        BY <1>16, <3>2, <3>3
  <2>2. Linked(b, escrow'[b], parlay', reused') /\ Quiet(escrow'[b])
    <3>1. CASE NeedsDelay(b, seen)
      <4>. DEFINE e == NewEscrow(b, c, m, amount, payment)
      <4>1. escrow'[b] = e /\ u = r
          BY <1>7, <1>16, <3>1
      <4>2. /\ e.live /\ e.is_parlay /\ e.cash = c /\ e.mm = m /\ e.amount = amount
            /\ e.removed = x
          BY DEF NewEscrow, x
      <4>. HIDE DEF e
      <4>3. Linked(b, e, parlay', reused')
          BY <1>4, <1>5, <1>11, <4>1, <4>2 DEF Linked
      <4>4. Quiet(e)
          BY <4>2 DEF Quiet
      <4>. QED
          BY <4>1, <4>3, <4>4
    <3>2. CASE ~NeedsDelay(b, seen)
      <4>1. /\ escrow'[b] = escrow[b] /\ reused' = reused
            /\ Linked(b, escrow[b], parlay, reused) /\ Quiet(escrow[b])
          BY <1>1, <1>16, <3>2, Kept
      <4>2. u.result # "Absent" => u.filler = t.filler
          BY <1>5, <1>7, NothingKept
      <4>3. parlay[b].result # "Absent" /\ parlay[b].filler = t.filler
          BY <1>2 DEF t
      <4>4. Linked(b, escrow[b], parlay', reused')
          BY <1>2, <1>6, <1>11, <4>1, <4>2, <4>3, KeysApart DEF Linked
      <4>. QED
          BY <4>1, <4>4
    <3>. QED
        BY <3>1, <3>2
  <2>. QED
      BY <2>1, <2>2
<1>20. \A n \in MMs : /\ vault'[n].enc <= vault'[n].liability
                      /\ vault'[n].cashouts = Marks(parlay', n)
                      /\ reused' = {} => vault'[n].enc = Gaps(parlay', n)
  <2>1. \A n \in MMs : /\ vault[n].liability \in Nat /\ vault[n].enc \in Nat
                       /\ vault[n].enc <= vault[n].liability
      BY Kept
  <2>2. \A n \in MMs : reused' = {} => vault[n].enc = Gaps(parlay, n)
      BY <1>1, Kept
  <2>3. \A n \in MMs : vault'[n].enc <= vault'[n].liability
      BY <1>8, <1>14, <2>1
  <2>. QED
      BY <1>13, <1>14, <2>2, <2>3
<1>. QED
    BY <1>17, <1>18, <1>19, <1>20, Keep

-----------------------------------------------------------------------------
(* Resolving escrows *)

\* A claim pays the user; the ticket goes if nothing is left of it.
LEMMA ClaimKeeps ==
    ASSUME IInv, NEW b \in Bets, ClaimCashoutEscrow(b)
    PROVE  IInv'
<1>. DEFINE t == parlay[b]
            closes == t.result = "CashedOut"
            dust == IF closes THEN stake[b] ELSE 0
<1>1. /\ user' = user + escrow[b].payment + dust
      /\ escrow' = [escrow EXCEPT ![b] = NoEscrow]
      /\ parlay' = IF closes THEN [parlay EXCEPT ![b] = NoParlay] ELSE parlay
      /\ stake' = [stake EXCEPT ![b] = @ - dust]
      /\ vault' = vault /\ wallet' = wallet /\ single' = single
      /\ inPlay' = inPlay /\ paused' = paused
      /\ fills' = fills /\ reused' = reused
    BY DEF ClaimCashoutEscrow
<1>2. /\ b \in Keys /\ parlay \in [Keys -> Parlay] /\ stake \in [Keys -> Nat]
      /\ escrow \in [Bets -> Escrow] /\ user \in Nat /\ escrow[b].payment \in Nat
      /\ t \in Parlay /\ t.amount \in Nat /\ t.payout \in Nat /\ Fine(b, t, stake[b])
      /\ t.amount <= t.payout /\ stake[b] \in Nat
    BY Kept, KeysApart DEF IInv, TypeOK, Escrow
<1>3. closes => t.amount = 0 /\ t.payout = 0 /\ t.by = None
    BY <1>2, KeysApart DEF Fine
<1>4. dust \in Nat /\ stake[b] - dust \in Nat
    BY <1>2
<1>5. /\ parlay' \in [Keys -> Parlay]
      /\ parlay'[b] = IF closes THEN NoParlay ELSE t
      /\ \A k \in Keys \ {b} : parlay'[k] = parlay[k]
    BY <1>1, <1>2, NothingKept
<1>6. stake'[b] = stake[b] - dust /\ \A k \in Keys \ {b} : stake'[k] = stake[k]
    BY <1>1, <1>2
<1>. HIDE DEF closes, dust, t
<1>7. \A n \in MMs : Gaps(parlay', n) = Gaps(parlay, n) /\ Marks(parlay', n) = Marks(parlay, n)
  <2>. DEFINE u == IF closes THEN NoParlay ELSE t
  <2>1. Changes(parlay, parlay', b, u)
      BY <1>2, <1>5, NothingKept DEF Changes
  <2>2. \A n \in MMs : Gap(u, n) = Gap(t, n) /\ Mark(u, n) = Mark(t, n)
      BY <1>3, NothingKept, KeysApart DEF Gap, Mark
  <2>. HIDE DEF u
  <2>3. Sound(parlay) /\ parlay[b] = t
      BY Kept DEF t
  <2>4. \A n : /\ Gaps(parlay', n) = Gaps(parlay, n) - Gap(t, n) + Gap(u, n)
               /\ Marks(parlay', n) = Marks(parlay, n) - Mark(t, n) + Mark(u, n)
      BY <1>2, <2>1, <2>3, SetOne
  <2>5. \A n : /\ Gaps(parlay, n) \in Nat /\ Gap(t, n) \in Nat
               /\ Marks(parlay, n) \in Nat /\ Mark(t, n) \in Nat
      BY <1>2, <2>3, GapMember
  <2>. QED
      BY <2>2, <2>4, <2>5
<1>8. TypeOK'
  <2>1. user' \in Nat
      BY <1>1, <1>2, <1>4
  <2>2. stake' \in [Keys -> Nat]
      BY <1>1, <1>2, <1>4
  <2>3. escrow' \in [Bets -> Escrow]
      BY <1>1, <1>2, NothingKept
  <2>. QED
      BY <1>1, <1>5, <2>1, <2>2, <2>3 DEF IInv, TypeOK
<1>9. \A k \in Keys : Fine(k, parlay'[k], stake'[k])
  <2>1. CASE closes
    <3>1. Fine(b, NoParlay, stake[b] - dust)
        BY <1>4, NothingKept DEF Fine
    <3>. QED
        BY <1>5, <1>6, <2>1, <3>1, Kept
  <2>2. CASE ~closes
    <3>1. dust = 0
        BY <2>2 DEF dust
    <3>2. stake'[b] = stake[b]
        BY <1>2, <1>6, <3>1
    <3>. QED
        BY <1>2, <1>5, <1>6, <2>2, <3>2, Kept
  <2>. QED
      BY <2>1, <2>2
<1>10. \A d \in Bets : /\ Linked(d, escrow'[d], parlay', reused')
                       /\ Quiet(escrow'[d])
  <2>1. /\ escrow'[b] = NoEscrow /\ ~NoEscrow.live
        /\ \A d \in Bets \ {b} : escrow'[d] = escrow[d]
      BY <1>1, <1>2 DEF NoEscrow
  <2>2. \A d \in Bets \ {b} : d \in Keys \ {b}
      BY KeysApart
  <2>3. \A d \in Bets \ {b} : Linked(d, escrow[d], parlay', reused')
      BY <1>1, <1>5, <2>2, Kept, KeysApart DEF Linked
  <2>4. Linked(b, NoEscrow, parlay', reused') /\ Quiet(NoEscrow)
      BY <2>1 DEF Linked, Quiet
  <2>. QED
      BY <2>1, <2>3, <2>4, Kept
<1>11. \A n \in MMs : /\ vault'[n].enc <= vault'[n].liability
                      /\ vault'[n].cashouts = Marks(parlay', n)
                      /\ reused' = {} => vault'[n].enc = Gaps(parlay', n)
    BY <1>1, <1>7, Kept
<1>. QED
    BY <1>8, <1>9, <1>10, <1>11, Keep

\* A revert puts both halves of a ticket together again.
LEMMA RevertKeeps ==
    ASSUME IInv, NEW b \in Bets, RevertCashout(b)
    PROVE  IInv'
<1>. DEFINE e == escrow[b]
            t == parlay[b]
            s == parlay[e.cash]
            r == Restored(b)
            c == e.cash
            m == e.mm
<1>1. /\ e.live /\ e.is_parlay /\ e.amount <= stake[c] /\ vault[m].cashouts > 0
      /\ t.result # "Absent" /\ s.result # "Absent"
      /\ parlay' = [parlay EXCEPT ![b] = r, ![c] = NoParlay]
      /\ stake' = [stake EXCEPT ![b] = @ + e.amount, ![c] = 0]
      /\ user' = user + (stake[c] - e.amount)
      /\ vault' = [vault EXCEPT ![m].liability = @ + e.payment, ![m].cashouts = @ - 1]
      /\ escrow' = [escrow EXCEPT ![b] = NoEscrow]
      /\ wallet' = wallet /\ single' = single /\ inPlay' = inPlay /\ paused' = paused
      /\ fills' = fills /\ reused' = reused
    BY DEF RevertCashout, CanRevert, CanResolve, Exists
<1>2. r = [t EXCEPT !.amount = @ + e.amount, !.payout = @ + e.removed,
                    !.result = IF @ = "RolledBack" THEN @ ELSE "Pending"]
    BY DEF Restored
<1>3. /\ c \in Cashouts /\ m \in MMs /\ s.key = b /\ s.by = m
      /\ reused = {} => s.filler = t.filler
      /\ s.amount = e.amount /\ s.payout = e.removed
    BY <1>1, Kept DEF Linked
<1>4. b \in Keys /\ c \in Keys /\ b # c
    BY <1>3, KeysApart
<1>5. /\ parlay \in [Keys -> Parlay] /\ stake \in [Keys -> Nat]
      /\ escrow \in [Bets -> Escrow] /\ user \in Nat /\ e.payment \in Nat
      /\ vault \in [MMs -> Vault]
    BY Kept DEF IInv, TypeOK, Escrow
<1>6. /\ t \in Parlay /\ t.amount \in Nat /\ t.payout \in Nat /\ Fine(b, t, stake[b])
      /\ t.amount <= t.payout /\ stake[b] \in Nat
      /\ s \in Parlay /\ s.amount \in Nat /\ s.payout \in Nat
      /\ s.amount <= s.payout /\ stake[c] \in Nat
    BY <1>4, Kept
<1>7. t.filler \in MMs /\ t.key = b /\ t.by = None /\ t.amount <= stake[b]
    BY <1>1, <1>6, KeysApart DEF Fine
<1>. HIDE DEF e, t, s, r, c, m
<1>8. /\ r \in Parlay /\ r.amount = t.amount + s.amount /\ r.payout = t.payout + s.payout
      /\ r.filler = t.filler /\ r.key = b /\ r.by = None /\ r.grades = t.grades
      /\ r.result \in {"RolledBack", "Pending"} /\ r.amount <= r.payout
  <2>1. /\ t.amount + e.amount \in Nat /\ t.payout + e.removed \in Nat
        /\ e.amount = s.amount /\ e.removed = s.payout
      BY <1>3, <1>6
  <2>2. /\ r \in Parlay /\ r.amount = t.amount + e.amount /\ r.payout = t.payout + e.removed
        /\ r.filler = t.filler /\ r.key = t.key /\ r.by = t.by /\ r.grades = t.grades
        /\ r.result \in {"RolledBack", "Pending"}
      BY <1>2, <1>6, <2>1 DEF Parlay, Results
  <2>. QED
      BY <1>6, <1>7, <2>1, <2>2
<1>9. /\ parlay' \in [Keys -> Parlay] /\ parlay'[b] = r /\ parlay'[c] = NoParlay
      /\ \A k \in Keys \ {b, c} : parlay'[k] = parlay[k]
    BY <1>1, <1>4, <1>5, <1>8, NothingKept
<1>10. \A n \in MMs : /\ reused = {} => Gaps(parlay', n) = vault[n].enc
                      /\ Marks(parlay', n) = vault[n].cashouts - (IF n = m THEN 1 ELSE 0)
  <2>1. /\ NoParlay \in Parlay /\ NoParlay.amount <= NoParlay.payout
        /\ Sound(parlay) /\ parlay[b] = t /\ parlay[c] = s
      BY NothingKept, Kept DEF t, s, c
  <2>2. \A n : /\ Gaps(parlay', n) = Gaps(parlay, n) - Gap(t, n) - Gap(s, n)
                                                     + Gap(r, n) + Gap(NoParlay, n)
               /\ Marks(parlay', n) = Marks(parlay, n) - Mark(t, n) - Mark(s, n)
                                                       + Mark(r, n) + Mark(NoParlay, n)
    <3>1. t \in Parlay /\ t.amount <= t.payout
        BY <1>6
    <3>2. r \in Parlay /\ r.amount <= r.payout
        BY <1>6, <1>8
    <3>. QED
        BY <1>4, <1>9, <2>1, <3>1, <3>2, SetTwo
  <2>3. \A n \in MMs : /\ reused = {} => vault[n].enc = Gaps(parlay, n)
                       /\ vault[n].cashouts = Marks(parlay, n)
                       /\ vault[n].enc \in Nat /\ vault[n].cashouts \in Nat
                       /\ Gap(NoParlay, n) = 0 /\ Mark(NoParlay, n) = 0
      BY Kept, NothingKept
  <2>4. \A n \in MMs : /\ reused = {} => Gap(r, n) = Gap(t, n) + Gap(s, n)
                       /\ Gap(t, n) \in Nat /\ Gap(s, n) \in Nat
      BY <1>3, <1>6, <1>8 DEF Gap
  <2>5. \A n \in MMs : Mark(r, n) = 0 /\ Mark(t, n) = 0 /\ Mark(s, n) = (IF n = m THEN 1 ELSE 0)
      BY <1>3, <1>7, <1>8, KeysApart DEF Mark
  <2>6. \A n \in MMs : reused = {} => Gaps(parlay', n) = vault[n].enc
      BY <2>2, <2>3, <2>4
  <2>7. \A n \in MMs :
            Marks(parlay', n) = vault[n].cashouts - (IF n = m THEN 1 ELSE 0)
      BY <2>2, <2>3, <2>5
  <2>. QED
      BY <2>6, <2>7
<1>11. \A n \in MMs : /\ vault'[n] \in Vault
                      /\ vault'[n].liability = vault[n].liability
                                                 + (IF n = m THEN e.payment ELSE 0)
                      /\ vault'[n].enc = vault[n].enc
                      /\ vault'[n].cashouts = vault[n].cashouts - (IF n = m THEN 1 ELSE 0)
  <2>1. \A n \in MMs \ {m} : vault'[n] = vault[n]
      BY <1>1, <1>5
  <2>2. vault'[m] = [vault[m] EXCEPT !.liability = @ + e.payment, !.cashouts = @ - 1]
      BY <1>1, <1>3, <1>5 DEF Vault
  <2>3. /\ vault[m].liability + e.payment \in Nat /\ vault[m].cashouts - 1 \in Nat
        /\ vault[m] \in Vault
      BY <1>1, <1>3, <1>5, Kept
  <2>4. /\ vault'[m] \in Vault
        /\ vault'[m].liability = vault[m].liability + e.payment
        /\ vault'[m].enc = vault[m].enc
        /\ vault'[m].cashouts = vault[m].cashouts - 1
      BY <2>2, <2>3 DEF Vault
  <2>5. \A n \in MMs : /\ vault[n] \in Vault /\ vault[n].liability \in Nat
                       /\ vault[n].cashouts \in Nat
      BY Kept
  <2>. QED
      BY <2>1, <2>4, <2>5
<1>12. /\ stake'[b] = stake[b] + s.amount /\ stake'[c] = 0
       /\ \A k \in Keys \ {b, c} : stake'[k] = stake[k]
    BY <1>1, <1>3, <1>4, <1>5
<1>13. TypeOK'
  <2>1. vault' \in [MMs -> Vault]
      BY <1>1, <1>5, <1>11
  <2>2. user' \in Nat
      BY <1>1, <1>3, <1>5, <1>6
  <2>3. stake' \in [Keys -> Nat]
      BY <1>1, <1>3, <1>4, <1>5, <1>6
  <2>4. escrow' \in [Bets -> Escrow]
      BY <1>1, <1>5, NothingKept
  <2>. QED
      BY <1>1, <1>9, <2>1, <2>2, <2>3, <2>4 DEF IInv, TypeOK
<1>14. \A k \in Keys : Fine(k, parlay'[k], stake'[k])
  <2>1. Fine(b, r, stake[b] + s.amount)
      BY <1>4, <1>6, <1>7, <1>8, KeysApart DEF Fine
  <2>2. Fine(c, NoParlay, 0)
      BY NothingKept DEF Fine
  <2>. QED
      BY <1>4, <1>9, <1>12, <2>1, <2>2, Kept
<1>15. \A d \in Bets : /\ Linked(d, escrow'[d], parlay', reused')
                       /\ Quiet(escrow'[d])
  <2>1. /\ escrow'[b] = NoEscrow /\ ~NoEscrow.live
        /\ \A d \in Bets \ {b} : escrow'[d] = escrow[d]
      BY <1>1, <1>5 DEF NoEscrow
  <2>2. \A d \in Bets \ {b} : d \in Keys \ {b, c}
      BY <1>3, KeysApart
  <2>3. \A d \in Bets \ {b} : escrow[d].live /\ escrow[d].is_parlay => escrow[d].cash # c
      BY <1>3, Kept DEF Linked, s, c
  <2>4. \A d \in Bets \ {b} : Linked(d, escrow[d], parlay', reused')
      BY <1>1, <1>9, <2>2, <2>3, Kept, KeysApart DEF Linked
  <2>5. Linked(b, NoEscrow, parlay', reused') /\ Quiet(NoEscrow)
      BY <2>1 DEF Linked, Quiet
  <2>. QED
      BY <2>1, <2>4, <2>5, Kept
<1>16. \A n \in MMs : /\ vault'[n].enc <= vault'[n].liability
                      /\ vault'[n].cashouts = Marks(parlay', n)
                      /\ reused' = {} => vault'[n].enc = Gaps(parlay', n)
  <2>1. \A n \in MMs : /\ vault[n].liability \in Nat /\ vault[n].enc \in Nat
                       /\ vault[n].enc <= vault[n].liability
      BY Kept
  <2>2. reused' = reused
      BY <1>1
  <2>3. \A n \in MMs : vault'[n].enc <= vault'[n].liability
      BY <1>5, <1>11, <2>1
  <2>. QED
      BY <1>10, <1>11, <2>2, <2>3
<1>. QED
    BY <1>13, <1>14, <1>15, <1>16, Keep

-----------------------------------------------------------------------------
(* Around the tickets *)

\* A step that leaves tickets and vaults alone keeps what is about them.
LEMMA OthersKeep ==
    ASSUME IInv, parlay' = parlay, stake' = stake, vault' = vault, wallet' = wallet,
           user' = user, fills' = fills, reused' = reused,
           paused' \in BOOLEAN, inPlay' \in [MMs -> SUBSET Kickoffs], single' \in [Bets -> Nat],
           escrow' \in [Bets -> Escrow],
           \A b \in Bets : /\ Linked(b, escrow'[b], parlay, reused)
                           /\ Quiet(escrow'[b])
    PROVE  IInv'
<1>1. TypeOK'
    BY DEF IInv, TypeOK
<1>2. \A k \in Keys : Fine(k, parlay'[k], stake'[k])
    BY Kept
<1>3. \A m \in MMs : /\ vault'[m].enc <= vault'[m].liability
                     /\ vault'[m].cashouts = Marks(parlay', m)
                     /\ reused' = {} => vault'[m].enc = Gaps(parlay', m)
    BY Kept
<1>. QED
    BY <1>1, <1>2, <1>3, Keep

\* The escrow of a single bet says nothing about parlays.
LEMMA CashoutSingleKeeps ==
    ASSUME IInv, NEW b \in Bets, CashoutSingle(b)
    PROVE  IInv'
<1>. DEFINE e == [NoEscrow EXCEPT !.live = TRUE]
<1>1. /\ single[b] > 0
      /\ single' = [single EXCEPT ![b] = @ - 1] /\ escrow' = [escrow EXCEPT ![b] = e]
      /\ parlay' = parlay /\ stake' = stake /\ vault' = vault /\ wallet' = wallet
      /\ user' = user /\ inPlay' = inPlay /\ paused' = paused
      /\ fills' = fills /\ reused' = reused
    BY DEF CashoutSingle, money
<1>2. /\ single \in [Bets -> Nat] /\ escrow \in [Bets -> Escrow]
      /\ paused \in BOOLEAN /\ inPlay \in [MMs -> SUBSET Kickoffs]
    BY DEF IInv, TypeOK
<1>3. e \in Escrow /\ e.live /\ ~e.is_parlay /\ e.payment = 0
    BY NothingKept DEF NoEscrow, Escrow
<1>. HIDE DEF e
<1>4. escrow'[b] = e /\ \A d \in Bets \ {b} : escrow'[d] = escrow[d]
    BY <1>1, <1>2
<1>5. Linked(b, e, parlay, reused) /\ Quiet(e)
    BY <1>1, <1>3 DEF Linked, Quiet
<1>6. \A d \in Bets : Linked(d, escrow'[d], parlay, reused) /\ Quiet(escrow'[d])
    BY <1>4, <1>5, Kept
<1>7. single' \in [Bets -> Nat] /\ escrow' \in [Bets -> Escrow]
    BY <1>1, <1>2, <1>3
<1>. QED
    BY <1>1, <1>2, <1>6, <1>7, OthersKeep

\* It goes as it came.
LEMMA ResolveSingleKeeps ==
    ASSUME IInv, NEW b \in Bets, ResolveSingle(b)
    PROVE  IInv'
<1>1. /\ escrow' = [escrow EXCEPT ![b] = NoEscrow]
      /\ parlay' = parlay /\ stake' = stake /\ vault' = vault /\ wallet' = wallet
      /\ user' = user /\ inPlay' = inPlay /\ paused' = paused
      /\ fills' = fills /\ reused' = reused /\ single' = single
    BY DEF ResolveSingle, money
<1>2. /\ single \in [Bets -> Nat] /\ escrow \in [Bets -> Escrow]
      /\ paused \in BOOLEAN /\ inPlay \in [MMs -> SUBSET Kickoffs]
    BY DEF IInv, TypeOK
<1>3. escrow'[b] = NoEscrow /\ \A d \in Bets \ {b} : escrow'[d] = escrow[d]
    BY <1>1, <1>2
<1>4. Linked(b, NoEscrow, parlay, reused) /\ Quiet(NoEscrow)
    BY DEF NoEscrow, Linked, Quiet
<1>5. \A d \in Bets : Linked(d, escrow'[d], parlay, reused) /\ Quiet(escrow'[d])
    BY <1>3, <1>4, Kept
<1>6. escrow' \in [Bets -> Escrow]
    BY <1>1, <1>2, NothingKept
<1>. QED
    BY <1>1, <1>2, <1>5, <1>6, OthersKeep

\* Escrows age.
LEMMA TickKeeps ==
    ASSUME IInv, Tick
    PROVE  IInv'
<1>. DEFINE older(b) == IF escrow[b].live
                        THEN [escrow[b] EXCEPT !.age = LesserOf(@ + 1, Delay)] ELSE escrow[b]
<1>1. /\ escrow' = [b \in Bets |-> older(b)]
      /\ parlay' = parlay /\ stake' = stake /\ vault' = vault /\ wallet' = wallet
      /\ user' = user /\ inPlay' = inPlay /\ paused' = paused
      /\ fills' = fills /\ reused' = reused /\ single' = single
    BY DEF Tick, money
<1>2. /\ single \in [Bets -> Nat] /\ escrow \in [Bets -> Escrow]
      /\ paused \in BOOLEAN /\ inPlay \in [MMs -> SUBSET Kickoffs]
    BY DEF IInv, TypeOK
<1>3. \A b \in Bets : LesserOf(escrow[b].age + 1, Delay) \in Nat
  <2>1. \A b \in Bets : escrow[b].age \in Nat
      BY <1>2 DEF Escrow
  <2>. QED
      BY <2>1, ParlaysAssumption DEF LesserOf
<1>4. \A b \in Bets :
          /\ older(b) \in Escrow
          /\ ~escrow[b].live => older(b) = escrow[b]
          /\ older(b).live = escrow[b].live /\ older(b).is_parlay = escrow[b].is_parlay
          /\ older(b).cash = escrow[b].cash /\ older(b).mm = escrow[b].mm
          /\ older(b).amount = escrow[b].amount /\ older(b).removed = escrow[b].removed
          /\ older(b).payment = escrow[b].payment
    BY <1>2, <1>3 DEF Escrow
<1>5. \A b \in Bets : escrow'[b] = older(b)
    BY <1>1
<1>. HIDE DEF older
<1>6. \A b \in Bets : Linked(b, escrow'[b], parlay, reused)
    BY <1>4, <1>5, Kept DEF Linked
<1>7. \A b \in Bets : Quiet(escrow'[b])
    BY <1>4, <1>5, Kept DEF Quiet
<1>8. escrow' \in [Bets -> Escrow]
    BY <1>1, <1>4
<1>. QED
    BY <1>1, <1>2, <1>6, <1>7, <1>8, OthersKeep

\* Only what is free is withdrawn.
LEMMA WithdrawKeeps ==
    ASSUME IInv, NEW m \in MMs, NEW amount \in Nat, Withdraw(m, amount)
    PROVE  IInv'
<1>1. /\ amount <= vault[m].liability - vault[m].enc
      /\ vault' = [vault EXCEPT ![m].liability = @ - amount]
      /\ wallet' = [wallet EXCEPT ![m] = @ + amount]
      /\ parlay' = parlay /\ stake' = stake /\ user' = user /\ escrow' = escrow
      /\ inPlay' = inPlay /\ paused' = paused
      /\ fills' = fills /\ reused' = reused /\ single' = single
    BY DEF Withdraw
<1>2. vault \in [MMs -> Vault] /\ wallet \in [MMs -> Nat]
    BY DEF IInv, TypeOK
<1>3. /\ vault[m].liability - amount \in Nat /\ wallet[m] + amount \in Nat
      /\ vault[m].enc <= vault[m].liability - amount
    BY <1>1, Kept
<1>4. \A n \in MMs : /\ vault'[n] \in Vault /\ vault'[n].enc = vault[n].enc
                     /\ vault'[n].cashouts = vault[n].cashouts
                     /\ vault'[n].enc <= vault'[n].liability
  <2>1. \A n \in MMs \ {m} : vault'[n] = vault[n]
      BY <1>1, <1>2
  <2>2. vault'[m] = [vault[m] EXCEPT !.liability = @ - amount]
      BY <1>1, <1>2
  <2>3. /\ vault'[m] \in Vault /\ vault'[m].liability = vault[m].liability - amount
        /\ vault'[m].enc = vault[m].enc /\ vault'[m].cashouts = vault[m].cashouts
      BY <1>2, <1>3, <2>2 DEF Vault
  <2>. QED
      BY <1>2, <1>3, <2>1, <2>3, Kept
<1>5. TypeOK'
  <2>1. vault' \in [MMs -> Vault]
      BY <1>1, <1>2, <1>4
  <2>2. wallet' \in [MMs -> Nat]
      BY <1>1, <1>2, <1>3
  <2>. QED
      BY <1>1, <2>1, <2>2 DEF IInv, TypeOK
<1>6. \A k \in Keys : Fine(k, parlay'[k], stake'[k])
    BY <1>1, Kept
<1>7. \A b \in Bets : /\ Linked(b, escrow'[b], parlay', reused')
                      /\ Quiet(escrow'[b])
    BY <1>1, Kept
<1>8. \A n \in MMs : /\ vault'[n].enc <= vault'[n].liability
                     /\ vault'[n].cashouts = Marks(parlay', n)
                     /\ reused' = {} => vault'[n].enc = Gaps(parlay', n)
    BY <1>1, <1>4, Kept
<1>. QED
    BY <1>5, <1>6, <1>7, <1>8, Keep

\* A market maker says that an event starts, or the config is paused or resumed.
LEMMA FlagsKeep ==
    ASSUME IInv, ChangeConfigStatus \/ \E m \in MMs, event \in Kickoffs : GoLive(m, event)
    PROVE  IInv'
<1>1. /\ escrow' = escrow /\ single' = single
      /\ parlay' = parlay /\ stake' = stake /\ vault' = vault /\ wallet' = wallet
      /\ user' = user /\ fills' = fills /\ reused' = reused
    BY DEF GoLive, ChangeConfigStatus, money
<1>2. /\ single \in [Bets -> Nat] /\ escrow \in [Bets -> Escrow]
      /\ paused \in BOOLEAN /\ inPlay \in [MMs -> SUBSET Kickoffs]
    BY DEF IInv, TypeOK
<1>3. paused' \in BOOLEAN /\ inPlay' \in [MMs -> SUBSET Kickoffs]
    BY <1>2 DEF GoLive, ChangeConfigStatus
<1>. QED
    BY <1>1, <1>2, <1>3, Kept, OthersKeep

-----------------------------------------------------------------------------
(* The invariant *)

\* No ticket, no escrow, nothing reserved.
LEMMA InitKeeps ==
    ASSUME Init
    PROVE  IInv
<1>1. /\ \A k \in Keys : parlay[k] = NoParlay /\ stake[k] = 0
      /\ \A b \in Bets : escrow[b] = NoEscrow
      /\ \A m \in MMs : /\ vault[m] \in Vault /\ vault[m].enc = 0
                        /\ vault[m].liability = 0 /\ vault[m].cashouts = 0
    BY DEF Init, Vault
<1>2. TypeOK
  <2>1. vault \in [MMs -> Vault]
      BY DEF Init, Vault
  <2>. QED
      BY <2>1, NothingKept, ParlaysAssumption DEF Init, TypeOK
<1>3. TicketsKept
    BY <1>1, NothingKept DEF TicketsKept, Fine
<1>4. EscrowsKept
  <2>1. \A b \in Bets : Linked(b, NoEscrow, parlay, reused) /\ Quiet(NoEscrow)
      BY DEF NoEscrow, Linked, Quiet
  <2>. QED
      BY <1>1, <2>1 DEF EscrowsKept
<1>5. VaultsKept
  <2>1. ASSUME NEW m \in MMs
        PROVE  Gaps(parlay, m) = 0 /\ Marks(parlay, m) = 0
    <3>. DEFINE f == [k \in Keys |-> Gap(parlay[k], m)]
                g == [k \in Keys |-> Mark(parlay[k], m)]
    <3>1. \A k \in Keys : f[k] = 0 /\ g[k] = 0
        BY <1>1, NothingKept
    <3>2. f \in [Keys -> Nat] /\ g \in [Keys -> Nat]
        BY <3>1
    <3>. HIDE DEF f, g
    <3>3. Total(f) = 0 /\ Total(g) = 0
        BY <3>1, <3>2, TotalZero
    <3>. QED
        BY <3>3 DEF Gaps, Marks, f, g
  <2>. QED
      BY <1>1, <2>1 DEF VaultsKept
<1>. QED
    BY <1>2, <1>3, <1>4, <1>5 DEF IInv

\* Prices at which tickets are filled are prices profits are defined for.
LEMMA FillStepKeeps ==
    ASSUME IInv, NEW b \in Bets, FillStep(b)
    PROVE  IInv'
<1>1. PICK m \in MMs, legs \in Slips, odds \in Prices, amount \in Amounts :
          FillParlay(b, m, legs, odds, amount) \/ FillRfqParlay(b, m, legs, odds, amount)
    BY DEF FillStep
<1>2. odds > Scale /\ OpenParlay(b, m, legs, odds, amount)
    BY <1>1 DEF FillParlay, FillRfqParlay
<1>3. legs \in Seq(Leg) /\ odds \in Nat /\ amount \in Nat
    BY ParlaysAssumption
<1>4. odds \in Odd
    BY <1>2, <1>3, ScaleAssumption DEF Odd
<1>. QED
    BY <1>2, <1>3, <1>4, FillKeeps

\* Every step keeps the invariant.
LEMMA NextKeeps ==
    ASSUME IInv, [Next]_vars
    PROVE  IInv'
<1>1. CASE \E b \in Bets : FillStep(b)
    BY <1>1, FillStepKeeps
<1>2. CASE \E k \in Keys : GradeStep(k)
    BY <1>2, GradeKeeps DEF GradeStep
<1>3. CASE \E k \in Keys : SettleParlay(k)
    BY <1>3, SettleKeeps
<1>4. CASE \E b \in Bets : CashoutStep(b)
  <2>1. PICK b \in Bets, c \in Cashouts, m \in MMs, payment \in Payments :
            \E seen \in SUBSET inPlay[m], amount \in 1..parlay[b].amount :
                CashoutParlay(b, c, m, seen, amount, payment)
      BY <1>4 DEF CashoutStep
  <2>2. payment \in Nat
      BY ParlaysAssumption
  <2>. QED
      BY <2>1, <2>2, CashoutKeeps
<1>5. CASE \E b \in Bets : ClaimCashoutEscrow(b)
    BY <1>5, ClaimKeeps
<1>6. CASE \E b \in Bets : RevertCashout(b)
    BY <1>6, RevertKeeps
<1>7. CASE \E b \in Bets : CashoutSingle(b)
    BY <1>7, CashoutSingleKeeps
<1>8. CASE \E b \in Bets : ResolveSingle(b)
    BY <1>8, ResolveSingleKeeps
<1>9. CASE \E m \in MMs, amount \in Transfers : Withdraw(m, amount)
    BY <1>9, WithdrawKeeps, ParlaysAssumption
<1>10. CASE Tick
    BY <1>10, TickKeeps
<1>11. CASE ChangeConfigStatus \/ \E m \in MMs, event \in Kickoffs : GoLive(m, event)
    BY <1>11, FlagsKeep
<1>12. CASE UNCHANGED vars
    BY <1>12 DEF IInv, TypeOK, TicketsKept, EscrowsKept, VaultsKept, vars
<1>. QED
    BY <1>1, <1>2, <1>3, <1>4, <1>5, <1>6, <1>7, <1>8, <1>9, <1>10, <1>11, <1>12 DEF Next

\* The invariant holds in every reachable state.
LEMMA Inductive ==
    Spec => []IInv
<1>1. Init => IInv
    BY InitKeeps
<1>2. IInv /\ [Next]_vars => IInv'
    BY NextKeeps
<1>. QED
    BY <1>1, <1>2, PTL DEF Spec

\* Parlays have their types: no amount of a ticket, a vault or a token account
\* is ever negative, so none of the subtractions of the instructions underflows.
THEOREM ParlayTypes == Spec => []TypeOK
<1>1. IInv => TypeOK
    BY DEF IInv
<1>. QED
    BY <1>1, Inductive, PTL

\* The encumbrance of every market maker is what its open parlays reserve, so a
\* settlement takes out of it exactly what the fill put in, cashed out or not.
THEOREM ReservationsAreTickets == Spec => []ReservesExact
<1>1. IInv => ReservesExact
    BY DEF IInv, VaultsKept, ReservesExact, Gaps, Gap
<1>. QED
    BY <1>1, Inductive, PTL

\* Rounding never cuts a ticket into a piece that pays less than its stake.
THEOREM PiecesStandAlone == Spec => []PiecesKeepProfit
<1>1. IInv => PiecesKeepProfit
    BY DEF IInv, TicketsKept, Fine, PiecesKeepProfit
<1>. QED
    BY <1>1, Inductive, PTL

\* Whatever was sold, withdrawn and settled before, a graded ticket can be paid.
THEOREM GradedParlaysArePayable == Spec => []PayableWhenGraded
<1>1. ASSUME IInv, reused = {}, NEW k \in Keys, Exists(k), Final(parlay[k]), ~paused
      PROVE  CanSettle(k)
  <2>. DEFINE t == parlay[k]
  <2>1. /\ t.filler \in MMs
        /\ ProfitMoved(t) \in 0..(t.payout - t.amount)
        /\ t.payout - t.amount <= vault[t.filler].enc
        /\ t.by # None => vault[t.by].cashouts > 0
      BY <1>1, Covered
  <2>2. /\ Fine(k, t, stake[k]) /\ t.amount \in Nat /\ t.payout \in Nat
        /\ t.amount <= t.payout
      BY <1>1, Kept
  <2>3. t.amount <= stake[k] /\ (t.result = "ModifiedWin" => "Pending" \notin Range(t.grades))
      BY <2>2 DEF Fine
  <2>4. ProfitMoved(t) <= vault[t.filler].liability
    <3>1. /\ vault[t.filler].liability \in Nat /\ vault[t.filler].enc \in Nat
          /\ vault[t.filler].enc <= vault[t.filler].liability
        BY <1>1, <2>1, Kept
    <3>. HIDE DEF t
    <3>. QED
        BY <2>1, <2>2, <3>1
  <2>. QED
      BY <1>1, <2>1, <2>2, <2>3, <2>4 DEF CanSettle
<1>2. IInv => PayableWhenGraded
    BY <1>1 DEF PayableWhenGraded
<1>. QED
    BY <1>2, Inductive, PTL

\* Whatever the market makers say of the events, the cashout ticket of a live
\* escrow stays the slice that the escrow recorded, and while the ticket it was
\* cut from is there, both have one filler.
THEOREM ParlayEscrowsLinked == Spec => []EscrowLinked
<1>1. ASSUME IInv, NEW b \in Bets, ParlayHolds(b)
      PROVE  LET co == parlay[escrow[b].cash] IN
             /\ Exists(escrow[b].cash)
             /\ co.key = b /\ co.by = escrow[b].mm
             /\ co.amount = escrow[b].amount /\ co.payout = escrow[b].removed
             /\ co.amount <= stake[escrow[b].cash]
             /\ Exists(b) /\ b \notin reused => co.filler = parlay[b].filler
  <2>1. Linked(b, escrow[b], parlay, reused) /\ escrow[b].live /\ escrow[b].is_parlay
      BY <1>1, Kept DEF ParlayHolds
  <2>2. escrow[b].cash \in Keys
      BY <2>1, KeysApart DEF Linked
  <2>3. Fine(escrow[b].cash, parlay[escrow[b].cash], stake[escrow[b].cash])
      BY <1>1, <2>2, Kept
  <2>. QED
      BY <2>1, <2>3 DEF Linked, Fine, Exists
<1>2. IInv => EscrowLinked
    BY <1>1 DEF EscrowLinked
<1>. QED
    BY <1>2, Inductive, PTL

\* An escrow whose ticket is there is claimed or reverted by anyone after the
\* delay: the cashout ticket, its stake and its MM's counter have stayed.
THEOREM ParlayEscrowsResolvable == Spec => []EscrowResolvable
<1>1. ASSUME IInv, NEW b \in Bets, ParlayHolds(b), Exists(b), escrow[b].age >= Delay, ~paused
      PROVE  CanClaim(b) \/ CanRevert(b)
  <2>. DEFINE c == escrow[b].cash
              m == escrow[b].mm
  <2>1. /\ escrow[b].live /\ escrow[b].is_parlay /\ c \in Cashouts /\ m \in MMs
        /\ parlay[c].result # "Absent" /\ parlay[c].by = m /\ parlay[c].amount = escrow[b].amount
      BY <1>1, Kept DEF ParlayHolds, Linked
  <2>2. CanResolve(b)
      BY <1>1, <2>1 DEF CanResolve, Exists
  <2>3. c \in Keys
      BY <2>1, KeysApart
  <2>4. escrow[b].amount <= stake[c]
      BY <1>1, <2>1, <2>3, Kept DEF Fine
  <2>5. Mark(parlay[c], m) <= Marks(parlay, m) /\ vault[m].cashouts = Marks(parlay, m)
      BY <1>1, <2>1, <2>3, Kept, GapMember
  <2>6. vault[m].cashouts > 0
    <3>1. Mark(parlay[c], m) = 1 /\ vault[m].cashouts \in Nat
        BY <1>1, <2>1, Kept DEF Mark
    <3>. HIDE DEF c, m
    <3>. QED
        BY <2>5, <3>1
  <2>. QED
      BY <1>1, <2>2, <2>4, <2>6 DEF CanClaim, CanRevert
<1>2. IInv => EscrowResolvable
    BY <1>1 DEF EscrowResolvable
<1>. QED
    BY <1>2, Inductive, PTL

\* A step closes the ticket of b under its live escrow.
Closed(b) ==
    ParlayHolds(b) /\ escrow'[b].live /\ parlay[b].result # "Absent"
                   /\ parlay'[b].result = "Absent"

\* What such a step must be: a cashout, of a ticket that need not wait.
Sold(b) ==
    /\ \A i \in DOMAIN parlay[b].legs : parlay[b].legs[i].mkt \notin LiveMarkets
    /\ \E m \in MMs : vault'[m].cashouts > vault[m].cashouts

\* A cashout closes only the ticket it sells, and only one that need not wait.
LEMMA CashoutCloses ==
    ASSUME IInv, NEW b \in Bets, Closed(b), NEW d \in Bets, NEW c \in Cashouts, NEW m \in MMs,
           NEW seen, NEW amount, NEW payment, CashoutParlay(d, c, m, seen, amount, payment)
    PROVE  Sold(b)
<1>. DEFINE u == IF Closes(d, seen, amount) THEN NoParlay ELSE RemainingTicket(d, amount)
<1>1. /\ parlay' = [parlay EXCEPT ![c] = CashoutTicket(d, m, amount), ![d] = u]
      /\ vault' = [vault EXCEPT ![m].liability = @ - FromLiability(m, payment),
                                ![m].cashouts = @ + 1]
    BY DEF CashoutParlay
<1>2. /\ b \in Keys /\ d \in Keys /\ b # c /\ d # c
      /\ parlay \in [Keys -> Parlay] /\ vault \in [MMs -> Vault]
    BY KeysApart DEF IInv, TypeOK
<1>. HIDE DEF u
<1>3. b = d
    BY <1>1, <1>2 DEF Closed
<1>4. u.result = "Absent"
    BY <1>1, <1>2, <1>3 DEF Closed
<1>5. Closes(d, seen, amount)
  <2>1. parlay[d] \in Parlay
      BY <1>2
  <2>2. RemainingTicket(d, amount).result # "Absent"
      BY <2>1 DEF RemainingTicket, Parlay
  <2>. QED
      BY <1>4, <2>2 DEF u
<1>6. \A i \in DOMAIN parlay[b].legs : parlay[b].legs[i].mkt \notin LiveMarkets
    BY <1>3, <1>5 DEF Closes, NeedsDelay
<1>7. vault'[m].cashouts > vault[m].cashouts
  <2>1. vault[m].cashouts \in Nat /\ vault[m] \in Vault
      BY Kept
  <2>2. vault'[m].cashouts = vault[m].cashouts + 1
      BY <1>1, <1>2, <2>1 DEF Vault
  <2>. QED
      BY <2>1, <2>2
<1>. QED
    BY <1>6, <1>7 DEF Sold

\* Only a cashout without a delay closes a ticket under its live escrow, and so
\* leaves the escrow without a way out: settlements wait for the escrow, and the
\* claims and reverts of other escrows close other tickets.
THEOREM ParlayTicketsHeld == Spec => TicketsHeld
<1>1. ASSUME IInv, [Next]_vars, NEW b \in Bets, Closed(b)
      PROVE  Sold(b)
  <2>1. /\ b \in Keys /\ b \notin Cashouts /\ parlay \in [Keys -> Parlay]
        /\ escrow \in [Bets -> Escrow] /\ parlay[b].result # "Absent"
        /\ escrow[b].live /\ escrow[b].is_parlay /\ escrow'[b].live
        /\ parlay'[b].result = "Absent" /\ ~NoEscrow.live
      BY <1>1, KeysApart DEF IInv, TypeOK, Closed, ParlayHolds, NoEscrow
  <2>2. CASE \E d \in Bets : FillStep(d)
    <3>1. PICK d \in Bets, m \in MMs, legs \in Slips, odds \in Prices, amount \in Amounts :
              OpenParlay(d, m, legs, odds, amount)
        BY <2>2 DEF FillStep, FillParlay, FillRfqParlay
    <3>2. /\ parlay' = [parlay EXCEPT ![d] = NewParlay(d, m, legs, odds, amount)]
          /\ parlay[d].result = "Absent"
        BY <3>1 DEF OpenParlay, Exists
    <3>. QED
        BY <2>1, <3>2
  <2>3. CASE \E k \in Keys : GradeStep(k)
    <3>1. PICK k \in Keys : \E marks \in [DOMAIN parlay[k].grades -> Grades \cup {None}] :
              GradeParlay(k, marks)
        BY <2>3 DEF GradeStep
    <3>2. PICK marks : GradeParlay(k, marks)
        BY <3>1
    <3>. DEFINE g == Marked(parlay[k], marks)
                r == FoldResult(g)
    <3>3. parlay' = [parlay EXCEPT ![k].grades = g, ![k].result = r]
        BY <3>2 DEF GradeParlay
    <3>4. r # "Absent"
        BY FoldRange
    <3>. HIDE DEF g, r
    <3>5. parlay[b] \in Parlay
        BY <2>1
    <3>. QED
        BY <2>1, <3>3, <3>4, <3>5 DEF Parlay
  <2>4. CASE \E k \in Keys : SettleParlay(k)
    <3>1. PICK k \in Keys : SettleParlay(k)
        BY <2>4
    <3>2. parlay' = [parlay EXCEPT ![k] = NoParlay] /\ ~escrow[parlay[k].key].live
        BY <3>1 DEF SettleParlay, CanSettle, Final
    <3>3. parlay[b].key = b
        BY <1>1, <2>1, Kept DEF Fine
    <3>. QED
        BY <2>1, <3>2, <3>3
  <2>5. CASE \E d \in Bets : CashoutStep(d)
      BY <1>1, <2>5, CashoutCloses DEF CashoutStep
  <2>6. CASE \E d \in Bets : ClaimCashoutEscrow(d)
    <3>1. PICK d \in Bets : ClaimCashoutEscrow(d)
        BY <2>6
    <3>2. /\ escrow' = [escrow EXCEPT ![d] = NoEscrow]
          /\ parlay' = parlay \/ parlay' = [parlay EXCEPT ![d] = NoParlay]
        BY <3>1 DEF ClaimCashoutEscrow
    <3>. QED
        BY <2>1, <3>2
  <2>7. CASE \E d \in Bets : RevertCashout(d)
    <3>1. PICK d \in Bets : RevertCashout(d)
        BY <2>7
    <3>2. /\ escrow' = [escrow EXCEPT ![d] = NoEscrow]
          /\ parlay' = [parlay EXCEPT ![d] = Restored(d), ![escrow[d].cash] = NoParlay]
          /\ escrow[d].live /\ escrow[d].is_parlay
        BY <3>1 DEF RevertCashout, CanRevert, CanResolve
    <3>3. escrow[d].cash \in Cashouts
        BY <1>1, <3>2, Kept DEF Linked
    <3>4. d # b
        BY <2>1, <3>2
    <3>. QED
        BY <2>1, <3>2, <3>3, <3>4
  <2>8. CASE parlay' = parlay
      BY <2>1, <2>8
  <2>. QED
      BY <1>1, <2>2, <2>3, <2>4, <2>5, <2>6, <2>7, <2>8
         DEF Next, CashoutSingle, ResolveSingle, Withdraw, Tick, GoLive, ChangeConfigStatus, vars
<1>2. IInv /\ [Next]_vars =>
          \A b \in Bets :
              ParlayHolds(b) /\ escrow'[b].live /\ Exists(b) /\ ~Exists(b)' =>
                  /\ \A i \in DOMAIN parlay[b].legs : parlay[b].legs[i].mkt \notin LiveMarkets
                  /\ \E m \in MMs : vault'[m].cashouts > vault[m].cashouts
    BY <1>1 DEF Closed, Sold, Exists
<1>. QED
    BY <1>2, Inductive, PTL DEF Spec, TicketsHeld

-----------------------------------------------------------------------------
(* Conservation *)

\* Sums over tickets, market makers and bet ids are finite.
LEMMA AllFinite == IsFiniteSet(Keys) /\ IsFiniteSet(MMs) /\ IsFiniteSet(Bets)
BY KeysFinite, ParlaysAssumption

\* g is f but for d more at x.
Shifts(f, g, x, d) ==
    g[x] = f[x] + d /\ \A y \in DOMAIN f \ {x} : g[y] = f[y]

\* A sum of which one term changes by d changes by d.
LEMMA TotalDelta ==
    ASSUME NEW S, IsFiniteSet(S), NEW f \in [S -> Nat], NEW g \in [S -> Nat],
           NEW x \in S, NEW d \in Int, Shifts(f, g, x, d)
    PROVE  Total(f) \in Nat /\ Total(g) = Total(f) + d
<1>1. \A y \in S \ {x} : g[y] = f[y]
    BY DEF Shifts
<1>2. Total(g) = Total(f) - f[x] + g[x]
    BY <1>1, TotalUpdate
<1>3. Total(f) \in Nat /\ f[x] \in Nat /\ g[x] = f[x] + d
    BY TotalType DEF Shifts
<1>. QED
    BY <1>2, <1>3

\* The same for two terms, which may be one.
DoubleShifts(f, g, x, d, y, e) ==
    \A z \in DOMAIN f : g[z] = f[z] + (IF z = x THEN d ELSE 0) + (IF z = y THEN e ELSE 0)

\* A sum of which one term changes by d and one by e changes by both.
LEMMA TotalDeltas ==
    ASSUME NEW S, IsFiniteSet(S), NEW f \in [S -> Nat], NEW g \in [S -> Nat],
           NEW x \in S, NEW y \in S, NEW d \in Int, NEW e \in Int, f[x] + d \in Nat,
           DoubleShifts(f, g, x, d, y, e)
    PROVE  Total(g) = Total(f) + d + e
<1>. DEFINE h == [z \in S |-> IF z = x THEN f[x] + d ELSE f[z]]
<1>1. h \in [S -> Nat] /\ h[x] = f[x] + d /\ \A z \in S \ {x} : h[z] = f[z]
    OBVIOUS
<1>2. Shifts(f, h, x, d)
    BY <1>1 DEF Shifts
<1>. HIDE DEF h
<1>3. Shifts(h, g, y, e)
  <2>1. \A z \in S : f[z] \in Nat /\ h[z] \in Nat
      BY <1>1
  <2>2. \A z \in S : g[z] = f[z] + (IF z = x THEN d ELSE 0) + (IF z = y THEN e ELSE 0)
      BY DEF DoubleShifts
  <2>3. \A z \in S : g[z] = h[z] + (IF z = y THEN e ELSE 0)
      BY <1>1, <2>1, <2>2
  <2>. QED
      BY <1>1, <2>1, <2>3 DEF Shifts
<1>4. Total(f) \in Nat /\ Total(h) = Total(f) + d
    BY <1>1, <1>2, TotalDelta
<1>5. Total(g) = Total(h) + e
    BY <1>1, <1>3, TotalDelta
<1>. QED
    BY <1>4, <1>5

\* What the liability accounts and the escrows hold.
Liability(v) == [m \in MMs |-> v[m].liability]
Payment(e) == [b \in Bets |-> e[b].payment]

\* The supply is the sum of five amounts, before a step and after it.
LEMMA SupplyParts ==
    ASSUME TypeOK, TypeOK'
    PROVE  /\ Supply = user + Total(wallet) + Total(stake) + Total(Liability(vault))
                            + Total(Payment(escrow))
           /\ Supply' = user' + Total(wallet') + Total(stake') + Total(Liability(vault'))
                              + Total(Payment(escrow'))
           /\ user \in Nat /\ Total(wallet) \in Nat /\ Total(stake) \in Nat
           /\ Total(Liability(vault)) \in Nat /\ Total(Payment(escrow)) \in Nat
           /\ wallet \in [MMs -> Nat] /\ stake \in [Keys -> Nat]
           /\ wallet' \in [MMs -> Nat] /\ stake' \in [Keys -> Nat]
           /\ Liability(vault) \in [MMs -> Nat] /\ Liability(vault') \in [MMs -> Nat]
           /\ Payment(escrow) \in [Bets -> Nat] /\ Payment(escrow') \in [Bets -> Nat]
           /\ vault \in [MMs -> Vault] /\ escrow \in [Bets -> Escrow]
<1>1. /\ vault \in [MMs -> Vault] /\ escrow \in [Bets -> Escrow] /\ user \in Nat
      /\ wallet \in [MMs -> Nat] /\ stake \in [Keys -> Nat]
      /\ wallet' \in [MMs -> Nat] /\ stake' \in [Keys -> Nat]
      /\ vault' \in [MMs -> Vault] /\ escrow' \in [Bets -> Escrow]
    BY DEF TypeOK
<1>2. \A v \in [MMs -> Vault] : Liability(v) \in [MMs -> Nat]
    BY DEF Vault, Liability
<1>3. \A e \in [Bets -> Escrow] : Payment(e) \in [Bets -> Nat]
    BY DEF Escrow, Payment
<1>4. /\ Liability(vault) \in [MMs -> Nat] /\ Liability(vault') \in [MMs -> Nat]
      /\ Payment(escrow) \in [Bets -> Nat] /\ Payment(escrow') \in [Bets -> Nat]
    BY <1>1, <1>2, <1>3
<1>5. Total(wallet) \in Nat
    BY <1>1, TotalType, AllFinite
<1>6. Total(stake) \in Nat
    BY <1>1, TotalType, AllFinite
<1>7. Total(Liability(vault)) \in Nat
    BY <1>4, TotalType, AllFinite
<1>8. Total(Payment(escrow)) \in Nat
    BY <1>4, TotalType, AllFinite
<1>. QED
    BY <1>1, <1>4, <1>5, <1>6, <1>7, <1>8 DEF Supply, Liability, Payment

\* A step in which the five amounts add up to what they were.
LEMMA Balance ==
    ASSUME TypeOK, TypeOK',
           user' + Total(wallet') + Total(stake') + Total(Liability(vault'))
                 + Total(Payment(escrow'))
             = user + Total(wallet) + Total(stake) + Total(Liability(vault))
                    + Total(Payment(escrow))
    PROVE  Supply' = Supply
BY SupplyParts

\* The four sums, when one market maker, ticket or escrow gains d.
LEMMA WalletShift ==
    ASSUME TypeOK, TypeOK', NEW m \in MMs, NEW d \in Int, Shifts(wallet, wallet', m, d)
    PROVE  Total(wallet') = Total(wallet) + d
<1>1. wallet \in [MMs -> Nat] /\ wallet' \in [MMs -> Nat] /\ IsFiniteSet(MMs)
    BY SupplyParts, AllFinite
<1>. QED
    BY <1>1, TotalDelta

\* The same for stakes.
LEMMA StakeShift ==
    ASSUME TypeOK, TypeOK', NEW k \in Keys, NEW d \in Int, Shifts(stake, stake', k, d)
    PROVE  Total(stake') = Total(stake) + d
<1>1. stake \in [Keys -> Nat] /\ stake' \in [Keys -> Nat] /\ IsFiniteSet(Keys)
    BY SupplyParts, AllFinite
<1>. QED
    BY <1>1, TotalDelta

\* The same for liability accounts.
LEMMA LiabilityShift ==
    ASSUME TypeOK, TypeOK', NEW m \in MMs, NEW d \in Int,
           vault'[m].liability = vault[m].liability + d,
           \A n \in MMs \ {m} : vault'[n].liability = vault[n].liability
    PROVE  Total(Liability(vault')) = Total(Liability(vault)) + d
<1>. DEFINE f == Liability(vault)
            g == Liability(vault')
<1>1. f \in [MMs -> Nat] /\ g \in [MMs -> Nat] /\ IsFiniteSet(MMs)
    BY SupplyParts, AllFinite
<1>2. Shifts(f, g, m, d)
    BY DEF Liability, Shifts
<1>. HIDE DEF f, g
<1>. QED
    BY <1>1, <1>2, TotalDelta DEF f, g

\* The same for escrows.
LEMMA PaymentShift ==
    ASSUME TypeOK, TypeOK', NEW b \in Bets, NEW d \in Int,
           escrow'[b].payment = escrow[b].payment + d,
           \A c \in Bets \ {b} : escrow'[c].payment = escrow[c].payment
    PROVE  Total(Payment(escrow')) = Total(Payment(escrow)) + d
<1>. DEFINE f == Payment(escrow)
            g == Payment(escrow')
<1>1. f \in [Bets -> Nat] /\ g \in [Bets -> Nat] /\ IsFiniteSet(Bets)
    BY SupplyParts, AllFinite
<1>2. Shifts(f, g, b, d)
    BY DEF Payment, Shifts
<1>. HIDE DEF f, g
<1>. QED
    BY <1>1, <1>2, TotalDelta DEF f, g

\* The types, before a step and after it.
LEMMA BothTypes ==
    ASSUME IInv, IInv'
    PROVE  /\ TypeOK /\ TypeOK' /\ user \in Nat
           /\ vault \in [MMs -> Vault] /\ escrow \in [Bets -> Escrow]
           /\ wallet \in [MMs -> Nat] /\ stake \in [Keys -> Nat]
           /\ \A m \in MMs : vault[m].liability \in Nat /\ wallet[m] \in Nat
           /\ \A k \in Keys : stake[k] \in Nat
           /\ \A b \in Bets : escrow[b].payment \in Nat
           /\ Total(wallet) \in Nat /\ Total(stake) \in Nat
           /\ Total(Liability(vault)) \in Nat /\ Total(Payment(escrow)) \in Nat
<1>1. TypeOK /\ TypeOK'
    BY DEF IInv
<1>2. /\ user \in Nat /\ vault \in [MMs -> Vault] /\ escrow \in [Bets -> Escrow]
      /\ wallet \in [MMs -> Nat] /\ stake \in [Keys -> Nat]
    BY <1>1 DEF TypeOK
<1>3. /\ \A m \in MMs : vault[m].liability \in Nat
      /\ \A b \in Bets : escrow[b].payment \in Nat
    BY <1>2 DEF Vault, Escrow
<1>. QED
    BY <1>1, <1>2, <1>3, SupplyParts

\* A fill moves tokens from the user to the stake and from the wallet of the
\* market maker to its liability account.
LEMMA FillConserves ==
    ASSUME IInv, IInv', NEW b \in Bets, NEW m \in MMs, NEW legs \in Seq(Leg),
           NEW odds \in Odd, NEW amount \in Nat, OpenParlay(b, m, legs, odds, amount)
    PROVE  Supply' = Supply
<1>. DEFINE profit == Profit(amount, odds)
            sent == Shortfall(vault[m], profit)
<1>0. profit \in Nat
    BY ProfitType
<1>1. sent \in Nat
    BY <1>0, Kept DEF Shortfall, LesserOf, OpenParlay
<1>2. /\ vault' = [vault EXCEPT ![m].liability = @ + sent, ![m].enc = @ + profit]
      /\ wallet' = [wallet EXCEPT ![m] = wallet[m] - sent]
      /\ user' = user - amount /\ stake' = [stake EXCEPT ![b] = stake[b] + amount]
      /\ escrow' = escrow
    BY DEF OpenParlay
<1>. HIDE DEF sent, profit
<1>3. /\ TypeOK /\ TypeOK' /\ b \in Keys /\ user \in Nat
      /\ vault \in [MMs -> Vault] /\ wallet \in [MMs -> Nat] /\ stake \in [Keys -> Nat]
      /\ vault[m].liability \in Nat /\ wallet[m] \in Nat /\ stake[b] \in Nat
      /\ Total(Payment(escrow)) \in Nat
    BY KeysApart, BothTypes
<1>4. Shifts(wallet, wallet', m, 0 - sent)
    BY <1>1, <1>2, <1>3 DEF Shifts
<1>5. Shifts(stake, stake', b, amount)
    BY <1>2, <1>3 DEF Shifts
<1>6. /\ vault'[m].liability = vault[m].liability + sent
      /\ \A n \in MMs \ {m} : vault'[n].liability = vault[n].liability
    BY <1>2, <1>3 DEF Vault
<1>7. Total(wallet') = Total(wallet) + (0 - sent)
    BY <1>1, <1>3, <1>4, WalletShift
<1>8. Total(stake') = Total(stake) + amount
    BY <1>3, <1>5, StakeShift
<1>9. Total(Liability(vault')) = Total(Liability(vault)) + sent
    BY <1>1, <1>3, <1>6, LiabilityShift
<1>10. Total(Payment(escrow')) = Total(Payment(escrow)) /\ user' = user - amount
    BY <1>2
<1>11. /\ Total(wallet) \in Nat /\ Total(stake) \in Nat
       /\ Total(Liability(vault)) \in Nat /\ Total(Payment(escrow)) \in Nat
    BY BothTypes
<1>12. user' + Total(wallet') + Total(stake') + Total(Liability(vault'))
             + Total(Payment(escrow'))
         = user + Total(wallet) + Total(stake) + Total(Liability(vault))
                + Total(Payment(escrow))
  <2>1. user \in Nat /\ amount \in Nat
      BY <1>3
  <2>. QED
      BY <1>1, <1>7, <1>8, <1>9, <1>10, <1>11, <2>1
<1>. QED
    BY <1>3, <1>12, Balance

\* A settlement empties the stake account; the profit comes out of the filler's
\* liability account and what is kept goes there.
LEMMA SettleConserves ==
    ASSUME IInv, IInv', NEW k \in Keys, SettleParlay(k)
    PROVE  Supply' = Supply
<1>. DEFINE t == parlay[k]
            moved == ProfitMoved(t)
            kept == StakeKept(t)
            proceeds == stake[k] - kept + moved
            liability(n) == vault[n].liability + (IF n = t.filler THEN kept - moved ELSE 0)
                                               + (IF n = t.by THEN proceeds ELSE 0)
            f == Liability(vault)
            g == Liability(vault')
            enc(n) == vault[n].enc - (IF n = t.filler THEN t.payout - t.amount ELSE 0)
            cashouts(n) == vault[n].cashouts - (IF n = t.by THEN 1 ELSE 0)
<1>0. \A n \in MMs : vault'[n] = [vault[n] EXCEPT !.liability = liability(n),
                                      !.enc = enc(n), !.cashouts = cashouts(n)]
    BY DEF SettleParlay
<1>1. /\ user' = IF t.by = None THEN user + proceeds ELSE user
      /\ stake' = [stake EXCEPT ![k] = 0]
      /\ wallet' = wallet /\ escrow' = escrow
    BY DEF SettleParlay
<1>2. Exists(k) /\ moved <= vault[t.filler].liability /\ t.amount <= stake[k]
    BY DEF SettleParlay, CanSettle
<1>3. /\ t.filler \in MMs /\ moved \in 0..(t.payout - t.amount) /\ kept \in 0..t.amount
      /\ t.by # None => t.by \in MMs
    BY <1>2, Covered
<1>4. /\ TypeOK /\ TypeOK' /\ user \in Nat /\ stake \in [Keys -> Nat] /\ stake[k] \in Nat
      /\ vault \in [MMs -> Vault]
      /\ \A n \in MMs : vault[n].liability \in Nat
      /\ Total(wallet) \in Nat /\ Total(stake) \in Nat
      /\ Total(f) \in Nat /\ Total(Payment(escrow)) \in Nat
    BY BothTypes
<1>5. t.amount \in Nat /\ t.payout \in Nat
    BY Kept
<1>6. ASSUME NEW n \in MMs
      PROVE  vault'[n].liability = liability(n)
  <2>. DEFINE v == vault[n]
              x == liability(n)
              y == enc(n)
              z == cashouts(n)
  <2>1. v \in Vault /\ vault'[n] = [v EXCEPT !.liability = x, !.enc = y, !.cashouts = z]
      BY <1>0, <1>4
  <2>. HIDE DEF v, x, y, z
  <2>2. vault'[n].liability = x
      BY <2>1 DEF Vault
  <2>. QED
      BY <2>2 DEF x
<1>. HIDE DEF t, moved, kept, proceeds
<1>7. moved \in Nat /\ kept \in Nat /\ proceeds \in Nat /\ kept - moved \in Int
      /\ 0 - stake[k] \in Int
    BY <1>2, <1>3, <1>4, <1>5 DEF proceeds
<1>8. Total(stake') = Total(stake) + (0 - stake[k])
  <2>1. Shifts(stake, stake', k, 0 - stake[k])
      BY <1>1, <1>4 DEF Shifts
  <2>. QED
      BY <1>4, <1>7, <2>1, StakeShift
<1>9. Total(wallet') = Total(wallet) /\ Total(Payment(escrow')) = Total(Payment(escrow))
    BY <1>1
<1>. HIDE DEF f, g
<1>10. user' + Total(g) = user + Total(f) + stake[k]
  <2>1. CASE t.by = None
    <3>1. /\ vault'[t.filler].liability = vault[t.filler].liability + (kept - moved)
          /\ \A n \in MMs \ {t.filler} : vault'[n].liability = vault[n].liability
        BY <1>3, <1>4, <1>6, <1>7, <2>1, KeysApart
    <3>2. Total(g) = Total(f) + (kept - moved)
        BY <1>3, <1>4, <1>7, <3>1, LiabilityShift DEF f, g
    <3>3. user' = user + proceeds
        BY <1>1, <2>1
    <3>. QED
        BY <1>4, <1>7, <3>2, <3>3 DEF proceeds
  <2>2. CASE t.by # None
    <3>1. f \in [MMs -> Nat] /\ g \in [MMs -> Nat] /\ IsFiniteSet(MMs)
        BY <1>4, SupplyParts, AllFinite DEF f, g
    <3>2. DoubleShifts(f, g, t.filler, kept - moved, t.by, proceeds)
        BY <1>6 DEF DoubleShifts, Liability, f, g
    <3>3. f[t.filler] + (kept - moved) \in Nat
        BY <1>2, <1>3, <1>4, <1>7 DEF Liability, f
    <3>4. Total(g) = Total(f) + (kept - moved) + proceeds
        BY <1>3, <1>7, <2>2, <3>1, <3>2, <3>3, TotalDeltas
    <3>5. user' = user
        BY <1>1, <2>2
    <3>. QED
        BY <1>4, <1>7, <3>4, <3>5 DEF proceeds
  <2>. QED
      BY <2>1, <2>2
<1>11. user' + Total(wallet') + Total(stake') + Total(g) + Total(Payment(escrow'))
         = user + Total(wallet) + Total(stake) + Total(f) + Total(Payment(escrow))
  <2>1. user' \in Nat /\ Total(g) \in Nat
    <3>1. g \in [MMs -> Nat] /\ IsFiniteSet(MMs)
        BY <1>4, SupplyParts, AllFinite DEF g
    <3>. QED
        BY <1>4, <3>1, TotalType DEF TypeOK
  <2>. QED
      BY <1>4, <1>8, <1>9, <1>10, <2>1
<1>. QED
    BY <1>4, <1>11, Balance DEF f, g

\* A cashout pays the user, or its escrow, from the liability account and the
\* wallet of the market maker; the stake is divided, and dust goes to the user.
LEMMA CashoutConserves ==
    ASSUME IInv, IInv', NEW b \in Bets, NEW c \in Cashouts, NEW m \in MMs, NEW seen,
           NEW amount \in 1..parlay[b].amount, NEW payment \in Nat,
           CashoutParlay(b, c, m, seen, amount, payment)
    PROVE  Supply' = Supply
<1>. DEFINE paid == FromLiability(m, payment)
            dust == IF Closes(b, seen, amount) THEN stake[b] - amount ELSE 0
            f == Payment(escrow)
            g == Payment(escrow')
<1>1. vault' = [vault EXCEPT ![m].liability = @ - paid, ![m].cashouts = @ + 1]
    BY DEF CashoutParlay
<1>2. /\ wallet' = [wallet EXCEPT ![m] = wallet[m] - (payment - paid)]
      /\ user' = user + dust + (IF NeedsDelay(b, seen) THEN 0 ELSE payment)
      /\ stake' = [stake EXCEPT ![c] = stake[c] + amount, ![b] = @ - amount - dust]
    BY DEF CashoutParlay
<1>3. escrow' = IF NeedsDelay(b, seen)
                THEN [escrow EXCEPT ![b] = NewEscrow(b, c, m, amount, payment)] ELSE escrow
    BY DEF CashoutParlay
<1>4. NeedsDelay(b, seen) => ~escrow[b].live
    BY DEF CashoutParlay, CanCashout
<1>5. /\ TypeOK /\ TypeOK' /\ user \in Nat
      /\ vault \in [MMs -> Vault] /\ wallet \in [MMs -> Nat] /\ stake \in [Keys -> Nat]
      /\ escrow \in [Bets -> Escrow]
      /\ vault[m].liability \in Nat /\ wallet[m] \in Nat /\ escrow[b].payment \in Nat
      /\ Total(wallet) \in Nat /\ Total(stake) \in Nat
      /\ Total(Liability(vault)) \in Nat /\ Total(f) \in Nat
    BY BothTypes
<1>6. /\ b \in Keys /\ c \in Keys /\ b # c /\ stake[b] \in Nat /\ stake[c] \in Nat
      /\ parlay[b].amount \in Nat
    BY KeysApart, Kept
<1>7. amount \in Nat /\ dust \in Int /\ paid \in Int
  <2>1. paid \in Int
      BY Kept DEF FromLiability, LesserOf
  <2>. QED
      BY <1>6, <2>1
<1>. HIDE DEF paid, dust, f, g
<1>8. Total(wallet') = Total(wallet) + (0 - (payment - paid))
  <2>1. Shifts(wallet, wallet', m, 0 - (payment - paid))
      BY <1>2, <1>5, <1>7 DEF Shifts
  <2>. QED
      BY <1>5, <1>7, <2>1, WalletShift
<1>9. Total(Liability(vault')) = Total(Liability(vault)) + (0 - paid)
  <2>1. /\ vault'[m].liability = vault[m].liability + (0 - paid)
        /\ \A n \in MMs \ {m} : vault'[n].liability = vault[n].liability
      BY <1>1, <1>5, <1>7 DEF Vault
  <2>. QED
      BY <1>5, <1>7, <2>1, LiabilityShift
<1>10. Total(stake') = Total(stake) + amount + (0 - amount - dust)
  <2>1. stake' \in [Keys -> Nat] /\ IsFiniteSet(Keys)
      BY <1>5, AllFinite DEF TypeOK
  <2>2. /\ stake'[c] = stake[c] + amount /\ stake'[b] = stake[b] - amount - dust
        /\ \A k \in Keys \ {b, c} : stake'[k] = stake[k]
      BY <1>2, <1>5, <1>6
  <2>3. \A k \in Keys : stake[k] \in Nat
      BY <1>5
  <2>4. DoubleShifts(stake, stake', c, amount, b, 0 - amount - dust)
      BY <1>5, <1>6, <1>7, <2>2, <2>3 DEF DoubleShifts
  <2>5. stake[c] + amount \in Nat /\ 0 - amount - dust \in Int
      BY <1>6, <1>7
  <2>. QED
      BY <1>5, <1>6, <1>7, <2>1, <2>4, <2>5, TotalDeltas
<1>11. user' + Total(g) = user + Total(f) + dust + payment
  <2>1. CASE NeedsDelay(b, seen)
    <3>1. escrow[b].payment = 0
        BY <1>4, <2>1, Kept DEF Quiet, NoEscrow
    <3>2. /\ escrow'[b].payment = escrow[b].payment + payment
          /\ \A d \in Bets \ {b} : escrow'[d].payment = escrow[d].payment
        BY <1>3, <1>5, <2>1, <3>1 DEF NewEscrow
    <3>3. Total(g) = Total(f) + payment
        BY <1>5, <3>2, PaymentShift DEF f, g
    <3>4. user' = user + dust + 0
        BY <1>2, <2>1
    <3>. QED
        BY <1>5, <1>7, <3>3, <3>4
  <2>2. CASE ~NeedsDelay(b, seen)
    <3>1. g = f
        BY <1>3, <2>2 DEF f, g
    <3>2. user' = user + dust + payment
        BY <1>2, <2>2
    <3>. QED
        BY <1>5, <1>7, <3>1, <3>2
  <2>. QED
      BY <2>1, <2>2
<1>12. user' \in Nat /\ Total(g) \in Nat
  <2>1. g \in [Bets -> Nat] /\ IsFiniteSet(Bets) /\ user' \in Nat
      BY <1>5, SupplyParts, AllFinite DEF g, TypeOK
  <2>. QED
      BY <2>1, TotalType
<1>13. user' + Total(wallet') + Total(stake') + Total(Liability(vault')) + Total(g)
         = user + Total(wallet) + Total(stake) + Total(Liability(vault)) + Total(f)
    BY <1>5, <1>7, <1>8, <1>9, <1>10, <1>11, <1>12
<1>. QED
    BY <1>5, <1>13, Balance DEF f, g

\* A claim pays the escrow out.
LEMMA ClaimConserves ==
    ASSUME IInv, IInv', NEW b \in Bets, ClaimCashoutEscrow(b)
    PROVE  Supply' = Supply
<1>. DEFINE dust == IF parlay[b].result = "CashedOut" THEN stake[b] ELSE 0
            payment == escrow[b].payment
<1>1. /\ user' = user + payment + dust
      /\ escrow' = [escrow EXCEPT ![b] = NoEscrow]
      /\ stake' = [stake EXCEPT ![b] = stake[b] - dust]
      /\ vault' = vault /\ wallet' = wallet
    BY DEF ClaimCashoutEscrow
<1>2. /\ TypeOK /\ TypeOK' /\ user \in Nat /\ stake \in [Keys -> Nat]
      /\ escrow \in [Bets -> Escrow] /\ payment \in Nat
      /\ Total(wallet) \in Nat /\ Total(stake) \in Nat
      /\ Total(Liability(vault)) \in Nat /\ Total(Payment(escrow)) \in Nat
    BY BothTypes
<1>3. b \in Keys /\ stake[b] \in Nat /\ dust \in Nat
    BY KeysApart, Kept
<1>. HIDE DEF dust
<1>4. Total(stake') = Total(stake) + (0 - dust)
  <2>1. Shifts(stake, stake', b, 0 - dust)
      BY <1>1, <1>2, <1>3 DEF Shifts
  <2>. QED
      BY <1>2, <1>3, <2>1, StakeShift
<1>5. Total(Payment(escrow')) = Total(Payment(escrow)) + (0 - payment)
  <2>1. /\ escrow'[b].payment = escrow[b].payment + (0 - payment)
        /\ \A d \in Bets \ {b} : escrow'[d].payment = escrow[d].payment
      BY <1>1, <1>2 DEF NoEscrow
  <2>. QED
      BY <1>2, <2>1, PaymentShift
<1>6. Total(wallet') = Total(wallet) /\ Total(Liability(vault')) = Total(Liability(vault))
    BY <1>1
<1>. HIDE DEF payment
<1>7. user' + Total(wallet') + Total(stake') + Total(Liability(vault'))
            + Total(Payment(escrow'))
        = user + Total(wallet) + Total(stake) + Total(Liability(vault))
               + Total(Payment(escrow))
    BY <1>1, <1>2, <1>3, <1>4, <1>5, <1>6
<1>. QED
    BY <1>2, <1>7, Balance

\* A revert gives it back, and puts the stake together.
LEMMA RevertConserves ==
    ASSUME IInv, IInv', NEW b \in Bets, RevertCashout(b)
    PROVE  Supply' = Supply
<1>. DEFINE e == escrow[b]
            c == e.cash
            m == e.mm
            payment == e.payment
            amount == e.amount
            held == stake[c]
<1>1. /\ e.live /\ e.is_parlay
      /\ user' = user + (held - amount)
      /\ escrow' = [escrow EXCEPT ![b] = NoEscrow]
      /\ stake' = [stake EXCEPT ![b] = @ + amount, ![c] = 0]
      /\ wallet' = wallet
    BY DEF RevertCashout, CanRevert, CanResolve
<1>2. vault' = [vault EXCEPT ![m].liability = @ + payment, ![m].cashouts = @ - 1]
    BY DEF RevertCashout
<1>3. /\ TypeOK /\ TypeOK' /\ user \in Nat /\ stake \in [Keys -> Nat]
      /\ escrow \in [Bets -> Escrow] /\ payment \in Nat /\ vault \in [MMs -> Vault]
      /\ Total(wallet) \in Nat /\ Total(stake) \in Nat
      /\ Total(Liability(vault)) \in Nat /\ Total(Payment(escrow)) \in Nat
    BY BothTypes
<1>4. c \in Cashouts /\ m \in MMs /\ amount \in Nat
    BY <1>1, <1>3, Kept DEF Linked, Escrow
<1>5. /\ b \in Keys /\ c \in Keys /\ b # c /\ stake[b] \in Nat /\ held \in Nat
      /\ vault[m].liability \in Nat
    BY <1>4, KeysApart, Kept
<1>6. Total(Payment(escrow')) = Total(Payment(escrow)) + (0 - payment)
  <2>1. /\ escrow'[b].payment = escrow[b].payment + (0 - payment)
        /\ \A d \in Bets \ {b} : escrow'[d].payment = escrow[d].payment
      BY <1>1, <1>3 DEF NoEscrow
  <2>. QED
      BY <1>3, <2>1, PaymentShift
<1>. HIDE DEF m, payment, amount
<1>7. Total(Liability(vault')) = Total(Liability(vault)) + payment
  <2>1. /\ vault'[m].liability = vault[m].liability + payment
        /\ \A n \in MMs \ {m} : vault'[n].liability = vault[n].liability
      BY <1>2, <1>3, <1>4 DEF Vault
  <2>. QED
      BY <1>3, <1>4, <2>1, LiabilityShift
<1>8. Total(stake') = Total(stake) + amount + (0 - held)
  <2>1. stake' \in [Keys -> Nat] /\ IsFiniteSet(Keys)
      BY <1>3, AllFinite DEF TypeOK
  <2>2. /\ stake'[b] = stake[b] + amount /\ stake'[c] = 0
        /\ \A k \in Keys \ {b, c} : stake'[k] = stake[k]
      BY <1>1, <1>3, <1>5
  <2>3. \A k \in Keys : stake[k] \in Nat
      BY <1>3
  <2>4. DoubleShifts(stake, stake', b, amount, c, 0 - held)
      BY <1>3, <1>4, <1>5, <2>2, <2>3 DEF DoubleShifts
  <2>5. stake[b] + amount \in Nat /\ 0 - held \in Int
      BY <1>4, <1>5
  <2>. HIDE DEF held, c
  <2>. QED
      BY <1>3, <1>4, <1>5, <2>1, <2>4, <2>5, TotalDeltas
<1>9. Total(wallet') = Total(wallet)
    BY <1>1
<1>. HIDE DEF held
<1>10. user' + Total(wallet') + Total(stake') + Total(Liability(vault'))
             + Total(Payment(escrow'))
         = user + Total(wallet) + Total(stake) + Total(Liability(vault))
                + Total(Payment(escrow))
    BY <1>1, <1>3, <1>4, <1>5, <1>6, <1>7, <1>8, <1>9
<1>. QED
    BY <1>3, <1>10, Balance

\* A withdrawal moves tokens within the market maker.
LEMMA WithdrawConserves ==
    ASSUME IInv, IInv', NEW m \in MMs, NEW amount \in Nat, Withdraw(m, amount)
    PROVE  Supply' = Supply
<1>1. /\ vault' = [vault EXCEPT ![m].liability = @ - amount]
      /\ wallet' = [wallet EXCEPT ![m] = wallet[m] + amount]
      /\ user' = user /\ stake' = stake /\ escrow' = escrow
    BY DEF Withdraw
<1>2. /\ TypeOK /\ TypeOK' /\ vault \in [MMs -> Vault] /\ wallet \in [MMs -> Nat]
      /\ vault[m].liability \in Nat /\ wallet[m] \in Nat /\ user \in Nat
      /\ Total(wallet) \in Nat /\ Total(stake) \in Nat
      /\ Total(Liability(vault)) \in Nat /\ Total(Payment(escrow)) \in Nat
    BY BothTypes
<1>3. Total(wallet') = Total(wallet) + amount
  <2>1. Shifts(wallet, wallet', m, amount)
      BY <1>1, <1>2 DEF Shifts
  <2>. QED
      BY <1>2, <2>1, WalletShift
<1>4. Total(Liability(vault')) = Total(Liability(vault)) + (0 - amount)
  <2>1. /\ vault'[m].liability = vault[m].liability + (0 - amount)
        /\ \A n \in MMs \ {m} : vault'[n].liability = vault[n].liability
      BY <1>1, <1>2 DEF Vault
  <2>. QED
      BY <1>2, <2>1, LiabilityShift
<1>5. /\ Total(stake') = Total(stake) /\ Total(Payment(escrow')) = Total(Payment(escrow))
      /\ user' = user
    BY <1>1
<1>6. user' + Total(wallet') + Total(stake') + Total(Liability(vault'))
            + Total(Payment(escrow'))
        = user + Total(wallet) + Total(stake) + Total(Liability(vault))
               + Total(Payment(escrow))
    BY <1>2, <1>3, <1>4, <1>5
<1>. QED
    BY <1>2, <1>6, Balance

\* The other steps move no tokens.
LEMMA OthersConserve ==
    ASSUME IInv, IInv', vault' = vault, wallet' = wallet, user' = user, stake' = stake,
           \A b \in Bets : escrow'[b].payment = escrow[b].payment
    PROVE  Supply' = Supply
<1>1. Payment(escrow') = Payment(escrow)
    BY DEF Payment
<1>2. TypeOK /\ TypeOK'
    BY DEF IInv
<1>. QED
    BY <1>1, <1>2, Balance

\* Every step conserves the tokens.
LEMMA NextConserves ==
    ASSUME IInv, IInv', [Next]_vars
    PROVE  Supply' = Supply
<1>. DEFINE still == vault' = vault /\ wallet' = wallet /\ user' = user /\ stake' = stake
<1>1. ASSUME NEW b \in Bets, FillStep(b)
      PROVE  Supply' = Supply
  <2>1. PICK m \in MMs, legs \in Slips, odds \in Prices, amount \in Amounts :
            FillParlay(b, m, legs, odds, amount) \/ FillRfqParlay(b, m, legs, odds, amount)
      BY <1>1 DEF FillStep
  <2>2. odds > Scale /\ OpenParlay(b, m, legs, odds, amount)
      BY <2>1 DEF FillParlay, FillRfqParlay
  <2>3. legs \in Seq(Leg) /\ odds \in Nat /\ amount \in Nat
      BY ParlaysAssumption
  <2>4. odds \in Odd
      BY <2>2, <2>3, ScaleAssumption DEF Odd
  <2>. QED
      BY <2>2, <2>3, <2>4, FillConserves
<1>2. ASSUME NEW k \in Keys, GradeStep(k)
      PROVE  Supply' = Supply
    BY <1>2, OthersConserve DEF GradeStep, GradeParlay, money
<1>3. ASSUME NEW k \in Keys, SettleParlay(k)
      PROVE  Supply' = Supply
    BY <1>3, SettleConserves
<1>4. ASSUME NEW b \in Bets, CashoutStep(b)
      PROVE  Supply' = Supply
  <2>1. PICK c \in Cashouts, m \in MMs, payment \in Payments :
            \E seen \in SUBSET inPlay[m], amount \in 1..parlay[b].amount :
                CashoutParlay(b, c, m, seen, amount, payment)
      BY <1>4 DEF CashoutStep
  <2>2. payment \in Nat
      BY ParlaysAssumption
  <2>. QED
      BY <2>1, <2>2, CashoutConserves
<1>5. ASSUME NEW b \in Bets, CashoutSingle(b)
      PROVE  Supply' = Supply
  <2>1. /\ escrow' = [escrow EXCEPT ![b] = [NoEscrow EXCEPT !.live = TRUE]]
        /\ ~escrow[b].live /\ still
      BY <1>5 DEF CashoutSingle, money
  <2>2. escrow[b] = NoEscrow /\ escrow \in [Bets -> Escrow]
      BY <2>1, Kept, BothTypes DEF Quiet
  <2>3. \A d \in Bets : escrow'[d].payment = escrow[d].payment
      BY <2>1, <2>2 DEF NoEscrow
  <2>. QED
      BY <2>1, <2>3, OthersConserve
<1>6. ASSUME NEW b \in Bets, ResolveSingle(b)
      PROVE  Supply' = Supply
  <2>1. escrow' = [escrow EXCEPT ![b] = NoEscrow] /\ escrow[b].live /\ ~escrow[b].is_parlay
        /\ still
      BY <1>6 DEF ResolveSingle, money
  <2>2. escrow[b].payment = 0 /\ escrow \in [Bets -> Escrow]
      BY <2>1, Kept, BothTypes DEF Quiet
  <2>3. \A d \in Bets : escrow'[d].payment = escrow[d].payment
      BY <2>1, <2>2 DEF NoEscrow
  <2>. QED
      BY <2>1, <2>3, OthersConserve
<1>7. ASSUME Tick
      PROVE  Supply' = Supply
  <2>1. /\ escrow' = [b \in Bets |->
               IF escrow[b].live THEN [escrow[b] EXCEPT !.age = LesserOf(@ + 1, Delay)]
               ELSE escrow[b]]
        /\ still
      BY <1>7 DEF Tick, money
  <2>2. \A b \in Bets : escrow[b] \in Escrow
      BY Kept
  <2>3. \A b \in Bets : escrow'[b].payment = escrow[b].payment
      BY <2>1, <2>2 DEF Escrow
  <2>. QED
      BY <2>1, <2>3, OthersConserve
<1>8. ASSUME \/ ChangeConfigStatus \/ UNCHANGED vars
             \/ \E m \in MMs, event \in Kickoffs : GoLive(m, event)
      PROVE  Supply' = Supply
    BY <1>8, OthersConserve DEF GoLive, ChangeConfigStatus, money, vars
<1>9. ASSUME NEW m \in MMs, NEW amount \in Transfers, Withdraw(m, amount)
      PROVE  Supply' = Supply
    BY <1>9, WithdrawConserves, ParlaysAssumption
<1>. QED
    BY <1>1, <1>2, <1>3, <1>4, <1>5, <1>6, <1>7, <1>8, <1>9, ClaimConserves, RevertConserves
       DEF Next

\* Tokens are neither made nor lost, whatever is filled, cut, paid and reverted.
THEOREM ParlaysConserve == Spec => []Conserved
<1>1. Init => Conserved
  <2>1. ASSUME Init
        PROVE  Conserved
    <3>1. TypeOK
        BY <2>1, InitKeeps DEF IInv
    <3>. DEFINE h == [b \in Bets |-> escrow[b].payment]
                s == [k \in Keys |-> 0]
                f == [m \in MMs |-> vault[m].liability]
    <3>2. h \in [Bets -> Nat] /\ \A b \in Bets : h[b] = 0
        BY <2>1 DEF Init, NoEscrow
    <3>3. f \in [MMs -> Nat] /\ \A m \in MMs : f[m] = 0
        BY <2>1 DEF Init
    <3>4. s \in [Keys -> Nat] /\ \A k \in Keys : s[k] = 0
        OBVIOUS
    <3>5. stake = s /\ wallet = MMFunds /\ user = UserFunds
        BY <2>1 DEF Init
    <3>6. Total(MMFunds) \in Nat /\ UserFunds \in Nat
        BY ParlaysAssumption, TotalType
    <3>. HIDE DEF h, s, f
    <3>7. Total(h) = 0 /\ Total(s) = 0 /\ Total(f) = 0
        BY <3>2, <3>3, <3>4, TotalZero
    <3>. QED
        BY <3>5, <3>6, <3>7 DEF Conserved, Supply, h, f
  <2>. QED
      BY <2>1
<1>2. IInv /\ IInv' /\ Conserved /\ [Next]_vars => Conserved'
    BY NextConserves DEF Conserved
<1>. QED
    BY <1>1, <1>2, Inductive, PTL DEF Spec
=============================================================================
