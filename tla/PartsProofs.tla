---------------------------- MODULE PartsProofs ----------------------------
(***************************************************************************)
(* What is quoted and signed, for any number of market makers, users,      *)
(* keys, offers and markets and any amounts, odds and times: every open    *)
(* ticket and receipt carries the terms of an offer of its own market      *)
(* maker (Offers), an oracle account shows the newest odds that reached it *)
(* and a fill is at the odds that the accounts show (Quoting), and what    *)
(* the promo market maker quotes it still takes when the fill asks again   *)
(* (PromoMaker).  What is stored: the sorted array of lines of a netting   *)
(* account is a map from markets to open profits (NettingLines).  What is  *)
(* divided: the loops of split_fillers never refuse a ticket and give each *)
(* slot the share of a closed formula (SplitFillers).                      *)
(***************************************************************************)
EXTENDS Offers, Quoting, PromoMaker, NettingLines, SplitFillers, AmountProofs,
        SequenceTheorems

-----------------------------------------------------------------------------
(* What a signature says *)

\* Two instructions of the same kind that agree on what a message is made of.
SameTerms(ix, jx) ==
    /\ jx.what = ix.what /\ jx.kind = ix.kind /\ jx.id = ix.id /\ jx.seq = ix.seq
    /\ jx.expiry = ix.expiry
    /\ ix.what = "fill" => jx.max = ix.max /\ jx.odds = ix.odds
    /\ ix.what = "cashout" =>
          jx.cash = ix.cash /\ jx.amount = ix.amount /\ jx.payment = ix.payment

\* What a user can submit.
Submitted == FillIx(Kinds) \cup CashoutIx(Kinds)

\* A message names its user, its MM and its terms: two different fills or
\* cashouts never have the same one, whatever their kinds.
LEMMA MessageTellsTerms ==
    ASSUME NEW u, NEW m, NEW ix \in Submitted,
           NEW v, NEW n, NEW jx \in Submitted,
           MessageOf(u, m, ix) = MessageOf(v, n, jx)
    PROVE  u = v /\ m = n /\ SameTerms(ix, jx)
<1>1. /\ ix.what \in {"fill", "cashout"} /\ ix.kind \in {"bet", "parlay"}
      /\ jx.what \in {"fill", "cashout"} /\ jx.kind \in {"bet", "parlay"}
    BY DEF Submitted, FillIx, CashoutIx, Kinds
<1>2. MessageOf(u, m, ix)[1] = MessageOf(v, n, jx)[1]
    OBVIOUS
<1>3. ix.what = jx.what /\ ix.kind = jx.kind
    BY <1>1, <1>2
       DEF MessageOf, BetMessage, ParlayMessage, CashoutMessage, CashoutParlayMessage
<1>4. CASE ix.what = "fill" /\ ix.kind = "bet"
  <2>1. BetMessage(u, m, ix) = BetMessage(v, n, jx)
      BY <1>3, <1>4 DEF MessageOf
  <2>. QED
      BY <1>3, <1>4, <2>1 DEF BetMessage, SameTerms
<1>5. CASE ix.what = "fill" /\ ix.kind = "parlay"
  <2>1. ParlayMessage(u, m, ix) = ParlayMessage(v, n, jx)
      BY <1>3, <1>5 DEF MessageOf
  <2>. QED
      BY <1>3, <1>5, <2>1 DEF ParlayMessage, SameTerms
<1>6. CASE ix.what = "cashout" /\ ix.kind = "bet"
  <2>1. CashoutMessage(u, m, ix) = CashoutMessage(v, n, jx)
      BY <1>3, <1>6 DEF MessageOf
  <2>. QED
      BY <1>3, <1>6, <2>1 DEF CashoutMessage, SameTerms
<1>7. CASE ix.what = "cashout" /\ ix.kind = "parlay"
  <2>1. CashoutParlayMessage(u, m, ix) = CashoutParlayMessage(v, n, jx)
      BY <1>3, <1>7 DEF MessageOf
  <2>. QED
      BY <1>3, <1>7, <2>1 DEF CashoutParlayMessage, SameTerms
<1>. QED
    BY <1>1, <1>4, <1>5, <1>6, <1>7

-----------------------------------------------------------------------------
(* The strengthening *)

\* A signature is of the message of the offer that it was made for.
OffersTrue ==
    \A s \in offers : /\ s.ix \in Submitted
                      /\ s.message = MessageOf(s.user, s.by, s.ix)

\* The fields of a ticket that is open.
Fields == {"result", "mm", "opened", "amount", "payout", "odds", "seq", "timestamp"}

\* A ticket t at key k, and a receipt c at key r, if there is one.
FineTicket(k, t) == t # NoRfqTicket => DOMAIN t = Fields /\ SignedFill(k, t)
FineReceipt(r, c) == c # NoReceipt => SignedCashout(r, c)

\* The tickets and the receipts, each with an offer that covers it.
TicketsTrue ==
    DOMAIN rfqTicket = RfqTickets /\ \A k \in RfqTickets : FineTicket(k, rfqTicket[k])
ReceiptsTrue ==
    DOMAIN receipt = Receipts /\ \A r \in Receipts : FineReceipt(r, receipt[r])

\* What every step keeps.
OffersInv == OffersTrue /\ TicketsTrue /\ ReceiptsTrue

\* An instruction that passes the check has the terms of an offer of m.
LEMMA VerifiedTerms ==
    ASSUME OffersTrue, NEW u, NEW m, NEW ix \in Submitted, Verified(u, m, ix)
    PROVE  \E s \in offers : s.user = u /\ s.by = m /\ SameTerms(ix, s.ix)
<1>1. PICK s \in offers : s.message = MessageOf(u, m, ix)
    BY DEF Verified
<1>2. s.ix \in Submitted /\ MessageOf(u, m, ix) = MessageOf(s.user, s.by, s.ix)
    BY <1>1 DEF OffersTrue
<1>3. u = s.user /\ m = s.by /\ SameTerms(ix, s.ix)
  <2>. HIDE DEF OffersTrue
  <2>. DEFINE jx == s.ix
  <2>1. jx \in Submitted /\ MessageOf(u, m, ix) = MessageOf(s.user, s.by, jx)
      BY <1>2
  <2>. HIDE DEF jx
  <2>2. u = s.user /\ m = s.by /\ SameTerms(ix, jx)
      BY <2>1, MessageTellsTerms
  <2>. QED
      BY <2>2 DEF jx
<1>. QED
    BY <1>3

\* No signature is ever taken back, so what was honoured stays honoured.
LEMMA OffersStay ==
    ASSUME offers \subseteq offers'
    PROVE  /\ \A k, t : FineTicket(k, t) => FineTicket(k, t)'
           /\ \A r, c : FineReceipt(r, c) => FineReceipt(r, c)'
BY DEF FineTicket, FineReceipt, SignedFill, SignedCashout

\* A step that writes one ticket.
LEMMA OneTicket ==
    ASSUME TicketsTrue, offers' = offers, NEW k, NEW t,
           rfqTicket' = [rfqTicket EXCEPT ![k] = t], k \in RfqTickets => FineTicket(k, t)
    PROVE  TicketsTrue'
<1>1. \A j \in RfqTickets : rfqTicket'[j] = IF j = k THEN t ELSE rfqTicket[j]
    BY DEF TicketsTrue
<1>2. \A j \in RfqTickets : FineTicket(j, rfqTicket'[j])
    BY <1>1 DEF TicketsTrue
<1>3. \A j, x : FineTicket(j, x) => FineTicket(j, x)'
    BY OffersStay
<1>. QED
    BY <1>2, <1>3 DEF TicketsTrue, RfqTickets

\* A step that writes one receipt.
LEMMA OneReceipt ==
    ASSUME ReceiptsTrue, offers' = offers, NEW r, NEW c,
           receipt' = [receipt EXCEPT ![r] = c], r \in Receipts => FineReceipt(r, c)
    PROVE  ReceiptsTrue'
<1>1. \A j \in Receipts : receipt'[j] = IF j = r THEN c ELSE receipt[j]
    BY DEF ReceiptsTrue
<1>2. \A j \in Receipts : FineReceipt(j, receipt'[j])
    BY <1>1 DEF ReceiptsTrue
<1>3. \A j, x : FineReceipt(j, x) => FineReceipt(j, x)'
    BY OffersStay
<1>. QED
    BY <1>2, <1>3 DEF ReceiptsTrue, Receipts

\* Steps that leave one of the three alone.
LEMMA Untouched ==
    /\ OffersTrue /\ offers' = offers => OffersTrue'
    /\ TicketsTrue /\ rfqTicket' = rfqTicket /\ offers \subseteq offers' => TicketsTrue'
    /\ ReceiptsTrue /\ receipt' = receipt /\ offers \subseteq offers' => ReceiptsTrue'
<1>1. OffersTrue /\ offers' = offers => OffersTrue'
    BY DEF OffersTrue
<1>2. ASSUME TicketsTrue, rfqTicket' = rfqTicket, offers \subseteq offers'
      PROVE  TicketsTrue'
  <2>1. \A k, t : FineTicket(k, t) => FineTicket(k, t)'
      BY <1>2, OffersStay
  <2>. QED
      BY <1>2, <2>1 DEF TicketsTrue, RfqTickets
<1>3. ASSUME ReceiptsTrue, receipt' = receipt, offers \subseteq offers' PROVE ReceiptsTrue'
  <2>1. \A r, c : FineReceipt(r, c) => FineReceipt(r, c)'
      BY <1>3, OffersStay
  <2>. QED
      BY <1>3, <2>1 DEF ReceiptsTrue, Receipts
<1>. QED
    BY <1>1, <1>2, <1>3

\* No offer, ticket or receipt at the start.
LEMMA OffersStart == OffersInit => OffersInv
BY DEF OffersInit, OffersInv, OffersTrue, TicketsTrue, ReceiptsTrue, FineTicket, FineReceipt

-----------------------------------------------------------------------------
(* Every step keeps it *)

\* A new signature is of its own message.
LEMMA SignKeeps ==
    ASSUME OffersInv, NEW u, NEW m, NEW ix \in Submitted, Sign(u, m, ix)
    PROVE  OffersInv'
<1>. DEFINE s == [by |-> m, user |-> u, ix |-> ix, key |-> signer[m],
                  message |-> MessageOf(u, m, ix)]
<1>1. offers' = offers \cup {s} /\ rfqTicket' = rfqTicket /\ receipt' = receipt
    BY DEF Sign
<1>2. s.ix = ix /\ s.message = MessageOf(s.user, s.by, s.ix)
    OBVIOUS
<1>3. \A v, n, jx : MessageOf(v, n, jx)' = MessageOf(v, n, jx)
    BY DEF MessageOf, BetMessage, ParlayMessage, CashoutMessage, CashoutParlayMessage
<1>. HIDE DEF s
<1>4. OffersTrue'
    BY <1>1, <1>2, <1>3 DEF OffersInv, OffersTrue, Submitted, FillIx, CashoutIx
<1>. QED
    BY <1>1, <1>4, Untouched DEF OffersInv

\* A fill opens a ticket with the terms of the offer it shows.
LEMMA OpenKeeps ==
    ASSUME OffersInv, NEW u, NEW m, NEW ix \in FillIx(Kinds), WellFormed(ix), Open(u, m, ix)
    PROVE  OffersInv'
<1>. DEFINE k == <<ix.kind, u, ix.id>>
            t == [result |-> "Pending", mm |-> m, opened |-> ix.amount,
                  amount |-> ix.amount, payout |-> Payout(ix.amount, ix.odds),
                  odds |-> ix.odds, seq |-> ix.seq, timestamp |-> now]
<1>1. /\ rfqTicket' = [rfqTicket EXCEPT ![k] = t] /\ receipt' = receipt /\ offers' = offers
      /\ now <= ix.expiry /\ Verified(u, m, ix)
    BY DEF Open
<1>2. PICK s \in offers : s.user = u /\ s.by = m /\ SameTerms(ix, s.ix)
    BY <1>1, VerifiedTerms DEF OffersInv, Submitted
<1>3. ix.what = "fill" /\ ix.amount <= ix.max
    BY DEF FillIx, WellFormed
<1>4. /\ k[1] = ix.kind /\ k[2] = u /\ k[3] = ix.id /\ DOMAIN t = Fields
      /\ t.mm = m /\ t.opened = ix.amount /\ t.odds = ix.odds /\ t.seq = ix.seq
      /\ t.timestamp = now
    BY DEF Fields
<1>. HIDE DEF k, t
<1>5. SignedFill(k, t)
    BY <1>1, <1>2, <1>3, <1>4 DEF SignedFill, SameTerms
<1>6. TicketsTrue'
    BY <1>1, <1>4, <1>5, OneTicket DEF OffersInv, FineTicket
<1>. QED
    BY <1>1, <1>6, Untouched DEF OffersInv

\* A ticket with less in it, or waiting, is still of the offer that opened it.
LEMMA SameOffer ==
    ASSUME NEW k, NEW t, FineTicket(k, t), t # NoRfqTicket, NEW u, DOMAIN u = Fields,
           u.mm = t.mm, u.opened = t.opened, u.odds = t.odds, u.seq = t.seq,
           u.timestamp = t.timestamp
    PROVE  FineTicket(k, u)
BY DEF FineTicket, SignedFill

\* An update of its amount, its payout and its result is such a ticket.
LEMMA Rewritten ==
    ASSUME NEW t, DOMAIN t = Fields, NEW x, NEW y, NEW z
    PROVE  LET u == [t EXCEPT !.amount = x, !.payout = y, !.result = z]
               v == [t EXCEPT !.amount = x, !.payout = y] IN
           /\ DOMAIN u = Fields /\ u.mm = t.mm /\ u.opened = t.opened
           /\ u.odds = t.odds /\ u.seq = t.seq /\ u.timestamp = t.timestamp
           /\ DOMAIN v = Fields /\ v.mm = t.mm /\ v.opened = t.opened
           /\ v.odds = t.odds /\ v.seq = t.seq /\ v.timestamp = t.timestamp
BY DEF Fields

\* What a cashout leaves of a ticket is of the offer that opened it.
LEMMA LeftIsFine ==
    ASSUME NEW k, NEW t, FineTicket(k, t), t # NoRfqTicket, NEW ix
    PROVE  FineTicket(k, Left(t, ix))
<1>1. DOMAIN t = Fields
    BY DEF FineTicket
<1>. DEFINE a == t.amount - ix.amount
            p == t.payout - Removed(t, ix)
            u == [t EXCEPT !.amount = a, !.payout = p]
            w == [t EXCEPT !.amount = 0, !.payout = p, !.result = "CashedOut"]
<1>2. FineTicket(k, u)
  <2>. HIDE DEF a, p
  <2>1. /\ DOMAIN u = Fields /\ u.mm = t.mm /\ u.opened = t.opened
        /\ u.odds = t.odds /\ u.seq = t.seq /\ u.timestamp = t.timestamp
      BY <1>1, Rewritten
  <2>. HIDE DEF u
  <2>. QED
      BY <2>1, SameOffer
<1>3. FineTicket(k, w)
  <2>. HIDE DEF p
  <2>1. /\ DOMAIN w = Fields /\ w.mm = t.mm /\ w.opened = t.opened
        /\ w.odds = t.odds /\ w.seq = t.seq /\ w.timestamp = t.timestamp
      BY <1>1, Rewritten
  <2>. HIDE DEF w
  <2>. QED
      BY <2>1, SameOffer
<1>4. FineTicket(k, NoRfqTicket)
    BY DEF FineTicket
<1>5. Left(t, ix) \in {u, w, NoRfqTicket}
    BY DEF Left
<1>. QED
    BY <1>2, <1>3, <1>4, <1>5

\* A cashout opens a receipt with the terms of the offer it shows.
LEMMA CashOutKeeps ==
    ASSUME OffersInv, NEW u, NEW m, NEW ix \in CashoutIx(Kinds), CashOut(u, m, ix)
    PROVE  OffersInv'
<1>. DEFINE k == <<ix.kind, u, ix.id>>
            r == <<ix.kind, m, ix.cash>>
            t == rfqTicket[k]
            c == [user |-> u, id |-> ix.id, amount |-> ix.amount, payment |-> ix.payment,
                  removed |-> Removed(t, ix), seq |-> ix.seq, timestamp |-> now]
<1>1. /\ rfqTicket' = [rfqTicket EXCEPT ![k] = Left(t, ix)]
      /\ receipt' = [receipt EXCEPT ![r] = c] /\ offers' = offers
      /\ now <= ix.expiry /\ Verified(u, m, ix) /\ t.result = "Pending"
    BY DEF CashOut
<1>2. PICK s \in offers : s.user = u /\ s.by = m /\ SameTerms(ix, s.ix)
    BY <1>1, VerifiedTerms DEF OffersInv, Submitted
<1>3. ix.what = "cashout"
    BY DEF CashoutIx
<1>4. /\ r[1] = ix.kind /\ r[2] = m /\ r[3] = ix.cash
      /\ c.user = u /\ c.id = ix.id /\ c.amount = ix.amount /\ c.payment = ix.payment
      /\ c.seq = ix.seq /\ c.timestamp = now
    OBVIOUS
<1>5. k \in RfqTickets => FineTicket(k, t) /\ t # NoRfqTicket
    BY <1>1 DEF OffersInv, TicketsTrue, NoRfqTicket
<1>6. k \in RfqTickets => FineTicket(k, Left(t, ix))
    BY <1>5, LeftIsFine
<1>. HIDE DEF k, t, r, c
<1>7. SignedCashout(r, c)
    BY <1>1, <1>2, <1>3, <1>4 DEF SignedCashout, SameTerms
<1>8. TicketsTrue'
    BY <1>1, <1>6, OneTicket DEF OffersInv
<1>9. ReceiptsTrue'
    BY <1>1, <1>7, OneReceipt DEF OffersInv, FineReceipt
<1>. QED
    BY <1>1, <1>8, <1>9, Untouched DEF OffersInv

\* A claim closes a ticket or leaves it.
LEMMA ClaimKeeps ==
    ASSUME OffersInv, NEW u, NEW b, ClaimCashoutEscrow(u, b)
    PROVE  OffersInv'
<1>. DEFINE k == Waiting(u, b)
<1>1. /\ rfqTicket' = [rfqTicket EXCEPT ![k] = NoRfqTicket] \/ rfqTicket' = rfqTicket
      /\ receipt' = receipt /\ offers' = offers
    BY DEF ClaimCashoutEscrow
<1>2. FineTicket(k, NoRfqTicket)
    BY DEF FineTicket
<1>. HIDE DEF k
<1>3. rfqTicket' = [rfqTicket EXCEPT ![k] = NoRfqTicket] => TicketsTrue'
    BY <1>1, <1>2, OneTicket DEF OffersInv
<1>. QED
    BY <1>1, <1>3, Untouched DEF OffersInv

\* A revert gives a ticket back what it had, and closes a receipt.
LEMMA RevertKeeps ==
    ASSUME OffersInv, NEW u, NEW b, RevertCashout(u, b)
    PROVE  OffersInv'
<1>. DEFINE k == Waiting(u, b)
            r == rfqEscrow[<<u, b>>]
            t == rfqTicket[k]
            x == t.amount + receipt[r].amount
            y == t.payout + receipt[r].removed
            v == [t EXCEPT !.amount = x, !.payout = y, !.result = "Pending"]
<1>1. /\ rfqTicket' = [rfqTicket EXCEPT ![k] = v]
      /\ receipt' = [receipt EXCEPT ![r] = NoReceipt]
      /\ offers' = offers /\ t # NoRfqTicket
    BY DEF RevertCashout
<1>2. k \in RfqTickets => FineTicket(k, t)
    BY DEF OffersInv, TicketsTrue
<1>3. FineReceipt(r, NoReceipt)
    BY DEF FineReceipt
<1>4. k \in RfqTickets => FineTicket(k, v)
  <2>. HAVE k \in RfqTickets
  <2>1. DOMAIN t = Fields
      BY <1>1, <1>2 DEF FineTicket
  <2>. HIDE DEF k, r, t, x, y
  <2>2. /\ DOMAIN v = Fields /\ v.mm = t.mm /\ v.opened = t.opened
        /\ v.odds = t.odds /\ v.seq = t.seq /\ v.timestamp = t.timestamp
      BY <2>1, Rewritten
  <2>. HIDE DEF v
  <2>. QED
      BY <1>1, <1>2, <2>2, SameOffer
<1>. HIDE DEF k, r, t, x, y, v
<1>5. TicketsTrue' /\ ReceiptsTrue'
    BY <1>1, <1>3, <1>4, OneTicket, OneReceipt DEF OffersInv
<1>. QED
    BY <1>1, <1>5, Untouched DEF OffersInv

\* A settlement closes a ticket or a receipt.
LEMMA SettleKeeps ==
    ASSUME OffersInv, NEW k, SettleTicket(k) \/ SettleReceipt(k)
    PROVE  OffersInv'
<1>1. FineTicket(k, NoRfqTicket) /\ FineReceipt(k, NoReceipt)
    BY DEF FineTicket, FineReceipt
<1>2. CASE SettleTicket(k)
  <2>1. /\ rfqTicket' = [rfqTicket EXCEPT ![k] = NoRfqTicket]
        /\ receipt' = receipt /\ offers' = offers
      BY <1>2 DEF SettleTicket
  <2>2. TicketsTrue'
      BY <1>1, <2>1, OneTicket DEF OffersInv
  <2>. QED
      BY <2>1, <2>2, Untouched DEF OffersInv
<1>3. CASE SettleReceipt(k)
  <2>1. /\ receipt' = [receipt EXCEPT ![k] = NoReceipt]
        /\ rfqTicket' = rfqTicket /\ offers' = offers
      BY <1>3 DEF SettleReceipt
  <2>2. ReceiptsTrue'
      BY <1>1, <2>1, OneReceipt DEF OffersInv
  <2>. QED
      BY <2>1, <2>2, Untouched DEF OffersInv
<1>. QED
    BY <1>2, <1>3

\* The other steps touch no offer, ticket or receipt.
LEMMA OthersKeep ==
    ASSUME OffersInv, UNCHANGED <<offers, rfqTicket, receipt>>
    PROVE  OffersInv'
BY Untouched DEF OffersInv

\* Every step keeps every offer honoured.
LEMMA OffersNextKeeps ==
    ASSUME OffersInv, [OffersNext]_offersVars
    PROVE  OffersInv'
<1>1. ASSUME NEW m \in RfqMMs, NEW k \in Keys, SetRfqSigner(m, k) PROVE OffersInv'
    BY <1>1, OthersKeep DEF SetRfqSigner
<1>2. ASSUME NEW u \in Users, NEW m \in RfqMMs, SignFill(u, m) PROVE OffersInv'
    BY <1>2, SignKeeps DEF SignFill, Submitted
<1>3. ASSUME NEW u \in Users, NEW m \in RfqMMs, SignCashout(u, m) PROVE OffersInv'
    BY <1>3, SignKeeps DEF SignCashout, Submitted
<1>4. ASSUME NEW u \in Users, NEW m \in RfqMMs, FillRfqSingle(u, m) \/ FillRfqParlay(u, m)
      PROVE  OffersInv'
    BY <1>4, OpenKeeps DEF FillRfqSingle, FillRfqParlay, FillIx, Kinds
<1>5. ASSUME NEW u \in Users, NEW m \in RfqMMs, CashoutRfqBet(u, m) \/ CashoutRfqParlay(u, m)
      PROVE  OffersInv'
    BY <1>5, CashOutKeeps DEF CashoutRfqBet, CashoutRfqParlay, CashoutIx, Kinds
<1>6. ASSUME NEW u \in Users, NEW b \in Ids, ClaimCashoutEscrow(u, b) PROVE OffersInv'
    BY <1>6, ClaimKeeps
<1>7. ASSUME NEW u \in Users, NEW b \in Ids, RevertCashout(u, b) PROVE OffersInv'
    BY <1>7, RevertKeeps
<1>8. ASSUME NEW k \in RfqTickets, SettleTicket(k) PROVE OffersInv'
    BY <1>8, SettleKeeps
<1>9. ASSUME NEW r \in Receipts, SettleReceipt(r) PROVE OffersInv'
    BY <1>9, SettleKeeps
<1>10. ASSUME NEW m \in RfqMMs, NextEventState(m) PROVE OffersInv'
    BY <1>10, OthersKeep DEF NextEventState
<1>11. CASE Tick
    BY <1>11, OthersKeep DEF Tick
<1>12. CASE UNCHANGED offersVars
    BY <1>12, OthersKeep DEF offersVars
<1>. QED
    BY <1>1, <1>2, <1>3, <1>4, <1>5, <1>6, <1>7, <1>8, <1>9, <1>10, <1>11, <1>12 DEF OffersNext

\* The terms of every open fill and of every open cashout, of single bets and
\* of parlays, are those of one offer that its MM signed for its user and its
\* id, and were taken in its time (fill_rfq_bet, fill_rfq_parlay,
\* fill_rfq_cashout, fill_rfq_parlay_cashout).
THEOREM TermsAreSigned == OffersSpec => []OffersHonoured
<1>1. OffersInv /\ [OffersNext]_offersVars => OffersInv'
    BY OffersNextKeeps
<1>2. OffersInv => OffersHonoured
    BY DEF OffersInv, TicketsTrue, ReceiptsTrue, FineTicket, FineReceipt, OffersHonoured
<1>. QED
    BY OffersStart, <1>1, <1>2, PTL DEF OffersSpec

-----------------------------------------------------------------------------
(* The oracle shows the newest odds *)

Update == [mkt: LegMarkets, seq: Nat \ {0}, odds: OracleOdds]
OracleAccount == [open: BOOLEAN, seq: Nat, odds: Nat]

\* What an account shows, given the updates that have reached it.
ShowsNewest(account, reached) ==
    IF reached = {} THEN account.seq = 0 /\ account.odds = 0
    ELSE \E u \in reached : /\ u.seq = account.seq /\ u.odds = account.odds
                            /\ \A v \in reached : v.seq <= u.seq

\* An account that no update has reached still has sequence 0, below that of
\* every update: the first one is taken, whatever it is.
OracleInv ==
    /\ clock \in Nat \ {0}
    /\ sent \subseteq Update
    /\ market \in [LegMarkets -> OracleAccount]
    /\ landed \in [LegMarkets -> SUBSET Update]
    /\ \A m \in LegMarkets : market[m].open => ShowsNewest(market[m], landed[m])

\* Accounts are created empty and nothing is signed at the start.
LEMMA OracleStarts == QuotingInit => OracleInv
BY DEF QuotingInit, OracleInv, NoMarket, OracleAccount

\* Creating an account forgets the updates the last one got, closing it hides
\* what it shows.
LEMMA AccountsKeepOracle ==
    ASSUME OracleInv, NEW m \in LegMarkets, InitMarket(m) \/ CloseMarket(m)
    PROVE  OracleInv'
<1>1. CASE InitMarket(m)
    BY <1>1 DEF InitMarket, OracleInv, OracleAccount, ShowsNewest
<1>2. CASE CloseMarket(m)
    BY <1>2 DEF CloseMarket, NoMarket, OracleInv, OracleAccount, ShowsNewest
<1>. QED
    BY <1>1, <1>2

\* The sequence of an update is the number of the update.
LEMMA SendKeepsOracle ==
    ASSUME QuotingAssumption, OracleInv, NEW m \in LegMarkets, NEW o \in OracleOdds,
           SendUpdate(m, o)
    PROVE  OracleInv'
<1>1. [mkt |-> m, seq |-> clock, odds |-> o] \in Update
    BY DEF OracleInv, Update
<1>. QED
    BY <1>1 DEF SendUpdate, OracleInv

\* An update that lands is shown if it is the newest of those that have, and
\* only then.
LEMMA LandKeepsOracle ==
    ASSUME QuotingAssumption, OracleInv, NEW u \in sent, LandUpdate(u)
    PROVE  OracleInv'
<1>1. u \in Update /\ u.mkt \in LegMarkets /\ u.seq \in Nat \ {0} /\ u.odds \in Nat
    BY DEF OracleInv, Update, QuotingAssumption
<1>2. CASE ~market[u.mkt].open
    BY <1>2 DEF LandUpdate, OracleInv
<1>3. CASE market[u.mkt].open
  <2>. DEFINE k == u.mkt
              shown == IF Newer(u, k) THEN [market[k] EXCEPT !.seq = u.seq, !.odds = u.odds]
                       ELSE market[k]
  <2>1. /\ market' = [market EXCEPT ![k] = shown]
        /\ landed' = [landed EXCEPT ![k] = @ \cup {u}]
        /\ sent' = sent \ {u} /\ clock' = clock
      BY <1>3 DEF LandUpdate
  <2>2. shown \in OracleAccount /\ market[k] \in OracleAccount
      BY <1>1 DEF OracleInv, OracleAccount
  <2>3. landed[k] \in SUBSET Update /\ \A v \in landed[k] : v.seq \in Nat
      BY <1>1 DEF OracleInv, Update
  <2>4. ShowsNewest(shown, landed[k] \cup {u})
    <3>1. ShowsNewest(market[k], landed[k])
        BY <1>1, <1>3 DEF OracleInv
    <3>2. market[k].seq \in Nat /\ shown.seq \in Nat
        BY <2>2 DEF OracleAccount
    <3>3. CASE Newer(u, k)
      <4>1. shown.seq = u.seq /\ shown.odds = u.odds
          BY <2>2, <3>3 DEF OracleAccount
      <4>2. \A v \in landed[k] : v.seq <= u.seq
          BY <1>1, <2>3, <3>1, <3>2, <3>3 DEF ShowsNewest, Newer
      <4>. QED
          BY <1>1, <4>1, <4>2 DEF ShowsNewest
    <3>4. CASE ~Newer(u, k)
      <4>1. u.seq <= market[k].seq
          BY <1>1, <3>2, <3>4 DEF Newer
      <4>2. landed[k] # {}
          BY <1>1, <3>1, <4>1 DEF ShowsNewest
      <4>. QED
          BY <2>3, <3>1, <3>4, <4>1, <4>2 DEF ShowsNewest
    <3>. QED
        BY <3>3, <3>4
  <2>. HIDE DEF shown
  <2>. QED
      BY <1>1, <2>1, <2>2, <2>4 DEF OracleInv
<1>. QED
    BY <1>2, <1>3

\* Quotes and fills leave the oracle alone.
LEMMA OthersKeepOracle ==
    ASSUME OracleInv, UNCHANGED <<market, landed, sent, clock>>
    PROVE  OracleInv'
BY DEF OracleInv

\* Every step of the oracle, of a request for a quote and of a fill keeps the
\* invariant.
LEMMA NextKeepsOracle ==
    ASSUME QuotingAssumption, OracleInv, [QuotingNext]_quotingVars
    PROVE  OracleInv'
<1>1. CASE OracleStep
  <2>1. ASSUME NEW m \in LegMarkets, InitMarket(m) \/ CloseMarket(m) PROVE OracleInv'
      BY <2>1, AccountsKeepOracle
  <2>2. ASSUME NEW m \in LegMarkets, NEW o \in OracleOdds, SendUpdate(m, o) PROVE OracleInv'
      BY <2>2, SendKeepsOracle
  <2>3. ASSUME NEW e \in Events, InitEvent(e) \/ UpdateEventState(e) \/ CloseEvent(e)
        PROVE  OracleInv'
      BY <2>3, OthersKeepOracle DEF InitEvent, UpdateEventState, CloseEvent
  <2>4. ASSUME NEW u \in sent, LandUpdate(u) PROVE OracleInv'
      BY <2>4, LandKeepsOracle
  <2>5. ASSUME NEW u \in sent, DropUpdate(u) PROVE OracleInv'
      BY <2>5 DEF DropUpdate, OracleInv
  <2>. QED
      BY <1>1, <2>1, <2>2, <2>3, <2>4, <2>5 DEF OracleStep
<1>2. CASE ~OracleStep
  <2>1. UNCHANGED <<market, landed, sent, clock>>
      BY <1>2 DEF QuotingNext, quotingVars, oracle, FillQuote, Abort, Commit, Take, AsksOnly,
                  AskDirectly, GetMarketQuotesProxy, GetQuoteProxy, GetParlayQuoteProxy,
                  GetCashoutQuoteProxy, GetCashoutParlayQuoteProxy, AskOnly, AskCashout
  <2>. QED
      BY <2>1, OthersKeepOracle
<1>. QED
    BY <1>1, <1>2

\* An open market account shows the newest of the updates that have reached it
\* since it was created, and no odds before the first, however updates are
\* delayed, reordered, lost, or sent to an account that was closed meanwhile.
THEOREM NewestOddsShow ==
    ASSUME QuotingAssumption
    PROVE  QuotingSpec => []NewestOddsWin
<1>1. OracleInv => NewestOddsWin
    BY DEF OracleInv, NewestOddsWin, ShowsNewest
<1>2. OracleInv /\ [QuotingNext]_quotingVars => OracleInv'
    BY NextKeepsOracle
<1>. QED
    BY OracleStarts, <1>1, <1>2, PTL DEF QuotingSpec

-----------------------------------------------------------------------------
(* The price of a parlay *)

Prices(legs) == [i \in 1..Len(legs) |-> legs[i].odds]
EventsOf(legs) == [i \in 1..Len(legs) |-> EventOf[legs[i].mkt]]

\* Even money for each of n legs.
EvenMoney(n) == [i \in 1..n |-> Scale]

\* fold_same_event_odds: the first leg of an event carries the price of its
\* legs, rounded down leg by leg.
LEMMA EventPrice ==
    ASSUME NEW legs \in Seq(Leg), NEW k \in 1..Len(legs)
    PROVE  \E f : /\ RoundedDown(Len(legs), GroupOf(Len(legs), EventsOf(legs), k), Prices(legs), f)
                  /\ Fold(legs)[k].odds =
                         IF k \in Firsts(Len(legs), EventsOf(legs)) THEN f[Len(legs)] ELSE 0
<1>. DEFINE n == Len(legs)
            o == Prices(legs)
            D == GroupOf(n, EventsOf(legs), k)
            Is(f) == f = [i \in 0..n |-> IF i = 0 THEN Scale
                                         ELSE IF i \in SameEvent(legs, k)
                                              THEN (f[i - 1] * legs[i].odds) \div Scale
                                              ELSE f[i - 1]]
            g == CHOOSE f : Is(f)
<1>1. n \in Nat /\ DOMAIN legs = 1..n /\ \A i \in 1..n : legs[i] \in Leg
    OBVIOUS
<1>2. /\ o \in [1..n -> Nat] /\ \A i \in 1..n : o[i] = legs[i].odds
      /\ D \in SUBSET (1..n) /\ SameEvent(legs, k) = D
      /\ (\A j \in SameEvent(legs, k) : k <= j) <=> k \in Firsts(n, EventsOf(legs))
    BY <1>1 DEF Prices, Leg, GroupOf, SameEvent, EventsOf, Firsts
<1>3. Fold(legs)[k].odds = IF \A j \in SameEvent(legs, k) : k <= j THEN g[n] ELSE 0
  <2>1. legs[k] = [mkt |-> legs[k].mkt, odds |-> legs[k].odds]
      BY <1>1 DEF Leg
  <2>. QED
      BY <1>1, <2>1 DEF Fold, OverLegs
<1>. HIDE DEF n, o, D, g
<1>4. ASSUME NEW f, IsFloors(n, D, o, f)
      PROVE  Is(f)
  <2>1. \A i \in 0..n : f[i] = IF i = 0 THEN Scale
                               ELSE IF i \in SameEvent(legs, k)
                                    THEN (f[i - 1] * legs[i].odds) \div Scale
                                    ELSE f[i - 1]
    <3>1. \A i \in 0..n : f[i] = IF i = 0 THEN Scale
                             ELSE IF i \in D THEN (f[i - 1] * o[i]) \div Scale ELSE f[i - 1]
        BY <1>4 DEF IsFloors
    <3>2. \A i \in 0..n : i \in D => o[i] = legs[i].odds
        BY <1>2
    <3>. QED
        BY <1>2, <3>1, <3>2
  <2>2. f = [i \in 0..n |-> f[i]]
      BY <1>4 DEF IsFloors
  <2>. QED
      BY <2>1, <2>2
<1>5. Is(g)
  <2>1. \E f : Is(f)
    <3>. HIDE DEF Is
    <3>. QED
        BY <1>1, <1>2, <1>4, FloorsRun
  <2>. HIDE DEF Is
  <2>. QED
      BY <2>1 DEF g
<1>6. RoundedDown(n, D, o, g)
  <2>1. /\ g[0] = Scale
        /\ \A i \in 1..n : g[i] = IF i \in SameEvent(legs, k)
                                  THEN (g[i - 1] * legs[i].odds) \div Scale ELSE g[i - 1]
    <3>1. \A i \in 0..n : g[i] = IF i = 0 THEN Scale
                                 ELSE IF i \in SameEvent(legs, k)
                                      THEN (g[i - 1] * legs[i].odds) \div Scale
                                      ELSE g[i - 1]
        BY <1>5
    <3>2. 0 \in 0..n /\ \A i \in 1..n : i \in 0..n /\ i # 0
        BY <1>1
    <3>. HIDE DEF Is
    <3>. QED
        BY <3>1, <3>2
  <2>. QED
      BY <1>2, <2>1 DEF RoundedDown
<1>. QED
    BY <1>2, <1>3, <1>6 DEF n, o, D

\* product_parlay_odds: the prices above 0, rounded down leg by leg.
LEMMA PriceOfAll ==
    ASSUME NEW n \in Nat, NEW legs, Len(legs) = n, NEW o \in [1..n -> Nat],
           \A i \in 1..n : legs[i].odds = o[i]
    PROVE  \E f : /\ RoundedDown(n, {i \in 1..n : o[i] > 0}, o, f)
                  /\ ProductOdds(legs) = f[n]
<1>. DEFINE D == {i \in 1..n : o[i] > 0}
            Is(f) == f = [i \in 0..n |-> IF i = 0 THEN Scale
                                         ELSE IF legs[i].odds > 0
                                              THEN (f[i - 1] * legs[i].odds) \div Scale
                                              ELSE f[i - 1]]
            g == CHOOSE f : Is(f)
<1>1. ProductOdds(legs) = g[n]
    BY DEF ProductOdds, OverLegs
<1>2. D \in SUBSET (1..n) /\ \A i \in 1..n : i \in D <=> legs[i].odds > 0
    OBVIOUS
<1>. HIDE DEF D, g
<1>3. ASSUME NEW f, IsFloors(n, D, o, f)
      PROVE  Is(f)
  <2>1. \A i \in 0..n : f[i] = IF i = 0 THEN Scale
                               ELSE IF legs[i].odds > 0
                                    THEN (f[i - 1] * legs[i].odds) \div Scale
                                    ELSE f[i - 1]
    <3>1. \A i \in 0..n : f[i] = IF i = 0 THEN Scale
                             ELSE IF i \in D THEN (f[i - 1] * o[i]) \div Scale ELSE f[i - 1]
        BY <1>3 DEF IsFloors
    <3>2. \A i \in 0..n : i # 0 => (i \in D <=> legs[i].odds > 0) /\ legs[i].odds = o[i]
        BY <1>2
    <3>. QED
        BY <3>1, <3>2
  <2>2. f = [i \in 0..n |-> f[i]]
      BY <1>3 DEF IsFloors
  <2>. QED
      BY <2>1, <2>2
<1>4. Is(g)
  <2>1. \E f : Is(f)
    <3>. HIDE DEF Is
    <3>. QED
        BY <1>2, <1>3, FloorsRun
  <2>. HIDE DEF Is
  <2>. QED
      BY <2>1 DEF g
<1>5. RoundedDown(n, D, o, g)
  <2>1. \A i \in 0..n : g[i] = IF i = 0 THEN Scale
                               ELSE IF legs[i].odds > 0
                                    THEN (g[i - 1] * legs[i].odds) \div Scale
                                    ELSE g[i - 1]
      BY <1>4
  <2>2. /\ 0 \in 0..n
        /\ \A i \in 1..n : /\ i \in 0..n /\ i # 0
                           /\ i \in D <=> legs[i].odds > 0
                           /\ legs[i].odds = o[i]
      BY <1>2
  <2>. HIDE DEF Is
  <2>. QED
      BY <2>1, <2>2 DEF RoundedDown
<1>. QED
    BY <1>1, <1>5 DEF D

\* A parlay is priced at most at the exact product of its prices: each event is,
\* and so is the product over the events.
LEMMA ParlayPrice ==
    ASSUME NEW legs \in Seq(Leg), \A i \in 1..Len(legs) : legs[i].odds >= Scale
    PROVE  /\ ProductOdds(Fold(legs)) \in Nat
           /\ ProductOdds(Fold(legs)) * Products(Len(legs), 1..Len(legs), EvenMoney(Len(legs)))[Len(legs)]
                <= Scale * Products(Len(legs), 1..Len(legs), Prices(legs))[Len(legs)]
<1>. DEFINE n == Len(legs)
            e == EventsOf(legs)
            o == Prices(legs)
            u == EvenMoney(n)
            k == [i \in 1..n |-> Products(n, GroupOf(n, e, i), u)[n]]
            h == [i \in 1..n |-> Products(n, GroupOf(n, e, i), o)[n]]
            folded == Fold(legs)
            p == [i \in 1..n |-> folded[i].odds]
<1>1. n \in Nat /\ DOMAIN legs = 1..n /\ \A i \in 1..n : legs[i] \in Leg
    OBVIOUS
<1>2. Scale \in Nat /\ Scale > 0
    BY ScaleAssumption
<1>3. /\ o \in [1..n -> Nat] /\ u \in [1..n -> Nat]
      /\ \A i \in 1..n : o[i] >= Scale /\ u[i] = Scale
    BY <1>1, <1>2 DEF Prices, EvenMoney, Leg
<1>4. n = Len(legs) /\ e = EventsOf(legs) /\ o = Prices(legs)
    OBVIOUS
<1>5. Len(folded) = n
  <2>1. DOMAIN folded = 1..n
      BY <1>1 DEF Fold
  <2>2. folded = [i \in 1..n |-> folded[i]]
      BY <1>1 DEF Fold
  <2>. HIDE DEF folded
  <2>. QED
      BY <1>1, <2>1, <2>2
<1>6. k = [i \in 1..n |-> Products(n, GroupOf(n, e, i), u)[n]]
    OBVIOUS
<1>7. h = [i \in 1..n |-> Products(n, GroupOf(n, e, i), o)[n]]
    OBVIOUS
<1>. HIDE DEF n, e, o, u, k, h, folded
<1>8. ASSUME NEW i \in 1..n
      PROVE  /\ k[i] \in Nat /\ h[i] \in Nat
             /\ i \notin Firsts(n, e) => folded[i].odds = 0
             /\ i \in Firsts(n, e) => /\ folded[i].odds \in Nat /\ folded[i].odds > 0
                                      /\ folded[i].odds * k[i] <= Scale * h[i]
  <2>. DEFINE D == GroupOf(n, e, i)
  <2>1. D \in SUBSET (1..n)
      BY DEF GroupOf
  <2>2. PICK f : /\ RoundedDown(n, D, o, f)
                 /\ folded[i].odds = IF i \in Firsts(n, e) THEN f[n] ELSE 0
      BY <1>4, EventPrice DEF folded
  <2>3. k[i] = Products(n, D, u)[n] /\ h[i] = Products(n, D, o)[n]
      BY <1>6, <1>7
  <2>. HIDE DEF D
  <2>4. Products(n, D, u)[n] \in Nat /\ Products(n, D, o)[n] \in Nat
    <3>1. n \in 0..n
        BY <1>1
    <3>2. Products(n, D, u) \in [0..n -> Nat]
        BY <1>1, <1>3, <2>1, ProductsAre
    <3>3. Products(n, D, o) \in [0..n -> Nat]
        BY <1>1, <1>3, <2>1, ProductsAre
    <3>. QED
        BY <3>1, <3>2, <3>3
  <2>5. f[n] \in Nat /\ f[n] >= Scale
    <3>1. \A j \in D : o[j] >= Scale
        BY <1>3, <2>1
    <3>. QED
        BY <1>1, <1>3, <2>1, <2>2, <3>1, FloorsAtLeast
  <2>6. f[n] * Products(n, D, u)[n] <= Scale * Products(n, D, o)[n]
    <3>1. \A j \in D : o[j] * u[j] <= Scale * o[j]
      <4>1. ASSUME NEW j \in D PROVE o[j] * u[j] <= Scale * o[j]
        <5>1. j \in 1..n /\ o[j] \in Nat /\ u[j] = Scale
            BY <1>3, <2>1
        <5>2. o[j] * Scale = Scale * o[j] /\ Scale * o[j] \in Nat
            BY <1>2, <5>1
        <5>. QED
            BY <5>1, <5>2
      <4>. QED
          BY <4>1
    <3>. QED
        BY <1>1, <1>3, <2>1, <2>2, <3>1, FloorsBelow
  <2>. QED
      BY <1>2, <2>2, <2>3, <2>4, <2>5, <2>6
<1>9. /\ k \in [1..n -> Nat] /\ h \in [1..n -> Nat] /\ p \in [1..n -> Nat]
      /\ \A i \in 1..n : folded[i].odds = p[i]
    BY <1>6, <1>7, <1>8
<1>10. \A i \in 1..n : /\ p[i] > 0 <=> i \in Firsts(n, e)
                       /\ i \in Firsts(n, e) => p[i] * k[i] <= Scale * h[i]
    BY <1>8
<1>. HIDE DEF p
<1>11. Firsts(n, e) \in SUBSET (1..n) /\ {i \in 1..n : p[i] > 0} = Firsts(n, e)
  <2>1. Firsts(n, e) \in SUBSET (1..n)
      BY DEF Firsts
  <2>. QED
      BY <1>10, <2>1
<1>12. PICK f : RoundedDown(n, Firsts(n, e), p, f) /\ ProductOdds(folded) = f[n]
  <2>1. \E f : RoundedDown(n, {i \in 1..n : p[i] > 0}, p, f) /\ ProductOdds(folded) = f[n]
      BY <1>1, <1>5, <1>9, PriceOfAll
  <2>. QED
      BY <1>11, <2>1
<1>13. f[n] \in Nat
  <2>1. n \in 0..n
      BY <1>1
  <2>. QED
      BY <1>1, <1>9, <1>11, <1>12, <2>1, FloorsRun
<1>14. f[n] * Products(n, Firsts(n, e), k)[n] <= Scale * Products(n, Firsts(n, e), h)[n]
  <2>1. \A i \in Firsts(n, e) : p[i] * k[i] <= Scale * h[i]
      BY <1>10, <1>11
  <2>. QED
      BY <1>1, <1>9, <1>11, <1>12, <2>1, FloorsBelow
<1>15. Products(n, Firsts(n, e), k)[n] = Products(n, 1..n, u)[n]
    BY <1>1, <1>3, <1>6, ProductByGroups
<1>16. Products(n, Firsts(n, e), h)[n] = Products(n, 1..n, o)[n]
    BY <1>1, <1>3, <1>7, ProductByGroups
<1>17. ProductOdds(folded) * Products(n, 1..n, u)[n] <= Scale * Products(n, 1..n, o)[n]
    BY <1>12, <1>14, <1>15, <1>16
<1>. QED
    BY <1>12, <1>13, <1>17 DEF folded, n, u, o

\* The equation of the recursive function that multiplies without rounding.
IsProduct(n, w, f) == f = [i \in 0..n |-> IF i = 0 THEN 1 ELSE f[i - 1] * w[i]]

\* It has a solution, and each one ends with the product.
LEMMA ExactRuns ==
    ASSUME NEW n \in Nat, NEW w \in [1..n -> Nat]
    PROVE  /\ \E f : IsProduct(n, w, f)
           /\ \A f : IsProduct(n, w, f) => f[n] = Products(n, 1..n, w)[n]
           /\ Products(n, 1..n, w)[n] \in Nat
<1>. DEFINE q == Products(n, 1..n, w)
<1>1. /\ q \in [0..n -> Nat] /\ q[0] = 1
      /\ \A i \in 1..n : q[i - 1] \in Nat /\ w[i] \in Nat /\ q[i] = q[i - 1] * w[i]
  <2>1. 1..n \in SUBSET (1..n)
      OBVIOUS
  <2>. QED
      BY <2>1, ProductsAre
<1>. HIDE DEF q
<1>2. IsProduct(n, w, q)
  <2>1. \A i \in 0..n : q[i] = IF i = 0 THEN 1 ELSE q[i - 1] * w[i]
    <3>1. \A i \in 0..n : i = 0 \/ i \in 1..n
        OBVIOUS
    <3>. QED
        BY <1>1, <3>1
  <2>2. q = [i \in 0..n |-> q[i]]
      BY <1>1
  <2>. QED
      BY <2>1, <2>2 DEF IsProduct
<1>3. ASSUME NEW f, IsProduct(n, w, f)
      PROVE  f[n] = q[n]
  <2>. DEFINE S == {m \in Nat : m <= n => f[m] = q[m]}
  <2>1. \A i \in 0..n : f[i] = IF i = 0 THEN 1 ELSE f[i - 1] * w[i]
      BY <1>3 DEF IsProduct
  <2>2. 0 \in S
      BY <1>1, <2>1
  <2>3. ASSUME NEW m \in Nat, m \in S
        PROVE  m + 1 \in S
    <3>. SUFFICES ASSUME m + 1 <= n
                  PROVE  f[m + 1] = q[m + 1]
        OBVIOUS
    <3>1. /\ f[m] = q[m] /\ m + 1 \in 0..n /\ m + 1 \in 1..n /\ m + 1 # 0
          /\ (m + 1) - 1 = m
        BY <2>3
    <3>. QED
        BY <1>1, <2>1, <3>1
  <2>4. n \in S
      BY <2>2, <2>3, SetInduction
  <2>. QED
      BY <2>4
<1>4. q[n] \in Nat
  <2>1. n \in 0..n
      OBVIOUS
  <2>. QED
      BY <1>1, <2>1
<1>. QED
    BY <1>2, <1>3, <1>4 DEF q

\* ExactOdds and ExactUnit are these products.
LEMMA ExactPrices ==
    ASSUME NEW slip \in Seq(LegMarkets), \A i \in 1..Len(slip) : market[slip[i]].odds \in Nat
    PROVE  LET n == Len(slip) IN
           /\ ExactOdds(slip) = Products(n, 1..n, Prices(Read(slip)))[n]
           /\ ExactUnit(slip) = Products(n, 1..n, EvenMoney(n))[n]
           /\ ExactOdds(slip) \in Nat /\ ExactUnit(slip) \in Nat
<1>. DEFINE n == Len(slip)
            o == Prices(Read(slip))
            u == EvenMoney(n)
            Is(f) == f = [i \in 0..n |-> IF i = 0 THEN 1 ELSE f[i - 1] * market[slip[i]].odds]
            One(f) == f = [i \in 0..n |-> IF i = 0 THEN 1 ELSE f[i - 1] * Scale]
            g == CHOOSE f : Is(f)
            v == CHOOSE f : One(f)
<1>1. n \in Nat /\ DOMAIN slip = 1..n
    OBVIOUS
<1>2. /\ o \in [1..n -> Nat] /\ \A i \in 1..n : o[i] = market[slip[i]].odds
      /\ u \in [1..n -> Nat] /\ \A i \in 1..n : u[i] = Scale
  <2>1. Read(slip) = [i \in 1..n |-> [mkt |-> slip[i], odds |-> market[slip[i]].odds]]
      BY <1>1 DEF Read
  <2>2. DOMAIN Read(slip) = 1..n /\ Len(Read(slip)) = n
      BY <1>1, <2>1
  <2>3. o = [i \in 1..n |-> market[slip[i]].odds]
      BY <2>1, <2>2 DEF Prices
  <2>. QED
      BY <2>3, ScaleAssumption DEF EvenMoney
<1>3. ExactOdds(slip) = g[n]
    BY DEF ExactOdds, OverLegs
<1>4. ExactUnit(slip) = v[n]
    BY DEF ExactUnit, OverLegs
<1>5. \A f : IsProduct(n, o, f) => Is(f)
  <2>. SUFFICES ASSUME NEW f, IsProduct(n, o, f) PROVE Is(f)
      OBVIOUS
  <2>1. \A i \in 0..n : f[i] = IF i = 0 THEN 1 ELSE f[i - 1] * o[i]
      BY DEF IsProduct
  <2>2. \A i \in 0..n : f[i] = IF i = 0 THEN 1 ELSE f[i - 1] * market[slip[i]].odds
      BY <1>2, <2>1
  <2>3. f = [i \in 0..n |-> f[i]]
      BY DEF IsProduct
  <2>. QED
      BY <2>2, <2>3
<1>6. \A f : Is(f) => IsProduct(n, o, f)
  <2>. SUFFICES ASSUME NEW f, Is(f) PROVE IsProduct(n, o, f)
      OBVIOUS
  <2>1. \A i \in 0..n : f[i] = IF i = 0 THEN 1 ELSE f[i - 1] * market[slip[i]].odds
      OBVIOUS
  <2>2. \A i \in 0..n : f[i] = IF i = 0 THEN 1 ELSE f[i - 1] * o[i]
      BY <1>2, <2>1
  <2>3. f = [i \in 0..n |-> f[i]]
      OBVIOUS
  <2>. HIDE DEF Is
  <2>. QED
      BY <2>2, <2>3 DEF IsProduct
<1>7. \A f : IsProduct(n, u, f) => One(f)
  <2>. SUFFICES ASSUME NEW f, IsProduct(n, u, f) PROVE One(f)
      OBVIOUS
  <2>1. \A i \in 0..n : f[i] = IF i = 0 THEN 1 ELSE f[i - 1] * u[i]
      BY DEF IsProduct
  <2>2. \A i \in 0..n : f[i] = IF i = 0 THEN 1 ELSE f[i - 1] * Scale
      BY <1>2, <2>1
  <2>3. f = [i \in 0..n |-> f[i]]
      BY DEF IsProduct
  <2>. QED
      BY <2>2, <2>3
<1>8. \A f : One(f) => IsProduct(n, u, f)
  <2>. SUFFICES ASSUME NEW f, One(f) PROVE IsProduct(n, u, f)
      OBVIOUS
  <2>1. \A i \in 0..n : f[i] = IF i = 0 THEN 1 ELSE f[i - 1] * Scale
      OBVIOUS
  <2>2. \A i \in 0..n : f[i] = IF i = 0 THEN 1 ELSE f[i - 1] * u[i]
    <3>1. \A i \in 0..n : i # 0 => u[i] = Scale
        BY <1>1, <1>2
    <3>. HIDE DEF u, One
    <3>. QED
        BY <2>1, <3>1
  <2>3. f = [i \in 0..n |-> f[i]]
      OBVIOUS
  <2>. HIDE DEF One
  <2>. QED
      BY <2>2, <2>3 DEF IsProduct
<1>. HIDE DEF n, o, u, Is, One
<1>9. /\ \E f : IsProduct(n, o, f)
      /\ \A f : IsProduct(n, o, f) => f[n] = Products(n, 1..n, o)[n]
      /\ Products(n, 1..n, o)[n] \in Nat
    BY <1>1, <1>2, ExactRuns
<1>10. /\ \E f : IsProduct(n, u, f)
       /\ \A f : IsProduct(n, u, f) => f[n] = Products(n, 1..n, u)[n]
       /\ Products(n, 1..n, u)[n] \in Nat
    BY <1>1, <1>2, ExactRuns
<1>11. Is(g) /\ One(v)
  <2>1. (\E f : Is(f)) /\ \E f : One(f)
      BY <1>5, <1>7, <1>9, <1>10
  <2>. QED
      BY <2>1
<1>. HIDE DEF g, v
<1>12. g[n] = Products(n, 1..n, o)[n] /\ v[n] = Products(n, 1..n, u)[n]
    BY <1>6, <1>8, <1>9, <1>10, <1>11
<1>. QED
    BY <1>3, <1>4, <1>9, <1>10, <1>12 DEF n, o, u

\* What a quote offers, if its prices are at least even money, is at most the
\* exact product of them.
LEMMA QuotedBelowExact ==
    ASSUME NEW slip \in Seq(LegMarkets), slip # <<>>,
           \A i \in 1..Len(slip) : market[slip[i]].odds \in Nat /\ market[slip[i]].odds >= Scale
    PROVE  /\ QuotedOdds(slip) \in Nat
           /\ ExactOdds(slip) \in Nat /\ ExactUnit(slip) \in Nat
           /\ QuotedOdds(slip) * ExactUnit(slip) <= Scale * ExactOdds(slip)
<1>. DEFINE n == Len(slip)
            legs == Read(slip)
            o == Prices(legs)
            u == EvenMoney(n)
<1>1. n \in Nat /\ n >= 1 /\ DOMAIN slip = 1..n /\ \A i \in 1..n : slip[i] \in LegMarkets
    OBVIOUS
<1>2. /\ legs \in Seq(Leg) /\ Len(legs) = n
      /\ \A i \in 1..n : legs[i].odds = market[slip[i]].odds
  <2>1. legs = [i \in 1..n |-> [mkt |-> slip[i], odds |-> market[slip[i]].odds]]
      BY <1>1 DEF Read
  <2>2. \A i \in 1..n : [mkt |-> slip[i], odds |-> market[slip[i]].odds] \in Leg
      BY <1>1 DEF Leg
  <2>. HIDE DEF legs
  <2>. QED
      BY <1>1, <2>1, <2>2
<1>3. /\ ExactOdds(slip) = Products(n, 1..n, o)[n]
      /\ ExactUnit(slip) = Products(n, 1..n, u)[n]
      /\ ExactOdds(slip) \in Nat /\ ExactUnit(slip) \in Nat
    BY ExactPrices
<1>4. CASE n = 1
  <2>1. QuotedOdds(slip) = market[slip[1]].odds /\ market[slip[1]].odds \in Nat
      BY <1>1, <1>4 DEF QuotedOdds
  <2>2. /\ o \in [1..1 -> Nat] /\ u \in [1..1 -> Nat]
        /\ o[1] = market[slip[1]].odds /\ u[1] = Scale
      BY <1>2, <1>4, ScaleAssumption DEF Prices, EvenMoney
  <2>. HIDE DEF o, u
  <2>3. ASSUME NEW w \in [1..1 -> Nat]
        PROVE  Products(1, 1..1, w)[1] = w[1]
    <3>1. 1 \in Nat /\ 1..1 \in SUBSET (1..1) /\ 1 \in 1..1 /\ 1 - 1 = 0
        OBVIOUS
    <3>2. /\ Products(1, 1..1, w)[0] = 1
          /\ \A i \in 1..1 : i \in 1..1 => Products(1, 1..1, w)[i] = Products(1, 1..1, w)[i - 1] * w[i]
        BY <3>1, ProductsAre
    <3>3. Products(1, 1..1, w)[1] = 1 * w[1] /\ w[1] \in Nat
        BY <3>1, <3>2
    <3>. QED
        BY <3>3
  <2>4. ExactOdds(slip) = market[slip[1]].odds /\ ExactUnit(slip) = Scale
      BY <1>3, <1>4, <2>2, <2>3
  <2>5. \A x \in Nat : x * Scale <= Scale * x
    <3>1. \A x \in Nat : x * Scale \in Nat /\ x * Scale = Scale * x
        BY ScaleAssumption
    <3>. QED
        BY <3>1
  <2>. QED
      BY <1>3, <2>1, <2>4, <2>5
<1>5. CASE n # 1
  <2>1. QuotedOdds(slip) = ProductOdds(Fold(legs))
      BY <1>5 DEF QuotedOdds, QuotedLegs
  <2>2. \A i \in 1..Len(legs) : legs[i].odds >= Scale
      BY <1>2
  <2>. HIDE DEF legs
  <2>3. /\ ProductOdds(Fold(legs)) \in Nat
        /\ ProductOdds(Fold(legs)) * Products(n, 1..n, u)[n] <= Scale * Products(n, 1..n, o)[n]
    <3>1. /\ ProductOdds(Fold(legs)) \in Nat
          /\ ProductOdds(Fold(legs)) * Products(Len(legs), 1..Len(legs), EvenMoney(Len(legs)))[Len(legs)]
               <= Scale * Products(Len(legs), 1..Len(legs), Prices(legs))[Len(legs)]
        BY <1>2, <2>2, ParlayPrice
    <3>. QED
        BY <1>2, <3>1
  <2>. QED
      BY <1>3, <2>1, <2>3
<1>. QED
    BY <1>4, <1>5

\* A fair payment rounds down the worth of a payout: one token more is worth
\* at least as much.
LEMMA FairPayment ==
    ASSUME NEW a \in Nat, NEW o \in Nat, o > 0, NEW u \in Nat, NEW e \in Nat, o * u <= Scale * e
    PROVE  (((a * Scale) \div o) + 1) * e >= a * u
<1>. DEFINE f == (a * Scale) \div o
<1>1. Scale \in Nat /\ Scale > 0
    BY ScaleAssumption
<1>2. a * Scale \in Nat
    BY <1>1
<1>3. \A y \in Nat : y \div o \in Nat /\ y <= ((y \div o) + 1) * o
    OBVIOUS
<1>4. f \in Nat /\ a * Scale <= (f + 1) * o
    BY <1>2, <1>3
<1>. HIDE DEF f
<1>5. (a * Scale) * u <= ((f + 1) * o) * u
  <2>1. f + 1 \in Nat /\ (f + 1) * o \in Nat
      BY <1>4
  <2>. QED
      BY <1>2, <1>4, <2>1, ProductMonotone
<1>6. (o * u) * (f + 1) <= (Scale * e) * (f + 1)
  <2>1. f + 1 \in Nat /\ o * u \in Nat /\ Scale * e \in Nat
      BY <1>1, <1>4
  <2>. QED
      BY <2>1, ProductMonotone
<1>7. ((f + 1) * o) * u = (o * u) * (f + 1)
    BY <1>4
<1>8. (a * Scale) * u = Scale * (a * u) /\ (Scale * e) * (f + 1) = Scale * ((f + 1) * e)
    BY <1>1, <1>4
<1>9. a * u \in Nat /\ (f + 1) * e \in Nat
    BY <1>4
<1>10. Scale * (a * u) <= Scale * ((f + 1) * e)
  <2>1. /\ (a * Scale) * u \in Nat /\ ((f + 1) * o) * u \in Nat
        /\ (Scale * e) * (f + 1) \in Nat
      BY <1>1, <1>2, <1>4
  <2>. QED
      BY <1>5, <1>6, <1>7, <1>8, <2>1
<1>11. a * u <= (f + 1) * e
    BY <1>1, <1>9, <1>10, ProductCancels
<1>. QED
    BY <1>9, <1>11 DEF f

-----------------------------------------------------------------------------
(* Fills at the prices of now *)

\* An instruction t asks at the prices that the accounts hold now.
AsksNow(t) ==
    /\ t.slip \in Slips /\ t.amount \in Nat /\ t.op \in {"bet", "cashout"}
    /\ Readable(t.slip)
    /\ t.odds = QuotedOdds(t.slip)

\* What it offers is worth n, at these prices and by the user's limit.
OffersWorth(t, n) ==
    IF t.op = "bet" THEN t.odds >= t.floor /\ t.floor \in Nat
    ELSE t.odds > Scale /\ n = (t.amount * Scale) \div t.odds /\ n <= t.amount

\* From the question to the end of the transaction no account changes.
PriceInv ==
    /\ tx.stage = "asked" => AsksNow(tx) /\ OffersWorth(tx, tx.max)
    /\ tx.stage = "filled" => AsksNow(tx) /\ OffersWorth(tx, tx.paid)

\* Nothing is asked at the start.
LEMMA PricesStart == QuotingInit => PriceInv
BY DEF QuotingInit, PriceInv, NoTx

\* A fill asks for its quote first: what is offered is worth it at the prices
\* that were read, and the user's limit holds.
LEMMA TakeIsPriced ==
    ASSUME QuotingAssumption, NEW op \in {"bet", "cashout"}, NEW user \in Askers,
           NEW slip \in Slips, NEW amount \in QuoteAmounts, NEW floor \in Floors,
           Take(op, user, slip, amount, floor)
    PROVE  PriceInv'
<1>. DEFINE max == Offer(op, slip, amount, floor)
            odds == QuotedOdds(slip)
            fair == (amount * Scale) \div odds
<1>1. amount \in Nat /\ floor \in Nat
    BY DEF QuotingAssumption
<1>2. max > 0
    BY DEF Take, Ask
<1>0. Len(slip) = 1 \/ Len(slip) > 1
  <2>1. slip \in Seq(LegMarkets) /\ slip # <<>>
      BY DEF QuotingAssumption
  <2>2. Len(slip) \in Nat /\ Len(slip) # 0
      BY <2>1
  <2>3. \A n \in Nat : n # 0 => n = 1 \/ n > 1
      OBVIOUS
  <2>. QED
      BY <2>2, <2>3
<1>3. Readable(slip) /\ IF op = "bet" THEN odds >= floor ELSE odds > Scale /\ max = fair
  <2>1. CASE op = "bet" /\ Len(slip) = 1
    <3>1. max = GetQuote(slip, amount, floor)
        BY <2>1 DEF Offer
    <3>. QED
        BY <1>2, <2>1, <3>1 DEF GetQuote
  <2>2. CASE op = "bet" /\ Len(slip) > 1
    <3>1. max = GetQuoteParlay(slip, amount, floor)
        BY <1>1, <2>2 DEF Offer
    <3>. QED
        BY <1>2, <2>2, <3>1 DEF GetQuoteParlay
  <2>3. CASE op = "cashout"
    <3>2. Len(slip) = 1 => max = GetCashoutQuote(slip, amount, floor)
        BY <2>3 DEF Offer
    <3>3. Len(slip) > 1 => max = GetCashoutQuoteParlay(slip, amount, floor)
        BY <2>3 DEF Offer
    <3>4. max = GetCashoutQuote(slip, amount, floor)
        BY <1>0, <3>2, <3>3 DEF GetCashoutQuoteParlay
    <3>. QED
        BY <1>2, <2>3, <3>4 DEF GetCashoutQuote
  <2>. QED
      BY <1>0, <2>1, <2>2, <2>3
<1>4. op = "cashout" => max <= amount
    BY DEF Take, Accepts, AcceptCashoutPayment
<1>5. /\ tx'.stage = "asked" /\ tx'.op = op /\ tx'.slip = slip /\ tx'.amount = amount
      /\ tx'.floor = floor /\ tx'.max = max /\ tx'.odds = odds
    BY DEF Take
<1>. HIDE DEF max
<1>6. market' = market /\ event' = event
    BY DEF Take, oracle
<1>7. AsksNow(tx)'
  <2>1. Readable(tx.slip)' <=> Readable(slip)
      BY <1>5, <1>6 DEF Readable
  <2>2. QuotedOdds(tx.slip)' = odds
      BY <1>5, <1>6 DEF QuotedOdds, QuotedLegs, Read
  <2>. QED
      BY <1>1, <1>3, <1>5, <2>1, <2>2 DEF AsksNow
<1>8. OffersWorth(tx, tx.max)'
    BY <1>1, <1>3, <1>4, <1>5 DEF OffersWorth
<1>. QED
    BY <1>5, <1>7, <1>8 DEF PriceInv

\* A bet is filled with a part of what was offered, a cashout with all of it.
LEMMA FillIsPriced ==
    ASSUME PriceInv, FillQuote
    PROVE  PriceInv'
<1>1. AsksNow(tx) /\ OffersWorth(tx, tx.max)
    BY DEF PriceInv, FillQuote
<1>2. PICK n \in 1..tx.max :
          /\ tx.op = "cashout" => n = tx.max
          /\ tx' = [stage |-> "filled", op |-> tx.op, user |-> tx.user, slip |-> tx.slip,
                    amount |-> tx.amount, floor |-> tx.floor, paid |-> n,
                    legs |-> tx.legs, odds |-> tx.odds]
    BY DEF FillQuote
<1>3. /\ tx'.stage = "filled" /\ tx'.op = tx.op /\ tx'.slip = tx.slip /\ tx'.amount = tx.amount
      /\ tx'.floor = tx.floor /\ tx'.paid = n /\ tx'.odds = tx.odds
    BY <1>2
<1>4. market' = market /\ event' = event
    BY DEF FillQuote, oracle
<1>5. AsksNow(tx)'
  <2>1. Readable(tx.slip)' <=> Readable(tx.slip)
      BY <1>3, <1>4 DEF Readable
  <2>2. QuotedOdds(tx.slip)' = QuotedOdds(tx.slip)
      BY <1>3, <1>4 DEF QuotedOdds, QuotedLegs, Read
  <2>. QED
      BY <1>1, <1>3, <2>1, <2>2 DEF AsksNow
<1>6. OffersWorth(tx, tx.paid)'
    BY <1>1, <1>2, <1>3 DEF OffersWorth, AsksNow
<1>. QED
    BY <1>3, <1>5, <1>6 DEF PriceInv

\* The oracle and those who only ask come between transactions.
LEMMA NextIsPriced ==
    ASSUME QuotingAssumption, PriceInv, [QuotingNext]_quotingVars
    PROVE  PriceInv'
<1>1. ASSUME tx = NoTx \/ tx' = NoTx, tx' = tx \/ tx' = NoTx
      PROVE  PriceInv'
  <2>1. tx'.stage = "none"
      BY <1>1 DEF NoTx
  <2>. QED
      BY <2>1 DEF PriceInv
<1>2. CASE OracleStep /\ tx = NoTx
  <2>1. tx' = tx
      BY <1>2 DEF OracleStep, InitMarket, CloseMarket, SendUpdate, InitEvent,
                  UpdateEventState, CloseEvent, LandUpdate, DropUpdate
  <2>. QED
      BY <1>1, <1>2, <2>1, SMTT(30)
<1>3. ASSUME NEW user \in Askers, NEW amount \in QuoteAmounts, NEW floor \in Floors,
             tx = NoTx,
             \/ GetMarketQuotesProxy(user, amount, floor)
             \/ \E slip \in Slips : AsksOnly(user, slip, amount, floor)
      PROVE  PriceInv'
  <2>1. tx' = tx
      BY <1>3 DEF AsksOnly, AskDirectly, GetMarketQuotesProxy, GetQuoteProxy,
                  GetParlayQuoteProxy, GetCashoutQuoteProxy, GetCashoutParlayQuoteProxy,
                  AskOnly, AskCashout
  <2>. QED
      BY <1>1, <1>3, <2>1
<1>4. ASSUME NEW user \in Askers, NEW amount \in QuoteAmounts, NEW floor \in Floors,
             NEW slip \in Slips, NEW op \in {"bet", "cashout"},
             Take(op, user, slip, amount, floor)
      PROVE  PriceInv'
    BY <1>4, TakeIsPriced
<1>5. CASE FillQuote
    BY <1>5, FillIsPriced
<1>6. CASE Abort \/ Commit
    BY <1>1, <1>6 DEF Abort, Commit
<1>7. CASE UNCHANGED quotingVars
  <2>1. tx' = tx /\ market' = market /\ event' = event
      BY <1>7 DEF quotingVars
  <2>2. Readable(tx.slip)' <=> Readable(tx.slip)
      BY <2>1 DEF Readable
  <2>3. QuotedOdds(tx.slip)' = QuotedOdds(tx.slip)
      BY <2>1 DEF QuotedOdds, QuotedLegs, Read
  <2>. QED
      BY <2>1, <2>2, <2>3 DEF PriceInv, AsksNow, OffersWorth
<1>. QED
    BY <1>2, <1>3, <1>4, <1>5, <1>6, <1>7 DEF QuotingNext

\* Odds are decimal: a backend writes at least 1.0 for a market, or 0 to withdraw
\* it.  The program does not check it.
DecimalOdds == \A o \in OracleOdds : o = 0 \/ o >= Scale

\* An account of a slip that is asked about shows odds that a backend writes.
LEMMA ReadableIsPriced ==
    ASSUME QuotingAssumption, OracleInv, DecimalOdds,
           NEW slip \in Slips, Readable(slip), \A i \in DOMAIN slip : market[slip[i]].odds > 0
    PROVE  \A i \in 1..Len(slip) : market[slip[i]].odds \in Nat /\ market[slip[i]].odds >= Scale
<1>. SUFFICES ASSUME NEW i \in 1..Len(slip)
              PROVE  market[slip[i]].odds \in Nat /\ market[slip[i]].odds >= Scale
    OBVIOUS
<1>1. slip \in Seq(LegMarkets) /\ i \in DOMAIN slip /\ slip[i] \in LegMarkets
    BY DEF QuotingAssumption
<1>. DEFINE a == market[slip[i]]
            reached == landed[slip[i]]
<1>2. a.open /\ a.odds > 0 /\ a.odds \in Nat /\ reached \subseteq Update
    BY <1>1 DEF Readable, OracleInv, OracleAccount
<1>3. ShowsNewest(a, reached)
    BY <1>1, <1>2 DEF OracleInv
<1>. HIDE DEF a, reached
<1>4. a.odds \in OracleOdds
    BY <1>2, <1>3 DEF ShowsNewest, Update
<1>. QED
    BY <1>2, <1>4 DEF a, DecimalOdds

\* With prices of 0 or of at least 1.0, no fill is made at a price that the
\* market maker has replaced: a bet takes at most the product of the odds that
\* the accounts hold now, a cashout pays no more than the face payout and, to
\* the token, its worth at that product, and no event of the slip is live.
THEOREM FillsAreAtMarket ==
    ASSUME QuotingAssumption, DecimalOdds
    PROVE  QuotingSpec => []PaidAtMarket
<1>1. PriceInv /\ OracleInv => PaidAtMarket
  <2>. SUFFICES ASSUME PriceInv, OracleInv, tx.stage = "filled"
                PROVE  /\ \A i \in DOMAIN tx.slip : event[EventOf[tx.slip[i]]] = 1
                       /\ (\A i \in DOMAIN tx.slip : market[tx.slip[i]].odds > 0) =>
                            IF tx.op = "bet"
                            THEN /\ tx.floor <= tx.odds
                                 /\ tx.odds * ExactUnit(tx.slip) <= ExactOdds(tx.slip) * Scale
                            ELSE /\ tx.paid <= tx.amount
                                 /\ (tx.paid + 1) * ExactOdds(tx.slip)
                                      >= tx.amount * ExactUnit(tx.slip)
      BY DEF PaidAtMarket
  <2>1. AsksNow(tx) /\ OffersWorth(tx, tx.paid)
      BY DEF PriceInv
  <2>2. \A i \in DOMAIN tx.slip : event[EventOf[tx.slip[i]]] = 1
      BY <2>1 DEF AsksNow, Readable
  <2>3. ASSUME \A i \in DOMAIN tx.slip : market[tx.slip[i]].odds > 0
        PROVE  IF tx.op = "bet"
               THEN /\ tx.floor <= tx.odds
                    /\ tx.odds * ExactUnit(tx.slip) <= ExactOdds(tx.slip) * Scale
               ELSE /\ tx.paid <= tx.amount
                    /\ (tx.paid + 1) * ExactOdds(tx.slip) >= tx.amount * ExactUnit(tx.slip)
    <3>. DEFINE u == ExactUnit(tx.slip)
                e == ExactOdds(tx.slip)
    <3>1. tx.slip \in Seq(LegMarkets) /\ tx.slip # <<>>
        BY <2>1 DEF AsksNow, QuotingAssumption
    <3>2. \A i \in 1..Len(tx.slip) :
              market[tx.slip[i]].odds \in Nat /\ market[tx.slip[i]].odds >= Scale
        BY <2>1, <2>3, ReadableIsPriced DEF AsksNow
    <3>3. tx.odds \in Nat /\ u \in Nat /\ e \in Nat /\ tx.odds * u <= Scale * e
        BY <2>1, <3>1, <3>2, QuotedBelowExact DEF AsksNow
    <3>. HIDE DEF u, e
    <3>4. CASE tx.op = "bet"
      <4>1. tx.floor <= tx.odds
          BY <2>1, <3>3, <3>4 DEF OffersWorth
      <4>2. Scale * e = e * Scale
          BY <3>3, ScaleAssumption
      <4>. QED
          BY <3>3, <3>4, <4>1, <4>2 DEF u, e
    <3>5. CASE tx.op # "bet"
      <4>1. /\ tx.odds > Scale /\ tx.paid = (tx.amount * Scale) \div tx.odds
            /\ tx.paid <= tx.amount /\ tx.amount \in Nat
          BY <2>1, <3>5 DEF AsksNow, OffersWorth
      <4>2. tx.odds > 0
          BY <3>3, <4>1, ScaleAssumption
      <4>3. (tx.paid + 1) * e >= tx.amount * u
          BY <3>3, <4>1, <4>2, FairPayment
      <4>. QED
          BY <3>5, <4>1, <4>3 DEF u, e
    <3>. QED
        BY <3>4, <3>5
  <2>. QED
      BY <2>2, <2>3
<1>2. OracleInv /\ [QuotingNext]_quotingVars => OracleInv'
    BY NextKeepsOracle
<1>3. PriceInv /\ [QuotingNext]_quotingVars => PriceInv'
    BY NextIsPriced
<1>. QED
    BY OracleStarts, PricesStart, <1>1, <1>2, <1>3, PTL DEF QuotingSpec

-----------------------------------------------------------------------------
(* The promo market maker *)

OpenMarket == [open: {TRUE}, max: Nat, total: Nat, staked: Nat, odds: Nat, seq: Nat,
               allowed: SUBSET Bettors, bettors: SUBSET Bettors, started: BOOLEAN]

\* AccountKnowsBets of any account mk and bets bs.
FirstBets(mk, bs) == [u \in Bettors |-> IF u \in mk.bettors THEN bs[u][1] ELSE 0]
Allows(mk, u) == mk.allowed = {} \/ u \in mk.allowed
Knows(mk, bs) ==
    /\ mk.bettors = {u \in Bettors : bs[u] # << >>}
    /\ \A u \in mk.bettors : Len(bs[u]) = 1 /\ Allows(mk, u)
    /\ mk.staked = Total(FirstBets(mk, bs))
Sound(mk, bs) ==
    /\ bs \in [Bettors -> Seq(Nat)]
    /\ mk = NoPromoMarket \/ (mk \in OpenMarket /\ Knows(mk, bs))

CallFields == {"stage", "user", "amount", "odds", "seq", "buffer", "market", "bets"}

\* Between the quote and the fill of a transaction nothing changes what was
\* checked; what an abort restores is as sound as what there is.
PromoInv ==
    /\ Sound(promoMarket, bets)
    /\ call # NoCall => DOMAIN call = CallFields /\ Sound(call.market, call.bets)
    /\ call.stage \in {"none", "asked", "filled"} /\ (call.stage = "none" => call = NoCall)
    /\ call.stage = "asked" =>
          /\ promoMarket \in OpenMarket /\ call.user \in Bettors /\ call.amount \in Nat
          /\ Allows(promoMarket, call.user) /\ call.user \notin promoMarket.bettors
          /\ promoMarket.staked + call.amount <= promoMarket.total
          /\ ~promoBuffer.used /\ promoBuffer.user = call.user
          /\ promoBuffer.amount = call.amount
          /\ promoBuffer.odds = call.odds /\ promoBuffer.seq = call.seq

\* An open account is one with every field.
LEMMA OpenOrNot ==
    ASSUME NEW mk, NEW bs, Sound(mk, bs), mk.open
    PROVE  mk \in OpenMarket /\ Knows(mk, bs)
BY DEF Sound, NoPromoMarket

\* A new account knows no bets, and there are none.
LEMMA NewIsSound ==
    ASSUME PromoMakerAssumption,
           NEW max \in Limits, NEW total \in Limits, NEW allowed \in AllowLists
    PROVE  /\ NewMarket(max, total, allowed) \in OpenMarket
           /\ Sound(NewMarket(max, total, allowed), NoBets)
<1>. DEFINE mk == NewMarket(max, total, allowed)
<1>1. mk \in OpenMarket /\ mk.bettors = {} /\ mk.staked = 0
    BY DEF NewMarket, OpenMarket, PromoMakerAssumption
<1>2. NoBets \in [Bettors -> Seq(Nat)] /\ \A u \in Bettors : NoBets[u] = << >>
    BY DEF NoBets
<1>3. FirstBets(mk, NoBets) = [u \in Bettors |-> 0]
    BY <1>1 DEF FirstBets
<1>4. Total([u \in Bettors |-> 0]) = 0
    BY TotalZero
<1>. QED
    BY <1>1, <1>2, <1>3, <1>4 DEF Sound, Knows

\* Fields that AccountKnowsBets does not speak of.
LEMMA SameBetsSound ==
    ASSUME NEW mk \in OpenMarket, NEW nk \in OpenMarket, NEW bs, Sound(mk, bs),
           nk.bettors = mk.bettors, nk.staked = mk.staked, nk.allowed = mk.allowed
    PROVE  Sound(nk, bs)
<1>1. Knows(mk, bs)
  <2>1. mk.open
      BY DEF OpenMarket
  <2>. QED
      BY <2>1, OpenOrNot
<1>2. FirstBets(nk, bs) = FirstBets(mk, bs)
    BY DEF FirstBets
<1>. QED
    BY <1>1, <1>2 DEF Sound, Knows, Allows

\* Nothing is open at the start.
LEMMA PromoStarts == PromoMakerInit => PromoInv
BY DEF PromoMakerInit, PromoInv, Sound, NoBets, NoCall

\* Between transactions only the account and the bets matter.
LEMMA IdleKeeps ==
    ASSUME call = NoCall, call' = call, Sound(promoMarket, bets)'
    PROVE  PromoInv'
BY DEF PromoInv, NoCall

\* The admin's instructions, and the kick-off.
LEMMA AdminKeeps ==
    ASSUME PromoMakerAssumption, PromoInv, call = NoCall, AdminStep
    PROVE  PromoInv'
<1>1. Sound(promoMarket, bets) /\ Sound(NoPromoMarket, bets)
    BY DEF PromoInv, Sound
<1>2. Limits \subseteq Nat /\ PromoOdds \subseteq Nat
    BY DEF PromoMakerAssumption
<1>3. CASE UNCHANGED <<promoMarket, call, bets>>
    BY <1>1, <1>3, IdleKeeps
<1>4. CASE ClosePromoMarket \/ CloseMarketAndEvent
    BY <1>1, <1>4, IdleKeeps DEF ClosePromoMarket, CloseMarketAndEvent
<1>5. ASSUME Kickoff PROVE PromoInv'
  <2>1. promoMarket \in OpenMarket
      BY <1>1, <1>5, OpenOrNot DEF Kickoff
  <2>2. [promoMarket EXCEPT !.started = TRUE] \in OpenMarket
      BY <2>1 DEF OpenMarket
  <2>3. Sound([promoMarket EXCEPT !.started = TRUE], bets)
      BY <1>1, <2>1, <2>2, SameBetsSound DEF OpenMarket
  <2>. QED
      BY <1>5, <2>3, IdleKeeps DEF Kickoff
<1>6. ASSUME NEW limit \in Limits, SetMarketMaxAmount(limit) PROVE PromoInv'
  <2>1. promoMarket \in OpenMarket
      BY <1>1, <1>6, OpenOrNot DEF SetMarketMaxAmount
  <2>2. [promoMarket EXCEPT !.max = limit] \in OpenMarket
      BY <1>2, <2>1 DEF OpenMarket
  <2>3. Sound([promoMarket EXCEPT !.max = limit], bets)
      BY <1>1, <2>1, <2>2, SameBetsSound DEF OpenMarket
  <2>. QED
      BY <1>6, <2>3, IdleKeeps DEF SetMarketMaxAmount
<1>7. ASSUME NEW limit \in Limits, SetMarketMaxTotalAmount(limit) PROVE PromoInv'
  <2>1. promoMarket \in OpenMarket
      BY <1>1, <1>7, OpenOrNot DEF SetMarketMaxTotalAmount
  <2>2. [promoMarket EXCEPT !.total = limit] \in OpenMarket
      BY <1>2, <2>1 DEF OpenMarket
  <2>3. Sound([promoMarket EXCEPT !.total = limit], bets)
      BY <1>1, <2>1, <2>2, SameBetsSound DEF OpenMarket
  <2>. QED
      BY <1>7, <2>3, IdleKeeps DEF SetMarketMaxTotalAmount
<1>8. ASSUME NEW seq \in 1..PromoUpdates, NEW odds \in PromoOdds, UpdateOracle(seq, odds)
      PROVE  PromoInv'
  <2>1. promoMarket \in OpenMarket
      BY <1>1, <1>8, OpenOrNot DEF UpdateOracle
  <2>. DEFINE mk == [promoMarket EXCEPT !.seq = seq, !.odds = odds]
  <2>2. mk \in OpenMarket
    <3>1. seq \in Nat /\ odds \in Nat
        BY <1>2
    <3>2. [promoMarket EXCEPT !.seq = seq] \in OpenMarket
        BY <2>1, <3>1 DEF OpenMarket
    <3>. QED
        BY <3>1, <3>2 DEF OpenMarket
  <2>3. mk.bettors = promoMarket.bettors /\ mk.staked = promoMarket.staked
        /\ mk.allowed = promoMarket.allowed
      BY <2>1 DEF OpenMarket
  <2>. HIDE DEF mk
  <2>4. Sound(mk, bets)
      BY <1>1, <2>1, <2>2, <2>3, SameBetsSound
  <2>5. promoMarket' = mk /\ UNCHANGED <<call, bets>>
      BY <1>8 DEF UpdateOracle, mk
  <2>. QED
      BY <2>4, <2>5, IdleKeeps
<1>9. ASSUME NEW max \in Limits, NEW total \in Limits, NEW allowed \in AllowLists,
             InitPromoMarket(max, total, allowed)
      PROVE  PromoInv'
    BY <1>9, NewIsSound, IdleKeeps DEF InitPromoMarket
<1>10. ASSUME NEW max \in Limits, NEW total \in Limits, NEW allowed \in AllowLists,
              NEW seq \in 1..PromoUpdates, NEW odds \in PromoOdds,
              LandBootstrap(max, total, allowed, seq, odds)
       PROVE  PromoInv'
  <2>. DEFINE base == IF promoMarket.open THEN promoMarket ELSE NewMarket(max, total, allowed)
              after == IF promoMarket.open THEN bets ELSE NoBets
              mk == [base EXCEPT !.seq = seq, !.odds = odds]
  <2>1. base \in OpenMarket /\ Sound(base, after)
      BY <1>1, OpenOrNot, NewIsSound
  <2>2. promoMarket' = mk /\ bets' = after /\ call' = call
      BY <1>10 DEF LandBootstrap
  <2>. HIDE DEF base, after
  <2>3. mk \in OpenMarket
    <3>1. seq \in Nat /\ odds \in Nat
        BY <1>2
    <3>2. [base EXCEPT !.seq = seq] \in OpenMarket
        BY <2>1, <3>1 DEF OpenMarket
    <3>. QED
        BY <3>1, <3>2 DEF OpenMarket
  <2>4. mk.bettors = base.bettors /\ mk.staked = base.staked /\ mk.allowed = base.allowed
      BY <2>1 DEF OpenMarket
  <2>. HIDE DEF mk
  <2>5. Sound(mk, after)
      BY <2>1, <2>3, <2>4, SameBetsSound
  <2>. QED
      BY <2>2, <2>5, IdleKeeps
<1>. QED
  <2>1. CASE UpdateStatus \/ InitPromoEvent \/ ClosePromoEvent \/ PlanBootstrap
             \/ LoseBootstrap \/ (\E seq \in 0..2 : UpdatePromoEventState(seq))
      BY <1>3, <2>1 DEF UpdateStatus, InitPromoEvent, ClosePromoEvent, PlanBootstrap,
                        LoseBootstrap, UpdatePromoEventState
  <2>. QED
      BY <1>4, <1>5, <1>6, <1>7, <1>8, <1>9, <1>10, <2>1 DEF AdminStep

\* A transaction that goes on holds a quote of what the account still has room
\* for.
LEMMA AskKeeps ==
    ASSUME PromoMakerAssumption, PromoInv, call = NoCall,
           NEW u \in Bettors, NEW amount \in PromoStakes, NEW min_odds, NEW seq,
           GetPromoQuote(u, amount, min_odds, seq) \/ FillAsks(u, amount, min_odds, seq)
    PROVE  PromoInv'
<1>1. Sound(promoMarket, bets)
    BY DEF PromoInv
<1>2. UNCHANGED <<promoMarket, bets>>
    BY DEF GetPromoQuote, FillAsks, admin
<1>3. CASE call' = NoCall
    BY <1>1, <1>2, <1>3, IdleKeeps
<1>4. CASE call' # NoCall
  <2>. DEFINE most == Quoted(amount)
  <2>1. /\ Quotable(u, min_odds, seq)
        /\ call' = [stage |-> "asked", user |-> u, amount |-> most,
                    odds |-> promoMarket.odds, seq |-> seq,
                    buffer |-> promoBuffer, market |-> promoMarket, bets |-> bets]
        /\ promoBuffer' = [used |-> FALSE, user |-> u, amount |-> most,
                           odds |-> promoMarket.odds, seq |-> seq]
      BY <1>4 DEF GetPromoQuote, FillAsks, BufferAfter
  <2>2. promoMarket \in OpenMarket
      BY <1>1, <2>1, OpenOrNot DEF Quotable
  <2>3. most \in Nat /\ promoMarket.staked + most <= promoMarket.total
    <3>1. /\ amount \in Nat /\ promoMarket.max \in Nat /\ promoMarket.total \in Nat
          /\ promoMarket.staked \in Nat /\ promoMarket.staked < promoMarket.total
        BY <2>1, <2>2 DEF OpenMarket, PromoMakerAssumption, Quotable
    <3>. QED
        BY <3>1 DEF Quoted, LesserOf
  <2>. HIDE DEF most
  <2>4. Allows(promoMarket, u) /\ u \notin promoMarket.bettors
      BY <2>1 DEF Quotable, HasAllowed, HasBettor, Allows
  <2>5. call'.market = promoMarket /\ call'.bets = bets /\ DOMAIN call' = CallFields
      BY <2>1 DEF CallFields
  <2>. QED
      BY <1>1, <1>2, <2>1, <2>2, <2>3, <2>4, <2>5 DEF PromoInv
<1>. QED
    BY <1>3, <1>4

\* A fill adds its wallet and its stake to both the account and the bets.
LEMMA BettorIsSound ==
    ASSUME PromoMakerAssumption, promoMarket \in OpenMarket, Sound(promoMarket, bets),
           NEW u \in Bettors, NEW amount \in Nat \ {0},
           u \notin promoMarket.bettors, Allows(promoMarket, u)
    PROVE  Sound(WithBettor(u, amount), [bets EXCEPT ![u] = Append(@, amount)])
<1>. DEFINE mk == WithBettor(u, amount)
            bs == [bets EXCEPT ![u] = Append(@, amount)]
<1>1. Knows(promoMarket, bets) /\ bets \in [Bettors -> Seq(Nat)]
    BY OpenOrNot DEF Sound, OpenMarket
<1>2. bets[u] = << >>
    BY <1>1 DEF Knows
<1>3. /\ bs \in [Bettors -> Seq(Nat)] /\ bs[u] = <<amount>>
      /\ \A v \in Bettors \ {u} : bs[v] = bets[v]
  <2>1. Append(bets[u], amount) = <<amount>> /\ <<amount>> \in Seq(Nat)
      BY <1>2
  <2>. QED
      BY <1>1, <2>1
<1>4. /\ mk \in OpenMarket /\ mk.bettors = promoMarket.bettors \cup {u}
      /\ mk.staked = promoMarket.staked + amount /\ mk.allowed = promoMarket.allowed
  <2>. DEFINE added == promoMarket.bettors \cup {u}
              sum == promoMarket.staked + amount
  <2>1. added \in SUBSET Bettors /\ sum \in Nat
      BY DEF OpenMarket
  <2>2. mk = [promoMarket EXCEPT !.bettors = added, !.staked = sum]
      BY DEF WithBettor
  <2>. HIDE DEF mk, added, sum
  <2>3. [promoMarket EXCEPT !.bettors = added] \in OpenMarket
      BY <2>1 DEF OpenMarket
  <2>4. [promoMarket EXCEPT !.bettors = added, !.staked = sum] \in OpenMarket
      BY <2>1, <2>3 DEF OpenMarket
  <2>5. mk.bettors = added /\ mk.staked = sum /\ mk.allowed = promoMarket.allowed
      BY <2>2 DEF OpenMarket
  <2>. QED
      BY <2>2, <2>4, <2>5 DEF added, sum
<1>. HIDE DEF mk, bs
<1>5. <<amount>> # << >> /\ Len(<<amount>>) = 1 /\ <<amount>>[1] = amount
    OBVIOUS
<1>6. mk.bettors = {v \in Bettors : bs[v] # << >>}
    BY <1>1, <1>3, <1>4, <1>5 DEF Knows
<1>7. \A v \in mk.bettors : Len(bs[v]) = 1 /\ Allows(mk, v)
    BY <1>1, <1>3, <1>4, <1>5 DEF Knows, Allows, OpenMarket
<1>8. mk.staked = Total(FirstBets(mk, bs))
  <2>. DEFINE f == FirstBets(promoMarket, bets)
              g == FirstBets(mk, bs)
  <2>1. \A v \in promoMarket.bettors : bets[v][1] \in Nat
    <3>1. \A v \in promoMarket.bettors : bets[v] \in Seq(Nat) /\ Len(bets[v]) = 1
        BY <1>1 DEF Knows
    <3>. QED
        BY <3>1
  <2>2. f \in [Bettors -> Nat]
      BY <2>1 DEF FirstBets
  <2>3. f[u] = 0 /\ g[u] = amount
      BY <1>3, <1>4, <1>5 DEF FirstBets
  <2>4. \A v \in Bettors \ {u} : g[v] = f[v]
      BY <1>3, <1>4 DEF FirstBets
  <2>5. g \in [Bettors -> Nat]
    <3>1. \A v \in Bettors : g[v] \in Nat
        BY <2>2, <2>3, <2>4
    <3>. QED
        BY <3>1 DEF FirstBets
  <2>. HIDE DEF f, g
  <2>6. Total(g) = Total(f) - f[u] + g[u]
      BY <2>2, <2>4, <2>5, TotalUpdate DEF PromoMakerAssumption
  <2>7. Total(f) \in Nat
      BY <2>2, TotalType DEF PromoMakerAssumption
  <2>8. promoMarket.staked = Total(f)
      BY <1>1 DEF Knows, f
  <2>9. mk.staked = Total(g)
      BY <1>4, <2>3, <2>6, <2>7, <2>8
  <2>. QED
      BY <2>9 DEF g
<1>9. Sound(mk, bs)
    BY <1>3, <1>4, <1>6, <1>7, <1>8 DEF Sound, Knows
<1>. QED
    BY <1>9 DEF mk, bs

\* What is filled is part of the quote, of an account nobody has touched since.
LEMMA FillKeeps ==
    ASSUME PromoMakerAssumption, PromoInv, NEW amount \in {0} \cup Limits \cup PromoStakes,
           FillPromoQuote(amount)
    PROVE  PromoInv'
<1>1. /\ Sound(promoMarket, bets) /\ promoMarket \in OpenMarket
      /\ DOMAIN call = CallFields /\ Sound(call.market, call.bets) /\ call.user \in Bettors
      /\ Allows(promoMarket, call.user) /\ call.user \notin promoMarket.bettors
    BY DEF PromoInv, FillPromoQuote, NoCall
<1>2. amount \in Nat
    BY DEF PromoMakerAssumption
<1>3. Sound(promoMarket, bets)'
  <2>1. CASE amount = 0
      BY <1>1, <2>1 DEF FillPromoQuote
  <2>2. CASE amount # 0
    <3>1. Sound(WithBettor(call.user, amount), [bets EXCEPT ![call.user] = Append(@, amount)])
        BY <1>1, <1>2, <2>2, BettorIsSound
    <3>. QED
        BY <2>2, <3>1 DEF FillPromoQuote
  <2>. QED
      BY <2>1, <2>2
<1>4. /\ call' = [call EXCEPT !.stage = "filled"]
      /\ DOMAIN call' = CallFields /\ call'.stage = "filled"
      /\ call'.market = call.market /\ call'.bets = call.bets
    BY <1>1 DEF FillPromoQuote, CallFields
<1>5. call'.stage # "none" /\ call'.stage # "asked"
    BY <1>4
<1>. QED
    BY <1>1, <1>3, <1>4, <1>5 DEF PromoInv

\* An abort restores what the transaction found, a commit what it made.
LEMMA EndKeeps ==
    ASSUME PromoInv, AbortBet \/ CommitBet
    PROVE  PromoInv'
<1>1. call # NoCall /\ call' = NoCall /\ Sound(promoMarket, bets)
    BY DEF AbortBet, CommitBet, NoCall, PromoInv
<1>2. Sound(promoMarket, bets)'
  <2>1. CASE AbortBet
      BY <1>1, <2>1 DEF AbortBet, PromoInv
  <2>2. CASE CommitBet
      BY <1>1, <2>2 DEF CommitBet, admin
  <2>. QED
      BY <2>1, <2>2
<1>. QED
    BY <1>1, <1>2 DEF PromoInv, NoCall

\* Every step of the promo market maker keeps the invariant.
LEMMA PromoNextKeeps ==
    ASSUME PromoMakerAssumption, PromoInv, [PromoMakerNext]_promoVars
    PROVE  PromoInv'
<1>1. CASE UNCHANGED promoVars
    BY <1>1 DEF promoVars, PromoInv
<1>2. CASE PromoMakerNext
    BY <1>2, AdminKeeps, AskKeeps, FillKeeps, EndKeeps DEF PromoMakerNext
<1>. QED
    BY <1>1, <1>2

\* While a quote waits for its fill, every part of it can be filled.
LEMMA QuoteStands ==
    ASSUME PromoMakerAssumption, PromoInv
    PROVE  QuotedIsFillable
<1>. SUFFICES ASSUME call.stage = "asked", Cardinality(promoMarket.bettors) < MaxBettors,
                     NEW amount \in 1..call.amount
              PROVE  PromoCanFill(call.user, amount, call.odds, call.seq)
    BY DEF QuotedIsFillable
<1>1. /\ promoMarket \in OpenMarket /\ call.user \in Bettors /\ call.amount \in Nat
      /\ Allows(promoMarket, call.user) /\ call.user \notin promoMarket.bettors
      /\ promoMarket.staked + call.amount <= promoMarket.total
      /\ ~promoBuffer.used /\ promoBuffer.user = call.user
      /\ promoBuffer.amount = call.amount
      /\ promoBuffer.odds = call.odds /\ promoBuffer.seq = call.seq
    BY DEF PromoInv
<1>2. promoMarket.open /\ promoMarket.staked \in Nat /\ promoMarket.total \in Nat
    BY <1>1 DEF OpenMarket
<1>3. amount <= promoBuffer.amount /\ promoMarket.staked + amount <= promoMarket.total
    BY <1>1, <1>2
<1>. QED
    BY <1>1, <1>2, <1>3 DEF PromoCanFill, QuoteMatches, HasAllowed, HasBettor, Allows

\* A promo quote stands until its transaction ends, for every part of it and
\* whatever limits, lists and amounts there are, and the account's list and
\* total are those of the bets that count, through aborts and re-created
\* accounts.
THEOREM PromoQuotesStanding ==
    ASSUME PromoMakerAssumption
    PROVE  PromoMakerSpec => []PromoQuotesStand
<1>1. PromoInv => PromoQuotesStand
  <2>1. PromoInv => AccountKnowsBets
      BY OpenOrNot DEF PromoInv, AccountKnowsBets, Knows, FirstBets, Allows, HasAllowed
  <2>. QED
      BY <2>1, QuoteStands DEF PromoQuotesStand
<1>2. PromoInv /\ [PromoMakerNext]_promoVars => PromoInv'
    BY PromoNextKeeps
<1>. QED
    BY PromoStarts, <1>1, <1>2, PTL DEF PromoMakerSpec

-----------------------------------------------------------------------------
(* The array of lines stores the book *)

NettingLine == [key: Lines, open_0: Nat, open_1: Nat]
Arrays == {ls \in Seq(NettingLine) :
               \A i, j \in DOMAIN ls : i < j => ls[i].key < ls[j].key}

\* What an array ls holds, and what it says of the outcomes of a market.
LinesIn(ls) == {ls[i] : i \in DOMAIN ls}
KeysIn(ls) == {ls[i].key : i \in DOMAIN ls}
Outcome(line, side) == IF side = 2 THEN 0 ELSE IF side = 0 THEN line.open_0 ELSE line.open_1
OpenIn(ls, key, side) ==
    IF key \notin KeysIn(ls) THEN 0
    ELSE Outcome(ls[CHOOSE i \in DOMAIN ls : ls[i].key = key], side)

\* Where a line of this key goes: everything before is less, everything after more.
Place(ls, key, at) ==
    /\ at \in 0..Len(ls)
    /\ \A i \in 1..at : ls[i].key < key
    /\ \A i \in (at + 1)..Len(ls) : key < ls[i].key

\* A sequence with an element more, or one less.
LEMMA InsertShifts ==
    ASSUME NEW T, NEW s \in Seq(T), NEW at \in 0..Len(s), NEW e \in T
    PROVE  /\ InsertAt(s, at + 1, e) \in Seq(T) /\ Len(InsertAt(s, at + 1, e)) = Len(s) + 1
           /\ \A i \in 1..(Len(s) + 1) :
                  InsertAt(s, at + 1, e)[i] =
                      IF i <= at THEN s[i] ELSE IF i = at + 1 THEN e ELSE s[i - 1]
<1>. DEFINE n == Len(s)
            before == SubSeq(s, 1, (at + 1) - 1)
            after == SubSeq(s, at + 1, n)
            front == before \o <<e>>
<1>1. n \in Nat /\ at \in Nat /\ at <= n /\ \A i \in 1..n : s[i] \in T
    OBVIOUS
<1>2. before \in Seq(T) /\ Len(before) = at /\ \A i \in 1..at : before[i] = s[i]
  <2>1. (at + 1) - 1 = at /\ at \in Int
      OBVIOUS
  <2>2. \A i \in 1..at : s[i] \in T
      BY <1>1
  <2>. HIDE DEF n
  <2>3. /\ SubSeq(s, 1, at) \in Seq(T)
        /\ Len(SubSeq(s, 1, at)) = IF 1 <= at THEN at - 1 + 1 ELSE 0
        /\ \A i \in 1..(at - 1 + 1) : SubSeq(s, 1, at)[i] = s[1 + i - 1]
      BY <2>1, <2>2, SubSeqProperties
  <2>. QED
      BY <1>1, <2>1, <2>3
<1>3. /\ after \in Seq(T) /\ Len(after) = n - at
      /\ \A i \in 1..(n - at) : after[i] = s[at + i]
  <2>1. at + 1 \in Int /\ n \in Int /\ \A i \in (at + 1)..n : s[i] \in T
      BY <1>1
  <2>. HIDE DEF n
  <2>2. /\ SubSeq(s, at + 1, n) \in Seq(T)
        /\ Len(SubSeq(s, at + 1, n)) = IF at + 1 <= n THEN n - (at + 1) + 1 ELSE 0
        /\ \A i \in 1..(n - (at + 1) + 1) : SubSeq(s, at + 1, n)[i] = s[(at + 1) + i - 1]
      BY <2>1, SubSeqProperties
  <2>3. /\ n - (at + 1) + 1 = n - at
        /\ (IF at + 1 <= n THEN n - (at + 1) + 1 ELSE 0) = n - at
        /\ \A i \in 1..(n - at) : (at + 1) + i - 1 = at + i
      BY <1>1
  <2>. QED
      BY <2>2, <2>3
<1>4. InsertAt(s, at + 1, e) = front \o after
    BY DEF InsertAt
<1>. HIDE DEF n, before, after
<1>5. /\ front \in Seq(T) /\ Len(front) = at + 1
      /\ \A i \in 1..(at + 1) : front[i] = IF i <= at THEN s[i] ELSE e
    BY <1>1, <1>2
<1>. HIDE DEF front
<1>6. /\ front \o after \in Seq(T) /\ Len(front \o after) = (at + 1) + (n - at)
      /\ \A i \in 1..((at + 1) + (n - at)) :
             (front \o after)[i] = IF i <= at + 1 THEN front[i] ELSE after[i - (at + 1)]
  <2>1. /\ front \o after \in Seq(T) /\ Len(front \o after) = Len(front) + Len(after)
        /\ \A i \in 1..(Len(front) + Len(after)) :
               (front \o after)[i] =
                   IF i <= Len(front) THEN front[i] ELSE after[i - Len(front)]
      BY <1>3, <1>5, ConcatProperties, Zenon
  <2>2. Len(front) = at + 1 /\ Len(after) = n - at
      BY <1>3, <1>5
  <2>. QED
      BY <2>1, <2>2, Zenon
<1>. DEFINE all == front \o after
<1>. HIDE DEF all
<1>7. \A i \in 1..(n + 1) :
          all[i] = IF i <= at THEN s[i] ELSE IF i = at + 1 THEN e ELSE s[i - 1]
  <2>. SUFFICES ASSUME NEW i \in 1..(n + 1)
                PROVE  all[i] =
                           IF i <= at THEN s[i] ELSE IF i = at + 1 THEN e ELSE s[i - 1]
      OBVIOUS
  <2>1. i \in 1..((at + 1) + (n - at)) /\ i \in Nat
      BY <1>1
  <2>. USE DEF all
  <2>2. CASE i <= at + 1
    <3>1. all[i] = front[i] /\ i \in 1..(at + 1)
        BY <1>6, <2>1, <2>2
    <3>. HIDE DEF all
    <3>. QED
        BY <1>1, <1>5, <2>2, <3>1
  <2>3. CASE i > at + 1
    <3>1. i - (at + 1) \in 1..(n - at) /\ at + (i - (at + 1)) = i - 1
        BY <1>1, <2>1, <2>3
    <3>2. all[i] = after[i - (at + 1)]
        BY <1>1, <1>6, <2>1, <2>3
    <3>. HIDE DEF all
    <3>3. after[i - (at + 1)] = s[i - 1]
        BY <1>3, <3>1
    <3>. QED
        BY <1>1, <2>1, <2>3, <3>2, <3>3
  <2>. HIDE DEF all
  <2>. QED
      BY <1>1, <2>1, <2>2, <2>3
<1>8. (at + 1) + (n - at) = n + 1
    BY <1>1
<1>. QED
    BY <1>4, <1>6, <1>7, <1>8, Zenon DEF n, all

\* A sequence without one of its elements.
LEMMA RemoveShifts ==
    ASSUME NEW T, NEW s \in Seq(T), NEW at \in 1..Len(s)
    PROVE  /\ RemoveAt(s, at) \in Seq(T) /\ Len(RemoveAt(s, at)) = Len(s) - 1
           /\ \A i \in 1..(Len(s) - 1) :
                  RemoveAt(s, at)[i] = IF i < at THEN s[i] ELSE s[i + 1]
<1>. DEFINE n == Len(s)
            before == SubSeq(s, 1, at - 1)
            after == SubSeq(s, at + 1, n)
<1>1. n \in Nat /\ at \in Nat /\ at >= 1 /\ at <= n /\ \A i \in 1..n : s[i] \in T
    OBVIOUS
<1>2. before \in Seq(T) /\ Len(before) = at - 1 /\ \A i \in 1..(at - 1) : before[i] = s[i]
  <2>1. at - 1 \in Int /\ \A i \in 1..(at - 1) : s[i] \in T
      BY <1>1
  <2>2. /\ SubSeq(s, 1, at - 1) \in Seq(T)
        /\ Len(SubSeq(s, 1, at - 1)) = IF 1 <= at - 1 THEN (at - 1) - 1 + 1 ELSE 0
        /\ \A i \in 1..((at - 1) - 1 + 1) : SubSeq(s, 1, at - 1)[i] = s[1 + i - 1]
      BY <2>1, SubSeqProperties
  <2>. QED
      BY <1>1, <2>2
<1>3. /\ after \in Seq(T) /\ Len(after) = n - at
      /\ \A i \in 1..(n - at) : after[i] = s[at + i]
  <2>1. at + 1 \in Int /\ n \in Int /\ \A i \in (at + 1)..n : s[i] \in T
      BY <1>1
  <2>. HIDE DEF n
  <2>2. /\ SubSeq(s, at + 1, n) \in Seq(T)
        /\ Len(SubSeq(s, at + 1, n)) = IF at + 1 <= n THEN n - (at + 1) + 1 ELSE 0
        /\ \A i \in 1..(n - (at + 1) + 1) : SubSeq(s, at + 1, n)[i] = s[(at + 1) + i - 1]
      BY <2>1, SubSeqProperties
  <2>3. /\ n - (at + 1) + 1 = n - at
        /\ (IF at + 1 <= n THEN n - (at + 1) + 1 ELSE 0) = n - at
        /\ \A i \in 1..(n - at) : (at + 1) + i - 1 = at + i
      BY <1>1
  <2>. QED
      BY <2>2, <2>3
<1>4. RemoveAt(s, at) = before \o after
    BY DEF RemoveAt
<1>. HIDE DEF n, before, after
<1>5. /\ before \o after \in Seq(T) /\ Len(before \o after) = (at - 1) + (n - at)
      /\ \A i \in 1..((at - 1) + (n - at)) :
             (before \o after)[i] = IF i <= at - 1 THEN before[i] ELSE after[i - (at - 1)]
  <2>1. /\ before \o after \in Seq(T) /\ Len(before \o after) = Len(before) + Len(after)
        /\ \A i \in 1..(Len(before) + Len(after)) :
               (before \o after)[i] =
                   IF i <= Len(before) THEN before[i] ELSE after[i - Len(before)]
      BY <1>2, <1>3, ConcatProperties, Zenon
  <2>2. Len(before) = at - 1 /\ Len(after) = n - at
      BY <1>2, <1>3
  <2>. QED
      BY <2>1, <2>2, Zenon
<1>. DEFINE all == before \o after
<1>. HIDE DEF all
<1>6. \A i \in 1..(n - 1) : all[i] = IF i < at THEN s[i] ELSE s[i + 1]
  <2>. SUFFICES ASSUME NEW i \in 1..(n - 1)
                PROVE  all[i] = IF i < at THEN s[i] ELSE s[i + 1]
      OBVIOUS
  <2>1. i \in 1..((at - 1) + (n - at)) /\ i \in Nat
      BY <1>1
  <2>. USE DEF all
  <2>2. CASE i < at
    <3>1. all[i] = before[i] /\ i \in 1..(at - 1)
        BY <1>1, <1>5, <2>1, <2>2
    <3>. HIDE DEF all
    <3>. QED
        BY <1>2, <2>2, <3>1
  <2>3. CASE i >= at
    <3>1. i - (at - 1) \in 1..(n - at) /\ at + (i - (at - 1)) = i + 1
        BY <1>1, <2>1, <2>3
    <3>2. all[i] = after[i - (at - 1)]
        BY <1>1, <1>5, <2>1, <2>3
    <3>. HIDE DEF all
    <3>3. after[i - (at - 1)] = s[i + 1]
        BY <1>3, <3>1
    <3>. QED
        BY <1>1, <2>1, <2>3, <3>2, <3>3
  <2>. HIDE DEF all
  <2>. QED
      BY <1>1, <2>1, <2>2, <2>3
<1>7. (at - 1) + (n - at) = n - 1
    BY <1>1
<1>. QED
    BY <1>4, <1>5, <1>6, <1>7, Zenon DEF n, all

\* Lines of an array are told apart by their keys.
LEMMA ArrayKeys ==
    ASSUME NettingLinesAssumption, NEW ls \in Arrays
    PROVE  /\ ls \in Seq(NettingLine) /\ Len(ls) \in Nat /\ DOMAIN ls = 1..Len(ls)
           /\ \A i \in DOMAIN ls : ls[i] \in NettingLine /\ ls[i].key \in Nat
           /\ \A i, j \in DOMAIN ls : ls[i].key = ls[j].key => i = j
<1>1. ls \in Seq(NettingLine)
    BY DEF Arrays
<1>2. Len(ls) \in Nat /\ DOMAIN ls = 1..Len(ls)
    BY <1>1
<1>3. \A i \in DOMAIN ls : ls[i] \in NettingLine
    BY <1>1
<1>4. \A i \in DOMAIN ls : ls[i].key \in Nat
    BY <1>3 DEF NettingLine, NettingLinesAssumption, Mkts
<1>5. ASSUME NEW i \in DOMAIN ls, NEW j \in DOMAIN ls, ls[i].key = ls[j].key
      PROVE  i = j
  <2>1. i < j => ls[i].key < ls[j].key
      BY DEF Arrays
  <2>2. j < i => ls[j].key < ls[i].key
      BY DEF Arrays
  <2>. QED
      BY <1>2, <1>4, <1>5, <2>1, <2>2
<1>. QED
    BY <1>1, <1>2, <1>3, <1>4, <1>5

\* What it says of a market is what the market's line says.
LEMMA ArrayOpen ==
    ASSUME NettingLinesAssumption, NEW ls \in Arrays, NEW side
    PROVE  /\ \A line \in LinesIn(ls) : OpenIn(ls, line.key, side) = Outcome(line, side)
           /\ \A key : (\A line \in LinesIn(ls) : line.key # key) => OpenIn(ls, key, side) = 0
<1>1. ASSUME NEW line \in LinesIn(ls)
      PROVE  OpenIn(ls, line.key, side) = Outcome(line, side)
  <2>1. PICK i \in DOMAIN ls : line = ls[i]
      BY DEF LinesIn
  <2>. DEFINE j == CHOOSE j \in DOMAIN ls : ls[j].key = line.key
  <2>2. j \in DOMAIN ls /\ ls[j].key = line.key
      BY <2>1
  <2>3. j = i
      BY <2>1, <2>2, ArrayKeys
  <2>. HIDE DEF j
  <2>4. line.key \in KeysIn(ls)
      BY <2>1 DEF KeysIn
  <2>. QED
      BY <2>1, <2>3, <2>4 DEF OpenIn, j
<1>2. ASSUME NEW key, \A line \in LinesIn(ls) : line.key # key
      PROVE  OpenIn(ls, key, side) = 0
    BY <1>2 DEF OpenIn, KeysIn, LinesIn
<1>. QED
    BY <1>1, <1>2

\* There are as many keys as lines.
LEMMA ArrayCount ==
    ASSUME NettingLinesAssumption, NEW ls \in Arrays
    PROVE  IsFiniteSet(KeysIn(ls)) /\ Cardinality(KeysIn(ls)) = Len(ls)
<1>. DEFINE n == Len(ls)
            f == [i \in 1..n |-> ls[i].key]
<1>1. /\ n \in Nat /\ DOMAIN ls = 1..n
      /\ \A i, j \in 1..n : ls[i].key = ls[j].key => i = j
    BY ArrayKeys
<1>2. IsFiniteSet(1..n) /\ Cardinality(1..n) = n
    BY <1>1, FS_Interval
<1>3. f \in Surjection(1..n, KeysIn(ls)) /\ f \in Injection(1..n, KeysIn(ls))
  <2>1. f \in [1..n -> KeysIn(ls)]
      BY <1>1 DEF KeysIn
  <2>2. \A key \in KeysIn(ls) : \E i \in 1..n : f[i] = key
      BY <1>1 DEF KeysIn
  <2>. QED
      BY <1>1, <2>1, <2>2 DEF Surjection, Injection, IsInjective
<1>. HIDE DEF f
<1>. QED
    BY <1>2, <1>3, FS_Surjection

\* Shifting the tail up makes room for one line.
LEMMA LineInserted ==
    ASSUME NettingLinesAssumption, NEW ls \in Arrays, NEW at, NEW line \in NettingLine,
           Place(ls, line.key, at)
    PROVE  /\ InsertAt(ls, at + 1, line) \in Arrays
           /\ LinesIn(InsertAt(ls, at + 1, line)) = LinesIn(ls) \cup {line}
           /\ \A other \in LinesIn(ls) : other.key # line.key
<1>. DEFINE ms == InsertAt(ls, at + 1, line)
            n == Len(ls)
<1>1. /\ ls \in Seq(NettingLine) /\ n \in Nat /\ DOMAIN ls = 1..n
      /\ \A i \in 1..n : ls[i] \in NettingLine /\ ls[i].key \in Nat
    BY ArrayKeys
<1>2. at \in 0..n /\ line.key \in Nat
    BY DEF Place, NettingLine, NettingLinesAssumption, Mkts
<1>3. /\ ms \in Seq(NettingLine) /\ Len(ms) = n + 1
      /\ \A i \in 1..(n + 1) :
             ms[i] = IF i <= at THEN ls[i] ELSE IF i = at + 1 THEN line ELSE ls[i - 1]
  <2>1. /\ InsertAt(ls, at + 1, line) \in Seq(NettingLine)
        /\ Len(InsertAt(ls, at + 1, line)) = Len(ls) + 1
        /\ \A i \in 1..(Len(ls) + 1) :
               InsertAt(ls, at + 1, line)[i] =
                   IF i <= at THEN ls[i] ELSE IF i = at + 1 THEN line ELSE ls[i - 1]
    <3>1. ls \in Seq(NettingLine) /\ at \in 0..Len(ls) /\ line \in NettingLine
        BY <1>1, <1>2
    <3>. HIDE DEF ms, n
    <3>. QED
        BY <3>1, InsertShifts
  <2>. QED
      BY <2>1, Zenon
<1>. HIDE DEF ms
<1>4. \A i, j \in 1..n : i < j => ls[i].key < ls[j].key
    BY <1>1 DEF Arrays
<1>5. /\ \A i \in 1..at : ls[i].key < line.key
      /\ \A i \in (at + 1)..n : line.key < ls[i].key
    BY DEF Place
<1>6. \A i, j \in 1..(n + 1) : i < j => ms[i].key < ms[j].key
  <2>. SUFFICES ASSUME NEW i \in 1..(n + 1), NEW j \in 1..(n + 1), i < j
                PROVE  ms[i].key < ms[j].key
      OBVIOUS
  <2>. HIDE DEF n
  <2>1. CASE j <= at
      BY <1>1, <1>2, <1>3, <1>4, <2>1
  <2>2. CASE i <= at /\ j = at + 1
      BY <1>1, <1>2, <1>3, <1>5, <2>2
  <2>3. CASE i <= at /\ j > at + 1
    <3>1. i \in 1..n /\ j - 1 \in 1..n /\ i < j - 1
        BY <1>1, <1>2, <2>3
    <3>. QED
        BY <1>2, <1>3, <1>4, <2>3, <3>1
  <2>4. CASE i = at + 1
    <3>1. j - 1 \in (at + 1)..n
        BY <1>1, <1>2, <2>4
    <3>. QED
        BY <1>2, <1>3, <1>5, <2>4, <3>1
  <2>5. CASE i > at + 1
    <3>1. i - 1 \in 1..n /\ j - 1 \in 1..n /\ i - 1 < j - 1
        BY <1>1, <1>2, <2>5
    <3>. QED
        BY <1>2, <1>3, <1>4, <2>5, <3>1
  <2>. QED
      BY <1>2, <2>1, <2>2, <2>3, <2>4, <2>5
<1>7. ms \in Arrays /\ DOMAIN ms = 1..(n + 1)
    BY <1>3, <1>6 DEF Arrays
<1>8. LinesIn(ms) = LinesIn(ls) \cup {line}
  <2>1. \A i \in 1..(n + 1) : ms[i] \in LinesIn(ls) \cup {line}
    <3>1. \A i \in 1..n : ls[i] \in LinesIn(ls)
        BY <1>1 DEF LinesIn
    <3>. QED
        BY <1>1, <1>2, <1>3, <3>1
  <2>2. line \in LinesIn(ms)
    <3>1. at + 1 \in 1..(n + 1) /\ ms[at + 1] = line
        BY <1>1, <1>2, <1>3
    <3>. QED
        BY <1>7, <3>1 DEF LinesIn
  <2>3. \A i \in 1..n : ls[i] \in LinesIn(ms)
    <3>. SUFFICES ASSUME NEW i \in 1..n
                  PROVE  ls[i] \in LinesIn(ms)
        OBVIOUS
    <3>1. CASE i <= at
      <4>1. i \in 1..(n + 1) /\ ms[i] = ls[i]
          BY <1>1, <1>2, <1>3, <3>1
      <4>. QED
          BY <1>7, <4>1 DEF LinesIn
    <3>2. CASE i > at
      <4>1. i + 1 \in 1..(n + 1) /\ ms[i + 1] = ls[i]
          BY <1>1, <1>2, <1>3, <3>2
      <4>. QED
          BY <1>7, <4>1 DEF LinesIn
    <3>. QED
        BY <1>2, <3>1, <3>2
  <2>4. LinesIn(ls) = {ls[i] : i \in 1..n} /\ LinesIn(ms) = {ms[i] : i \in 1..(n + 1)}
      BY <1>1, <1>7 DEF LinesIn
  <2>. QED
      BY <2>1, <2>2, <2>3, <2>4
<1>9. \A i \in 1..n : ls[i].key # line.key
    BY <1>1, <1>2, <1>5
<1>. QED
    BY <1>1, <1>7, <1>8, <1>9 DEF LinesIn, ms

\* Shifting the tail down takes one line away.
LEMMA LineRemoved ==
    ASSUME NettingLinesAssumption, NEW ls \in Arrays, NEW at \in DOMAIN ls
    PROVE  /\ RemoveAt(ls, at) \in Arrays
           /\ LinesIn(RemoveAt(ls, at)) = LinesIn(ls) \ {ls[at]}
<1>. DEFINE ms == RemoveAt(ls, at)
            n == Len(ls)
<1>1. /\ ls \in Seq(NettingLine) /\ n \in Nat /\ DOMAIN ls = 1..n
      /\ \A i \in 1..n : ls[i] \in NettingLine /\ ls[i].key \in Nat
      /\ \A i, j \in 1..n : ls[i].key = ls[j].key => i = j
    BY ArrayKeys
<1>2. at \in 1..n /\ at \in Nat
    BY <1>1, SMTT(30)
<1>3. /\ ms \in Seq(NettingLine) /\ Len(ms) = n - 1
      /\ \A i \in 1..(n - 1) : ms[i] = IF i < at THEN ls[i] ELSE ls[i + 1]
    BY <1>1, <1>2, RemoveShifts, Zenon
<1>. HIDE DEF ms
<1>4. \A i, j \in 1..n : i < j => ls[i].key < ls[j].key
    BY <1>1 DEF Arrays
<1>. HIDE DEF n
<1>5. \A i, j \in 1..(n - 1) : i < j => ms[i].key < ms[j].key
  <2>. SUFFICES ASSUME NEW i \in 1..(n - 1), NEW j \in 1..(n - 1), i < j
                PROVE  ms[i].key < ms[j].key
      OBVIOUS
  <2>1. i \in 1..n /\ j \in 1..n /\ i + 1 \in 1..n /\ j + 1 \in 1..n
        /\ i + 1 < j + 1 /\ i < j + 1 /\ i \in Nat /\ j \in Nat
      BY <1>1
  <2>2. CASE j < at
      BY <1>2, <1>3, <1>4, <2>1, <2>2
  <2>3. CASE i < at /\ ~(j < at)
      BY <1>3, <1>4, <2>1, <2>3
  <2>4. CASE ~(i < at) /\ ~(j < at)
      BY <1>3, <1>4, <2>1, <2>4
  <2>. QED
      BY <1>2, <2>1, <2>2, <2>3, <2>4
<1>6. ms \in Arrays /\ DOMAIN ms = 1..(n - 1)
  <2>1. DOMAIN ms = 1..(n - 1)
      BY <1>3
  <2>. QED
      BY <1>3, <1>5, <2>1 DEF Arrays
<1>7. \A i \in 1..(n - 1) : ms[i] \in {ls[k] : k \in (1..n) \ {at}}
  <2>. SUFFICES ASSUME NEW i \in 1..(n - 1)
                PROVE  \E k \in (1..n) \ {at} : ms[i] = ls[k]
      OBVIOUS
  <2>1. CASE i < at
    <3>1. i \in (1..n) \ {at} /\ ms[i] = ls[i]
        BY <1>1, <1>2, <1>3, <2>1
    <3>. QED
        BY <3>1
  <2>2. CASE ~(i < at)
    <3>1. i + 1 \in (1..n) \ {at} /\ ms[i] = ls[i + 1]
        BY <1>1, <1>2, <1>3, <2>2
    <3>. QED
        BY <3>1
  <2>. QED
      BY <2>1, <2>2
<1>8. \A k \in (1..n) \ {at} : ls[k] \in {ms[i] : i \in 1..(n - 1)}
  <2>. SUFFICES ASSUME NEW k \in (1..n) \ {at}
                PROVE  \E i \in 1..(n - 1) : ls[k] = ms[i]
      OBVIOUS
  <2>1. CASE k < at
    <3>1. k \in 1..(n - 1) /\ ms[k] = ls[k]
        BY <1>1, <1>2, <1>3, <2>1
    <3>. QED
        BY <3>1
  <2>2. CASE ~(k < at)
    <3>1. k - 1 \in 1..(n - 1) /\ ~(k - 1 < at) /\ (k - 1) + 1 = k
        BY <1>1, <1>2, <2>2
    <3>2. ms[k - 1] = ls[k]
        BY <1>3, <3>1
    <3>. QED
        BY <3>1, <3>2
  <2>. QED
      BY <2>1, <2>2
<1>9. \A k \in 1..n : k # at => ls[k] # ls[at]
    BY <1>1, <1>2
<1>10. LinesIn(ms) = {ms[i] : i \in 1..(n - 1)} /\ LinesIn(ls) = {ls[k] : k \in 1..n}
    BY <1>1, <1>6 DEF LinesIn
<1>11. LinesIn(ms) = LinesIn(ls) \ {ls[at]}
    BY <1>7, <1>8, <1>9, <1>10
<1>. QED
    BY <1>6, <1>11 DEF ms

\* Writing a line of the same key in its place.
WithLine(ls, at, line) == [ls EXCEPT ![at] = line]

\* The array keeps its order and has the new line for the old one.
LEMMA LineWritten ==
    ASSUME NettingLinesAssumption, NEW ls \in Arrays, NEW at \in DOMAIN ls,
           NEW line \in NettingLine, line.key = ls[at].key
    PROVE  /\ WithLine(ls, at, line) \in Arrays
           /\ LinesIn(WithLine(ls, at, line)) = (LinesIn(ls) \ {ls[at]}) \cup {line}
<1>. DEFINE ms == WithLine(ls, at, line)
<1>1. /\ ls \in Seq(NettingLine) /\ Len(ls) \in Nat /\ DOMAIN ls = 1..Len(ls)
      /\ \A i \in DOMAIN ls : ls[i] \in NettingLine /\ ls[i].key \in Nat
      /\ \A i, j \in DOMAIN ls : ls[i].key = ls[j].key => i = j
    BY ArrayKeys
<1>2. /\ ms \in Seq(NettingLine) /\ DOMAIN ms = DOMAIN ls
      /\ \A i \in DOMAIN ls : ms[i] = IF i = at THEN line ELSE ls[i]
    BY <1>1 DEF WithLine
<1>. HIDE DEF ms
<1>3. \A i \in DOMAIN ls : ms[i].key = ls[i].key
    BY <1>2
<1>4. ms \in Arrays
    BY <1>2, <1>3 DEF Arrays
<1>5. LinesIn(ms) = (LinesIn(ls) \ {ls[at]}) \cup {line}
  <2>1. \A i \in DOMAIN ls : i # at => ls[i] # ls[at] /\ ms[i] = ls[i]
      BY <1>1, <1>2
  <2>2. ms[at] = line
      BY <1>2
  <2>. QED
      BY <1>2, <2>1, <2>2 DEF LinesIn
<1>. QED
    BY <1>4, <1>5 DEF ms

-----------------------------------------------------------------------------
(* The search *)

\* What the loop has found out after k rounds.
Narrowed(key, k, s) ==
    /\ s \in [found: BOOLEAN, at: Nat, hi: Nat] /\ s.at <= s.hi /\ s.hi <= Len(lines)
    /\ s.found => s.at < Len(lines) /\ lines[s.at + 1].key = key
    /\ ~s.found =>
          /\ s.hi - s.at <= Len(lines) - k
          /\ \A i \in 1..s.at : lines[i].key < key
          /\ \A i \in (s.hi + 1)..Len(lines) : key < lines[i].key

\* A round keeps what was found out and narrows the rest.
LEMMA RoundNarrows ==
    ASSUME NettingLinesAssumption, lines \in Arrays, NEW key \in Lines,
           NEW k \in Nat, k < Len(lines), NEW s, Narrowed(key, k, s)
    PROVE  Narrowed(key, k + 1, Round(key, s))
<1>. DEFINE n == Len(lines)
            mid == s.at + ((s.hi - s.at) \div 2)
<1>1. /\ n \in Nat /\ DOMAIN lines = 1..n /\ key \in Nat
      /\ \A i \in 1..n : lines[i].key \in Nat
      /\ \A i, j \in 1..n : i < j => lines[i].key < lines[j].key
  <2>1. n \in Nat /\ DOMAIN lines = 1..n /\ \A i \in 1..n : lines[i].key \in Nat
      BY ArrayKeys
  <2>2. key \in Nat
      BY DEF NettingLinesAssumption, Mkts
  <2>. QED
      BY <2>1, <2>2 DEF Arrays
<1>2. /\ s \in [found: BOOLEAN, at: Nat, hi: Nat] /\ s.found \in BOOLEAN
      /\ s.at \in Nat /\ s.hi \in Nat /\ s.at <= s.hi /\ s.hi <= n
    BY DEF Narrowed
<1>3. CASE s.found \/ s.at >= s.hi
  <2>1. Round(key, s) = s
      BY <1>3 DEF Round
  <2>2. ~s.found => s.hi - s.at <= n - (k + 1)
      BY <1>1, <1>2, <1>3
  <2>. QED
      BY <2>1, <2>2 DEF Narrowed
<1>4. CASE ~s.found /\ s.at < s.hi
  <2>1. /\ mid \in Nat /\ s.at <= mid /\ mid < s.hi /\ mid + 1 \in 1..n
        /\ mid + 1 <= s.hi
      BY <1>1, <1>2, <1>4
  <2>2. /\ s.hi - s.at <= n - k
        /\ \A i \in 1..s.at : lines[i].key < key
        /\ \A i \in (s.hi + 1)..n : key < lines[i].key
      BY <1>4 DEF Narrowed
  <2>3. /\ lines[mid + 1].key < key => Round(key, s) = [s EXCEPT !.at = mid + 1]
        /\ lines[mid + 1].key > key => Round(key, s) = [s EXCEPT !.hi = mid]
        /\ lines[mid + 1].key = key =>
               Round(key, s) = [found |-> TRUE, at |-> mid, hi |-> mid]
      BY <1>1, <1>2, <1>4, <2>1 DEF Round
  <2>. HIDE DEF n, mid
  <2>4. CASE lines[mid + 1].key < key
    <3>. DEFINE q == [s EXCEPT !.at = mid + 1]
    <3>1. q \in [found: BOOLEAN, at: Nat, hi: Nat] /\ q.found = s.found
          /\ q.at = mid + 1 /\ q.hi = s.hi
        BY <1>2, <2>1
    <3>. HIDE DEF q
    <3>2. \A i \in 1..(mid + 1) : lines[i].key < key
      <4>. SUFFICES ASSUME NEW i \in 1..(mid + 1), i # mid + 1
                    PROVE  lines[i].key < key
          BY <2>4
      <4>1. i \in 1..n /\ i < mid + 1
          BY <1>1, <2>1
      <4>2. lines[i].key < lines[mid + 1].key
          BY <1>1, <2>1, <4>1
      <4>. QED
          BY <1>1, <2>1, <2>4, <4>1, <4>2
    <3>3. q.hi - q.at <= n - (k + 1)
        BY <1>1, <1>2, <2>1, <2>2, <3>1
    <3>4. Narrowed(key, k + 1, q)
        BY <1>2, <1>4, <2>1, <2>2, <3>1, <3>2, <3>3 DEF Narrowed, n
    <3>. QED
        BY <2>3, <2>4, <3>4 DEF q
  <2>5. CASE lines[mid + 1].key > key
    <3>. DEFINE q == [s EXCEPT !.hi = mid]
    <3>1. q \in [found: BOOLEAN, at: Nat, hi: Nat] /\ q.found = s.found
          /\ q.at = s.at /\ q.hi = mid
        BY <1>2, <2>1
    <3>. HIDE DEF q
    <3>2. \A i \in (mid + 1)..n : key < lines[i].key
      <4>. SUFFICES ASSUME NEW i \in (mid + 1)..n, i # mid + 1
                    PROVE  key < lines[i].key
          BY <1>1, <2>1, <2>5
      <4>1. i \in 1..n /\ mid + 1 < i
          BY <1>1, <2>1
      <4>2. lines[mid + 1].key < lines[i].key
          BY <1>1, <2>1, <4>1
      <4>. QED
          BY <1>1, <2>1, <2>5, <4>1, <4>2
    <3>3. q.hi - q.at <= n - (k + 1) /\ q.hi <= n
        BY <1>1, <1>2, <2>1, <2>2, <3>1
    <3>4. Narrowed(key, k + 1, q)
        BY <1>2, <1>4, <2>1, <2>2, <3>1, <3>2, <3>3 DEF Narrowed, n
    <3>. QED
        BY <2>3, <2>5, <3>4 DEF q
  <2>6. CASE lines[mid + 1].key = key
    <3>. DEFINE q == [found |-> TRUE, at |-> mid, hi |-> mid]
    <3>1. mid < n /\ mid <= n
        BY <1>1, <1>2, <2>1
    <3>2. q \in [found: BOOLEAN, at: Nat, hi: Nat] /\ q.found
          /\ q.at = mid /\ q.hi = mid
        BY <2>1
    <3>. HIDE DEF q
    <3>3. Narrowed(key, k + 1, q)
        BY <2>1, <2>6, <3>1, <3>2 DEF Narrowed, n
    <3>. QED
        BY <2>3, <2>6, <3>3 DEF q
  <2>. QED
      BY <1>1, <2>1, <2>4, <2>5, <2>6
<1>. QED
    BY <1>2, <1>3, <1>4

\* The search finds the line of a market that has one, and otherwise the place
\* for it.
LEMMA SearchFinds ==
    ASSUME NettingLinesAssumption, lines \in Arrays, NEW key \in Lines
    PROVE  /\ Search(key).found \in BOOLEAN /\ Search(key).at \in Nat
           /\ Search(key).found =>
                  /\ Search(key).at + 1 \in DOMAIN lines
                  /\ lines[Search(key).at + 1].key = key
           /\ ~Search(key).found => Place(lines, key, Search(key).at)
<1>. DEFINE n == Len(lines)
            first == [found |-> FALSE, at |-> 0, hi |-> n]
            Runs(f, m) == f = [k \in 0..m |-> IF k = 0 THEN first ELSE Round(key, f[k - 1])]
            S == {m \in Nat : \E f : Runs(f, m)}
<1>1. n \in Nat /\ DOMAIN lines = 1..n
    BY ArrayKeys
<1>. HIDE DEF n, first
<1>2. 0 \in S
  <2>1. Runs([k \in 0..0 |-> first], 0)
      OBVIOUS
  <2>. QED
      BY <2>1
<1>3. ASSUME NEW m \in Nat, m \in S
      PROVE  m + 1 \in S
  <2>1. PICK f : Runs(f, m)
      BY <1>3
  <2>. DEFINE g == [k \in 0..m + 1 |-> IF k <= m THEN f[k] ELSE Round(key, f[m])]
  <2>2. Runs(g, m + 1)
    <3>1. \A k \in 0..m + 1 : g[k] = IF k = 0 THEN first ELSE Round(key, g[k - 1])
        BY <2>1
    <3>2. g = [k \in 0..m + 1 |-> g[k]]
        OBVIOUS
    <3>. HIDE DEF g
    <3>. QED
        BY <3>1, <3>2
  <2>. HIDE DEF g
  <2>3. \E h : Runs(h, m + 1)
      BY <2>2
  <2>. HIDE DEF Runs
  <2>. QED
      BY <2>3
<1>4. n \in S
    BY <1>1, <1>2, <1>3, SetInduction
<1>. DEFINE after == CHOOSE f : Runs(f, n)
<1>5. Search(key) = after[n]
    BY DEF Search, n, first
<1>6. Runs(after, n)
  <2>1. \E h : Runs(h, n)
      BY <1>4
  <2>. HIDE DEF Runs
  <2>. QED
      BY <2>1
<1>. HIDE DEF after
<1>7. after[0] = first /\ \A k \in 1..n : after[k] = Round(key, after[k - 1])
  <2>1. \A k \in 0..n : after[k] = IF k = 0 THEN first ELSE Round(key, after[k - 1])
      BY <1>6
  <2>. QED
      BY <1>1, <2>1
<1>. DEFINE T == {k \in Nat : k <= n => Narrowed(key, k, after[k])}
<1>8. 0 \in T
  <2>1. first \in [found: BOOLEAN, at: Nat, hi: Nat] /\ ~first.found
        /\ first.at = 0 /\ first.hi = n
      BY <1>1 DEF first
  <2>2. Narrowed(key, 0, first)
      BY <1>1, <2>1 DEF Narrowed, n
  <2>. QED
      BY <1>7, <2>2
<1>9. ASSUME NEW k \in Nat, k \in T
      PROVE  k + 1 \in T
  <2>1. CASE k + 1 <= n
    <3>1. k < n /\ k + 1 \in 1..n /\ (k + 1) - 1 = k /\ Narrowed(key, k, after[k])
        BY <1>1, <1>9, <2>1
    <3>2. after[k + 1] = Round(key, after[k])
        BY <1>7, <3>1
    <3>3. Narrowed(key, k + 1, Round(key, after[k]))
        BY <3>1, RoundNarrows DEF n
    <3>. QED
        BY <3>2, <3>3
  <2>2. CASE ~(k + 1 <= n)
      BY <2>2
  <2>. QED
      BY <2>1, <2>2
<1>. HIDE DEF T
<1>10. n \in T
    BY <1>1, <1>8, <1>9, SetInduction
<1>. DEFINE s == Search(key)
<1>11. Narrowed(key, n, s)
    BY <1>1, <1>5, <1>10 DEF T
<1>. HIDE DEF s
<1>12. /\ s.found \in BOOLEAN /\ s.at \in Nat /\ s.hi \in Nat /\ s.at <= s.hi /\ s.hi <= n
       /\ s.found => s.at < n /\ lines[s.at + 1].key = key
       /\ ~s.found => /\ s.hi - s.at <= n - n
                      /\ \A i \in 1..s.at : lines[i].key < key
                      /\ \A i \in (s.hi + 1)..n : key < lines[i].key
    BY <1>11 DEF Narrowed, n
<1>13. s.found => s.at + 1 \in DOMAIN lines /\ lines[s.at + 1].key = key
    BY <1>1, <1>12
<1>14. ASSUME ~s.found PROVE Place(lines, key, s.at)
  <2>1. s.hi = s.at /\ s.at \in 0..n
      BY <1>1, <1>12, <1>14
  <2>. QED
      BY <1>12, <1>14, <2>1 DEF Place, n
<1>. QED
    BY <1>12, <1>13, <1>14 DEF s

-----------------------------------------------------------------------------
(* The refinement *)

\* Lines are sorted by market, and an account that is not there is blank.
LinesInv ==
    /\ exists \in BOOLEAN /\ lines \in Arrays /\ header \in [Headers -> [Sides -> Nat]]
    /\ ~exists => lines = << >> /\ header = BlankHeader

\* BookShown of any header and array.
OpenOf(hd, ls) ==
    [mkt \in Mkts |-> [side \in Sides |->
        IF mkt \in Headers THEN hd[mkt][side]
        ELSE IF mkt \in Lines THEN OpenIn(ls, mkt, side) ELSE 0]]
BookOf(ex, hd, ls) == [exists |-> ex, lines |-> KeysIn(ls), open |-> OpenOf(hd, ls)]

\* The book of the account, as a function of its header and its lines.
LEMMA BookShownIs == BookShown = BookOf(exists, header, lines)
<1>1. \A mkt : LineOf(mkt) = CHOOSE i \in DOMAIN lines : lines[i].key = mkt
    BY DEF LineOf
<1>2. MarketKeys = KeysIn(lines)
    BY DEF MarketKeys, KeysIn
<1>3. \A mkt, side : LineOpen(mkt, side) = OpenIn(lines, mkt, side)
  <2>. SUFFICES ASSUME NEW mkt, NEW side
                PROVE  LineOpen(mkt, side) = OpenIn(lines, mkt, side)
      OBVIOUS
  <2>. DEFINE line == lines[LineOf(mkt)]
              found == CHOOSE i \in DOMAIN lines : lines[i].key = mkt
  <2>3. line = lines[found]
      BY DEF LineOf
  <2>4. OpenIn(lines, mkt, side) =
            IF mkt \notin KeysIn(lines) THEN 0 ELSE Outcome(lines[found], side)
      BY DEF OpenIn
  <2>. HIDE DEF found
  <2>1. LineOpen(mkt, side) = IF mkt \notin KeysIn(lines) THEN 0 ELSE Outcome(line, side)
      BY <1>2, Zenon DEF LineOpen, Outcome
  <2>2. OpenIn(lines, mkt, side) =
            IF mkt \notin KeysIn(lines) THEN 0 ELSE Outcome(line, side)
      BY <2>3, <2>4
  <2>. QED
      BY <2>1, <2>2
<1>. QED
    BY <1>2, <1>3, Zenon DEF BookShown, BookOf, OpenOf

\* The two sides of a market's line.
LEMMA OutcomesOf ==
    ASSUME NEW line
    PROVE  Outcome(line, 0) = line.open_0 /\ Outcome(line, 1) = line.open_1
           /\ Outcome(line, 2) = 0
BY DEF Outcome

\* What is written to one line shows in one market.
LEMMA OneMarketMoves ==
    ASSUME NettingLinesAssumption, NEW ls \in Arrays, NEW ms \in Arrays, NEW key \in Lines,
           \A line : line \in LinesIn(ls) /\ line.key # key
                         <=> line \in LinesIn(ms) /\ line.key # key
    PROVE  /\ KeysIn(ms) \ {key} = KeysIn(ls) \ {key}
           /\ \A mkt, side : mkt # key => OpenIn(ms, mkt, side) = OpenIn(ls, mkt, side)
<1>1. KeysIn(ls) = {line.key : line \in LinesIn(ls)}
      /\ KeysIn(ms) = {line.key : line \in LinesIn(ms)}
    BY DEF KeysIn, LinesIn
<1>2. KeysIn(ms) \ {key} = KeysIn(ls) \ {key}
    BY <1>1
<1>3. ASSUME NEW mkt, NEW side, mkt # key
      PROVE  OpenIn(ms, mkt, side) = OpenIn(ls, mkt, side)
  <2>1. CASE \E line \in LinesIn(ls) : line.key = mkt
    <3>1. PICK line \in LinesIn(ls) : line.key = mkt
        BY <2>1
    <3>2. line \in LinesIn(ms)
        BY <1>3, <3>1
    <3>. QED
        BY <3>1, <3>2, ArrayOpen
  <2>2. CASE \A line \in LinesIn(ls) : line.key # mkt
    <3>1. \A line \in LinesIn(ms) : line.key # mkt
        BY <1>3, <2>2
    <3>. QED
        BY <2>2, <3>1, ArrayOpen
  <2>. QED
      BY <2>1, <2>2
<1>. QED
    BY <1>2, <1>3

\* The books of the abstract specification.
LEMMA AbstractIs ==
    /\ Abstract!Mkts = Mkts /\ Abstract!Sides = Sides
    /\ Abstract!NoBook = NoBook /\ Abstract!FlatOpen = FlatOpen
BY DEF Abstract!Mkts, Mkts, Abstract!Sides, Sides, Abstract!NoBook, NoBook,
       Abstract!FlatOpen, FlatOpen

\* The abstract book counts its lines as the account does.
LEMMA AbstractCounts == \A T : Abstract!Cardinality(T) = Cardinality(T)
BY DEF Abstract!Cardinality, Cardinality

\* A step that nets a profit is a step of the abstract book.
LEMMA FillsAbstract ==
    ASSUME NEW mkt \in Mkts, NEW side \in Sides, NEW profit \in Profits,
           CanNet(BookShown, mkt, side),
           BookShown' = Netted(BookShown, mkt, side, profit)
    PROVE  Abstract!BookNext
<1>1. Abstract!FillOn(mkt, side, profit)
    BY AbstractCounts DEF Abstract!FillOn, Abstract!CanNet, Abstract!Netted, Abstract!NetSides,
           CanNet, Netted, NetSides
<1>. QED
    BY <1>1, AbstractIs DEF Abstract!BookNext

\* So is a step that takes a profit out.
LEMMA SettlesAbstract ==
    ASSUME NEW mkt \in Mkts, NEW side \in Sides, NEW profit \in Profits,
           CanUnnet(BookShown, mkt, side, profit),
           BookShown' = Unnetted(BookShown, mkt, side, profit)
    PROVE  Abstract!BookNext
<1>1. Abstract!SettleOn(mkt, side, profit)
    BY DEF Abstract!SettleOn, Abstract!CanUnnet, Abstract!Unnetted, Abstract!NetSides,
           CanUnnet, Unnetted, NetSides
<1>. QED
    BY <1>1, AbstractIs DEF Abstract!BookNext

\* A blank account shows no book.
LEMMA BlankShows ==
    ASSUME NettingLinesAssumption, NEW ex
    PROVE  /\ << >> \in Arrays /\ BlankHeader \in [Headers -> [Sides -> Nat]]
           /\ BookOf(ex, BlankHeader, << >>) = [exists |-> ex, lines |-> {}, open |-> FlatOpen]
           /\ BookOf(ex, BlankHeader, << >>) = [NoBook EXCEPT !.exists = ex]
<1>1. << >> \in Arrays
    BY DEF Arrays
<1>2. \A key, side : OpenIn(<< >>, key, side) = 0
    BY DEF OpenIn, KeysIn
<1>3. BlankHeader \in [Headers -> [Sides -> Nat]]
    BY DEF BlankHeader
<1>4. OpenOf(BlankHeader, << >>) = FlatOpen
    BY <1>2 DEF OpenOf, FlatOpen, BlankHeader
<1>5. KeysIn(<< >>) = {}
    BY DEF KeysIn
<1>6. BookOf(ex, BlankHeader, << >>) = [exists |-> ex, lines |-> {}, open |-> FlatOpen]
    BY <1>4, <1>5 DEF BookOf
<1>7. [NoBook EXCEPT !.exists = ex] = [exists |-> ex, lines |-> {}, open |-> FlatOpen]
    BY DEF NoBook
<1>. QED
    BY <1>1, <1>3, <1>6, <1>7

\* The book after a step.
LEMMA BookShownNext == BookShown' = BookOf(exists', header', lines')
<1>1. (BookShown = BookOf(exists, header, lines))'
    BY BookShownIs, PTL
<1>. QED
    BY <1>1

\* What the book's fields are.
LEMMA BookFields ==
    /\ BookShown.exists = exists /\ BookShown.lines = KeysIn(lines)
    /\ BookShown.open = OpenOf(header, lines)
    /\ \A mkt \in Mkts, side \in Sides :
           BookShown.open[mkt][side] =
               IF mkt \in Headers THEN header[mkt][side]
               ELSE IF mkt \in Lines THEN OpenIn(lines, mkt, side) ELSE 0
<1>1. BookShown = BookOf(exists, header, lines)
    BY BookShownIs
<1>2. BookShown.exists = exists /\ BookShown.lines = KeysIn(lines)
      /\ BookShown.open = OpenOf(header, lines)
    BY <1>1 DEF BookOf
<1>. QED
    BY <1>2 DEF OpenOf

\* An array and a header show a book.
LEMMA BookOfType ==
    ASSUME NettingLinesAssumption, NEW ex \in BOOLEAN, NEW hd \in [Headers -> [Sides -> Nat]],
           NEW ls \in Arrays
    PROVE  BookOf(ex, hd, ls) \in Book
<1>1. KeysIn(ls) \subseteq Lines
    BY ArrayKeys DEF KeysIn, NettingLine
<1>2. \A mkt, side : OpenIn(ls, mkt, side) \in Nat
  <2>. SUFFICES ASSUME NEW mkt, NEW side
                PROVE  OpenIn(ls, mkt, side) \in Nat
      OBVIOUS
  <2>1. CASE \E line \in LinesIn(ls) : line.key = mkt
    <3>1. PICK line \in LinesIn(ls) : line.key = mkt
        BY <2>1
    <3>2. line \in NettingLine
        BY ArrayKeys DEF LinesIn
    <3>3. Outcome(line, side) \in Nat
        BY <3>2 DEF Outcome, NettingLine
    <3>. QED
        BY <3>1, <3>3, ArrayOpen
  <2>2. CASE \A line \in LinesIn(ls) : line.key # mkt
      BY <2>2, ArrayOpen
  <2>. QED
      BY <2>1, <2>2
<1>3. OpenOf(hd, ls) \in [Mkts -> [Sides -> Nat]]
    BY <1>2 DEF OpenOf
<1>. QED
    BY <1>1, <1>3 DEF BookOf, Book

\* Books that show the same on every outcome are the same.
LEMMA SameBook ==
    ASSUME NEW a \in Book, NEW b \in Book, a.exists = b.exists, a.lines = b.lines,
           \A mkt \in Mkts, side \in Sides : a.open[mkt][side] = b.open[mkt][side]
    PROVE  a = b
<1>1. a.open \in [Mkts -> [Sides -> Nat]] /\ b.open \in [Mkts -> [Sides -> Nat]]
    BY DEF Book
<1>2. \A mkt \in Mkts : a.open[mkt] \in [Sides -> Nat] /\ b.open[mkt] \in [Sides -> Nat]
    BY <1>1
<1>3. \A mkt \in Mkts : a.open[mkt] = b.open[mkt]
    BY <1>2
<1>4. a.open = b.open
    BY <1>1, <1>3
<1>. QED
    BY <1>4 DEF Book

\* What a fill writes into a book.
LEMMA NettedShows ==
    ASSUME NEW b \in Book, NEW mkt \in Mkts, NEW side \in Sides, NEW profit \in Nat
    PROVE  LET new == Netted(b, mkt, side, profit) IN
           /\ new \in Book /\ new.exists = b.exists
           /\ new.lines = b.lines \cup ({mkt} \cap Lines)
           /\ \A mk \in Mkts, sd \in Sides :
                 new.open[mk][sd] = IF mk = mkt /\ sd = side THEN b.open[mk][sd] + profit
                                    ELSE b.open[mk][sd]
<1>. DEFINE new == Netted(b, mkt, side, profit)
<1>1. b.open \in [Mkts -> [Sides -> Nat]] /\ b.open[mkt] \in [Sides -> Nat]
    BY DEF Book
<1>2. /\ new.open = [b.open EXCEPT ![mkt][side] = @ + profit]
      /\ new.exists = b.exists /\ new.lines = b.lines \cup ({mkt} \cap Lines)
    BY DEF Netted, Book
<1>3. [b.open EXCEPT ![mkt][side] = @ + profit] \in [Mkts -> [Sides -> Nat]]
    BY <1>1
<1>4. new \in Book
    BY <1>2, <1>3 DEF Netted, Book
<1>5. \A mk \in Mkts, sd \in Sides :
          new.open[mk][sd] = IF mk = mkt /\ sd = side THEN b.open[mk][sd] + profit
                             ELSE b.open[mk][sd]
    BY <1>1, <1>2
<1>. QED
    BY <1>2, <1>4, <1>5

\* What a settlement takes out of a book.
LEMMA UnnettedShows ==
    ASSUME NEW b \in Book, NEW mkt \in Mkts, NEW side \in Sides, NEW profit \in Nat,
           CanUnnet(b, mkt, side, profit)
    PROVE  LET new == Unnetted(b, mkt, side, profit) IN
           /\ new \in Book /\ new.exists = b.exists /\ new.lines = b.lines
           /\ \A mk \in Mkts, sd \in Sides :
                 new.open[mk][sd] = IF mk = mkt /\ sd = side THEN b.open[mk][sd] - profit
                                    ELSE b.open[mk][sd]
<1>. DEFINE new == Unnetted(b, mkt, side, profit)
<1>1. b.open \in [Mkts -> [Sides -> Nat]] /\ b.open[mkt] \in [Sides -> Nat]
    BY DEF Book
<1>2. CASE profit = 0
  <2>1. new = b
      BY <1>2 DEF Unnetted
  <2>2. \A n \in Nat : n - profit = n
      BY <1>2
  <2>3. b.open[mkt][side] - profit = b.open[mkt][side]
      BY <1>1, <2>2
  <2>. HIDE DEF new
  <2>. QED
      BY <2>1, <2>3 DEF new
<1>3. CASE profit # 0
  <2>1. b.open[mkt][side] - profit \in Nat
      BY <1>1, <1>3 DEF CanUnnet
  <2>2. /\ new.open = [b.open EXCEPT ![mkt][side] = @ - profit]
        /\ new.exists = b.exists /\ new.lines = b.lines
      BY <1>3 DEF Unnetted, Book
  <2>3. [b.open EXCEPT ![mkt][side] = @ - profit] \in [Mkts -> [Sides -> Nat]]
      BY <1>1, <2>1
  <2>4. new \in Book
      BY <1>3, <2>2, <2>3 DEF Unnetted, Book
  <2>5. \A mk \in Mkts, sd \in Sides :
            new.open[mk][sd] = IF mk = mkt /\ sd = side THEN b.open[mk][sd] - profit
                               ELSE b.open[mk][sd]
      BY <1>1, <2>2
  <2>. QED
      BY <2>2, <2>4, <2>5
<1>. QED
    BY <1>2, <1>3

\* What the array and the header show of an outcome.
ShownOpen(hd, ls, mkt, side) ==
    IF mkt \in Headers THEN hd[mkt][side]
    ELSE IF mkt \in Lines THEN OpenIn(ls, mkt, side) ELSE 0

\* A step that adds a profit to one outcome of the account is a fill of the book.
LEMMA FillShows ==
    ASSUME NettingLinesAssumption, LinesInv, LinesInv', exists' = exists,
           NEW mkt \in Mkts, NEW side \in Sides, NEW profit \in Profits,
           CanNet(BookShown, mkt, side),
           KeysIn(lines') = KeysIn(lines) \cup ({mkt} \cap Lines),
           \A mk \in Mkts, sd \in Sides :
               ShownOpen(header', lines', mk, sd) =
                   IF mk = mkt /\ sd = side THEN ShownOpen(header, lines, mk, sd) + profit
                   ELSE ShownOpen(header, lines, mk, sd)
    PROVE  Abstract!BookNext
<1>. DEFINE a == BookOf(exists', header', lines')
            b == BookOf(exists, header, lines)
            new == Netted(b, mkt, side, profit)
<1>1. a \in Book /\ b \in Book
    BY BookOfType DEF LinesInv
<1>2. profit \in Nat
    BY DEF NettingLinesAssumption
<1>3. /\ b.exists = exists /\ b.lines = KeysIn(lines)
      /\ \A mk \in Mkts, sd \in Sides : b.open[mk][sd] = ShownOpen(header, lines, mk, sd)
    BY DEF BookOf, OpenOf, ShownOpen
<1>4. /\ a.exists = exists' /\ a.lines = KeysIn(lines')
      /\ \A mk \in Mkts, sd \in Sides : a.open[mk][sd] = ShownOpen(header', lines', mk, sd)
    BY DEF BookOf, OpenOf, ShownOpen
<1>. HIDE DEF a, b
<1>5. /\ new \in Book /\ new.exists = b.exists
      /\ new.lines = b.lines \cup ({mkt} \cap Lines)
      /\ \A mk \in Mkts, sd \in Sides :
             new.open[mk][sd] = IF mk = mkt /\ sd = side THEN b.open[mk][sd] + profit
                                ELSE b.open[mk][sd]
    BY <1>1, <1>2, NettedShows
<1>. HIDE DEF new
<1>6. a = new
  <2>1. a.exists = new.exists /\ a.lines = new.lines
      BY <1>3, <1>4, <1>5
  <2>2. \A mk \in Mkts, sd \in Sides : a.open[mk][sd] = new.open[mk][sd]
      BY <1>3, <1>4, <1>5
  <2>. QED
      BY <1>1, <1>5, <2>1, <2>2, SameBook
<1>7. BookShown' = Netted(BookShown, mkt, side, profit)
    BY <1>6, BookShownIs, BookShownNext DEF a, b, new
<1>. QED
    BY <1>7, FillsAbstract

\* A step that takes a profit off one outcome of the account is a settlement.
LEMMA SettleShows ==
    ASSUME NettingLinesAssumption, LinesInv, LinesInv', exists' = exists,
           NEW mkt \in Mkts, NEW side \in Sides, NEW profit \in Profits,
           CanUnnet(BookShown, mkt, side, profit), KeysIn(lines') = KeysIn(lines),
           \A mk \in Mkts, sd \in Sides :
               ShownOpen(header', lines', mk, sd) =
                   IF mk = mkt /\ sd = side THEN ShownOpen(header, lines, mk, sd) - profit
                   ELSE ShownOpen(header, lines, mk, sd)
    PROVE  Abstract!BookNext
<1>. DEFINE a == BookOf(exists', header', lines')
            b == BookOf(exists, header, lines)
            new == Unnetted(b, mkt, side, profit)
<1>1. a \in Book /\ b \in Book
    BY BookOfType DEF LinesInv
<1>2. profit \in Nat /\ CanUnnet(b, mkt, side, profit)
    BY BookShownIs DEF NettingLinesAssumption
<1>3. /\ b.exists = exists /\ b.lines = KeysIn(lines)
      /\ \A mk \in Mkts, sd \in Sides : b.open[mk][sd] = ShownOpen(header, lines, mk, sd)
    BY DEF BookOf, OpenOf, ShownOpen
<1>4. /\ a.exists = exists' /\ a.lines = KeysIn(lines')
      /\ \A mk \in Mkts, sd \in Sides : a.open[mk][sd] = ShownOpen(header', lines', mk, sd)
    BY DEF BookOf, OpenOf, ShownOpen
<1>. HIDE DEF a, b
<1>5. /\ new \in Book /\ new.exists = b.exists /\ new.lines = b.lines
      /\ \A mk \in Mkts, sd \in Sides :
             new.open[mk][sd] = IF mk = mkt /\ sd = side THEN b.open[mk][sd] - profit
                                ELSE b.open[mk][sd]
    BY <1>1, <1>2, UnnettedShows
<1>. HIDE DEF new
<1>6. a = new
  <2>1. a.exists = new.exists /\ a.lines = new.lines
      BY <1>3, <1>4, <1>5
  <2>2. \A mk \in Mkts, sd \in Sides : a.open[mk][sd] = new.open[mk][sd]
      BY <1>3, <1>4, <1>5
  <2>. QED
      BY <1>1, <1>5, <2>1, <2>2, SameBook
<1>7. BookShown' = Unnetted(BookShown, mkt, side, profit)
    BY <1>6, BookShownIs, BookShownNext DEF a, b, new
<1>. QED
    BY <1>7, SettlesAbstract

\* Creating the account creates the book.
LEMMA CreateAbstract ==
    ASSUME NettingLinesAssumption, LinesInv, CreateAccount
    PROVE  LinesInv' /\ Abstract!BookNext
<1>1. /\ exists = FALSE /\ exists' = TRUE /\ header' = header /\ lines' = lines
      /\ lines = << >> /\ header = BlankHeader
    BY DEF CreateAccount, LinesInv
<1>2. BookShown = [NoBook EXCEPT !.exists = FALSE] /\ BookShown' = [NoBook EXCEPT !.exists = TRUE]
    BY <1>1, BookShownIs, BookShownNext, BlankShows
<1>3. BookShown.exists = FALSE
    BY <1>1, BookFields
<1>4. Abstract!Create
    BY <1>2, <1>3, AbstractIs DEF Abstract!Create
<1>. QED
    BY <1>1, <1>4 DEF Abstract!BookNext, LinesInv

\* Closing an account that owes nothing closes the book.
LEMMA CloseAbstract ==
    ASSUME NettingLinesAssumption, LinesInv, CloseAccount
    PROVE  LinesInv' /\ Abstract!BookNext
<1>1. /\ exists = TRUE /\ exists' = FALSE /\ header' = header /\ lines' = << >>
      /\ header = BlankHeader /\ lines \in Arrays
      /\ \A i \in DOMAIN lines : Shown(lines[i]) = [open_0 |-> 0, open_1 |-> 0]
    BY DEF CloseAccount, LinesInv
<1>2. BookShown' = NoBook
    BY <1>1, BookShownNext, BlankShows DEF NoBook
<1>4. OpenOf(header, lines) = FlatOpen
  <2>1. \A line \in LinesIn(lines) : line.open_0 = 0 /\ line.open_1 = 0
      BY <1>1 DEF LinesIn, Shown
  <2>2. \A line \in LinesIn(lines) : \A side : Outcome(line, side) = 0
      BY <2>1 DEF Outcome
  <2>3. \A key, side : OpenIn(lines, key, side) = 0
      BY <1>1, <2>2, ArrayOpen
  <2>. QED
      BY <1>1, <2>3 DEF OpenOf, FlatOpen, BlankHeader
<1>5. BookShown.exists /\ BookShown.open = FlatOpen
    BY <1>1, <1>4, BookFields
<1>6. Abstract!Close
    BY <1>2, <1>5, AbstractIs DEF Abstract!Close
<1>. QED
    BY <1>1, <1>6, BlankShows DEF Abstract!BookNext, LinesInv

\* A slice of a header market moves one outcome of the book.
LEMMA HeaderAbstract ==
    ASSUME NettingLinesAssumption, LinesInv, NEW mkt \in Headers, NEW side \in 0..2,
           NEW profit \in Profits,
           MoveHeader(mkt, side, profit) \/ MoveHeader(mkt, side, -profit)
    PROVE  LinesInv' /\ Abstract!BookNext
<1>. DEFINE old == header[mkt][side]
<1>1. mkt \in Mkts /\ mkt \notin Lines /\ side \in Sides /\ profit \in Nat
      /\ side \in NetSides(mkt) /\ old \in Nat
    BY NettingAssumption DEF Mkts, Sides, NetSides, LinesInv, NettingLinesAssumption
<1>2. PICK d \in {profit, -profit} :
          /\ MoveHeader(mkt, side, d) /\ old + d \in 0..MaxOpen
    BY DEF MoveHeader
<1>3. /\ exists = TRUE /\ exists' = exists /\ lines' = lines
      /\ header' = [header EXCEPT ![mkt][side] = old + d]
    BY <1>2 DEF MoveHeader, LinesInv
<1>4. old + d \in Nat
    BY <1>2 DEF NettingLinesAssumption
<1>5. header' \in [Headers -> [Sides -> Nat]]
    BY <1>3, <1>4 DEF LinesInv
<1>6. LinesInv'
    BY <1>3, <1>5 DEF LinesInv
<1>7. \A mk \in Mkts, sd \in Sides :
          ShownOpen(header', lines', mk, sd) =
              IF mk = mkt /\ sd = side THEN old + d ELSE ShownOpen(header, lines, mk, sd)
    BY <1>1, <1>3 DEF ShownOpen, LinesInv
<1>8. ShownOpen(header, lines, mkt, side) = old /\ BookShown.open[mkt][side] = old
    BY <1>1, BookFields DEF ShownOpen
<1>9. BookShown.exists = TRUE
    BY <1>3, BookFields
<1>. HIDE DEF old
<1>10. CASE d = profit
  <2>1. CanNet(BookShown, mkt, side)
      BY <1>1, <1>9 DEF CanNet
  <2>2. KeysIn(lines') = KeysIn(lines) \cup ({mkt} \cap Lines)
      BY <1>1, <1>3
  <2>3. \A mk \in Mkts, sd \in Sides :
            ShownOpen(header', lines', mk, sd) =
                IF mk = mkt /\ sd = side THEN ShownOpen(header, lines, mk, sd) + profit
                ELSE ShownOpen(header, lines, mk, sd)
      BY <1>7, <1>8, <1>10
  <2>. QED
      BY <1>1, <1>3, <1>6, <2>1, <2>2, <2>3, FillShows
<1>11. CASE d = -profit
  <2>1. CanUnnet(BookShown, mkt, side, profit)
      BY <1>1, <1>4, <1>8, <1>9, <1>11 DEF CanUnnet
  <2>2. old + d = old - profit
      BY <1>1, <1>11
  <2>3. \A mk \in Mkts, sd \in Sides :
            ShownOpen(header', lines', mk, sd) =
                IF mk = mkt /\ sd = side THEN ShownOpen(header, lines, mk, sd) - profit
                ELSE ShownOpen(header, lines, mk, sd)
      BY <1>7, <1>8, <2>2
  <2>. QED
      BY <1>1, <1>3, <1>6, <2>1, <2>3, SettleShows
<1>. QED
    BY <1>2, <1>10, <1>11

\* Where a step writes the line of one market, its outcomes are those of the
\* line and no other market moves.
LEMMA LineShows ==
    ASSUME NettingLinesAssumption, LinesInv, NEW ms \in Arrays, NEW line \in NettingLine,
           line \in LinesIn(ms),
           \A other : other \in LinesIn(lines) /\ other.key # line.key
                          <=> other \in LinesIn(ms) /\ other.key # line.key
    PROVE  /\ \A sd \in Sides : ShownOpen(header, ms, line.key, sd) = Outcome(line, sd)
           /\ \A mk \in Mkts, sd \in Sides :
                  mk # line.key => ShownOpen(header, ms, mk, sd) = ShownOpen(header, lines, mk, sd)
           /\ KeysIn(ms) = KeysIn(lines) \cup {line.key}
<1>1. line.key \in Lines /\ line.key \notin Headers
    BY NettingAssumption DEF NettingLine
<1>2. \A sd : OpenIn(ms, line.key, sd) = Outcome(line, sd)
    BY ArrayOpen
<1>3. KeysIn(ms) \ {line.key} = KeysIn(lines) \ {line.key}
      /\ \A mk, sd : mk # line.key => OpenIn(ms, mk, sd) = OpenIn(lines, mk, sd)
    BY <1>1, OneMarketMoves DEF LinesInv
<1>4. line.key \in KeysIn(ms)
    BY DEF KeysIn, LinesIn
<1>. QED
    BY <1>1, <1>2, <1>3, <1>4 DEF ShownOpen

\* A market shows what its line says, and nothing without a line.
LEMMA LineShown ==
    ASSUME NettingLinesAssumption, LinesInv, NEW key \in Lines, NEW sd \in Sides
    PROVE  /\ BookShown.open[key][sd] = ShownOpen(header, lines, key, sd)
           /\ \A line \in LinesIn(lines) :
                  line.key = key => ShownOpen(header, lines, key, sd) = Outcome(line, sd)
           /\ key \notin KeysIn(lines) => ShownOpen(header, lines, key, sd) = 0
<1>1. key \in Mkts /\ key \notin Headers
    BY NettingAssumption DEF Mkts
<1>2. BookShown.open[key][sd] = ShownOpen(header, lines, key, sd)
    BY <1>1, BookFields DEF ShownOpen
<1>3. ShownOpen(header, lines, key, sd) = OpenIn(lines, key, sd)
    BY <1>1 DEF ShownOpen
<1>4. key \notin KeysIn(lines) => OpenIn(lines, key, sd) = 0
    BY DEF OpenIn
<1>. QED
    BY <1>2, <1>3, <1>4, ArrayOpen DEF LinesInv

\* Where the search finds no line, the market has none.
LEMMA NoLineThere ==
    ASSUME NettingLinesAssumption, LinesInv, NEW key \in Lines, ~Search(key).found
    PROVE  /\ Place(lines, key, Search(key).at) /\ key \notin KeysIn(lines)
           /\ \A line \in NettingLine :
                 line.key = key =>
                     LET ms == InsertAt(lines, Search(key).at + 1, line) IN
                     /\ ms \in Arrays /\ line \in LinesIn(ms)
                     /\ \A other : other \in LinesIn(lines) /\ other.key # key
                                       <=> other \in LinesIn(ms) /\ other.key # key
<1>1. lines \in Arrays /\ Place(lines, key, Search(key).at)
    BY SearchFinds DEF LinesInv
<1>2. ASSUME NEW line \in NettingLine, line.key = key
      PROVE  LET ms == InsertAt(lines, Search(key).at + 1, line) IN
             /\ ms \in Arrays /\ LinesIn(ms) = LinesIn(lines) \cup {line}
             /\ \A other \in LinesIn(lines) : other.key # key
    BY <1>1, <1>2, LineInserted
<1>3. key \notin KeysIn(lines)
  <2>. DEFINE blank == [key |-> key, open_0 |-> 0, open_1 |-> 0]
  <2>1. blank \in NettingLine /\ blank.key = key
      BY DEF NettingLine
  <2>. HIDE DEF blank
  <2>2. \A other \in LinesIn(lines) : other.key # key
      BY <1>2, <2>1
  <2>. QED
      BY <2>2 DEF KeysIn, LinesIn
<1>. QED
    BY <1>1, <1>2, <1>3

\* An array with room for a line shows a book with room for one.
LEMMA RoomForLine ==
    ASSUME NettingLinesAssumption, LinesInv
    PROVE  Len(lines) < MaxLines <=> Cardinality(BookShown.lines) < MaxLines
BY ArrayCount, BookFields DEF LinesInv

\* Adding a blank line adds the line to the book and moves no profit.
LEMMA AddAbstract ==
    ASSUME NettingLinesAssumption, LinesInv, NEW key \in Lines, AddNettingLine(key)
    PROVE  LinesInv' /\ Abstract!BookNext
<1>. DEFINE line == [key |-> key, open_0 |-> 0, open_1 |-> 0]
            ms == InsertAt(lines, Search(key).at + 1, line)
<1>1. /\ exists = TRUE /\ exists' = exists /\ header' = header /\ ~Search(key).found
      /\ lines' = ms /\ Len(lines) < MaxLines
    BY DEF AddNettingLine, LinesInv
<1>2. line \in NettingLine /\ line.key = key /\ \A sd \in Sides : Outcome(line, sd) = 0
    BY DEF NettingLine, Outcome
<1>. HIDE DEF line
<1>3. /\ key \notin KeysIn(lines) /\ ms \in Arrays /\ line \in LinesIn(ms)
      /\ \A other : other \in LinesIn(lines) /\ other.key # key
                        <=> other \in LinesIn(ms) /\ other.key # key
    BY <1>1, <1>2, NoLineThere
<1>. HIDE DEF ms
<1>4. LinesInv'
    BY <1>1, <1>3 DEF LinesInv
<1>5. /\ \A sd \in Sides : ShownOpen(header, ms, key, sd) = 0
      /\ \A mk \in Mkts, sd \in Sides :
             mk # key => ShownOpen(header, ms, mk, sd) = ShownOpen(header, lines, mk, sd)
      /\ KeysIn(ms) = KeysIn(lines) \cup {key}
    BY <1>2, <1>3, LineShows
<1>6. \A mk \in Mkts, sd \in Sides :
          ShownOpen(header, ms, mk, sd) = ShownOpen(header, lines, mk, sd)
    BY <1>3, <1>5, LineShown
<1>. DEFINE a == BookOf(exists', header', lines')
            b == BookOf(exists, header, lines)
            new == [b EXCEPT !.lines = b.lines \cup {key}]
<1>7. a \in Book /\ b \in Book
    BY <1>4, BookOfType DEF LinesInv
<1>8. /\ b.exists = exists /\ b.lines = KeysIn(lines)
      /\ \A mk \in Mkts, sd \in Sides : b.open[mk][sd] = ShownOpen(header, lines, mk, sd)
    BY DEF BookOf, OpenOf, ShownOpen
<1>9. /\ a.exists = exists /\ a.lines = KeysIn(ms)
      /\ \A mk \in Mkts, sd \in Sides : a.open[mk][sd] = ShownOpen(header, ms, mk, sd)
    BY <1>1 DEF BookOf, OpenOf, ShownOpen
<1>. HIDE DEF a, b
<1>10. /\ new \in Book /\ new.exists = b.exists /\ new.open = b.open
       /\ new.lines = b.lines \cup {key}
    BY <1>7 DEF Book
<1>. HIDE DEF new
<1>11. a = new
  <2>1. a.exists = new.exists /\ a.lines = new.lines
      BY <1>5, <1>8, <1>9, <1>10
  <2>2. \A mk \in Mkts, sd \in Sides : a.open[mk][sd] = new.open[mk][sd]
      BY <1>6, <1>8, <1>9, <1>10
  <2>. QED
      BY <1>7, <1>10, <2>1, <2>2, SameBook
<1>12. BookShown = b /\ BookShown' = a
    BY BookShownIs, BookShownNext DEF a, b
<1>13. BookShown.exists /\ key \notin BookShown.lines
       /\ Cardinality(BookShown.lines) < MaxLines
    BY <1>1, <1>3, BookFields, RoomForLine
<1>14. Abstract!Add(key)
    BY <1>11, <1>12, <1>13, AbstractCounts DEF Abstract!Add, new
<1>. QED
    BY <1>4, <1>14 DEF Abstract!BookNext

\* The line the search finds is the market's only one.
LEMMA LineThere ==
    ASSUME NettingLinesAssumption, LinesInv, NEW key \in Lines, Search(key).found
    PROVE  LET at == Search(key).at + 1 IN
           /\ at \in DOMAIN lines /\ lines[at].key = key /\ key \in KeysIn(lines)
           /\ lines[at] \in NettingLine /\ lines[at] \in LinesIn(lines)
           /\ \A other \in LinesIn(lines) : other.key = key => other = lines[at]
<1>. DEFINE at == Search(key).at + 1
<1>1. at \in DOMAIN lines /\ lines[at].key = key /\ lines \in Arrays
    BY SearchFinds DEF LinesInv
<1>. HIDE DEF at
<1>2. \A i \in DOMAIN lines : lines[i].key = key => i = at
    BY <1>1, ArrayKeys
<1>3. \A other \in LinesIn(lines) : other.key = key => other = lines[at]
    BY <1>2 DEF LinesIn
<1>4. lines[at] \in NettingLine
    BY <1>1, ArrayKeys
<1>. QED
    BY <1>1, <1>3, <1>4 DEF KeysIn, LinesIn, at

\* Removing a flat line takes the line out of the book and moves no profit.
LEMMA RemoveAbstract ==
    ASSUME NettingLinesAssumption, LinesInv, NEW key \in Lines, RemoveNettingLine(key)
    PROVE  LinesInv' /\ Abstract!BookNext
<1>. DEFINE at == Search(key).at + 1
            line == lines[at]
            ms == RemoveAt(lines, at)
<1>1. /\ exists = TRUE /\ exists' = exists /\ header' = header /\ Search(key).found
      /\ lines' = ms /\ Shown(line) = [open_0 |-> 0, open_1 |-> 0]
    BY DEF RemoveNettingLine, LinesInv
<1>2. /\ at \in DOMAIN lines /\ line.key = key /\ key \in KeysIn(lines)
      /\ line \in LinesIn(lines)
      /\ \A other \in LinesIn(lines) : other.key = key => other = line
    BY <1>1, LineThere
<1>3. ms \in Arrays /\ LinesIn(ms) = LinesIn(lines) \ {line}
    BY <1>2, LineRemoved DEF LinesInv
<1>. HIDE DEF at, ms, line
<1>4. \A sd \in Sides : Outcome(line, sd) = 0
    BY <1>1 DEF Shown, Outcome
<1>5. LinesInv'
    BY <1>1, <1>3 DEF LinesInv
<1>6. \A other : other \in LinesIn(lines) /\ other.key # key
                     <=> other \in LinesIn(ms) /\ other.key # key
    BY <1>2, <1>3
<1>7. /\ KeysIn(ms) \ {key} = KeysIn(lines) \ {key}
      /\ \A mk, sd : mk # key => OpenIn(ms, mk, sd) = OpenIn(lines, mk, sd)
    BY <1>3, <1>6, OneMarketMoves DEF LinesInv
<1>8. key \notin KeysIn(ms)
    BY <1>2, <1>3 DEF KeysIn, LinesIn
<1>9. \A mk \in Mkts, sd \in Sides :
          ShownOpen(header, ms, mk, sd) = ShownOpen(header, lines, mk, sd)
  <2>1. \A sd \in Sides : OpenIn(ms, key, sd) = 0 /\ OpenIn(lines, key, sd) = 0
    <3>1. \A sd \in Sides : OpenIn(ms, key, sd) = 0
        BY <1>8 DEF OpenIn
    <3>2. \A sd \in Sides : OpenIn(lines, key, sd) = 0
        BY <1>2, <1>4, ArrayOpen DEF LinesInv
    <3>. QED
        BY <3>1, <3>2
  <2>. QED
      BY <1>7, <2>1 DEF ShownOpen
<1>. DEFINE a == BookOf(exists', header', lines')
            b == BookOf(exists, header, lines)
            new == [b EXCEPT !.lines = b.lines \ {key}]
<1>10. a \in Book /\ b \in Book
    BY <1>5, BookOfType DEF LinesInv
<1>11. /\ b.exists = exists /\ b.lines = KeysIn(lines)
       /\ \A mk \in Mkts, sd \in Sides : b.open[mk][sd] = ShownOpen(header, lines, mk, sd)
    BY DEF BookOf, OpenOf, ShownOpen
<1>12. /\ a.exists = exists /\ a.lines = KeysIn(ms)
       /\ \A mk \in Mkts, sd \in Sides : a.open[mk][sd] = ShownOpen(header, ms, mk, sd)
    BY <1>1 DEF BookOf, OpenOf, ShownOpen
<1>. HIDE DEF a, b
<1>13. /\ new \in Book /\ new.exists = b.exists /\ new.open = b.open
       /\ new.lines = b.lines \ {key}
    BY <1>10 DEF Book
<1>. HIDE DEF new
<1>14. a = new
  <2>1. a.exists = new.exists /\ a.lines = new.lines
      BY <1>7, <1>8, <1>11, <1>12, <1>13
  <2>2. \A mk \in Mkts, sd \in Sides : a.open[mk][sd] = new.open[mk][sd]
      BY <1>9, <1>11, <1>12, <1>13
  <2>. QED
      BY <1>10, <1>13, <2>1, <2>2, SameBook
<1>15. BookShown = b /\ BookShown' = a
    BY BookShownIs, BookShownNext DEF a, b
<1>16. b.open[key] = FlatOpen[key]
  <2>1. key \in Mkts /\ b.open \in [Mkts -> [Sides -> Nat]]
      BY <1>10 DEF Book, Mkts
  <2>2. b.open[key] \in [Sides -> Nat] /\ FlatOpen[key] = [sd \in Sides |-> 0]
      BY <2>1 DEF FlatOpen
  <2>3. \A sd \in Sides : b.open[key][sd] = 0
      BY <1>2, <1>4, <1>15, LineShown
  <2>. QED
      BY <2>2, <2>3
<1>17. b.exists /\ key \in b.lines
    BY <1>1, <1>2, <1>11
<1>18. Abstract!Remove(key)
    BY <1>14, <1>15, <1>16, <1>17, AbstractIs DEF Abstract!Remove, new
<1>. QED
    BY <1>5, <1>18 DEF Abstract!BookNext

\* What is written to a line.
LEMMA MovedLine ==
    ASSUME NEW line \in NettingLine, NEW side \in 0..1, NEW d \in Int,
           Outcome(line, side) + d \in Nat
    PROVE  /\ Moved(line, side, d) \in NettingLine /\ Moved(line, side, d).key = line.key
           /\ \A sd \in Sides :
                 Outcome(Moved(line, side, d), sd) =
                     IF sd = side THEN Outcome(line, sd) + d ELSE Outcome(line, sd)
<1>1. CASE side = 0
  <2>. DEFINE new == [line EXCEPT !.open_0 = line.open_0 + d]
  <2>1. Moved(line, side, d) = new
      BY <1>1 DEF Moved
  <2>2. line.open_0 + d \in Nat
      BY <1>1 DEF Outcome
  <2>3. /\ new \in NettingLine /\ new.key = line.key
        /\ new.open_0 = line.open_0 + d /\ new.open_1 = line.open_1
      BY <2>2 DEF NettingLine
  <2>. HIDE DEF new
  <2>. QED
      BY <1>1, <2>1, <2>3 DEF Outcome, Sides
<1>2. CASE side = 1
  <2>. DEFINE new == [line EXCEPT !.open_1 = line.open_1 + d]
  <2>1. Moved(line, side, d) = new
      BY <1>2 DEF Moved
  <2>2. line.open_1 + d \in Nat
      BY <1>2 DEF Outcome
  <2>3. /\ new \in NettingLine /\ new.key = line.key
        /\ new.open_0 = line.open_0 /\ new.open_1 = line.open_1 + d
      BY <2>2 DEF NettingLine
  <2>. HIDE DEF new
  <2>. QED
      BY <1>2, <2>1, <2>3 DEF Outcome, Sides
<1>. QED
    BY <1>1, <1>2

\* A slice of a market without a line opens one.
LEMMA OpenAbstract ==
    ASSUME NettingLinesAssumption, LinesInv, NEW key \in Lines, NEW side \in 0..1,
           NEW profit \in Profits, OpenLine(key, side, profit)
    PROVE  LinesInv' /\ Abstract!BookNext
<1>. DEFINE blank == [key |-> key, open_0 |-> 0, open_1 |-> 0]
            line == Moved(blank, side, profit)
            ms == InsertAt(lines, Search(key).at + 1, line)
<1>1. /\ exists = TRUE /\ exists' = exists /\ header' = header /\ ~Search(key).found
      /\ lines' = ms /\ Len(lines) < MaxLines
    BY DEF OpenLine, LinesInv
<1>2. key \in Mkts /\ key \notin Headers /\ side \in Sides /\ side \in NetSides(key)
      /\ profit \in Nat
    BY NettingAssumption DEF Mkts, Sides, NetSides, NettingLinesAssumption
<1>3. blank \in NettingLine /\ blank.key = key /\ \A sd \in Sides : Outcome(blank, sd) = 0
    BY DEF NettingLine, Outcome
<1>. HIDE DEF blank
<1>4. /\ line \in NettingLine /\ line.key = key
      /\ \A sd \in Sides : Outcome(line, sd) = IF sd = side THEN profit ELSE 0
  <2>1. Outcome(blank, side) + profit = profit /\ profit \in Int
      BY <1>2, <1>3
  <2>2. /\ line \in NettingLine /\ line.key = blank.key
        /\ \A sd \in Sides :
               Outcome(line, sd) =
                   IF sd = side THEN Outcome(blank, sd) + profit ELSE Outcome(blank, sd)
      BY <1>2, <1>3, <2>1, MovedLine
  <2>. HIDE DEF line
  <2>. QED
      BY <1>2, <1>3, <2>2
<1>. HIDE DEF line
<1>5. /\ key \notin KeysIn(lines) /\ ms \in Arrays /\ line \in LinesIn(ms)
      /\ \A other : other \in LinesIn(lines) /\ other.key # key
                        <=> other \in LinesIn(ms) /\ other.key # key
    BY <1>1, <1>4, NoLineThere
<1>. HIDE DEF ms
<1>6. LinesInv'
    BY <1>1, <1>5 DEF LinesInv
<1>7. /\ \A sd \in Sides : ShownOpen(header, ms, key, sd) = Outcome(line, sd)
      /\ \A mk \in Mkts, sd \in Sides :
             mk # key => ShownOpen(header, ms, mk, sd) = ShownOpen(header, lines, mk, sd)
      /\ KeysIn(ms) = KeysIn(lines) \cup {key}
    BY <1>4, <1>5, LineShows
<1>8. \A mk \in Mkts, sd \in Sides :
          ShownOpen(header', lines', mk, sd) =
              IF mk = key /\ sd = side THEN ShownOpen(header, lines, mk, sd) + profit
              ELSE ShownOpen(header, lines, mk, sd)
  <2>1. \A sd \in Sides : ShownOpen(header, lines, key, sd) = 0
      BY <1>5, LineShown
  <2>. QED
      BY <1>1, <1>2, <1>4, <1>7, <2>1
<1>9. CanNet(BookShown, key, side)
    BY <1>1, <1>2, BookFields, RoomForLine DEF CanNet
<1>10. KeysIn(lines') = KeysIn(lines) \cup ({key} \cap Lines)
    BY <1>1, <1>7
<1>. QED
    BY <1>1, <1>2, <1>6, <1>8, <1>9, <1>10, FillShows

\* A slice of a market with a line moves one outcome of the line.
LEMMA MoveAbstract ==
    ASSUME NettingLinesAssumption, LinesInv, NEW key \in Lines, NEW side \in 0..1,
           NEW profit \in Profits,
           MoveLine(key, side, profit) \/ MoveLine(key, side, -profit)
    PROVE  LinesInv' /\ Abstract!BookNext
<1>. DEFINE at == Search(key).at + 1
            line == lines[at]
<1>1. key \in Mkts /\ key \notin Headers /\ side \in Sides /\ side \in NetSides(key)
      /\ profit \in Nat /\ side \in {0, 1}
    BY NettingAssumption DEF Mkts, Sides, NetSides, NettingLinesAssumption
<1>2. PICK d \in {profit, -profit} : MoveLine(key, side, d)
    OBVIOUS
<1>3. /\ exists = TRUE /\ exists' = exists /\ header' = header /\ Search(key).found
      /\ lines' = [lines EXCEPT ![at] = Moved(line, side, d)]
      /\ (IF side = 0 THEN line.open_0 ELSE line.open_1) + d \in 0..MaxOpen
    BY <1>2 DEF MoveLine, LinesInv
<1>4. /\ at \in DOMAIN lines /\ line.key = key /\ key \in KeysIn(lines)
      /\ line \in NettingLine /\ line \in LinesIn(lines)
      /\ \A other \in LinesIn(lines) : other.key = key => other = line
    BY <1>3, LineThere
<1>. HIDE DEF at, line
<1>. DEFINE new == Moved(line, side, d)
            ms == WithLine(lines, at, new)
<1>5. Outcome(line, side) + d \in Nat /\ d \in Int /\ Outcome(line, side) \in Nat
    BY <1>1, <1>2, <1>3, <1>4 DEF Outcome, NettingLine, NettingLinesAssumption
<1>6. /\ new \in NettingLine /\ new.key = key
      /\ \A sd \in Sides :
             Outcome(new, sd) = IF sd = side THEN Outcome(line, sd) + d ELSE Outcome(line, sd)
    BY <1>4, <1>5, MovedLine
<1>. HIDE DEF new
<1>7. ms \in Arrays /\ LinesIn(ms) = (LinesIn(lines) \ {line}) \cup {new}
  <2>1. at \in DOMAIN lines /\ new.key = lines[at].key /\ lines \in Arrays
      BY <1>4, <1>6 DEF LinesInv, line
  <2>2. /\ WithLine(lines, at, new) \in Arrays
        /\ LinesIn(WithLine(lines, at, new)) = (LinesIn(lines) \ {lines[at]}) \cup {new}
      BY <1>6, <2>1, LineWritten
  <2>. QED
      BY <2>2 DEF line
<1>8. lines' = ms
    BY <1>3 DEF new, WithLine
<1>. HIDE DEF ms
<1>9. LinesInv'
    BY <1>3, <1>7, <1>8 DEF LinesInv
<1>10. /\ \A sd \in Sides : ShownOpen(header, ms, key, sd) = Outcome(new, sd)
       /\ \A mk \in Mkts, sd \in Sides :
              mk # key => ShownOpen(header, ms, mk, sd) = ShownOpen(header, lines, mk, sd)
       /\ KeysIn(ms) = KeysIn(lines) \cup {key}
  <2>1. \A other : other \in LinesIn(lines) /\ other.key # key
                       <=> other \in LinesIn(ms) /\ other.key # key
      BY <1>4, <1>6, <1>7
  <2>. QED
      BY <1>6, <1>7, <2>1, LineShows
<1>11. \A sd \in Sides : ShownOpen(header, lines, key, sd) = Outcome(line, sd)
    BY <1>4, LineShown
<1>12. \A mk \in Mkts, sd \in Sides :
           ShownOpen(header', lines', mk, sd) =
               IF mk = key /\ sd = side THEN ShownOpen(header, lines, mk, sd) + d
               ELSE ShownOpen(header, lines, mk, sd)
    BY <1>3, <1>6, <1>8, <1>10, <1>11
<1>13. KeysIn(lines') = KeysIn(lines)
    BY <1>4, <1>8, <1>10
<1>14. BookShown.exists = TRUE /\ key \in BookShown.lines
       /\ BookShown.open[key][side] = Outcome(line, side)
    BY <1>1, <1>3, <1>4, BookFields, LineShown
<1>15. CASE d = profit
  <2>1. CanNet(BookShown, key, side)
      BY <1>1, <1>14 DEF CanNet
  <2>2. KeysIn(lines') = KeysIn(lines) \cup ({key} \cap Lines)
      BY <1>4, <1>13
  <2>3. \A mk \in Mkts, sd \in Sides :
            ShownOpen(header', lines', mk, sd) =
                IF mk = key /\ sd = side THEN ShownOpen(header, lines, mk, sd) + profit
                ELSE ShownOpen(header, lines, mk, sd)
      BY <1>12, <1>15
  <2>. QED
      BY <1>1, <1>3, <1>9, <2>1, <2>2, <2>3, FillShows
<1>16. CASE d = -profit
  <2>1. CanUnnet(BookShown, key, side, profit)
      BY <1>1, <1>5, <1>14, <1>16 DEF CanUnnet
  <2>2. \A mk \in Mkts, sd \in Sides :
            ShownOpen(header', lines', mk, sd) =
                IF mk = key /\ sd = side THEN ShownOpen(header, lines, mk, sd) - profit
                ELSE ShownOpen(header, lines, mk, sd)
    <3>1. Outcome(line, side) + d = Outcome(line, side) - profit
        BY <1>1, <1>5, <1>16
    <3>. QED
        BY <1>11, <1>12, <3>1
  <2>. QED
      BY <1>1, <1>3, <1>9, <1>13, <2>1, <2>2, SettleShows
<1>. QED
    BY <1>2, <1>15, <1>16

\* Every step of the account keeps its invariant and is a step of the book.
LEMMA LinesSteps ==
    ASSUME NettingLinesAssumption, LinesInv, [LinesNext]_linesVars
    PROVE  LinesInv' /\ [Abstract!BookNext]_BookShown
<1>1. CASE UNCHANGED linesVars
  <2>1. exists' = exists /\ header' = header /\ lines' = lines
      BY <1>1 DEF linesVars
  <2>2. BookShown' = BookShown
      BY <2>1, BookShownIs, BookShownNext
  <2>. QED
      BY <2>1, <2>2 DEF LinesInv
<1>2. CASE CreateAccount
    BY <1>2, CreateAbstract
<1>3. CASE CloseAccount
    BY <1>3, CloseAbstract
<1>4. CASE \E key \in Lines : AddNettingLine(key) \/ RemoveNettingLine(key)
    BY <1>4, AddAbstract, RemoveAbstract
<1>5. CASE \E mkt \in Headers, side \in 0..2, profit \in Profits :
               MoveHeader(mkt, side, profit) \/ MoveHeader(mkt, side, -profit)
    BY <1>5, HeaderAbstract
<1>6. CASE \E key \in Lines, side \in 0..1, profit \in Profits :
               \/ OpenLine(key, side, profit)
               \/ MoveLine(key, side, profit)
               \/ MoveLine(key, side, -profit)
    BY <1>6, OpenAbstract, MoveAbstract
<1>. QED
    BY <1>1, <1>2, <1>3, <1>4, <1>5, <1>6 DEF LinesNext

\* The sorted array of lines implements the book of open profits: searching,
\* inserting, shifting and removing never move profit between markets, for any
\* markets, slices and capacity.
THEOREM ArrayImplementsBook ==
    ASSUME NettingLinesAssumption
    PROVE  LinesSpec => ImplementsBook
<1>1. LinesInit => LinesInv /\ Abstract!BookInit
  <2>. SUFFICES ASSUME LinesInit
                PROVE  LinesInv /\ Abstract!BookInit
      OBVIOUS
  <2>1. exists = FALSE /\ header = BlankHeader /\ lines = << >>
      BY DEF LinesInit
  <2>2. LinesInv
      BY <2>1, BlankShows DEF LinesInv
  <2>3. BookShown = NoBook
      BY <2>1, BookShownIs, BlankShows DEF NoBook
  <2>. QED
      BY <2>2, <2>3, AbstractIs DEF Abstract!BookInit
<1>2. LinesInv /\ [LinesNext]_linesVars => LinesInv' /\ [Abstract!BookNext]_BookShown
    BY LinesSteps
<1>. QED
    BY <1>1, <1>2, PTL DEF LinesSpec, ImplementsBook, Abstract!BookSpec

-----------------------------------------------------------------------------
(* Shares of a cashout *)

\* A sum without one of its summands.
LEMMA TotalWithout ==
    ASSUME NEW S, IsFiniteSet(S), NEW x, x \notin S, NEW f \in [S \cup {x} -> Nat]
    PROVE  Total(f) = Total([y \in S |-> f[y]]) + f[x]
<1>. DEFINE T == S \cup {x}
            g == [y \in S |-> f[y]]
            z == [y \in T |-> IF y = x THEN 0 ELSE f[y]]
            h == [y \in S |-> y]
<1>1. IsFiniteSet(T)
    BY FS_AddElement
<1>2. /\ g \in [S -> Nat] /\ z \in [T -> Nat] /\ h \in [S -> T] /\ z[x] = 0 /\ f[x] \in Nat
      /\ \A y \in T \ {x} : f[y] = z[y]
      /\ \A y, w \in S : h[y] = h[w] => y = w
      /\ \A y \in S : z[h[y]] = g[y]
      /\ \A w \in T : (\A y \in S : h[y] # w) => z[w] = 0
    OBVIOUS
<1>. HIDE DEF g, z, h
<1>3. Total(g) = Total(z)
    BY <1>1, <1>2, TotalReindex
<1>4. Total(f) = Total(z) - z[x] + f[x]
    BY <1>1, <1>2, TotalUpdate DEF T
<1>5. Total(z) \in Nat
    BY <1>1, <1>2, TotalType
<1>. QED
    BY <1>2, <1>3, <1>4, <1>5 DEF g

\* Rounding down: what is divided is not exceeded.
LEMMA DivisionBounds ==
    ASSUME NEW x \in Nat, NEW d \in Nat \ {0}
    PROVE  x \div d \in Nat /\ (x \div d) * d <= x
OBVIOUS

\* A share of at most the whole is at most the stake.
LEMMA ShareBounds ==
    ASSUME NEW stake \in Nat, NEW whole \in Nat \ {0}, NEW part \in 0..whole
    PROVE  /\ (stake * part) \div whole \in 0..stake
           /\ ((stake * part) \div whole) * whole <= stake * part
<1>. DEFINE x == stake * part
            q == x \div whole
<1>1. x \in Nat /\ q \in Nat /\ q * whole <= x
    BY DivisionBounds
<1>2. x <= stake * whole
    OBVIOUS
<1>3. ASSUME q > stake PROVE FALSE
  <2>1. q >= stake + 1
      BY <1>1, <1>3
  <2>2. q * whole >= (stake + 1) * whole
      BY <1>1, <2>1
  <2>3. (stake + 1) * whole = stake * whole + whole
      OBVIOUS
  <2>. QED
      BY <1>1, <1>2, <2>2, <2>3
<1>. QED
    BY <1>1, <1>3

-----------------------------------------------------------------------------
Floor(a, c, j) == (a[j] * c) \div Total(a)
FloorSum(a, c, k) == Total([j \in 1..k |-> Floor(a, c, j)])
StakeSum(a, k) == Total([j \in 1..k |-> a[j]])

\* A cashout amount of a ticket.
Ticketed(a, c) == a \in Seq(Nat) /\ Len(a) # 0 /\ c \in 1..Total(a)

LEMMA TicketedIs ==
    ASSUME NEW a, NEW c, Ticketed(a, c)
    PROVE  /\ Len(a) \in Nat \ {0} /\ a \in [1..Len(a) -> Nat] /\ DOMAIN a = 1..Len(a)
           /\ Total(a) \in Nat \ {0} /\ c \in Nat \ {0} /\ c <= Total(a)
           /\ \A j \in 1..Len(a) : a[j] \in Nat /\ Floor(a, c, j) \in 0..a[j]
                                   /\ Floor(a, c, j) * Total(a) <= a[j] * c
           /\ StakeSum(a, Len(a)) = Total(a)
<1>1. Len(a) \in Nat \ {0} /\ a \in [1..Len(a) -> Nat] /\ DOMAIN a = 1..Len(a)
    BY DEF Ticketed
<1>2. IsFiniteSet(1..Len(a))
    BY <1>1, FS_Interval
<1>3. Total(a) \in Nat
    BY <1>1, <1>2, TotalType
<1>4. Total(a) \in Nat \ {0} /\ c \in Nat \ {0} /\ c <= Total(a) /\ c \in 0..Total(a)
    BY <1>3 DEF Ticketed
<1>5. \A j \in 1..Len(a) : a[j] \in Nat /\ Floor(a, c, j) \in 0..a[j]
                           /\ Floor(a, c, j) * Total(a) <= a[j] * c
    BY <1>1, <1>4, ShareBounds DEF Floor
<1>6. a = [j \in 1..Len(a) |-> a[j]]
    BY <1>1
<1>. QED
    BY <1>1, <1>4, <1>5, <1>6 DEF StakeSum

\* Sums over the first slots, slot by slot.
LEMMA PrefixSums ==
    ASSUME NEW a, NEW c, Ticketed(a, c), NEW k \in 0..(Len(a) - 1)
    PROVE  /\ FloorSum(a, c, k) \in Nat /\ StakeSum(a, k) \in Nat
           /\ FloorSum(a, c, k + 1) = FloorSum(a, c, k) + Floor(a, c, k + 1)
           /\ StakeSum(a, k + 1) = StakeSum(a, k) + a[k + 1]
<1>. DEFINE n == Len(a)
<1>1. /\ n \in Nat /\ \A j \in 1..n : a[j] \in Nat /\ Floor(a, c, j) \in Nat
    BY TicketedIs
<1>2. /\ k \in Nat /\ k + 1 \in 1..n /\ \A j \in 1..k : j \in 1..n
      /\ 1..(k + 1) = (1..k) \cup {k + 1} /\ k + 1 \notin 1..k
    BY <1>1
<1>. HIDE DEF n
<1>3. IsFiniteSet(1..k)
    BY <1>2, FS_Interval
<1>. DEFINE f == [j \in 1..(k + 1) |-> Floor(a, c, j)]
            g == [j \in 1..(k + 1) |-> a[j]]
<1>4. f \in [(1..k) \cup {k + 1} -> Nat] /\ g \in [(1..k) \cup {k + 1} -> Nat]
    BY <1>1, <1>2
<1>5. /\ f[k + 1] = Floor(a, c, k + 1) /\ [j \in 1..k |-> f[j]] = [j \in 1..k |-> Floor(a, c, j)]
      /\ g[k + 1] = a[k + 1] /\ [j \in 1..k |-> g[j]] = [j \in 1..k |-> a[j]]
    BY <1>1, <1>2
<1>. HIDE DEF f, g
<1>6. Total(f) = Total([j \in 1..k |-> f[j]]) + f[k + 1]
      /\ Total(g) = Total([j \in 1..k |-> g[j]]) + g[k + 1]
    BY <1>2, <1>3, <1>4, TotalWithout
<1>7. FloorSum(a, c, k) \in Nat /\ StakeSum(a, k) \in Nat
  <2>1. [j \in 1..k |-> Floor(a, c, j)] \in [1..k -> Nat] /\ [j \in 1..k |-> a[j]] \in [1..k -> Nat]
      BY <1>1, <1>2
  <2>. QED
      BY <1>3, <2>1, TotalType DEF FloorSum, StakeSum
<1>. QED
    BY <1>5, <1>6, <1>7 DEF FloorSum, StakeSum, f, g

\* Two inequalities side by side.
LEMMA Alongside ==
    ASSUME NEW p \in Nat, NEW s \in Nat, NEW q \in Nat, NEW r \in Nat, NEW t \in Nat,
           NEW c \in Nat, p * t <= q * c, s * t <= r * c
    PROVE  (p + s) * t <= (q + r) * c
<1>1. (p + s) * t = p * t + s * t /\ (q + r) * c = q * c + r * c
    OBVIOUS
<1>2. p * t \in Nat /\ s * t \in Nat /\ q * c \in Nat /\ r * c \in Nat
    OBVIOUS
<1>. QED
    BY <1>1, <1>2

\* The floors of the first slots take their part of the cashout at most.
LEMMA FloorsFit ==
    ASSUME NEW a, NEW c, Ticketed(a, c), NEW k \in 0..Len(a)
    PROVE  /\ FloorSum(a, c, k) \in Nat /\ StakeSum(a, k) \in Nat
           /\ FloorSum(a, c, k) * Total(a) <= StakeSum(a, k) * c
<1>. DEFINE n == Len(a)
            Fits(m) == /\ FloorSum(a, c, m) \in Nat /\ StakeSum(a, m) \in Nat
                       /\ FloorSum(a, c, m) * Total(a) <= StakeSum(a, m) * c
            S == {m \in Nat : m <= n => Fits(m)}
<1>1. /\ n \in Nat /\ Total(a) \in Nat /\ c \in Nat
      /\ \A j \in 1..n : a[j] \in Nat /\ Floor(a, c, j) \in Nat
                         /\ Floor(a, c, j) * Total(a) <= a[j] * c
    BY TicketedIs
<1>. HIDE DEF n
<1>2. 0 \in S
  <2>1. 1..0 = {}
      OBVIOUS
  <2>2. [j \in 1..0 |-> Floor(a, c, j)] \in [1..0 -> Nat] /\ [j \in 1..0 |-> a[j]] \in [1..0 -> Nat]
      BY <2>1
  <2>3. FloorSum(a, c, 0) = 0
      BY <2>1, <2>2, TotalZero DEF FloorSum
  <2>4. StakeSum(a, 0) = 0
      BY <2>1, <2>2, TotalZero DEF StakeSum
  <2>. QED
      BY <1>1, <2>3, <2>4
<1>3. ASSUME NEW m \in Nat, m \in S
      PROVE  m + 1 \in S
  <2>. SUFFICES ASSUME m + 1 <= n
                PROVE  Fits(m + 1)
      OBVIOUS
  <2>1. m \in 0..(n - 1) /\ Fits(m) /\ m + 1 \in 1..n
      BY <1>1, <1>3
  <2>2. /\ FloorSum(a, c, m + 1) = FloorSum(a, c, m) + Floor(a, c, m + 1)
        /\ StakeSum(a, m + 1) = StakeSum(a, m) + a[m + 1]
      BY <2>1, PrefixSums DEF n
  <2>3. Floor(a, c, m + 1) \in Nat /\ a[m + 1] \in Nat
        /\ Floor(a, c, m + 1) * Total(a) <= a[m + 1] * c
      BY <1>1, <2>1
  <2>4. (FloorSum(a, c, m) + Floor(a, c, m + 1)) * Total(a) <= (StakeSum(a, m) + a[m + 1]) * c
      BY <1>1, <2>1, <2>3, Alongside
  <2>. QED
      BY <2>1, <2>2, <2>3, <2>4
<1>. HIDE DEF S
<1>4. Nat \subseteq S
    BY <1>2, <1>3, SetInduction
<1>5. k \in S /\ k <= n /\ k \in Nat
    BY <1>1, <1>4 DEF n
<1>. QED
    BY <1>5 DEF S

\* The last slot's share before it is capped, and what it cannot take.
LastShare(a, c) == c - FloorSum(a, c, Len(a) - 1)
Excess(a, c) == GreaterOf(0, LastShare(a, c) - a[Len(a)])
Room(a, c, j) == a[j] - Floor(a, c, j)
Later(a, c, k) == Total([j \in (k + 1)..(Len(a) - 1) |-> Room(a, c, j)])

\* There is a remainder for the last slot, and the slots before it have room for
\* what it cannot take.
LEMMA ExcessFits ==
    ASSUME NEW a, NEW c, Ticketed(a, c)
    PROVE  /\ LastShare(a, c) \in Nat /\ Excess(a, c) \in Nat
           /\ Excess(a, c) <= LastShare(a, c)
           /\ LastShare(a, c) - Excess(a, c) \in 0..a[Len(a)]
           /\ Excess(a, c) <= Later(a, c, 0)
<1>. DEFINE n == Len(a)
            m == n - 1
            T == Total(a)
            fs == FloorSum(a, c, m)
            ss == StakeSum(a, m)
<1>1. /\ n \in Nat \ {0} /\ T \in Nat \ {0} /\ c \in Nat \ {0} /\ c <= T
      /\ \A j \in 1..n : a[j] \in Nat /\ Floor(a, c, j) \in 0..a[j]
      /\ StakeSum(a, n) = T
    BY TicketedIs
<1>2. m \in 0..Len(a) /\ m \in 0..(Len(a) - 1) /\ m + 1 = n /\ m \in Nat
    BY <1>1
<1>3. fs \in Nat /\ ss \in Nat /\ fs * T <= ss * c
    BY <1>2, FloorsFit
<1>4. T = ss + a[n]
    BY <1>1, <1>2, PrefixSums
<1>. HIDE DEF T, fs, ss
<1>5. fs <= c
  <2>. SUFFICES ASSUME fs > c
                PROVE  FALSE
      BY <1>1, <1>3
  <2>1. ss <= T /\ a[n] \in Nat
      BY <1>1, <1>3, <1>4
  <2>2. ss * c <= T * c
      BY <1>1, <1>3, <2>1
  <2>3. fs >= c + 1
      BY <1>1, <1>3
  <2>4. fs * T >= (c + 1) * T
      BY <1>1, <1>3, <2>3
  <2>5. (c + 1) * T = c * T + T /\ c * T = T * c /\ c * T \in Nat /\ fs * T \in Nat
        /\ ss * c \in Nat
      BY <1>1, <1>3
  <2>. QED
      BY <1>1, <1>3, <2>2, <2>4, <2>5
<1>6. Later(a, c, 0) = ss - fs /\ Later(a, c, 0) \in Nat
  <2>. DEFINE f == [j \in 1..m |-> Floor(a, c, j)]
              g == [j \in 1..m |-> Room(a, c, j)]
              h == [j \in 1..m |-> a[j]]
  <2>1. IsFiniteSet(1..m)
      BY <1>2, FS_Interval
  <2>2. \A j \in 1..m : j \in 1..n
      BY <1>1
  <2>3. f \in [1..m -> Nat] /\ g \in [1..m -> Nat] /\ h \in [1..m -> Nat]
      BY <1>1, <2>2 DEF Room
  <2>4. \A j \in 1..m : h[j] = f[j] + g[j]
      BY <1>1, <2>2 DEF Room
  <2>5. fs = Total(f) /\ ss = Total(h) /\ Later(a, c, 0) = Total(g)
      BY DEF fs, ss, FloorSum, StakeSum, Later
  <2>. DEFINE S == 1..m
  <2>. HIDE DEF f, g, h, m, S
  <2>6. Total(h) = Total(f) + Total(g)
    <3>1. IsFiniteSet(S) /\ f \in [S -> Nat] /\ g \in [S -> Nat] /\ h \in [S -> Nat]
        BY <2>1, <2>3 DEF S
    <3>2. \A j \in S : h[j] = f[j] + g[j]
        BY <2>4 DEF S
    <3>. QED
        BY <3>1, <3>2, TotalSum
  <2>7. Total(g) \in Nat
      BY <2>1, <2>3, TotalType
  <2>. QED
      BY <1>3, <2>5, <2>6, <2>7
<1>7. LastShare(a, c) = c - fs
    BY DEF LastShare, fs
<1>8. a[n] \in Nat
    BY <1>1
<1>. HIDE DEF m
<1>. DEFINE ls == LastShare(a, c)
            ex == Excess(a, c)
            la == Later(a, c, 0)
            an == a[n]
<1>9. ls \in Nat /\ an \in Nat /\ ls - an <= la /\ la \in Int
    BY <1>1, <1>3, <1>4, <1>5, <1>6, <1>7, <1>8
<1>10. ex = GreaterOf(0, ls - an)
    BY DEF Excess
<1>. HIDE DEF ls, ex, la, an, n
<1>11. ls \in Nat /\ ex \in Nat /\ ex <= ls /\ ls - ex \in 0..an /\ ex <= la
  <2>1. la >= 0
      BY <1>6 DEF la
  <2>. QED
      BY <1>9, <1>10, <2>1 DEF GreaterOf
<1>. QED
    BY <1>11 DEF ls, ex, la, an, n

\* What the slots after k can still take, slot by slot.
LEMMA LaterSteps ==
    ASSUME NEW a, NEW c, Ticketed(a, c), NEW k \in 0..(Len(a) - 1)
    PROVE  /\ Later(a, c, k) \in Nat
           /\ k = Len(a) - 1 => Later(a, c, k) = 0
           /\ k # 0 => Later(a, c, k - 1) = Later(a, c, k) + Room(a, c, k)
<1>. DEFINE n == Len(a)
            S == (k + 1)..(n - 1)
            g == [j \in S |-> Room(a, c, j)]
<1>1. /\ n \in Nat \ {0} /\ \A j \in 1..n : Room(a, c, j) \in Nat
    BY TicketedIs DEF Room
<1>2. IsFiniteSet(S)
    BY <1>1, FS_Interval
<1>3. g \in [S -> Nat]
    BY <1>1
<1>4. Later(a, c, k) = Total(g)
    BY DEF Later
<1>5. Later(a, c, k) \in Nat
    BY <1>2, <1>3, <1>4, TotalType
<1>6. ASSUME k = n - 1 PROVE Later(a, c, k) = 0
  <2>1. S = {}
      BY <1>1, <1>6
  <2>2. \A j \in S : g[j] = 0
      BY <2>1
  <2>. HIDE DEF g, S
  <2>. QED
      BY <1>3, <1>4, <2>2, TotalZero
<1>7. ASSUME k # 0 PROVE Later(a, c, k - 1) = Later(a, c, k) + Room(a, c, k)
  <2>. DEFINE f == [j \in k..(n - 1) |-> Room(a, c, j)]
  <2>1. k..(n - 1) = S \cup {k} /\ k \notin S /\ k \in 1..n /\ (k - 1) + 1 = k
      BY <1>1, <1>7
  <2>2. f \in [S \cup {k} -> Nat] /\ f[k] = Room(a, c, k) /\ [j \in S |-> f[j]] = g
      BY <1>1, <2>1
  <2>3. Later(a, c, k - 1) = Total(f)
      BY <2>1 DEF Later
  <2>. HIDE DEF f, g, S
  <2>4. Total(f) = Total([j \in S |-> f[j]]) + f[k]
      BY <1>2, <2>1, <2>2, TotalWithout
  <2>. QED
      BY <1>4, <2>2, <2>3, <2>4
<1>. QED
    BY <1>5, <1>6, <1>7

\* Fewer slots take less.
LEMMA LaterFalls ==
    ASSUME NEW a, NEW c, Ticketed(a, c), NEW l \in 0..(Len(a) - 1), NEW k \in 0..l
    PROVE  Later(a, c, l) <= Later(a, c, k)
<1>. DEFINE S == {d \in Nat : d <= l => Later(a, c, l) <= Later(a, c, l - d)}
<1>1. Len(a) \in Nat \ {0} /\ l \in Nat /\ k \in Nat /\ \A j \in 1..Len(a) : Room(a, c, j) \in Nat
    BY TicketedIs DEF Room
<1>2. \A j \in 0..l : Later(a, c, j) \in Nat
    BY <1>1, LaterSteps
<1>3. 0 \in S
    BY <1>1, <1>2
<1>4. ASSUME NEW d \in Nat, d \in S
      PROVE  d + 1 \in S
  <2>. SUFFICES ASSUME d + 1 <= l
                PROVE  Later(a, c, l) <= Later(a, c, l - (d + 1))
      OBVIOUS
  <2>1. l - d \in 1..l /\ l - d \in 0..(Len(a) - 1) /\ l - d # 0 /\ l - (d + 1) = (l - d) - 1
        /\ l - (d + 1) \in 0..l /\ l - d \in 1..Len(a)
      BY <1>1
  <2>2. Later(a, c, (l - d) - 1) = Later(a, c, l - d) + Room(a, c, l - d)
      BY <2>1, LaterSteps
  <2>3. Later(a, c, l) <= Later(a, c, l - d)
      BY <1>1, <1>4
  <2>. QED
      BY <1>1, <1>2, <2>1, <2>2, <2>3
<1>. HIDE DEF S
<1>5. l - k \in S
  <2>1. l - k \in Nat
      BY <1>1
  <2>. QED
      BY <1>3, <1>4, <2>1, SetInduction
<1>6. l - k <= l /\ l - (l - k) = k
    BY <1>1
<1>. QED
    BY <1>5, <1>6 DEF S

\* What a slot is cashed, in the end.
Taken(a, c, j) ==
    IF j = Len(a) THEN LastShare(a, c) - Excess(a, c)
    ELSE Floor(a, c, j) +
         LesserOf(Room(a, c, j), GreaterOf(0, Excess(a, c) - Later(a, c, j)))

\* The closed formula of Splits, in terms of the sums above.
LEMMA SharesAre ==
    ASSUME NEW a, NEW c, Ticketed(a, c)
    PROVE  CashedShares(a, Total(a), c) = [j \in 1..Len(a) |-> Taken(a, c, j)]
<1>. DEFINE n == Len(a)
            T == Total(a)
            share == FloorShares(a, T, c)
<1>1. n \in Nat \ {0}
    BY TicketedIs
<1>2. share = [j \in 1..n |-> IF j < n THEN Floor(a, c, j) ELSE LastShare(a, c)]
    BY DEF FloorShares, Floor, LastShare, FloorSum
<1>3. share[n] = LastShare(a, c) /\ \A j \in 1..n : j # n => share[j] = Floor(a, c, j)
    BY <1>1, <1>2
<1>. HIDE DEF share
<1>. QED
    BY <1>1, <1>3 DEF CashedShares, Taken, Room, Excess, Later, share

\* It is at most the slot's stake.
LEMMA TakenBounds ==
    ASSUME NEW a, NEW c, Ticketed(a, c), NEW j \in 1..Len(a)
    PROVE  Taken(a, c, j) \in 0..a[j]
<1>. DEFINE n == Len(a)
<1>1. n \in Nat \ {0} /\ a[j] \in Nat /\ Floor(a, c, j) \in 0..a[j]
    BY TicketedIs
<1>2. CASE j = n
    BY <1>2, ExcessFits DEF Taken
<1>3. CASE j # n
  <2>1. j \in 0..(n - 1)
      BY <1>1, <1>3
  <2>2. Later(a, c, j) \in Nat /\ Excess(a, c) \in Nat
      BY <2>1, LaterSteps, ExcessFits
  <2>. DEFINE x == LesserOf(Room(a, c, j), GreaterOf(0, Excess(a, c) - Later(a, c, j)))
  <2>3. x \in 0..Room(a, c, j)
      BY <1>1, <2>2 DEF LesserOf, GreaterOf, Room
  <2>4. Taken(a, c, j) = Floor(a, c, j) + x
      BY <1>3 DEF Taken
  <2>. HIDE DEF x
  <2>. QED
      BY <1>1, <2>3, <2>4 DEF Room
<1>. QED
    BY <1>2, <1>3

-----------------------------------------------------------------------------
(* The loops *)

StakesOf == [j \in 1..num |-> orig[j].amount]

AssignInv ==
    /\ idx \in 1..(num + 1)
    /\ cashed_amt \in Seq(Nat) /\ Len(cashed_amt) = idx - 1
    /\ \A j \in 1..(idx - 1) :
           cashed_amt[j] = IF j = num THEN LastShare(StakesOf, cash) ELSE Floor(StakesOf, cash, j)
    /\ Total(cashed_amt) =
           IF idx = num + 1 THEN cash ELSE FloorSum(StakesOf, cash, idx - 1)

WalkInv ==
    /\ idx \in 1..num
    /\ cashed_amt \in Seq(Nat) /\ Len(cashed_amt) = num
    /\ \A j \in 1..num :
           cashed_amt[j] = IF j < idx THEN Floor(StakesOf, cash, j) ELSE Taken(StakesOf, cash, j)
    /\ overflow = GreaterOf(0, Excess(StakesOf, cash) - Later(StakesOf, cash, idx - 1))
    /\ Total(cashed_amt) + overflow = cash

SharesDone ==
    /\ cashed_amt \in Seq(Nat)
    /\ cashed_amt = [j \in 1..num |-> Taken(StakesOf, cash, j)]
    /\ Total(cashed_amt) = cash

\* What the last loop can write.
LeftSlices == {RemainingSlice(s, c) : s \in Slots, c \in Nat}

SplitInv ==
    /\ orig \in Seq(Slots) /\ Ticketed(StakesOf, cash) /\ num \in Nat \ {0}
    /\ pc \in {"assign", "walk", "split", "done"} /\ idx \in Nat
    /\ pc \in {"assign", "walk"} => remaining = << >>
    /\ pc = "assign" => AssignInv
    /\ pc = "walk" => WalkInv
    /\ pc \in {"split", "done"} => SharesDone
    /\ pc = "split" =>
          /\ idx \in 1..(num + 1) /\ remaining \in Seq(LeftSlices) /\ Len(remaining) = idx - 1
          /\ \A j \in 1..(idx - 1) : remaining[j].amount = StakesOf[j] - cashed_amt[j]

\* The slots of a ticket.
LEMMA SlotsType ==
    ASSUME SplitFillersAssumption, NEW slot \in Slots
    PROVE  /\ slot.amount \in Nat
           /\ \A c : RemainingSlice(slot, c).amount = slot.amount - c
<1>1. PICK amount \in 0..MaxSlotStake, odds \in SlotOdds, extra \in Spare :
          slot = SlotWith(amount, odds, extra)
    BY DEF Slots
<1>2. slot.amount = amount /\ amount \in Nat
    BY <1>1 DEF SlotWith, SplitFillersAssumption
<1>3. ASSUME NEW c PROVE RemainingSlice(slot, c).amount = slot.amount - c
  <2>. DEFINE v == slot.amount - c
              w == slot.reserved - CashedSlice(slot, c).reserved
              first == [slot EXCEPT !.amount = v]
  <2>1. DOMAIN slot = {"amount", "odds", "netted", "reserved"}
      BY <1>1 DEF SlotWith
  <2>2. RemainingSlice(slot, c) = [first EXCEPT !.reserved = w]
      BY DEF RemainingSlice
  <2>. HIDE DEF v, w
  <2>3. first.amount = v /\ DOMAIN first = DOMAIN slot
      BY <2>1
  <2>. HIDE DEF first
  <2>. QED
      BY <2>1, <2>2, <2>3 DEF v
<1>. QED
    BY <1>2, <1>3

\* A list with a number more.
LEMMA AppendTotal ==
    ASSUME NEW s \in Seq(Nat), NEW v \in Nat
    PROVE  /\ Append(s, v) \in Seq(Nat) /\ Len(Append(s, v)) = Len(s) + 1
           /\ \A j \in 1..(Len(s) + 1) :
                 Append(s, v)[j] = IF j = Len(s) + 1 THEN v ELSE s[j]
           /\ Total(Append(s, v)) = Total(s) + v
           /\ Total(s) \in Nat
<1>. DEFINE n == Len(s)
            t == Append(s, v)
<1>1. /\ n \in Nat /\ s \in [1..n -> Nat]
      /\ t \in Seq(Nat) /\ Len(t) = n + 1
      /\ \A j \in 1..(n + 1) : t[j] = IF j = n + 1 THEN v ELSE s[j]
    OBVIOUS
<1>. HIDE DEF t, n
<1>7. t \in [1..(n + 1) -> Nat]
    BY <1>1
<1>2. 1..(n + 1) = (1..n) \cup {n + 1} /\ n + 1 \notin 1..n
    BY <1>1
<1>3. IsFiniteSet(1..n)
    BY <1>1, FS_Interval
<1>4. Total(t) = Total([j \in 1..n |-> t[j]]) + t[n + 1]
  <2>1. t \in [(1..n) \cup {n + 1} -> Nat]
      BY <1>2, <1>7
  <2>. QED
      BY <1>2, <1>3, <2>1, TotalWithout
<1>5. [j \in 1..n |-> t[j]] = s /\ t[n + 1] = v
    BY <1>1, <1>2
<1>6. Total(s) \in Nat
    BY <1>1, <1>3, TotalType
<1>. QED
    BY <1>1, <1>4, <1>5, <1>6 DEF n, t

\* The stakes of the slots, and their sum.
LEMMA StakesAre ==
    ASSUME SplitFillersAssumption, orig \in Seq(Slots)
    PROVE  /\ StakesOf \in Seq(Nat) /\ Len(StakesOf) = num
           /\ \A j \in 1..num : StakesOf[j] = orig[j].amount /\ orig[j] \in Slots
           /\ orig_amount = Total(StakesOf)
<1>1. num \in Nat /\ DOMAIN orig = 1..num /\ \A j \in 1..num : orig[j] \in Slots
    BY DEF num
<1>2. \A j \in 1..num : orig[j].amount \in Nat
    BY <1>1, SlotsType
<1>3. StakesOf \in Seq(Nat) /\ Len(StakesOf) = num
    BY <1>1, <1>2 DEF StakesOf
<1>. QED
    BY <1>1, <1>3 DEF StakesOf, orig_amount

\* A call starts with a ticket and an amount of at most its stake.
LEMMA SplitStarts ==
    ASSUME SplitFillersAssumption, SplitInit
    PROVE  SplitInv
<1>1. PICK n \in Fillers : orig \in [1..n -> Slots]
    BY DEF SplitInit
<1>2. n \in Nat \ {0} /\ orig \in Seq(Slots) /\ num = n
    BY <1>1 DEF SplitFillersAssumption, num
<1>3. Ticketed(StakesOf, cash)
    BY <1>2, StakesAre DEF SplitInit, Ticketed
<1>4. AssignInv
  <2>1. cashed_amt = << >> /\ idx = 1
      BY DEF SplitInit
  <2>2. /\ << >> \in Seq(Nat) /\ Len(<< >>) = 0 /\ \A y \in 1..0 : FALSE
        /\ << >> \in [1..0 -> Nat]
      OBVIOUS
  <2>3. Total(<< >>) = 0
      BY <2>2, TotalZero
  <2>4. FloorSum(StakesOf, cash, 0) = 0
    <3>. DEFINE f == [j \in 1..0 |-> Floor(StakesOf, cash, j)]
    <3>1. f \in [1..0 -> Nat]
        OBVIOUS
    <3>. QED
        BY <2>2, <3>1, TotalZero DEF FloorSum
  <2>. QED
      BY <1>2, <2>1, <2>2, <2>3, <2>4 DEF AssignInv
<1>. QED
    BY <1>2, <1>3, <1>4 DEF SplitInv, SplitInit

\* The first loop appends the floors and then the remainder.
LEMMA AssignKeeps ==
    ASSUME SplitFillersAssumption, SplitInv, Assign
    PROVE  SplitInv'
<1>. DEFINE v == IF idx = num THEN cash - Total(cashed_amt)
                 ELSE (orig[idx].amount * cash) \div orig_amount
<1>1. /\ pc = "assign" /\ idx <= num /\ idx \in Nat /\ num \in Nat \ {0} /\ AssignInv
      /\ orig \in Seq(Slots) /\ Ticketed(StakesOf, cash) /\ remaining = << >>
      /\ cashed_amt' = Append(cashed_amt, v) /\ idx' = idx + 1
      /\ orig' = orig /\ cash' = cash /\ pc' = pc /\ remaining' = remaining
    BY DEF SplitInv, Assign
<1>2. /\ idx \in 1..num /\ cashed_amt \in Seq(Nat) /\ Len(cashed_amt) = idx - 1
      /\ \A j \in 1..(idx - 1) : cashed_amt[j] = Floor(StakesOf, cash, j)
      /\ Total(cashed_amt) = FloorSum(StakesOf, cash, idx - 1)
    BY <1>1 DEF AssignInv
<1>3. /\ Len(StakesOf) = num /\ orig_amount = Total(StakesOf)
      /\ StakesOf[idx] = orig[idx].amount
    BY <1>1, <1>2, StakesAre
<1>4. v = IF idx = num THEN LastShare(StakesOf, cash) ELSE Floor(StakesOf, cash, idx)
    BY <1>2, <1>3 DEF LastShare, Floor
<1>5. LastShare(StakesOf, cash) \in Nat /\ Floor(StakesOf, cash, idx) \in Nat
    BY <1>1, <1>2, <1>3, ExcessFits, TicketedIs
<1>6. v \in Nat
    BY <1>4, <1>5
<1>. HIDE DEF v
<1>7. /\ cashed_amt' \in Seq(Nat) /\ Len(cashed_amt') = idx
      /\ \A j \in 1..idx : cashed_amt'[j] = IF j = idx THEN v ELSE cashed_amt[j]
      /\ Total(cashed_amt') = FloorSum(StakesOf, cash, idx - 1) + v
  <2>1. /\ Append(cashed_amt, v) \in Seq(Nat)
        /\ Len(Append(cashed_amt, v)) = Len(cashed_amt) + 1
        /\ \A j \in 1..(Len(cashed_amt) + 1) :
               Append(cashed_amt, v)[j] = IF j = Len(cashed_amt) + 1 THEN v ELSE cashed_amt[j]
        /\ Total(Append(cashed_amt, v)) = Total(cashed_amt) + v
      BY <1>2, <1>6, AppendTotal
  <2>2. Len(cashed_amt) + 1 = idx
      BY <1>1, <1>2
  <2>. QED
      BY <1>1, <1>2, <2>1, <2>2
<1>8. \A j \in 1..idx :
          cashed_amt'[j] = IF j = num THEN LastShare(StakesOf, cash)
                           ELSE Floor(StakesOf, cash, j)
    BY <1>1, <1>2, <1>4, <1>7
<1>9. Total(cashed_amt') = IF idx = num THEN cash ELSE FloorSum(StakesOf, cash, idx)
  <2>1. idx - 1 \in 0..(num - 1) /\ (idx - 1) + 1 = idx
    <3>1. idx \in Nat /\ num \in Nat /\ 1 <= idx /\ idx <= num
        BY <1>1, <1>2
    <3>. HIDE DEF num
    <3>. QED
        BY <3>1
  <2>2. /\ FloorSum(StakesOf, cash, idx - 1) \in Nat
        /\ FloorSum(StakesOf, cash, idx) =
               FloorSum(StakesOf, cash, idx - 1) + Floor(StakesOf, cash, idx)
      BY <1>1, <1>3, <2>1, PrefixSums
  <2>3. cash \in Nat
      BY <1>1, TicketedIs
  <2>4. CASE idx = num
    <3>1. v = cash - FloorSum(StakesOf, cash, idx - 1)
        BY <1>3, <1>4, <2>4 DEF LastShare
    <3>. QED
        BY <1>7, <2>2, <2>3, <2>4, <3>1
  <2>5. CASE idx # num
      BY <1>4, <1>7, <2>2, <2>5
  <2>. QED
      BY <2>4, <2>5
<1>10. StakesOf' = StakesOf /\ num' = num
    BY <1>1 DEF StakesOf, num
<1>11. AssignInv'
  <2>1. idx' \in 1..(num + 1) /\ idx' - 1 = idx /\ (idx' = num + 1 <=> idx = num)
      BY <1>1, <1>2
  <2>. QED
      BY <1>1, <1>7, <1>8, <1>9, <1>10, <2>1 DEF AssignInv
<1>. QED
    BY <1>1, <1>10, <1>11 DEF SplitInv

\* A share over the stake splits into the stake and the excess.
LEMMA CappedShare ==
    ASSUME NEW share \in Nat, NEW stake \in Nat
    PROVE  /\ GreaterOf(0, share - stake) \in Nat
           /\ LesserOf(share, stake) = share - GreaterOf(0, share - stake)
           /\ LesserOf(share, stake) \in Nat
BY DEF GreaterOf, LesserOf

\* One step of the walk: what the slot before takes, and what stays over.
LEMMA WalkedShare ==
    ASSUME NEW excess \in Nat, NEW later \in Nat, NEW unused \in Nat, NEW over,
           over = GreaterOf(0, excess - later)
    PROVE  /\ over \in Nat /\ LesserOf(over, unused) \in 0..over
           /\ LesserOf(over, unused) = LesserOf(unused, over)
           /\ over - LesserOf(over, unused) = GreaterOf(0, excess - (later + unused))
BY DEF GreaterOf, LesserOf

\* What the last slot cannot take becomes the overflow.
LEMMA CapKeeps ==
    ASSUME SplitFillersAssumption, SplitInv, Cap
    PROVE  SplitInv'
<1>. DEFINE a == StakesOf
            last == LastShare(a, cash)
<1>1. /\ pc = "assign" /\ idx > num /\ idx \in Nat /\ num \in Nat \ {0} /\ AssignInv
      /\ orig \in Seq(Slots) /\ Ticketed(a, cash) /\ remaining = << >>
      /\ overflow' = GreaterOf(0, cashed_amt[num] - orig[num].amount)
      /\ cashed_amt' = [cashed_amt EXCEPT ![num] = LesserOf(cashed_amt[num], orig[num].amount)]
      /\ pc' = "walk" /\ idx' = num
      /\ orig' = orig /\ cash' = cash /\ remaining' = remaining
    BY DEF SplitInv, Cap
<1>2. /\ idx = num + 1 /\ cashed_amt \in Seq(Nat) /\ Len(cashed_amt) = num
      /\ \A j \in 1..num : cashed_amt[j] = IF j = num THEN last ELSE Floor(a, cash, j)
      /\ Total(cashed_amt) = cash
    BY <1>1 DEF AssignInv
<1>3. /\ Len(a) = num /\ a[num] = orig[num].amount /\ a[num] \in Nat
    BY <1>1, StakesAre, TicketedIs
<1>4. cashed_amt[num] = last /\ last \in Nat /\ cash \in Nat
    BY <1>1, <1>2, ExcessFits, TicketedIs
<1>. HIDE DEF last
<1>5. Excess(a, cash) = GreaterOf(0, last - a[num])
    BY <1>3 DEF Excess, last
<1>6. Taken(a, cash, num) = last - Excess(a, cash)
    BY <1>3 DEF Taken, last
<1>7. /\ overflow' = Excess(a, cash)
      /\ LesserOf(cashed_amt[num], orig[num].amount) = Taken(a, cash, num)
      /\ Taken(a, cash, num) \in Nat /\ Excess(a, cash) \in Nat
      /\ last = Taken(a, cash, num) + Excess(a, cash)
  <2>1. /\ GreaterOf(0, last - a[num]) \in Nat
        /\ LesserOf(last, a[num]) = last - GreaterOf(0, last - a[num])
        /\ LesserOf(last, a[num]) \in Nat
      BY <1>3, <1>4, CappedShare
  <2>2. overflow' = Excess(a, cash) /\ Excess(a, cash) \in Nat
      BY <1>1, <1>3, <1>4, <1>5, <2>1
  <2>3. LesserOf(cashed_amt[num], orig[num].amount) = Taken(a, cash, num)
      BY <1>3, <1>4, <1>5, <1>6, <2>1
  <2>4. Taken(a, cash, num) \in Nat
      BY <1>3, <1>4, <2>1, <2>3
  <2>. QED
      BY <1>4, <1>6, <2>2, <2>3, <2>4
<1>8. Later(a, cash, num - 1) = 0
  <2>1. num - 1 \in 0..(Len(a) - 1) /\ num - 1 = Len(a) - 1
      BY <1>1, <1>3
  <2>. QED
      BY <1>1, <2>1, LaterSteps
<1>. DEFINE new == [cashed_amt EXCEPT ![num] = Taken(a, cash, num)]
<1>9. cashed_amt' = new
    BY <1>1, <1>7
<1>10. /\ new \in Seq(Nat) /\ Len(new) = num
       /\ new \in [1..num -> Nat] /\ cashed_amt \in [1..num -> Nat]
       /\ \A j \in 1..num : new[j] = IF j = num THEN Taken(a, cash, num) ELSE cashed_amt[j]
    BY <1>1, <1>2, <1>7
<1>. HIDE DEF new
<1>11. Total(new) + overflow' = cash
  <2>0. num \in Nat \ {0}
      BY <1>1
  <2>1. IsFiniteSet(1..num) /\ num \in 1..num
      BY <2>0, FS_Interval
  <2>2. \A j \in (1..num) \ {num} : new[j] = cashed_amt[j]
      BY <1>10
  <2>3. Total(new) = Total(cashed_amt) - cashed_amt[num] + new[num]
      BY <1>10, <2>1, <2>2, TotalUpdate
  <2>4. new[num] = Taken(a, cash, num)
      BY <1>10, <2>1
  <2>. QED
      BY <1>2, <1>4, <1>7, <2>3, <2>4
<1>12. \A j \in 1..num :
           new[j] = IF j < num THEN Floor(a, cash, j) ELSE Taken(a, cash, j)
    BY <1>1, <1>2, <1>10, SMTT(30)
<1>13. overflow' = GreaterOf(0, Excess(a, cash) - Later(a, cash, num - 1))
    BY <1>7, <1>8 DEF GreaterOf
<1>14. StakesOf' = StakesOf /\ num' = num
    BY <1>1 DEF StakesOf, num
<1>. HIDE DEF a
<1>15. a' = a
    BY <1>14 DEF a
<1>16. WalkInv'
  <2>1. idx' = num /\ cash' = cash /\ cashed_amt' = new /\ StakesOf' = a /\ num' = num
      BY <1>1, <1>9, <1>14 DEF a
  <2>2. num \in 1..num
      BY <1>1
  <2>. HIDE DEF num
  <2>. QED
      BY <1>10, <1>11, <1>12, <1>13, <2>1, <2>2 DEF WalkInv
<1>. QED
    BY <1>1, <1>14, <1>16 DEF SplitInv, a

\* The slot before takes what it can, and there is one while something is left.
LEMMA WalkKeeps ==
    ASSUME SplitFillersAssumption, SplitInv, Walk
    PROVE  SplitInv'
<1>. DEFINE a == StakesOf
            ex == Excess(a, cash)
            k == idx - 1
            take == LesserOf(overflow, orig[k].amount - cashed_amt[k])
<1>1. /\ pc = "walk" /\ overflow > 0 /\ idx \in Nat /\ num \in Nat \ {0} /\ WalkInv
      /\ orig \in Seq(Slots) /\ Ticketed(a, cash) /\ remaining = << >>
      /\ orig' = orig /\ cash' = cash /\ remaining' = remaining
    BY DEF SplitInv, Walk
<1>2. /\ idx \in 1..num /\ cashed_amt \in Seq(Nat) /\ Len(cashed_amt) = num
      /\ \A j \in 1..num :
             cashed_amt[j] = IF j < idx THEN Floor(a, cash, j) ELSE Taken(a, cash, j)
      /\ overflow = GreaterOf(0, ex - Later(a, cash, k))
      /\ Total(cashed_amt) + overflow = cash
    BY <1>1 DEF WalkInv
<1>3. /\ Len(a) = num /\ k \in 0..(num - 1) /\ k \in Nat
      /\ Later(a, cash, k) \in Nat /\ ex \in Nat
  <2>1. Len(a) = num
      BY <1>1, StakesAre
  <2>2. k \in 0..(num - 1) /\ k \in Nat
      BY <1>1, <1>2
  <2>. QED
      BY <1>1, <2>1, <2>2, LaterSteps, ExcessFits
<1>4. idx # 1
  <2>. SUFFICES ASSUME idx = 1 PROVE FALSE
      OBVIOUS
  <2>1. k = 0 /\ ex <= Later(a, cash, 0)
      BY <1>1, ExcessFits
  <2>2. overflow = 0
      BY <1>2, <1>3, <2>1 DEF GreaterOf
  <2>. QED
      BY <1>1, <2>2
<1>5. /\ cashed_amt' = [cashed_amt EXCEPT ![k] = cashed_amt[k] + take]
      /\ overflow' = overflow - take /\ idx' = k /\ pc' = pc
    BY <1>4 DEF Walk
<1>6. /\ k \in 1..num /\ k # num /\ k < idx /\ k # 0
    BY <1>1, <1>2, <1>4
<1>7. /\ cashed_amt[k] = Floor(a, cash, k) /\ a[k] = orig[k].amount
      /\ a[k] \in Nat /\ Floor(a, cash, k) \in 0..a[k]
    BY <1>1, <1>2, <1>3, <1>6, StakesAre, TicketedIs
<1>. DEFINE un == Room(a, cash, k)
            la == Later(a, cash, k)
            fl == Floor(a, cash, k)
<1>8. un = a[k] - fl /\ un \in Nat /\ la \in Nat /\ fl \in Nat
    BY <1>3, <1>7 DEF Room
<1>9. Later(a, cash, k - 1) = la + un
    BY <1>1, <1>3, <1>6, LaterSteps
<1>10. Taken(a, cash, k) = fl + LesserOf(un, GreaterOf(0, ex - la))
    BY <1>3, <1>6 DEF Taken
<1>11. take = LesserOf(overflow, un)
    BY <1>7, <1>8
<1>. HIDE DEF take, un, la, fl, ex, k
<1>12. /\ take \in Nat /\ overflow \in Nat /\ fl + take = Taken(a, cash, k)
       /\ overflow' = GreaterOf(0, ex - Later(a, cash, k - 1)) /\ overflow' \in Nat
       /\ overflow' + take = overflow
  <2>1. overflow = GreaterOf(0, ex - la)
      BY <1>2 DEF la
  <2>2. /\ overflow \in Nat /\ LesserOf(overflow, un) \in 0..overflow
        /\ LesserOf(overflow, un) = LesserOf(un, overflow)
        /\ overflow - LesserOf(overflow, un) = GreaterOf(0, ex - (la + un))
      BY <1>3, <1>8, <2>1, WalkedShare
  <2>3. take \in Nat /\ overflow - take \in Nat /\ (overflow - take) + take = overflow
      BY <1>11, <2>2
  <2>4. fl + take = Taken(a, cash, k)
      BY <1>10, <1>11, <2>1, <2>2
  <2>5. overflow - take = GreaterOf(0, ex - Later(a, cash, k - 1))
      BY <1>9, <1>11, <2>2
  <2>. QED
      BY <1>5, <2>2, <2>3, <2>4, <2>5
<1>. DEFINE new == [cashed_amt EXCEPT ![k] = Taken(a, cash, k)]
<1>13. cashed_amt' = new
    BY <1>5, <1>7, <1>12 DEF fl
<1>14. /\ new \in Seq(Nat) /\ Len(new) = num
       /\ new \in [1..num -> Nat] /\ cashed_amt \in [1..num -> Nat]
       /\ \A j \in 1..num : new[j] = IF j = k THEN Taken(a, cash, k) ELSE cashed_amt[j]
  <2>1. Taken(a, cash, k) \in Nat
      BY <1>8, <1>12
  <2>. QED
      BY <1>1, <1>2, <1>6, <2>1
<1>. HIDE DEF new
<1>15. Total(new) + overflow' = cash
  <2>1. IsFiniteSet(1..num)
      BY <1>1, FS_Interval
  <2>2. \A j \in (1..num) \ {k} : new[j] = cashed_amt[j]
      BY <1>14
  <2>3. Total(new) = Total(cashed_amt) - cashed_amt[k] + new[k]
      BY <1>6, <1>14, <2>1, <2>2, TotalUpdate, SMTT(30)
  <2>4. new[k] = fl + take /\ cashed_amt[k] = fl
      BY <1>6, <1>7, <1>12, <1>14 DEF fl
  <2>5. Total(cashed_amt) \in Nat
      BY <1>14, <2>1, TotalType
  <2>. QED
      BY <1>2, <1>8, <1>12, <2>3, <2>4, <2>5
<1>16. \A j \in 1..num : new[j] = IF j < k THEN Floor(a, cash, j) ELSE Taken(a, cash, j)
  <2>1. \A j \in 1..num : j < k => j < idx /\ j # k
      BY <1>1, <1>6
  <2>2. \A j \in 1..num : ~(j < k) /\ j # k => ~(j < idx)
      BY <1>1 DEF k
  <2>. QED
      BY <1>2, <1>14, <2>1, <2>2
<1>17. StakesOf' = StakesOf /\ num' = num
    BY <1>1 DEF StakesOf, num
<1>18. WalkInv'
    BY <1>1, <1>5, <1>6, <1>12, <1>13, <1>14, <1>15, <1>16, <1>17 DEF WalkInv, ex
<1>. QED
    BY <1>1, <1>3, <1>5, <1>17, <1>18 DEF SplitInv

\* Nothing is over: no slot before the one reached takes more than its floor.
LEMMA WalkEndsKeeps ==
    ASSUME SplitFillersAssumption, SplitInv, WalkEnds
    PROVE  SplitInv'
<1>. DEFINE a == StakesOf
            ex == Excess(a, cash)
<1>1. /\ pc = "walk" /\ overflow = 0 /\ num \in Nat \ {0} /\ WalkInv
      /\ orig \in Seq(Slots) /\ Ticketed(a, cash) /\ remaining = << >>
      /\ pc' = "split" /\ idx' = 1 /\ orig' = orig /\ cash' = cash
      /\ cashed_amt' = cashed_amt /\ remaining' = remaining
    BY DEF SplitInv, WalkEnds
<1>2. /\ idx \in 1..num /\ cashed_amt \in Seq(Nat) /\ Len(cashed_amt) = num
      /\ \A j \in 1..num :
             cashed_amt[j] = IF j < idx THEN Floor(a, cash, j) ELSE Taken(a, cash, j)
      /\ 0 = GreaterOf(0, ex - Later(a, cash, idx - 1))
      /\ Total(cashed_amt) + 0 = cash
    BY <1>1 DEF WalkInv
<1>3. Len(a) = num /\ cash \in Nat /\ ex \in Nat
    BY <1>1, StakesAre, TicketedIs, ExcessFits
<1>4. /\ idx - 1 \in 0..(num - 1) /\ Later(a, cash, idx - 1) \in Nat
  <2>1. idx - 1 \in 0..(num - 1)
      BY <1>1, <1>2
  <2>. QED
      BY <1>1, <1>3, <2>1, LaterSteps
<1>5. ex <= Later(a, cash, idx - 1)
  <2>. DEFINE la == Later(a, cash, idx - 1)
  <2>1. la \in Nat /\ 0 = GreaterOf(0, ex - la)
      BY <1>2, <1>4
  <2>. HIDE DEF la, ex
  <2>2. ex <= la
      BY <1>3, <2>1 DEF GreaterOf
  <2>. QED
      BY <2>2 DEF la
<1>6. ASSUME NEW j \in 1..num
      PROVE  cashed_amt[j] = Taken(a, cash, j)
  <2>1. CASE ~(j < idx)
      BY <1>2, <2>1
  <2>2. CASE j < idx
    <3>1. j \in 0..(idx - 1) /\ j # num /\ j \in 0..(num - 1)
        BY <1>1, <1>2, <2>2
    <3>2. Later(a, cash, idx - 1) <= Later(a, cash, j) /\ Later(a, cash, j) \in Nat
        BY <1>1, <1>3, <1>4, <3>1, LaterFalls, LaterSteps
    <3>3. Floor(a, cash, j) \in Nat /\ Room(a, cash, j) \in Nat
        BY <1>1, <1>3, TicketedIs DEF Room
    <3>. DEFINE la == Later(a, cash, j)
                un == Room(a, cash, j)
                x == LesserOf(un, GreaterOf(0, ex - la))
    <3>4. la \in Nat /\ un \in Nat /\ ex <= la
        BY <1>3, <1>4, <1>5, <3>2, <3>3
    <3>5. Taken(a, cash, j) = Floor(a, cash, j) + x
        BY <1>3, <3>1 DEF Taken
    <3>. HIDE DEF la, un, ex
    <3>6. x = 0
        BY <1>3, <3>4 DEF LesserOf, GreaterOf
    <3>. QED
        BY <1>2, <2>2, <3>3, <3>5, <3>6
  <2>. QED
      BY <2>1, <2>2
<1>7. StakesOf' = StakesOf /\ num' = num
    BY <1>1 DEF StakesOf, num
<1>8. SharesDone
  <2>1. cashed_amt = [j \in 1..num |-> cashed_amt[j]]
      BY <1>2
  <2>2. cashed_amt = [j \in 1..num |-> Taken(a, cash, j)]
      BY <1>6, <2>1
  <2>3. Total(cashed_amt) = cash
    <3>1. cashed_amt \in [1..num -> Nat]
        BY <1>2
    <3>2. IsFiniteSet(1..num)
        BY <1>1, FS_Interval
    <3>3. Total(cashed_amt) \in Nat
        BY <3>1, <3>2, TotalType
    <3>. QED
        BY <1>2, <3>3
  <2>. QED
      BY <1>2, <2>2, <2>3 DEF SharesDone
<1>9. SharesDone'
    BY <1>1, <1>7, <1>8 DEF SharesDone
<1>10. /\ 1 \in 1..(num + 1) /\ << >> \in Seq(LeftSlices) /\ Len(<< >>) = 1 - 1
       /\ \A j \in 1..(1 - 1) : FALSE
    BY <1>1
<1>. QED
    BY <1>1, <1>7, <1>9, <1>10 DEF SplitInv

\* No slot is cashed for more than its stake: both sides are written.
LEMMA SlotKeeps ==
    ASSUME SplitFillersAssumption, SplitInv, SplitSlot
    PROVE  SplitInv'
<1>. DEFINE a == StakesOf
            r == RemainingSlice(orig[idx], cashed_amt[idx])
<1>1. /\ pc = "split" /\ idx <= num /\ num \in Nat \ {0} /\ SharesDone
      /\ orig \in Seq(Slots) /\ Ticketed(a, cash)
      /\ idx \in 1..(num + 1) /\ remaining \in Seq(LeftSlices) /\ Len(remaining) = idx - 1
      /\ \A j \in 1..(idx - 1) : remaining[j].amount = a[j] - cashed_amt[j]
      /\ orig' = orig /\ cash' = cash /\ cashed_amt' = cashed_amt
    BY DEF SplitInv, SplitSlot
<1>2. idx \in 1..num
    BY <1>1
<1>3. Len(a) = num /\ a[idx] = orig[idx].amount /\ orig[idx] \in Slots /\ a[idx] \in Nat
    BY <1>1, <1>2, StakesAre, TicketedIs
<1>4. cashed_amt[idx] \in 0..a[idx]
  <2>1. cashed_amt[idx] = Taken(a, cash, idx)
      BY <1>1, <1>2 DEF SharesDone
  <2>. QED
      BY <1>1, <1>2, <1>3, <2>1, TakenBounds
<1>5. ~(cashed_amt[idx] > orig[idx].amount)
    BY <1>3, <1>4
<1>6. remaining' = Append(remaining, r) /\ idx' = idx + 1 /\ pc' = pc
    BY <1>5 DEF SplitSlot
<1>7. r \in LeftSlices /\ r.amount = a[idx] - cashed_amt[idx]
    BY <1>3, <1>4, SlotsType DEF LeftSlices
<1>. HIDE DEF r
<1>8. /\ remaining' \in Seq(LeftSlices) /\ Len(remaining') = idx
      /\ \A j \in 1..idx : remaining'[j] = IF j = idx THEN r ELSE remaining[j]
    BY <1>1, <1>2, <1>6, <1>7
<1>9. StakesOf' = StakesOf /\ num' = num
    BY <1>1 DEF StakesOf, num
<1>10. SharesDone'
    BY <1>1, <1>9 DEF SharesDone
<1>11. idx' \in 1..(num + 1) /\ idx' - 1 = idx
    BY <1>1, <1>2, <1>6
<1>12. \A j \in 1..idx : remaining'[j].amount = a[j] - cashed_amt[j]
  <2>1. \A j \in 1..idx : j # idx => j \in 1..(idx - 1)
      BY <1>2
  <2>. QED
      BY <1>1, <1>7, <1>8, <2>1
<1>13. idx' \in Nat
    BY <1>1, <1>11
<1>. HIDE DEF a
<1>14. a = StakesOf
    BY DEF a
<1>. QED
    BY <1>1, <1>6, <1>8, <1>9, <1>10, <1>11, <1>12, <1>13, <1>14 DEF SplitInv

\* The stakes that remain are what the cashout leaves of the ticket.
LEMMA ReturnKeeps ==
    ASSUME SplitFillersAssumption, SplitInv, Return
    PROVE  SplitInv'
<1>. DEFINE a == StakesOf
            left == [j \in 1..num |-> remaining[j].amount]
<1>1. /\ pc = "split" /\ idx > num /\ num \in Nat \ {0} /\ SharesDone
      /\ orig \in Seq(Slots) /\ Ticketed(a, cash)
      /\ idx \in 1..(num + 1)
      /\ \A j \in 1..(idx - 1) : remaining[j].amount = a[j] - cashed_amt[j]
      /\ orig' = orig /\ cash' = cash /\ cashed_amt' = cashed_amt /\ idx' = idx
      /\ pc' = IF Total(left) = orig_amount - cash THEN "done" ELSE "failed"
    BY DEF SplitInv, Return
<1>2. idx = num + 1 /\ idx - 1 = num
    BY <1>1
<1>3. Len(a) = num /\ a \in [1..num -> Nat] /\ orig_amount = Total(a)
    BY <1>1, StakesAre, TicketedIs
<1>4. \A j \in 1..num : cashed_amt[j] \in 0..a[j]
    BY <1>1, <1>3, TakenBounds DEF SharesDone
<1>5. cashed_amt \in [1..num -> Nat] /\ Total(cashed_amt) = cash
    BY <1>1, <1>4 DEF SharesDone
<1>6. \A j \in 1..num : left[j] = a[j] - cashed_amt[j]
    BY <1>1, <1>2
<1>7. \A j \in 1..num : a[j] \in Nat /\ cashed_amt[j] \in Nat /\ left[j] \in Nat
                        /\ a[j] = left[j] + cashed_amt[j]
    BY <1>3, <1>4, <1>6
<1>8. left \in [1..num -> Nat]
    BY <1>7
<1>9. IsFiniteSet(1..num)
    BY <1>1, FS_Interval
<1>. HIDE DEF left, a
<1>10. Total(a) = Total(left) + Total(cashed_amt)
  <2>1. \A j \in 1..num : a[j] = left[j] + cashed_amt[j]
      BY <1>7
  <2>2. a \in [1..num -> Nat] /\ cashed_amt \in [1..num -> Nat]
      BY <1>3, <1>5
  <2>. DEFINE I == 1..num
  <2>3. /\ IsFiniteSet(I) /\ left \in [I -> Nat] /\ cashed_amt \in [I -> Nat]
        /\ a \in [I -> Nat] /\ \A j \in I : a[j] = left[j] + cashed_amt[j]
      BY <1>8, <1>9, <2>1, <2>2
  <2>. HIDE DEF I
  <2>. QED
      BY <2>3, TotalSum
<1>11. Total(left) \in Nat /\ cash \in Nat
    BY <1>5, <1>8, <1>9, TotalType
<1>12. Total(left) = orig_amount - cash
    BY <1>3, <1>5, <1>10, <1>11
<1>13. pc' = "done"
    BY <1>1, <1>12
<1>14. StakesOf' = StakesOf /\ num' = num
    BY <1>1 DEF StakesOf, num
<1>15. SharesDone' /\ Ticketed(StakesOf, cash)'
    BY <1>1, <1>14 DEF SharesDone, a
<1>16. idx' \in Nat
    BY <1>1
<1>. QED
    BY <1>1, <1>13, <1>14, <1>15, <1>16 DEF SplitInv

\* split_fillers never refuses the cashout of a well-formed ticket, and its loops
\* write the shares of the closed formula.
THEOREM SplitComputes == SplitFillersAssumption => (SplitSpec => []ComputesShares)
<1>. SUFFICES ASSUME SplitFillersAssumption
              PROVE  SplitSpec => []ComputesShares
    OBVIOUS
<1>1. SplitInit => SplitInv
    BY SplitStarts
<1>2. SplitInv /\ [SplitNext]_splitVars => SplitInv'
  <2>1. ASSUME SplitInv, UNCHANGED splitVars
        PROVE  SplitInv'
      BY <2>1 DEF SplitInv, splitVars, AssignInv, WalkInv, SharesDone, StakesOf, num
  <2>. QED
      BY <2>1, AssignKeeps, CapKeeps, WalkKeeps, WalkEndsKeeps, SlotKeeps, ReturnKeeps
         DEF SplitNext
<1>3. SplitInv => ComputesShares
  <2>. SUFFICES ASSUME SplitInv
                PROVE  ComputesShares
      OBVIOUS
  <2>1. /\ pc \in {"assign", "walk", "split", "done"}
        /\ orig \in Seq(Slots) /\ Ticketed(StakesOf, cash)
      BY DEF SplitInv
  <2>2. ASSUME pc = "done" PROVE cashed_amt = CashedShares(StakesOf, orig_amount, cash)
    <3>1. cashed_amt = [j \in 1..num |-> Taken(StakesOf, cash, j)]
        BY <2>2 DEF SplitInv, SharesDone
    <3>2. Len(StakesOf) = num /\ orig_amount = Total(StakesOf)
        BY <2>1, StakesAre
    <3>. QED
        BY <2>1, <3>1, <3>2, SharesAre
  <2>. QED
      BY <2>1, <2>2 DEF ComputesShares, StakesOf
<1>. QED
    BY <1>1, <1>2, <1>3, PTL DEF SplitSpec
=============================================================================
