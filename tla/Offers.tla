------------------------------- MODULE Offers -------------------------------
(***************************************************************************)
(* Signed offers: a market maker signs, off the chain, the message of a    *)
(* fill or of a cashout (single bet or parlay), and whoever is the user in *)
(* it may submit it in an instruction while the MM's config names the key  *)
(* it was signed with, until it expires, and whenever the account it opens *)
(* is unused: the fill of a bet id, the receipt of a cashout id.           *)
(*                                                                         *)
(* An instruction states its own fields; the program rebuilds the message  *)
(* from them and from the accounts passed, and looks for its signature.    *)
(* A slip stands for the selection of a bet or for the legs of a parlay,   *)
(* with seq the event state it was offered in.  Whether the MM's accounts  *)
(* cover its part, the division of slices, and reverts are in Fills,       *)
(* Parlays and Cashouts.                                                   *)
(***************************************************************************)
EXTENDS Odds, FiniteSets

CONSTANTS
    RfqMMs, Users, Keys,        \* programs, wallets, ed25519 keys
    FirstKey,                   \* rfq_signer of every MM at the start
    Ids, CashIds,               \* bet ids of a user, cashout ids of an MM
    Stakes, OfferedOdds,        \* stakes, and the odds offered
    Payments,                   \* payments offered for a cashout
    MinStake,                   \* min_amount_for_decimals of the mint
    Validity,                   \* seconds an offer is good for
    Signatures, LastSecond      \* bounds: offers signed, the clock

\* What the constants are assumed to be.
OffersAssumption ==
    /\ FirstKey \in Keys
    /\ Stakes \subseteq Nat /\ OfferedOdds \subseteq {o \in Nat : o > Scale}
    /\ Payments \subseteq Nat /\ MinStake \in Nat \ {0}
    /\ Validity \in Nat /\ Signatures \in Nat /\ LastSecond \in Nat

Kinds == {"bet", "parlay"}
Sequences == 1..2                  \* 1 pregame, 2 live

VARIABLES
    signer,     \* signer[m]: rfq_signer in the config of m
    state,      \* state[m]: sequence of the event state of m
    offers,     \* the signatures that exist, with who made them and for what
    now,
    rfqTicket,  \* rfqTicket[<<kind, u, id>>]: the PDA of a bet or a parlay
    receipt,    \* receipt[<<kind, m, c>>]: the PDA of a cashout
    rfqEscrow   \* rfqEscrow[<<u, id>>]: one PDA for the bet and the parlay of the id

offersVars == <<signer, state, offers, now, rfqTicket, receipt, rfqEscrow>>

RfqTickets == Kinds \X Users \X Ids
Receipts == Kinds \X RfqMMs \X CashIds

NoRfqTicket == [result |-> "none"]
NoReceipt == [user |-> "none"]
NoRfqEscrow == <<"none">>

OffersInit ==
    /\ signer = [m \in RfqMMs |-> FirstKey]
    /\ state = [m \in RfqMMs |-> 1]
    /\ offers = {} /\ now = 0
    /\ rfqTicket = [k \in RfqTickets |-> NoRfqTicket]
    /\ receipt = [r \in Receipts |-> NoReceipt]
    /\ rfqEscrow = [e \in Users \X Ids |-> NoRfqEscrow]

-----------------------------------------------------------------------------
(* Messages and signatures *)

\* What an instruction says; the amount of a fill and the least payout of a
\* cashout are the user's choice.
FillIx(kinds) ==
    [what: {"fill"}, kind: kinds, id: Ids, amount: Stakes, max: Stakes, odds: OfferedOdds,
     seq: Sequences, expiry: 0..LastSecond + Validity]
CashoutIx(kinds) ==
    [what: {"cashout"}, kind: kinds, id: Ids, cash: CashIds, amount: Stakes,
     payment: Payments, min: Payments, seq: Sequences, expiry: 0..LastSecond + Validity]

\* Fault: the message does not name the MM.
BetMessageForAnyMM(u, m, ix) ==
    <<"bet", u, ix.id, ix.seq, ix.max, ix.odds, ix.expiry>>

BetMessage(u, m, ix) ==
    <<"bet", u, ix.id, ix.seq, ix.max, ix.odds, ix.expiry, m>>

\* The state of every leg and its price follow the header; seq stands for them.
ParlayMessage(u, m, ix) ==
    <<"parlay", u, ix.id, ix.max, ix.odds, ix.expiry, m, ix.seq>>

CashoutMessage(u, m, ix) ==
    <<"cashout", u, ix.id, ix.cash, ix.amount, ix.payment, ix.expiry, ix.seq, m>>

CashoutParlayMessage(u, m, ix) ==
    <<"cashout_parlay", u, ix.id, ix.cash, ix.amount, ix.payment, ix.expiry, m, ix.seq>>

MessageOf(u, m, ix) ==
    IF ix.what = "fill"
    THEN IF ix.kind = "bet" THEN BetMessage(u, m, ix) ELSE ParlayMessage(u, m, ix)
    ELSE IF ix.kind = "bet" THEN CashoutMessage(u, m, ix)
         ELSE CashoutParlayMessage(u, m, ix)

\* The signature is the key's that the config of m names now.
Verified(u, m, ix) ==
    \E s \in offers : s.key = signer[m] /\ s.message = MessageOf(u, m, ix)

Sign(u, m, ix) ==
    /\ offers' = offers \cup
           {[by |-> m, user |-> u, ix |-> ix, key |-> signer[m],
             message |-> MessageOf(u, m, ix)]}
    /\ UNCHANGED <<signer, state, now, rfqTicket, receipt, rfqEscrow>>

\* The event state is the one that the request names, whatever m has posted;
\* the offer is good for a few seconds.
SignFill(u, m) ==
    /\ Cardinality(offers) < Signatures
    /\ \E ix \in FillIx(Kinds) :
          /\ ix.amount = ix.max /\ ix.expiry = now + Validity
          /\ Sign(u, m, ix)

SignCashout(u, m) ==
    /\ Cardinality(offers) < Signatures
    /\ \E ix \in CashoutIx(Kinds) :
          /\ ix.min = ix.payment /\ ix.expiry = now + Validity
          /\ rfqTicket[<<ix.kind, u, ix.id>>].result = "Pending"
          /\ Sign(u, m, ix)

SetRfqSigner(m, k) ==
    /\ signer[m] # k
    /\ signer' = [signer EXCEPT ![m] = k]
    /\ UNCHANGED <<state, offers, now, rfqTicket, receipt, rfqEscrow>>

-----------------------------------------------------------------------------
(* Fills *)

\* What decoding requires of the fields.
WellFormed(ix) == ix.amount > 0 /\ ix.amount <= ix.max /\ ix.odds > Scale

Open(u, m, ix) ==
    /\ rfqTicket[<<ix.kind, u, ix.id>>] = NoRfqTicket
    /\ ix.amount >= MinStake
    /\ now <= ix.expiry
    /\ Verified(u, m, ix)
    /\ rfqTicket' = [rfqTicket EXCEPT ![<<ix.kind, u, ix.id>>] =
           [result |-> "Pending", mm |-> m, opened |-> ix.amount, amount |-> ix.amount,
            payout |-> Payout(ix.amount, ix.odds), odds |-> ix.odds, seq |-> ix.seq,
            timestamp |-> now]]
    /\ UNCHANGED <<signer, state, offers, now, receipt, rfqEscrow>>

\* A single bet is filled in the event state the MM posts.
FillRfqSingle(u, m) ==
    \E ix \in FillIx({"bet"}) :
        /\ WellFormed(ix)
        /\ ix.seq = state[m]
        /\ Open(u, m, ix)

\* A parlay is filled in the states its legs were signed for.
FillRfqParlay(u, m) ==
    \E ix \in FillIx({"parlay"}) :
        /\ WellFormed(ix)
        /\ Open(u, m, ix)

-----------------------------------------------------------------------------
(* Cashouts *)

\* The face payout that leaves the ticket with the cashed stake.
Removed(t, ix) ==
    IF ix.kind = "bet" THEN Payout(ix.amount, t.odds)
    ELSE ProportionalPayout(t.amount, t.payout, ix.amount)

\* accept_cashout_payment
Acceptable(ix, removed) ==
    ix.payment > 0 /\ ix.payment >= ix.min /\ ix.payment <= removed

\* Live when the ticket was opened or now.
Delayed(t, ix) == t.seq >= 2 \/ ix.seq >= 2

\* The ticket after the cashed part left it.  A ticket cashed in full waits
\* for the claim if there is a delay and is closed if there is none.
Left(t, ix) ==
    IF ix.amount < t.amount
    THEN [t EXCEPT !.amount = @ - ix.amount, !.payout = @ - Removed(t, ix)]
    ELSE IF Delayed(t, ix)
    THEN [t EXCEPT !.amount = 0, !.payout = @ - Removed(t, ix), !.result = "CashedOut"]
    ELSE NoRfqTicket

CashOut(u, m, ix) ==
    LET k == <<ix.kind, u, ix.id>>
        r == <<ix.kind, m, ix.cash>>
        t == rfqTicket[k]
    IN  /\ receipt[r] = NoReceipt
        /\ t.result = "Pending"
        /\ ix.amount \in 1..t.amount
        /\ ix.seq >= t.seq
        /\ now <= ix.expiry
        /\ Verified(u, m, ix)
        /\ Acceptable(ix, Removed(t, ix))
        /\ Delayed(t, ix) => rfqEscrow[<<u, ix.id>>] = NoRfqEscrow
        /\ receipt' = [receipt EXCEPT ![r] =
               [user |-> u, id |-> ix.id, amount |-> ix.amount, payment |-> ix.payment,
                removed |-> Removed(t, ix), seq |-> ix.seq, timestamp |-> now]]
        /\ rfqTicket' = [rfqTicket EXCEPT ![k] = Left(t, ix)]
        /\ rfqEscrow' = IF Delayed(t, ix)
                        THEN [rfqEscrow EXCEPT ![<<u, ix.id>>] = r] ELSE rfqEscrow
        /\ UNCHANGED <<signer, state, offers, now>>

CashoutRfqBet(u, m) ==
    \E ix \in CashoutIx({"bet"}) : ix.seq = state[m] /\ CashOut(u, m, ix)

\* The states of the legs are the signed ones; none is looked up.
CashoutRfqParlay(u, m) ==
    \E ix \in CashoutIx({"parlay"}) : CashOut(u, m, ix)

-----------------------------------------------------------------------------
(* What else happens to the accounts *)

\* The ticket a waiting cashout was of.
Waiting(u, b) == <<rfqEscrow[<<u, b>>][1], u, b>>

\* A claim ends the escrow, and a ticket that was cashed in full.
ClaimCashoutEscrow(u, b) ==
    /\ rfqEscrow[<<u, b>>] # NoRfqEscrow
    /\ LET k == Waiting(u, b)
       IN  /\ rfqTicket[k] # NoRfqTicket
           /\ rfqTicket' = IF rfqTicket[k].result = "CashedOut"
                        THEN [rfqTicket EXCEPT ![k] = NoRfqTicket] ELSE rfqTicket
    /\ rfqEscrow' = [rfqEscrow EXCEPT ![<<u, b>>] = NoRfqEscrow]
    /\ UNCHANGED <<signer, state, offers, now, receipt>>

\* A revert gives the cashed part back to the ticket and closes the receipt.
RevertCashout(u, b) ==
    /\ rfqEscrow[<<u, b>>] # NoRfqEscrow
    /\ LET k == Waiting(u, b)
           r == rfqEscrow[<<u, b>>]
       IN  /\ rfqTicket[k] # NoRfqTicket
           /\ rfqTicket' = [rfqTicket EXCEPT ![k].amount = @ + receipt[r].amount,
                  ![k].payout = @ + receipt[r].removed, ![k].result = "Pending"]
           /\ receipt' = [receipt EXCEPT ![r] = NoReceipt]
    /\ rfqEscrow' = [rfqEscrow EXCEPT ![<<u, b>>] = NoRfqEscrow]
    /\ UNCHANGED <<signer, state, offers, now>>

\* A graded ticket is paid and closed, whatever the grade, unless a cashout of
\* its id waits.
SettleTicket(k) ==
    /\ rfqTicket[k].result = "Pending"
    /\ rfqEscrow[<<k[2], k[3]>>] = NoRfqEscrow
    /\ rfqTicket' = [rfqTicket EXCEPT ![k] = NoRfqTicket]
    /\ UNCHANGED <<signer, state, offers, now, receipt, rfqEscrow>>

SettleReceipt(r) ==
    /\ receipt[r] # NoReceipt
    /\ rfqEscrow[<<receipt[r].user, receipt[r].id>>] = NoRfqEscrow
    /\ receipt' = [receipt EXCEPT ![r] = NoReceipt]
    /\ UNCHANGED <<signer, state, offers, now, rfqTicket, rfqEscrow>>

NextEventState(m) ==
    /\ state[m] = 1
    /\ state' = [state EXCEPT ![m] = 2]
    /\ UNCHANGED <<signer, offers, now, rfqTicket, receipt, rfqEscrow>>

Tick ==
    /\ now < LastSecond
    /\ now' = now + 1
    /\ UNCHANGED <<signer, state, offers, rfqTicket, receipt, rfqEscrow>>

OffersNext ==
    \/ \E m \in RfqMMs, k \in Keys : SetRfqSigner(m, k)
    \/ \E u \in Users, m \in RfqMMs :
         SignFill(u, m) \/ SignCashout(u, m) \/ FillRfqSingle(u, m) \/ FillRfqParlay(u, m)
           \/ CashoutRfqBet(u, m) \/ CashoutRfqParlay(u, m)
    \/ \E u \in Users, b \in Ids : ClaimCashoutEscrow(u, b) \/ RevertCashout(u, b)
    \/ \E k \in RfqTickets : SettleTicket(k)
    \/ \E r \in Receipts : SettleReceipt(r)
    \/ \E m \in RfqMMs : NextEventState(m)
    \/ Tick

OffersSpec == OffersInit /\ [][OffersNext]_offersVars

-----------------------------------------------------------------------------
(* Properties *)

\* What the MM m signed that opened the ticket.
SignedFill(k, t) ==
    \E s \in offers :
        /\ s.by = t.mm /\ s.user = k[2]
        /\ s.ix.what = "fill" /\ s.ix.kind = k[1] /\ s.ix.id = k[3]
        /\ t.opened <= s.ix.max /\ t.odds = s.ix.odds /\ t.seq = s.ix.seq
        /\ t.timestamp <= s.ix.expiry

SignedCashout(r, c) ==
    \E s \in offers :
        /\ s.by = r[2] /\ s.user = c.user
        /\ s.ix.what = "cashout" /\ s.ix.kind = r[1] /\ s.ix.cash = r[3]
        /\ s.ix.id = c.id /\ s.ix.amount = c.amount /\ s.ix.payment = c.payment
        /\ s.ix.seq = c.seq /\ c.timestamp <= s.ix.expiry

\* Every open ticket and every open receipt carries the terms of an offer that
\* its own MM signed for that user and that id, and was opened before that
\* offer expired: no mix of two offers, no other MM's and none of the other
\* kind will do, though MMs may share keys and change them, and though bet
\* ids, cashout ids and signatures are used again
\* (fill_rfq_bet, fill_rfq_parlay, fill_rfq_cashout, fill_rfq_parlay_cashout).
OffersHonoured ==
    /\ \A k \in RfqTickets : rfqTicket[k] # NoRfqTicket => SignedFill(k, rfqTicket[k])
    /\ \A r \in Receipts : receipt[r] # NoReceipt => SignedCashout(r, receipt[r])
=============================================================================
