------------------------------ MODULE MCParts ------------------------------
(***************************************************************************)
(* Small instances of the parts that are modelled on their own: the array  *)
(* of lines of a netting account (NettingLines), the division of a ticket  *)
(* (SplitFillers), the auction loop of fill_bet (Auction), an MM's quotes  *)
(* (Quoting), signed offers (Offers), the promo market maker (PromoMaker)  *)
(* and the indexer of the API (Indexer).  One run of TLC serves them all:  *)
(* a behaviour picks a part at the start and runs it, while the others are *)
(* idle or stay in their initial state.                                    *)
(***************************************************************************)
EXTENDS NettingLines, SplitFillers, Auction, Offers, Quoting, PromoMaker, Indexer, TLC

CONSTANTS b1, b2, home, total, owner, c1, k1, k2,
          a1, a2      \* the two actors of a part: MMs, users or runs

VARIABLE part

partsVars == <<part, linesVars, splitVars, auctionVars, quotingVars, offersVars, promoVars,
               indexerVars>>

-----------------------------------------------------------------------------
(* The parts, and the constants that the configuration sets.               *)
(* Auction: two in a row on the header market, each over up to two quotes  *)
(* of up to three atoms at one of two prices, with slices of at least two  *)
(* atoms.                                                                  *)
(* NettingLines: every order of adding, opening, settling and removing     *)
(* three lines around one header market.                                   *)
(* SplitFillers: every cashout of a ticket of up to four slots of up to    *)
(* three atoms; from three slots on the last one can overflow and the walk *)
(* runs.                                                                   *)
(* Quoting: two users, one single bet and one parlay of two legs on one    *)
(* event; two updates of the odds that overtake each other, are lost, or   *)
(* land in an account created again.                                       *)
(* Offers: two MMs that sign with the same key or change it, one user, two *)
(* offers of fills or cashouts, each good for the second it is signed in.  *)
(* PromoMaker: three wallets, two of them interchangeable and on the list  *)
(* if there is one; a table for two; bets of two atoms under limits of     *)
(* three.                                                                  *)
(* Indexer: one bet of two atoms and its cashout; two runs of the indexer; *)
(* up to three transactions in up to three blocks; one failure or crash.   *)
OneEvent == [mkt \in LegMarkets |-> 1]
Asked == {<<home>>, <<total, home>>}
Listed == {{}, {a1, a2}}

ASSUME /\ NettingLinesAssumption /\ SplitFillersAssumption
       /\ QuotingAssumption /\ OffersAssumption
       /\ PromoMakerAssumption /\ IndexerAssumption

-----------------------------------------------------------------------------
(* What the division of a ticket holds while another part runs.            *)
NoSplit == /\ orig = << >> /\ cash = 0 /\ pc = "idle" /\ idx = 0 /\ cashed_amt = << >>
           /\ overflow = 0 /\ cashed = << >> /\ remaining = << >>

Init ==
    /\ part \in {"lines", "split", "auction", "quotes", "offers", "promo", "index"}
    /\ IF part = "split" THEN SplitInit ELSE NoSplit
    /\ LinesInit /\ AuctionInit /\ QuotingInit /\ OffersInit /\ PromoMakerInit /\ IndexerInit

Next ==
    \/ /\ part = "lines" /\ LinesNext
       /\ UNCHANGED <<part, splitVars, auctionVars, quotingVars, offersVars, promoVars,
                      indexerVars>>
    \/ /\ part = "split" /\ SplitNext
       /\ UNCHANGED <<part, linesVars, auctionVars, quotingVars, offersVars, promoVars,
                      indexerVars>>
    \/ /\ part = "auction" /\ AuctionNext
       /\ UNCHANGED <<part, linesVars, splitVars, quotingVars, offersVars, promoVars,
                      indexerVars>>
    \/ /\ part = "quotes" /\ QuotingNext
       /\ UNCHANGED <<part, linesVars, splitVars, auctionVars, offersVars, promoVars,
                      indexerVars>>
    \/ /\ part = "offers" /\ OffersNext
       /\ UNCHANGED <<part, linesVars, splitVars, auctionVars, quotingVars, promoVars,
                      indexerVars>>
    \/ /\ part = "promo" /\ PromoMakerNext
       /\ UNCHANGED <<part, linesVars, splitVars, auctionVars, quotingVars, offersVars,
                      indexerVars>>
    \/ /\ part = "index" /\ IndexerNext
       /\ UNCHANGED <<part, linesVars, splitVars, auctionVars, quotingVars, offersVars,
                      promoVars>>

Spec == Init /\ [][Next]_partsVars

Interchangeable == Permutations({a1, a2})
=============================================================================
