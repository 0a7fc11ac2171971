# SPAMM in TLA+

SPAMM is a betting exchange on Solana. Users place bets through one on-chain
program, the *aggregator*; *market makers* (MMs), each with a program of its own,
quote prices and put up the collateral. The aggregator holds all the money:
stakes in the account of each ticket, collateral in a liability account per MM,
payments for cashed-out bets in escrow accounts. Around it run the MMs' programs
with their oracles, and three services off the chain: an MM's publishing backend,
the hub that asks MMs for signed quotes, and the indexer that fills the API's
database.

This directory models that custody (how a bet is opened, reserved for, sold back,
graded and settled, and why every token that is owed is there when it is asked
for), the programs that quote, and the three services. Every safety property that
a run checks is named in section 3, and section 5 says which are also proved for
all values of the constants.

All paths below are relative to `src/`; `agg/` stands for
`aggregator/program/src/`.

## 1. The system

| component | state | operations | talks to |
| --- | --- | --- | --- |
| Odds and reservations (`agg/helpers/odds.rs`, `cashout_helpers.rs`) | none | profit, payout, dividing a slice's stake and reservation | fills, cashouts, settlement |
| Netting account (`agg/state/account_netting.rs`) | per MM and event: three header slots, a sorted array of lines, open profit per outcome | create, close, add and remove a line, staged write by a fill, subtraction by a settlement | fills, settlement; the encumbrance moves by the change of the peak |
| Vault (`init_mm_mint_vault`, `close_mm_mint_vault`, `withdraw_from_liability_account`) | per MM and mint: encumbrance, open cashout tickets, liability account | open, close, withdraw, top up | everything that reserves or pays |
| Fills (`fill_bet`, `fill_rfq_bet`, `fill_helpers.rs`) | the bet PDA: result, stake, payout, one slice per filling MM; the ticket's token account | auction over quotes; one signed offer | quote and fill calls into the MM programs, vaults, books |
| Grading and settlement (`grade_bets`, `settle_bet`) | the result of a ticket | grade by the market's operator; permissionless settlement | tickets, vaults, books |
| Cashouts (`cashout_bet`, `cashout_rfq_bet`, `claim_cashout_escrow`, `revert_cashout`) | cashout tickets; an escrow PDA per (owner, bet id) | sell at once, sell through an escrow, claim, revert | tickets, vaults, MM event states |
| Parlays (`fill_parlay`, `grade_parlay`, `settle_parlay`, ...) | tickets with up to 20 legs (40 by signed offer), a grade per leg | as above, leg by leg | share the escrow PDA with single bets |
| Freebets and boosts (`agg/helpers/freebet_helpers.rs`, `boost_helpers.rs`) | voucher PDAs, an issuer with a count of open ones | issue, revoke, use, give back, consume, top up | fills and settlement |
| Signed offers (`agg/rfq_verify.rs`, `agg/state/rfq_message.rs`) | the key in an MM's config, the accounts an offer opens | sign, submit, expire | fills and cashouts |
| MM program and oracle (`market_maker/program`) | market accounts with odds and a sequence, event states, two quote buffers | oracle updates, quote, fill | the aggregator's calls and proxies |
| Promo MM (`promo/program`) | one market: odds, limits, list, table of bettors | admin instructions, quote, fill | the aggregator |
| Publishing backend (`market_maker/backend`) | a database row per event with flags per account | a cycle every five minutes: close, create, write odds | the MM program |
| RFQ hub and sessions (`api/rfqHub.ts`, `market_maker/backend/rfq.ts`) | a socket per MM, pending requests with timers | hello, request, reply, time out, reconnect | MM backends over WebSockets |
| Indexer (`api/quickIndexer.ts`) | a watermark, rows of bets, cashouts and escrows | list, fetch, replay, mark | the chain's transactions |
| Registry, configuration, repair tools, API queries, score prediction, UI, SDKs, templates | section 7 | | |

Every instruction is one Solana transaction: it happens whole or not at all.
What interleaves on chain is transactions: the user's, each MM admin's, the
operator's grades and the calls anybody may make (settle, claim, revert) arrive in
any order, and each MM posts its own view of the event. That is the grain of the
custody models. Where the difficulty is inside a transaction it is modelled step by
step: the auction loop of `fill_bet`, the loops of `split_fillers`, the binary
search and the shifts of the array of lines, and the two calls (quote, then fill) of
the MM programs. Off the chain every `await` is a step.

What is hard here, and what makes each part correct:

* **Netting.** An MM that owes profit on several outcomes of a market reserves
  only the highest. Fills, cashouts, reverts and settlements move that peak up
  and down in any order. Correct: the encumbrance is always exactly what the
  open slices require (`EncumbranceExact`), the book exactly what the open
  netted slices owe (`BookExact`), and the liability account covers whatever
  side wins (`Solvent`).
* **Rounding.** Profits round down per slice; cashouts divide stakes by floors
  and put the remainder on the last slot. Correct: no reservation falls below
  the profit it must pay, no stake is lost or created (`ReserveCoversProfit`,
  `StakeBacked`, `ComputesShares`; for parlays `PiecesKeepProfit`).
* **Live cashouts.** Between a delayed cashout and its claim or revert there are
  two tickets and an escrow; settlement, grades, more cashouts and accounts
  being closed race with them. Correct: the cashout ticket of a live escrow stays
  with it, and so does its bet where the MMs agree on the event (`EscrowLinked`,
  `NoRaces`), a bet waits only for an escrow that resolves (`CashedOutWaits`,
  `EscrowResolvable`, `EscrowResolves`), and no position is changed by being cut and merged
  (`CashoutsKeepPosition`).
* **Accounts that come and go.** Vaults, books and lines are closed by MM admins
  while tickets are open. Correct: what a ticket needs to be paid is there
  (`ReservedAccountsExist`, `PayableWhenFinal`, `CashoutsCounted`).
* **The auction.** Inside one transaction MMs answer, fail or send too little
  after their collateral was staged. Correct: what is committed is a fill at the
  best prices, and nothing is kept of a refused slice (`IsFillBet`, `TakesTheBest`).
* **Parlays.** Legs are graded in any order and changed again; the odds that are
  left are multiplied again at settlement with a rounding per leg, and each MM has its
  own view of which events are in play. Correct: a graded ticket can always be settled
  from what was reserved (`PayableWhenGraded`, `ReservesExact`), and an escrow whose
  ticket is there can be claimed or reverted (`EscrowResolvable`).
* **Vouchers.** A voucher is used, given back, halved or consumed by the grade that
  happens to be there, while its issuer revokes and closes. Correct: one ticket per
  voucher and a count that strands none (`UsedByOne`, `OpenCountExact`).
* **Quotes.** Oracle updates are reordered and lost, buffers overwritten, offers
  replayed late. Correct: an account shows the newest odds that reached it
  (`NewestOddsWin`), a fill is at the prices of now (`PaidAtMarket`), a ticket has
  terms its MM signed for it (`OffersHonoured`), and what the promo MM quotes it
  still takes (`PromoQuotesStand`).
* **Services.** Crashes, late transactions, stale flags, half-open sockets,
  overlapping runs, exceptions that are logged and passed. Correct: no account on chain is forgotten (`RowsCoverAccounts`,
  `StartedEventsClose`), odds come to follow the feed (`OddsFollowFeed`), requests
  go to live sockets and are answered (`RoutesLive`, `HubRecovers`), and the
  watermark passes nothing untried (`NothingSkipped`, `AmountsFreeze`).

`PROJECT.json` lists the hazards one by one, at their lines, with the properties
that would catch each.

## 2. Modules

```
Odds ── Netting ──┬── NettingBook ··implemented by·· NettingLines
   ├─── Splits ───┤        SplitFillers (loops) computes the formulas of Splits
   │    Totals ───┘
   │        Custody (variables, accounts, types)
   │          ├── Vaults   ├── Fills ··implemented by·· Auction
   │          ├── Settlement   └── Cashouts
   │        Singles (Init, Next, properties, fairness)
   ├─── ParlayOdds ──┬── Parlays      ├── Promos     ├── Offers
   │                 └── Quoting      └── PromoMaker
   Publisher     RfqHub     Indexer

   AmountProofs ─┬─ SinglesProofs ── SinglesSafety ── BookProofs
                 ├─ ParlayProofs     ├─ PromosProofs    └─ PartsProofs
   BackendProofs
```

| module | models | remarks |
| --- | --- | --- |
| `Odds` | `calc_potential_profit`, `calc_potential_payout`, `proportional_payout`, `split_reserved_profit` | integers, floors where the code divides |
| `Totals` | sums over finite functions | defined by cardinality, so that proofs may use it without recursion |
| `Netting` | what `calculate_netting`, `apply_netting` and `apply_settle_netting` do to a book | a book is a map from markets to open profits |
| `NettingBook`, `NettingLines` | the netting PDA as an abstract map, and as the code stores it: binary search, insertion and removal by shifting, allocation, the staged write | `NettingLines` implements `NettingBook` through the refinement mapping `BookShown` (`ImplementsBook`) |
| `Splits`, `SplitFillers` | `split_fillers`: the closed formulas, and the loops with their failure exits | the loops compute the formulas (`ComputesShares`) |
| `Custody` | the accounts of single bets as variables | one mint, one event, one operator |
| `Vaults` | admin instructions, top-ups, pause, event states | |
| `Fills` | `fill_bet` as the set of its outcomes; `fill_rfq_bet` | |
| `Auction` | `run_fill_bet` step by step | every committed run is one `FillBet` step (`IsFillBet`); `auction` is the running transaction |
| `Settlement` | `grade_bets`, `settle_bet` | |
| `Cashouts` | both cashout instructions (`finish_cashout_single`), claim, revert, the clock | |
| `Singles` | all of the above interleaved | |
| `ParlayOdds` | which legs may stand together, products of odds, the fold of leg grades, `compute_modified_parlay_settlement` | folds are recursive functions |
| `Parlays` | fills, grades, settlement, cashouts, claims and reverts of parlays | each MM with event states of its own, next to a single bet with the same bet id, reduced to its escrow |
| `Promos` | one issuer, its vouchers and their tickets, single bets or parlays | one filler, no netting: those are in `Singles` and `Parlays` |
| `Offers` | signed messages of the four instructions that take one, keys, expiry, event states, replays | a signature is a tag on the message |
| `Quoting` | oracle accounts, quote buffers, the five proxies, the four fills of the MM program | one transaction at a time, with steps of the oracle in between |
| `PromoMaker` | quote, fill and admin of the promo MM | what a failed transaction undoes is modelled as such |
| `Publisher` | the publishing cycle with its database, late and failed transactions, crashes, the closing script | one event |
| `RfqHub` | both ends of the sockets, hellos, requests, timers | |
| `Indexer` | runs that list, fetch, replay and mark, and what they do when a step fails; a growing chain | one bet, one cashout, one escrow |
| `MC*` | constants and compositions for TLC | section 3 |
| `*Proofs`, `SinglesSafety` | theorems | section 5 |

How state corresponds, for single bets: `vault[m]` is the encumbrance PDA (`enc`,
`cashouts` = open_cashout_tickets) with the balance of the liability account it
owns; `book[m]` the netting PDA; `wallet[m]` the token account the MM program pays
from; `ticket[k]` the bet or cashout PDA with its `BetFiller` slices, by MM and
in their on-chain order (`fillers`); `stake[k]` the ticket's token account;
`escrow[b]` the escrow PDA of a bet id with its token account; `live[m]` says
that the MM's event state has sequence 2 or more (`inPlay[m]` for parlays: the events for
which it has); `user` pools the users' token
accounts. An account that does not exist is a distinguished record (`NoTicket`,
`NoVault`, ...). Each action is one instruction: its conjuncts without primes are
the checks that make the code return an error, the rest its writes. `Parlays` and
`Promos` use the same names for the same accounts. In `Quoting` and `PromoMaker`
`tx` (`call`) is the transaction in progress; in `Publisher` `pc` is the await the
backend is at, in `RfqHub` the two ends of a session are `client[s]` and `hub[s]`, and in `Indexer`
`run[r]` is what one run holds in memory. Definitions introduced by a `Fault`
comment are wrong variants of the one they stand beside; nothing uses them except
the fault runs (section 4).

Abstractions. Names, keys and signatures are model values. Amounts are integers:
u64 and u128 overflow is left out, since amounts are bounded by the supply of
the mint. A signed cashout offer is taken to state the MM's event state at the time it
is executed (for parlays it may be any earlier one). Prices are scaled by `Scale` in place of 10000, so that floors already
bite for one or two atoms. The is_pregame flag of a ticket and the event sequence
of an MM are folded into `live`. Rent and lamports, PDA seeds and byte offsets
are left out. The MM's quote and fill calls are answered by the environment in
`Fills` and `Auction`: any quote, and either the deposit asked for or a refusal.
Tokens donated to an escrow's account are left out (those donated to a ticket's are
`Donate`). The one kind of header market is the soccer 1X2 with three outcomes.

## 3. Runs

| run | specification | what it asks | properties |
| --- | --- | --- | --- |
| `book` | `TrustedSpec` | collateral of two MMs and two bets on a header market and a line, truthful grades | `EncumbranceExact`, `BookExact`, `Solvent`, `PayableWhenFinal` |
| `escrow` | `FairSpec` | one bet of one MM cashed out before and after the start, graded, regraded, claimed, reverted and settled, while the MM's admin opens, closes and reopens everything, with pauses and donations | `TypeOK`, `CashoutsCounted`, `CashedOutWaits`, `EscrowResolvable`, `ReservedAccountsExist`, `Conserved`, `NoRaces`, `EscrowResolves`, `GradedSettles` |
| `cashout` | `Spec` | a netted bet of two MMs cut, reverted and cut again, with rounding | `EscrowLinked`, `ReserveCoversProfit`, `StakeBacked`, `CashoutsKeepPosition` |
| `parlays` | `Spec` | one parlay on two events, filled by one of two MMs that need not agree on which event is in play, sold in part or in full to either, next to a single bet with its bet id | `ReservesExact`, `PiecesKeepProfit`, `PayableWhenGraded`, `EscrowResolvable` |
| `promos` | `FairSpec` | a freebet and a boost through every grade, with the issuer closing and draining its accounts | `OpenCountExact`, `UsedByOne`, `PayableWhenGraded`, `GradedPromoSettles` |
| `parts` | `MCParts!Spec` | seven parts on their own: the array of lines, `split_fillers`, the auction, quotes, offers, the promo MM, the indexer | `ImplementsBook`, `ComputesShares`, `IsFillBet`, `TakesTheBest`, `PaidAtMarket`, `NewestOddsWin`, `OffersHonoured`, `PromoQuotesStand`, `NothingSkipped`, `AmountsFreeze` |
| `backends` | `MCBackends!FairSpec` | the publishing backend, and the hub with the MMs' sessions | `RowsCoverAccounts`, `RoutesLive`, `StartedEventsClose`, `OddsFollowFeed`, `HubRecovers` |
| `unpayable`, `orphan`, `boost`, `skipped`, `withdrawn` | | findings, section 6 | one each, violated |

`parts` and `backends` serve several modules with one run of TLC: a behaviour
picks a part at the start and runs it, and the variables of the others keep their
initial values. The properties of a part hold trivially in the others.

**Bounds.** The constants that bound a run are named in its cfg. On chain, money is
conserved, so the funds (`MMFunds`, `UserFunds`, `IssuerFunds`) bound every balance;
`Amounts`, `Prices`, `Payments`, `Transfers` and `Dust` bound what is chosen, `Delay`
and `Life` the clocks, and the keys in `Bets` and `Cashouts` are used again after
their accounts close. The state spaces are complete within that. Why it is enough:

* `book`: the sums go over markets, tickets and MMs; the arithmetic that can
  go wrong is in one MM's book with two bets on the same or on different outcomes, on
  a market that nets and one that does not. The second MM shows that slices do not
  mix.
* `escrow`, `cashout`: one escrow per bet id exists at a time, so one bet and
  one cashout key cover a cashout before, during and after a live escrow; with
  `Scale = 2` and price 3 (profit is half the stake, rounded down) two atoms already
  split into two that earn nothing.
* `parlays`: two legs are the least that can be graded in two orders; a price below
  even money makes a ticket worth more when that leg is void. Two MMs are the least that
  can disagree on an event: an escrow whose ticket an immediate cashout closed is reached
  (in five steps), and from then on `EscrowResolvable` asks nothing of it. `SinglePieces`
  bounds the cashouts of the single bet, `MaxFills` the fills: with one, no bet id is
  filled again under such an escrow (`reused`), which the proofs cover; with two the
  same holds, in a longer run.
* `promos`: every pair of a voucher with a ticket, a tick of life before and after.
* `parts`: a binary search errs at its ends and at one and two elements, which three
  lines include (`CreateSlots` lets the account grow). The last slot of
  `split_fillers` can overflow from three slots on (two floors lose up to one atom
  each), and four let the walk go on. The auction has two MMs at two prices and
  slices below the minimum, twice in a row. `Quoting`: two `Updates` overtake each
  other. `Offers`: two `Signatures` on keys that change, an offer good for the second
  (`LastSecond`) it is made in. `PromoMaker`: three wallets for a table of two. The
  indexer: two runs and three transactions (`MaxTx`) in up to three blocks with one
  mishap (`Mishaps`: a crash, a failed call, an empty reply, an exception); with four
  transactions the same holds, in a longer run.
* `backends`: one market and three `Faults` let a fault happen in a stage, and again
  in its repair; two `Moves` withdraw and return odds. Two MMs of two sockets each, so
  that one can reconnect before the hub is told of the break, with one such `Breaks`
  at any time of one request.

Symmetry is used where no property and no constant tells the permuted values apart,
and in no run with a liveness property. Where users and MMs run out of tokens, or a
bound is reached, or a call has returned, nothing more happens and that is intended: the
deadlock check is off in every cfg.

**Truthful grades.** `settle_bet` pays what the operator's grade says. Netting is
sound only for outcomes that exclude each other, so no collateral could cover
an operator that grades both sides of a market as won; the docs trust the operator
for that. `TrustedSpec` therefore restricts grades to one winner per market
(voids always allowed) and is used where solvency matters. All other safety
properties are checked and proved with arbitrary grades.

**Fairness.** It is weak throughout, and of steps that someone is willing or a
timer is set to take.

* `Singles`: `SettleBet`, `ClaimCashoutEscrow`, `RevertCashout` and the clock. The
  three instructions need no particular signer, and the parties that gain from them
  can always submit them; once possible they stay possible. `EscrowResolves` and
  `GradedSettles` suppose that the program is not paused for ever and that a graded
  ticket is in the end regraded to RolledBack only (`FirmGrades`): an operator that
  keeps changing a grade while the escrow is open can postpone settlement for ever.
* `Parlays`: none. That a graded parlay is settled in the end is not claimed: an escrow at
  its bet id stops it, and neither the escrow of a parlay that an immediate cashout closed
  nor that of a single bet (section 6) need ever be resolved. `ResolveSingle` may
  therefore happen or not. What is claimed is that settlement, claim and revert are
  possible when they should be (`PayableWhenGraded`, `EscrowResolvable`), which anyone
  can then submit.
* `Promos`: the settlement of a ticket (`SettleStep`), permissionless as well.
* `Publisher`: the five-minute timer (`Cycle`), the script going on to reset the
  flags of what it closed (`ScriptResets`), and the settlement of the event's bets
  (`SettleBets`), without which a netting account stays open.
* `RfqHub`: the two-second timer, a backend reconnecting, a hello that ends, and
  a broken socket that is reported in the end: timers and the runtime do that.

## 4. Faults

Every property of a passing run comes with a mutant in `PROJECT.json`: one
definition replaced by a plausible mistake (the operators marked `Fault`, each
next to the definition it distorts), under which the same run finds the
property violated. They show that the properties depend on the code and that
the bounds reach the case.

## 5. Proofs

TLAPS checks the theorems below for every value of the constants that satisfies the
named assumptions: any number of MMs, bets, cashout keys, markets, legs, vouchers,
users, offers, sockets, runs and transactions, any amounts, any prices of at least
`Scale`, any grades and any number of faults. The assumptions say what the code's
types and checks say (amounts are naturals, a price below `ODDS_SCALE` is refused,
the kinds of markets are disjoint); TLC evaluates them in the runs. No theorem
rests on a bound: those are constants like the others.

**`AmountProofs`.** Sums over finite functions, from the library's theorems on
cardinality: what a change of one summand, a sum of functions and a change of the index
set do to a sum (`TotalUpdate`, `TotalSum`, `TotalReindex` and others). `ProfitSuperadditive` (the
profits of the parts are at most the profit of the whole) gives `CashedReserveCovers`:
however a slice is cut, both parts reserve at least what they would pay, if the
slice did. `SetInduction` is induction over numbers in the form the provers can
use, for a set instead of a predicate; it follows from the library's theorem on
well-founded relations, and with it the products and folds over legs, the floors over slots and
the binary search are proved as well.

**Single bets** (`SinglesProofs`, `SinglesSafety`, `BookProofs`).

* `TypeCorrect`: every balance, encumbrance, open profit, reservation and counter is a
  natural number in every reachable state, so every subtraction in the code is
  covered by a check before it. `TypeOK` is inductive; the work is in `SettleType`
  (what the losing slices take and what is returned fit the ticket's account, each
  `Drop` fits the encumbrance), `CashoutType` and `FillType`.
* `CashedOutWaiting`, `CashoutsCounting`: the counter is inductive together with the
  shape of accounts between steps (`Accounts`) and with a closed vault counting nothing.
* `Conservation`: tokens only move. The strengthening is `ClosedHoldNothing`: a closed
  vault, an unused escrow and an absent ticket hold nothing, so that no step that
  resets an account destroys what is in it.

* `EscrowsHoldTheirCashouts`, `NoRacing`, `EscrowResolving`: these hold whatever the event
  states are. The cashout ticket of a live escrow stays open and is the slice the
  escrow recorded (`CashoutHeld`, inductive with `Accounts`). `LiveEscrowStep` is the heart:
  a step that does not resolve an escrow at most grades its cashout ticket; it at most
  grades the bet too, unless an MM for which the cashout needs no delay buys part of
  it. If that closes the bet, the escrow is stuck: the `orphan` run. An escrow that has its bet
  can be resolved, since its ticket is counted and keeps the vault open. What is proved is
  `ResolvableWithBet`; `EscrowResolvable`, which asks for the bet as well, holds in the run
  `escrow` with one MM and is violated in `orphan`.

The next ones assume `EventGroups \subseteq {MMs}`: the MMs' event states leave
pregame together. The code relies on that and does not check it. They speak of amounts,
which without it follow an escrow whose bet may be another one by then (its id is free
again). The assumption restricts only which MMs go live together; everything else stays
arbitrary. Their common basis is `LinkInv`: the MMs agree, every cashout of a bet under a
live escrow needs a delay (and is refused), and so both tickets stay (`EscrowLinked`,
which the run `cashout` checks under the same condition).

* `ReserveCovering`, `StakeBacking`: the reservation of one slice is not inductive, since
  merging two slices whose rounded profits are covered need not cover the profit of the
  sum, which may round to one atom more. `SliceInv` carries `MergeCovers`: what
  a revert *would* merge covers its profit, because it was one slice before and
  only grades reach either part since.
* `PositionKeeping`: a live cashout divides the position of an MM, a revert merges it
  and a claim closes a bet that is empty. For the payouts the same strengthening is
  needed (`MergedPayoutsCovered`): the merged payouts of a live escrow's tickets stay
  covered because a payout of a sum is at least the sum of the payouts.
* `EncumbranceExactness`, `BookExactness`, `ReservedAccountsStay`: per MM, `Balanced` says
  that book and encumbrance are exactly the sums over tickets and that both are empty
  while closed. Cashouts, claims and reverts only exchange reservations between two
  tickets (`Exchange`, which needs that the tickets of an escrow are on the same side of
  the same market); fills and settlements change one ticket and one market. For
  the accounts, `Placed` adds that profit is open only where the book has a slot.
* `Solvency`, `Payability`, under `TrustedSpec`: what an MM owes (`Owed`) is at most its
  encumbrance. A step that takes from a liability account leaves the whole encumbrance
  covered, except a settlement; a settlement may push the balance below the
  encumbrance, but lowers what is owed by at least what it pays (`SettleOwed`).
  `Covered`, owed at most the balance, is inductive where "encumbrance at most the
  balance" is not. `Payability` joins all of it: each check of `settle_bet` follows
  from one of the invariants above.
* `AuctionIsFillBet`, `AuctionTakesTheBest`, under `AuctionSpec`: in the loop of
  `run_fill_bet` the accounts are staged fill by fill, each from what the fills
  before it left. `LoopInv` says that what is staged is, MM by MM, what one fill makes
  of the accounts before the transaction (`StagedRight`; no MM is in the list twice), that
  each fill can be made from those (`FillsGood`), and that every quote passed is used up,
  refused or too small, unless less than a minimum slice of the request is left
  (`PassedExhausted`). What is committed is then a fill of `FillBet`, which keeps the
  vaults ready for the next one (`MakersReady`).

**Parlays** (`ParlayProofs`): `ParlayTypes`, `ReservationsAreTickets`, `PiecesStandAlone`,
`GradedParlaysArePayable`, `ParlayEscrowsLinked`, `ParlayEscrowsResolvable`,
`ParlayTicketsHeld`, `ParlaysConserve`. One invariant carries them: tickets are well formed
and pay at least their stake, a live escrow names a cashout ticket that is open and as the
escrow recorded it, encumbrances and counters are sums over tickets and covered (nothing
is netted, so a reservation is covered by itself). Nothing is assumed of the event states:
each MM posts its own, in any order. A ticket may therefore be closed under its escrow by
a cashout without a delay, and by nothing else (`ParlayTicketsHeld`); while it is there, the escrow
can be claimed or reverted. If its bet id is then filled again, a revert would add the old slice
to a ticket of another filler, and reservations are exact no longer. `reused` records
those bet ids: `ReservesExact` and `PayableWhenGraded` are claimed while there are none. That
the odds left are a number, after a fold with a division per leg, is by induction over
the legs.

**Freebets and boosts** (`PromosProofs`): `OpenCountsHold`, `OneTicketPerVoucher`,
`GradedIsPayable`, `TypesHold`, `TokensConserved`. The invariant joins the count and its
meaning, a removed issuer that counts nothing, the MM's cover, and that the account a
freebet's stake returns to is there while the freebet is used.

**Parts** (`PartsProofs`).

* `ArrayImplementsBook`: the netting account with its sorted array implements the map
  from markets to open profits. The loop invariant of the binary search (all keys
  before the interval are smaller, all behind it larger) gives the place of a line, or the
  place to insert it; inserting and removing by shifting keeps the array sorted and
  changes the set of lines by that one; a staged write meets the line it was staged
  for. Each step of the array is then a step of the book or a stutter.
* `SplitComputes`: the loops of `split_fillers` compute the closed formula that `Cashouts`
  uses, and never fail on a well-formed ticket. The sum of the floors of the first slots is
  at most their part of the cashout (`FloorsFit`), so a remainder is there for the
  last slot, and what exceeds its stake fits into what the floors left free before it
  (`ExcessFits`). The invariant of the walk says what each slot has, and that what
  is still over is the excess less the room of the slots passed.
* `TermsAreSigned`: a message tells the terms it was made of (`MessageTellsTerms`), for all
  four kinds; every open ticket and receipt then keeps an offer that covers it.
* `NewestOddsShow`: an account that no update has reached has sequence 0, below that of any
  update; together with what it shows that is inductive.
* `FillsAreAtMarket`: from the question to the end of a transaction its odds are those of the
  accounts (`PriceInv`), as no oracle update comes between. That these odds are at
  most the exact product is `ParlayPrice`: within an event each price rounded down stays
  below the product of its legs (`FloorsBelow`), the same holds over the events, and the
  product of the events' products is that of all legs (`ProductByGroups`, by induction
  over the legs, each of which enters the product of one event). A fair payment is
  then the worth at the exact product, rounded down at most by a token (`FairPayment`). It
  takes one hypothesis that the program does not check: a backend writes 0 or decimal
  odds of at least 1.0 (`DecimalOdds`). Without it the fold of an event can round down
  to 0, and `product_parlay_odds` would leave the event out, as in the finding `withdrawn`.
* `PromoQuotesStanding`: between the quote and the fill of a transaction nothing
  changes what was checked, and an abort restores a state as sound as the one before it.

**Services** (`BackendProofs`).

* `RowsCover`: the row of an event is deleted only in a stage in which no transaction given
  up on can still land.
* `HubRoutesLive`: every registered socket is up, named and its MM's own; the close of an
  old socket does not touch the one registered after it.
* `NothingLost`, `GradedRowsFreeze`: whatever a run may resume from (the watermark, the
  transactions named in the row of the bet) has everything due behind it indexed or
  recorded as failed by itself, and every list a run works through keeps what is due by
  a signature at or before it, in the order in which it is replayed. "Failed by itself"
  is what the code lets through: its fetch failed (`missed`, the finding `skipped`), or
  the reply was empty, an instruction could not be decoded, or indexing it threw
  (`dropped`: logged, and the watermark follows). That no *other* transaction is lost with it
  is what the theorem says. An exception leaves the rows as the writes before it made
  them (`IndexThrows`), and graded rows keep their amounts all the same.

Only model-checked, and why:

* liveness and everything about `ENABLED`, which is out of the prover's reach:
  `EscrowResolves`, `GradedSettles`, `GradedPromoSettles`,
  `StartedEventsClose`, `OddsFollowFeed`, `HubRecovers`.

## 6. Findings

* **Orphaned escrow** (`orphan`). A bet is cashed out in part through an escrow because
  the buying MM's event is live. Another MM, whose event state still says pregame,
  buys the rest at once; `finish_cashout_single` closes the bet PDA
  (`agg/helpers/cashout_helpers.rs:955`) and never looks at the escrow. The escrow
  can then be neither claimed nor reverted, although `README.md:1899` promises a
  permissionless claim. With one event group (`escrow`) `EscrowResolvable` holds.
  Parlays have the same path (`finish_cashout_parlay`; the delay follows the buyer's own
  leg states, `agg/instructions/cashout_parlay.rs:149`): `Parlays` reaches such an
  escrow. Being derived from the bet id alone, it also keeps a single bet of that id from being
  settled.
* **Boost without an account** (`boost`). The four boosted fills drop the result of
  `verify_token_account` (`agg/instructions/boosted_fill_bet.rs:84`), which line 11 calls
  checked: a boost is used although its issuer has no token account, and the winning
  ticket cannot be settled until there is one.
* **Skipped transaction** (`skipped`). When the fetch of a transaction fails the run goes
  on, and the next one moves the watermark past it (`api/quickIndexer.ts:1406`), although
  line 1403 says that it is retried on the next run.
* **Withdrawn leg** (`withdrawn`). A leg with odds 0 makes the folded odds of its event 0,
  and `product_parlay_odds` leaves 0 out (`market_maker/program/src/instructions/quote_helpers.rs:122`):
  a parlay with a withdrawn leg is quoted, and a ticket cashed out, as if that leg had
  won. Line 117 says that every group has exactly one leg with positive odds.
* **Graded but not settleable** (`unpayable`). A partial cashout can leave a slice with
  stake and a reservation of 0. Nothing then keeps the MM's netting account open, but
  `settle_bet` demands it (`agg/instructions/settle_bet.rs:315`): the ticket is stuck
  until the MM creates the account again. `README.md:854`: "Anyone may settle graded
  tickets." `PayableWhenFinal` is the weaker claim that holds.

Smaller things met while modelling, with no run of their own:

* `remove_netting_line` looks at the line it removes (`agg/state/account_netting.rs:328`);
  `README.md:955` says it fails while any open profit remains on the PDA. The code is
  the safe weaker check: `ImplementsBook` and `BookExact` hold with it.
* A parlay whose legs are all void folds to Cancelled (`agg/helpers/parlay_helpers.rs:150`),
  which `README.md:240` puts differently; parent discriminators are 92 and 93 in the code
  and 72 and 73 in `README.md:469` and `:561`.
* A signed offer can be submitted again once the bet id is free, within its expiry, for
  instance after a full cashout without delay has closed the account (`README.md:984`).
* The promo MM's `get_quote` does not look at the table of 150 bettors, and a market that is
  created again forgets who has bet (`promo/program/src/state/account_oracle.rs:160` says
  one bet per user).
* The MM's RFQ backend signs the event state the request names
  (`market_maker/backend/rfq.ts:157`).
* The publisher forgets its event-state flag (`market_maker/backend/index.ts:366` against `:15`).
* An exception while an instruction is indexed, or one that cannot be decoded, is logged,
  and the watermark follows (`api/quickIndexer.ts:1411` to `:1418`, with the comment "after fully
  processing"); an empty reply to a fetch counts as a failed transaction (`:954`). The transaction is
  not listed again, and of a claim, a revert or a cashout some rows may be written.
  An exception in `parseTxData` ends the run instead, before the watermark.
* A backend whose hello is answered with an error reconnects without closing the socket
  (`market_maker/backend/rfq.ts:101`). The hub never named it, so it routes nothing; the model
  counts it as gone.
* `onClose` of the hub takes an MM out of the requests that wait for it, so a request may be
  answered before an MM that reconnects can reply.
* The indexer's flag against overlapping runs is a local variable, so it never works:
  a replay may subtract a partial cashout twice. A claim marks its bet cashed out even
  after a partial cashout, a revert does not restore amount and payout, and a used-again
  escrow PDA keeps its old row (INSERT OR IGNORE).

## 7. Not modelled

* **Registry** (`register_mm`, `deregister_mm`): a list with a swap-remove behind the
  aggregator's admin; fills and settlements do not read it.
* **Repair tools**: `force_close_pda` and `write_arbitrary_data`, compiled for devnet only,
  let the authority put any account into any state; no property survives them.
* **Account layouts and derivation**: accounts are records at the key their PDA is
  derived from. Operator authorisation is a check on who calls, and the actions leave the
  caller open. Which of several offered cashout payments wins is left open; the
  refunds of the others are `Deposit` steps.
* **Promo MM**: its funds, `create_token_account`, the key for signed offers and the
  repair tools; it refuses every parlay.
* **API and database** beyond the indexer, **score prediction**, **clients, UI, SDKs,
  templates and scripts**: I/O and presentation, no part in custody.

## 8. Plan

Done: the modules, runs and theorems above. What remains, most useful first:

1. **Promo MM**: its funds and `create_token_account`.
2. **An abstract custody** (each position is owed an amount, each token is somewhere) that
   `Singles` and `Parlays` both implement.
