------------------------------ MODULE Indexer ------------------------------
(***************************************************************************)
(* The indexer of the API (src/api/quickIndexer.ts): every ten minutes and *)
(* at every start of the process, a run lists the transactions of the      *)
(* aggregator after a watermark, replays them one by one into the rows of  *)
(* bets, cashouts and escrows, and moves the watermark.                    *)
(*                                                                         *)
(* Each await is a step. A tick starts a run though another is under way:  *)
(* the flag that should prevent it is a local variable of runIndexer. The  *)
(* process may crash between two steps, and between the last write of a    *)
(* transaction and its watermark; the rows are in SQLite and stay. A       *)
(* transaction whose indexing throws, or that the node answers with        *)
(* nothing, is logged and left behind; its writes up to there stay. A      *)
(* block is seen as a whole, so nothing is indexed while one is open.      *)
(*                                                                         *)
(* One bet and one cashout of it stand for all: rows of different tickets  *)
(* have nothing in common but the watermark.                               *)
(***************************************************************************)
EXTENDS Integers, Sequences, SequencesExt

CONSTANTS
    Runs,       \* runs that can be under way at the same time
    Stake,      \* tokens staked on the bet
    MaxTx,      \* bound: transactions on the chain
    Mishaps     \* bound: failed calls and crashes

\* What the constants are assumed to be.
IndexerAssumption == Stake \in Nat \ {0} /\ MaxTx \in Nat /\ Mishaps \in Nat

VARIABLES
    chain,      \* transactions of the program, oldest first
    sealed,     \* whether the last block is complete
    account,    \* the accounts of the bet and of its cashout
    held,       \* whether the cashout escrow account is open
    row,        \* bet_accounts and cashout_accounts
    escrowRow,  \* status in cashout_escrow_accounts
    mark,       \* indexer_state: the transaction of last_sig, 0 before the first
    run,        \* runs under way, with the signatures each has yet to process
    missed,     \* history: transactions whose fetch failed
    dropped,    \* history: transactions answered with nothing, or whose indexing threw
    indexed,    \* history: transactions whose instructions were indexed
    mishaps     \* failed calls and crashes so far

chainVars == <<chain, sealed, account, held>>
indexerVars == <<chainVars, row, escrowRow, mark, run, missed, dropped, indexed, mishaps>>

Accounts == {"bet", "cash"}
Off == [stage |-> "off", from |-> 0, sigs |-> <<>>]
NoRow == [status |-> "none", amount |-> 0, slot |-> 0,
          created |-> 0, graded |-> 0, claimed |-> 0]

-----------------------------------------------------------------------------
(* The chain                                                               *)

SlotOf(i) == IF i = 0 THEN 0 ELSE chain[i].slot

\* A transaction lands in the open block, or opens the next one.
Land(kind, at, amount, ok) ==
    /\ Len(chain) < MaxTx
    /\ LET slot == SlotOf(Len(chain)) + (IF sealed THEN 1 ELSE 0) IN
       chain' = Append(chain, [kind |-> kind, at |-> at, amount |-> amount, ok |-> ok,
                               slot |-> slot])
    /\ sealed' = FALSE
    /\ UNCHANGED <<row, escrowRow, mark, run, missed, dropped, indexed, mishaps>>

Seal == ~sealed /\ sealed' = TRUE
        /\ UNCHANGED <<chain, account, held, row, escrowRow, mark, run, missed, dropped,
                       indexed, mishaps>>

Unsettled(t) == account[t].state \in {"open", "graded"}

BetFill ==
    /\ account["bet"].state = "new"
    /\ account' = [account EXCEPT !["bet"] = [state |-> "open", amount |-> Stake]]
    /\ Land("fill", "bet", Stake, TRUE) /\ UNCHANGED held

Grade(t) ==
    /\ Unsettled(t)
    /\ account' = [account EXCEPT ![t].state = "graded"]
    /\ Land("grade", t, 0, TRUE) /\ UNCHANGED held

\* An immediate cashout closes a bet that has nothing left.
Cashout(amount, delayed) ==
    /\ account["bet"].state = "open" /\ account["cash"].state = "new"
    /\ amount <= account["bet"].amount
    /\ LET left == account["bet"].amount - amount IN
       account' = [bet |-> [state |-> IF left = 0 /\ ~delayed THEN "closed" ELSE "open",
                            amount |-> left],
                   cash |-> [state |-> "open", amount |-> amount]]
    /\ held' = delayed
    /\ Land("cashout", "cash", amount, TRUE)

Claim ==
    /\ held
    /\ account' = IF account["bet"].amount = 0
                  THEN [account EXCEPT !["bet"].state = "closed"] ELSE account
    /\ held' = FALSE
    /\ Land("claim", "bet", 0, TRUE)

\* One of the two tickets was rolled back; the bet is pending again if it was the other.
Revert ==
    /\ held
    /\ \E rolled \in Accounts :
          /\ account[rolled].state = "graded"
          /\ account' = [bet |-> [state |-> IF rolled = "bet" THEN "graded" ELSE "open",
                                  amount |-> account["bet"].amount + account["cash"].amount],
                         cash |-> [account["cash"] EXCEPT !.state = "closed"]]
    /\ held' = FALSE
    /\ Land("revert", "bet", 0, TRUE)

Settle(t) ==
    /\ account[t].state = "graded" /\ ~held
    /\ account' = [account EXCEPT ![t].state = "closed"]
    /\ Land("settle", t, 0, TRUE) /\ UNCHANGED held

\* A transaction that fails is listed all the same.
Fails == Land("failed", "bet", 0, FALSE) /\ UNCHANGED <<account, held>>

Happens ==
    \/ BetFill \/ Claim \/ Revert \/ Fails \/ Seal
    \/ \E t \in Accounts : Grade(t) \/ Settle(t)
    \/ \E amount \in 1..Stake, delayed \in BOOLEAN : Cashout(amount, delayed)

-----------------------------------------------------------------------------
(* The tables                                                              *)

Write(t, r) == row' = [row EXCEPT ![t] = r]

\* Fault: the refresh does not ask for a pending row.
AddAccountAlways(t, i, amount, fresh) ==
    LET r == row[t] IN
    Write(t, IF r.status = "none"
             THEN [NoRow EXCEPT !.status = "pending", !.amount = amount,
                                !.slot = SlotOf(i), !.created = i]
             ELSE IF fresh THEN [r EXCEPT !.amount = amount, !.slot = SlotOf(i)]
             ELSE r)

\* addBetAccount, addCashoutAccount: what was read from the chain (fresh)
\* refreshes a row, but a pending one only.
AddAccount(t, i, amount, fresh) ==
    LET r == row[t] IN
    Write(t, IF r.status = "none"
             THEN [NoRow EXCEPT !.status = "pending", !.amount = amount,
                                !.slot = SlotOf(i), !.created = i]
             ELSE IF fresh /\ r.status = "pending" /\ SlotOf(i) >= r.slot
             THEN [r EXCEPT !.amount = amount, !.slot = SlotOf(i)]
             ELSE r)

\* An UPDATE finds nothing before the row is there.
Update(t, r) == Write(t, IF row[t].status = "none" THEN NoRow ELSE r)

Result(t, i) ==
    Update(t, [row[t] EXCEPT !.status = "graded", !.graded = i, !.slot = SlotOf(i)])
Settled(t, i) ==
    Update(t, [row[t] EXCEPT !.status = "claimed", !.claimed = i, !.slot = SlotOf(i)])
CashedOut(i) ==
    [row["bet"] EXCEPT !.status = "cashed_out", !.claimed = i, !.slot = SlotOf(i)]

\* applyOrigBetCashoutFill.
CashoutFill(i, delayed) ==
    LET r == row["bet"]
        remain == r.amount - chain[i].amount
    IN  Update("bet", IF remain <= 0 THEN IF delayed THEN r ELSE CashedOut(i)
                      ELSE IF r.status = "pending"
                      THEN [r EXCEPT !.amount = remain, !.slot = SlotOf(i)]
                      ELSE r)

\* updateCashoutAccountReverted, then revertBetCashout.
CashReverted(i) ==
    LET c == row["cash"] IN
    IF c.status = "none" THEN c
    ELSE [c EXCEPT !.status = "reverted", !.graded = i, !.slot = SlotOf(i)]
BetReverted(i) ==
    LET b == row["bet"] IN
    IF b.status = "none" THEN b
    ELSE [b EXCEPT !.status = IF b.graded = 0 THEN "pending" ELSE "graded",
                   !.claimed = 0, !.slot = SlotOf(i)]
Reverted(i) == row' = [bet |-> BetReverted(i), cash |-> CashReverted(i)]

EscrowBecomes(status) == escrowRow' = IF escrowRow = "none" THEN "none" ELSE status

\* recordCashoutEscrowIfLive: a row for an escrow that could be read.
EscrowSeen(live) ==
    /\ live => held
    /\ escrowRow' = IF live /\ escrowRow = "none" THEN "open" ELSE escrowRow

-----------------------------------------------------------------------------
(* A run                                                                   *)

\* The watermark, or what the row that changed last tells.
ResumePoint ==
    LET r == row["bet"] IN
    IF mark # 0 THEN mark
    ELSE IF r.claimed # 0 THEN r.claimed
    ELSE IF r.graded # 0 THEN r.graded
    ELSE r.created

\* "order oldest to newest": the list comes newest first and the sort by slot
\* keeps that order within a slot.
Before(i, j) == SlotOf(i) < SlotOf(j) \/ (SlotOf(i) = SlotOf(j) /\ i > j)
\* Fault: the list is not sorted.
SigsUnsorted(from) == [k \in 1..(Len(chain) - from) |-> Len(chain) + 1 - k]
SigsSince(from) ==
    CHOOSE sigs \in SetToSeqs((from + 1)..Len(chain)) :
        \A k, l \in DOMAIN sigs : k < l => Before(sigs[k], sigs[l])

\* setIndexerWatermark.
Advanced(i) == IF SlotOf(i) >= SlotOf(mark) THEN i ELSE mark

Rest(sigs) == IF sigs = <<>> THEN Off ELSE [stage |-> "fetch", from |-> 0, sigs |-> sigs]
Proceed(r) == run' = [run EXCEPT ![r] = Rest(Tail(run[r].sigs))]
AllOff == [r \in Runs |-> Off]
Mishap == mishaps < Mishaps /\ mishaps' = mishaps + 1

\* The rows of i are written: its watermark follows, unless the process stops.
Finish(r, i) ==
    /\ indexed' = indexed \cup {i}
    /\ \/ /\ mark' = Advanced(i) /\ Proceed(r) /\ UNCHANGED mishaps
       \/ /\ Mishap /\ run' = AllOff /\ UNCHANGED mark
    /\ UNCHANGED <<chainVars, missed, dropped>>

\* An exception is logged and the watermark follows all the same; or the process
\* stops there.
GiveUp(r, i) ==
    /\ Mishap
    /\ \/ mark' = Advanced(i) /\ Proceed(r) /\ dropped' = dropped \cup {i}
       \/ run' = AllOff /\ UNCHANGED <<mark, dropped>>
    /\ UNCHANGED <<chainVars, missed, indexed>>

Start(r) ==
    /\ sealed /\ run[r].stage = "off"
    /\ run' = [run EXCEPT ![r] = [stage |-> "list", from |-> ResumePoint, sigs |-> <<>>]]
    /\ UNCHANGED <<chainVars, row, escrowRow, mark, missed, dropped, indexed, mishaps>>

List(r) ==
    /\ sealed /\ run[r].stage = "list"
    /\ \/ /\ run' = [run EXCEPT ![r] = Rest(SigsSince(run[r].from))]
          /\ UNCHANGED mishaps
       \/ /\ Mishap /\ run' = [run EXCEPT ![r] = Off]
    /\ UNCHANGED <<chainVars, row, escrowRow, mark, missed, dropped, indexed>>

At(r, stage) == sealed /\ run[r].stage = stage
Sig(r) == Head(run[r].sigs)

\* "nothing to index, ever": the transaction failed, or the reply is empty.
TerminalMiss(r) ==
    /\ At(r, "fetch")
    /\ \/ ~chain[Sig(r)].ok /\ UNCHANGED <<dropped, mishaps>>
       \/ chain[Sig(r)].ok /\ Mishap /\ dropped' = dropped \cup {Sig(r)}
    /\ mark' = Advanced(Sig(r)) /\ Proceed(r)
    /\ UNCHANGED <<chainVars, row, escrowRow, missed, indexed>>

TransientMiss(r) ==
    /\ At(r, "fetch") /\ Mishap
    /\ missed' = missed \cup {Sig(r)} /\ Proceed(r)
    /\ UNCHANGED <<chainVars, row, escrowRow, mark, dropped, indexed>>

\* parseTxData throws outside the try of the loop: the run ends there.
Aborts(r) ==
    /\ At(r, "fetch") /\ Mishap
    /\ run' = [run EXCEPT ![r] = Off]
    /\ UNCHANGED <<chainVars, row, escrowRow, mark, missed, dropped, indexed>>

\* Fills and cashouts read the ticket's account first.
ReadsAccount(r) ==
    /\ At(r, "fetch") /\ chain[Sig(r)].kind \in {"fill", "cashout"}
    /\ run' = [run EXCEPT ![r].stage = "account"]
    /\ UNCHANGED <<chainVars, row, escrowRow, mark, missed, dropped, indexed, mishaps>>

IndexUpdate(r) ==
    LET i == Sig(r) tx == chain[i] IN
    /\ At(r, "fetch")
    /\ \/ tx.kind = "grade" /\ Result(tx.at, i) /\ UNCHANGED escrowRow
       \/ tx.kind = "settle" /\ Settled(tx.at, i) /\ UNCHANGED escrowRow
       \/ tx.kind = "claim" /\ Update("bet", CashedOut(i)) /\ EscrowBecomes("claimed")
       \/ tx.kind = "revert" /\ Reverted(i) /\ EscrowBecomes("reverted")
    /\ Finish(r, i)

\* The account as it is now, or, if it is gone or not to be had, what the
\* instruction says.
IndexAccount(r) ==
    LET i == Sig(r) tx == chain[i] IN
    /\ At(r, "account")
    /\ \E fresh \in BOOLEAN :
          /\ fresh => Unsettled(tx.at)
          /\ AddAccount(tx.at, i,
                        IF fresh THEN account[tx.at].amount ELSE tx.amount, fresh)
    /\ IF tx.kind = "fill" THEN Finish(r, i)
       ELSE /\ run' = [run EXCEPT ![r].stage = "escrow"]
            /\ UNCHANGED <<chainVars, mark, missed, dropped, indexed, mishaps>>
    /\ UNCHANGED escrowRow

\* An escrow that is live, and that could be read, tells a delayed cashout.
IndexCashout(r) ==
    LET i == Sig(r) IN
    /\ At(r, "escrow")
    /\ \E live \in BOOLEAN : EscrowSeen(live) /\ CashoutFill(i, live)
    /\ Finish(r, i)

\* An instruction that cannot be decoded, or an exception before a write of its
\* indexing: the writes before it stay.
IndexThrows(r) ==
    LET i == Sig(r) kind == chain[i].kind stage == run[r].stage IN
    /\ sealed /\ stage \in {"fetch", "account", "escrow"} /\ chain[i].ok
    /\ \/ UNCHANGED <<row, escrowRow>>
       \/ /\ stage = "fetch" /\ kind = "claim"
          /\ EscrowBecomes("claimed") /\ UNCHANGED row
       \/ /\ stage = "fetch" /\ kind = "revert" /\ EscrowBecomes("reverted")
          /\ UNCHANGED row \/ Write("cash", CashReverted(i))
       \/ /\ stage = "escrow" /\ UNCHANGED row
          /\ \E live \in BOOLEAN : EscrowSeen(live)
    /\ GiveUp(r, i)

Restart ==
    /\ Mishap /\ run # AllOff /\ run' = AllOff
    /\ UNCHANGED <<chainVars, row, escrowRow, mark, missed, dropped, indexed>>

Step(r) ==
    \/ Start(r) \/ List(r) \/ TerminalMiss(r) \/ TransientMiss(r) \/ Aborts(r)
    \/ ReadsAccount(r) \/ IndexUpdate(r) \/ IndexAccount(r) \/ IndexCashout(r)
    \/ IndexThrows(r)

-----------------------------------------------------------------------------
IndexerInit ==
    /\ chain = <<>> /\ sealed = TRUE
    /\ account = [t \in Accounts |-> [state |-> "new", amount |-> 0]] /\ held = FALSE
    /\ row = [t \in Accounts |-> NoRow] /\ escrowRow = "none"
    /\ mark = 0 /\ run = AllOff
    /\ missed = {} /\ dropped = {} /\ indexed = {} /\ mishaps = 0

IndexerNext == Happens \/ Restart \/ \E r \in Runs : Step(r)

IndexerSpec == IndexerInit /\ [][IndexerNext]_indexerVars

-----------------------------------------------------------------------------
Alone(i) == \A j \in DOMAIN chain : SlotOf(j) = SlotOf(i) => j = i

\* Crashes, overlapping runs, runs that end early: a transaction whose slot the
\* watermark has left behind was indexed, or what failed was its own: its fetch,
\* the reply to it, or its indexing. None is passed untried, nor because of what
\* became of another one. (Within a slot the list is processed newest first, so
\* a crash there may lose the older.)
NothingSkipped ==
    \A i \in DOMAIN chain :
        chain[i].ok /\ Alone(i) /\ SlotOf(i) < SlotOf(mark)
            => i \in indexed \cup missed \cup dropped

\* "graded/claimed records are never overwritten" (addBetAccount): whatever is
\* replayed, by whichever run, the amount of a row stays as it was when the row
\* left pending.
RowsFrozen ==
    \A t \in Accounts :
        row[t].status \notin {"none", "pending"} => row'[t].amount = row[t].amount
AmountsFreeze == [][RowsFrozen]_indexerVars

\* "leave the watermark so this sig is retried on the next run" (runIndexerInner):
\* the watermark does not pass a transaction that could not be fetched.
MissedIsRetried == \A i \in missed : chain[i].ok => i \in indexed \/ i > mark
=============================================================================
