---------------------------- MODULE SplitFillers ----------------------------
(***************************************************************************)
(* split_fillers as it runs: a pass of floor shares with the remainder on  *)
(* the last slot, a backward walk over the earlier slots when that slot    *)
(* overflows, and a pass that splits every slot's stake and reservation.   *)
(* Cashouts uses the closed formulas of Splits in its place.               *)
(***************************************************************************)
EXTENDS Splits

CONSTANTS
    Fillers,      \* numbers of slots tried, at most MAX_NUMBER_OF_MMS
    MaxSlotStake, \* stakes of a slot: 0 once it was cashed out in full
    SlotOdds,     \* prices of a slot
    Spare         \* reservation above the profit, left by earlier floors

\* What the constants are assumed to be.
SplitFillersAssumption ==
    /\ Fillers \subseteq Nat \ {0} /\ MaxSlotStake \in Nat
    /\ SlotOdds \subseteq {p \in Nat : p >= Scale} /\ Spare \subseteq Nat

VARIABLES
    orig,         \* the slots of the ticket
    cash,         \* cashout_amount
    pc,           \* where the function is
    idx,          \* the loop index, 1-based
    cashed_amt,   \* stake cashed per slot, so far
    overflow,     \* what the last slot could not take
    cashed,       \* the cashed slots written so far
    remaining     \* the remaining slots written so far

splitVars == <<orig, cash, pc, idx, cashed_amt, overflow, cashed, remaining>>

num == Len(orig)
orig_amount == Total([j \in DOMAIN orig |-> orig[j].amount])

\* The slots a ticket can have: each reservation covers its profit, and an
\* empty slot reserves nothing.
SlotWith(amount, odds, extra) ==
    [amount |-> amount, odds |-> odds, netted |-> FALSE,
     reserved |-> IF amount = 0 THEN 0 ELSE Profit(amount, odds) + extra]
Slots == {SlotWith(amount, odds, extra) :
             amount \in 0..MaxSlotStake, odds \in SlotOdds, extra \in Spare}

SplitInit ==
    /\ \E n \in Fillers : orig \in [1..n -> Slots]
    /\ cash \in 1..orig_amount
    /\ pc = "assign" /\ idx = 1
    /\ cashed_amt = << >> /\ overflow = 0
    /\ cashed = << >> /\ remaining = << >>

-----------------------------------------------------------------------------
\* Fault: what the earlier slots took is not taken off the last one's share.
AssignWhole ==
    /\ pc = "assign" /\ idx <= num
    /\ cashed_amt' = Append(cashed_amt,
           IF idx = num THEN cash ELSE (orig[idx].amount * cash) \div orig_amount)
    /\ idx' = idx + 1
    /\ UNCHANGED <<orig, cash, pc, overflow, cashed, remaining>>

\* The first loop: floors, then the remainder on the last slot.
Assign ==
    /\ pc = "assign" /\ idx <= num
    /\ cashed_amt' = Append(cashed_amt,
           IF idx = num THEN cash - Total(cashed_amt)
           ELSE (orig[idx].amount * cash) \div orig_amount)
    /\ idx' = idx + 1
    /\ UNCHANGED <<orig, cash, pc, overflow, cashed, remaining>>

\* The last slot is capped at its stake.
Cap ==
    /\ pc = "assign" /\ idx > num
    /\ overflow' = GreaterOf(0, cashed_amt[num] - orig[num].amount)
    /\ cashed_amt' = [cashed_amt EXCEPT ![num] = LesserOf(@, orig[num].amount)]
    /\ pc' = "walk" /\ idx' = num
    /\ UNCHANGED <<orig, cash, cashed, remaining>>

\* while overflow > 0: the slot before takes what it can; "cannot
\* redistribute last-slot remainder" when there is none.
Walk ==
    /\ pc = "walk" /\ overflow > 0
    /\ IF idx = 1 THEN pc' = "failed" /\ UNCHANGED <<idx, cashed_amt, overflow>>
       ELSE LET take == LesserOf(overflow, orig[idx - 1].amount - cashed_amt[idx - 1])
            IN  /\ cashed_amt' = [cashed_amt EXCEPT ![idx - 1] = @ + take]
                /\ overflow' = overflow - take
                /\ idx' = idx - 1
                /\ UNCHANGED pc
    /\ UNCHANGED <<orig, cash, cashed, remaining>>

WalkEnds ==
    /\ pc = "walk" /\ overflow = 0
    /\ pc' = "split" /\ idx' = 1
    /\ UNCHANGED <<orig, cash, cashed_amt, overflow, cashed, remaining>>

\* The last loop: both sides of slot idx, with split_reserved_profit; refused
\* if the "cashed slice exceeds filler stake".
SplitSlot ==
    /\ pc = "split" /\ idx <= num
    /\ IF cashed_amt[idx] > orig[idx].amount
       THEN pc' = "failed" /\ UNCHANGED <<idx, cashed, remaining>>
       ELSE /\ cashed' = Append(cashed, CashedSlice(orig[idx], cashed_amt[idx]))
            /\ remaining' = Append(remaining, RemainingSlice(orig[idx], cashed_amt[idx]))
            /\ idx' = idx + 1
            /\ UNCHANGED pc
    /\ UNCHANGED <<orig, cash, cashed_amt, overflow>>

\* The sums are compared before the split is returned.
Return ==
    /\ pc = "split" /\ idx > num
    /\ LET left == Total([j \in 1..num |-> remaining[j].amount])
       IN  pc' = IF left = orig_amount - cash THEN "done" ELSE "failed"
    /\ UNCHANGED <<orig, cash, idx, cashed_amt, overflow, cashed, remaining>>

SplitNext == Assign \/ Cap \/ Walk \/ WalkEnds \/ SplitSlot \/ Return

\* One call.
SplitSpec == SplitInit /\ [][SplitNext]_splitVars

-----------------------------------------------------------------------------
(* Properties *)

\* The loops compute the closed formula that Cashouts uses, and never refuse the
\* cashout of a well-formed ticket: the earlier slots always have room for what
\* the last one cannot take.
ComputesShares ==
    /\ pc # "failed"
    /\ pc = "done" =>
          cashed_amt = CashedShares([j \in 1..num |-> orig[j].amount], orig_amount, cash)

=============================================================================
