------------------------------- MODULE Splits -------------------------------
(***************************************************************************)
(* How split_fillers divides a ticket between what is cashed out and what  *)
(* remains, as closed formulas.  SplitFillers models the loops of the code *)
(* and shows that they compute these.                                      *)
(***************************************************************************)
EXTENDS Odds, Totals, Sequences, SequencesExt

\* BetFiller: what one MM owes and holds on a ticket.
Slice == [amount: Nat, reserved: Nat, odds: {p \in Nat : p >= Scale},
          netted: BOOLEAN]
NoSlice == [amount |-> 0, reserved |-> 0, odds |-> Scale, netted |-> FALSE]

\* The amounts cashed from the stakes of an n-filler ticket before the last
\* slot is capped: floors, and the remainder on the last slot.
FloorShares(stakes, total, cashed) ==
    LET n == Len(stakes)
        share(i) == (stakes[i] * cashed) \div total
    IN  [i \in 1..n |->
            IF i < n THEN share(i)
            ELSE cashed - Total([j \in 1..(n - 1) |-> share(j)])]

\* What exceeds the last stake is walked backward over the unused capacity of
\* the slots before it.
CashedShares(stakes, total, cashed) ==
    LET n == Len(stakes)
        share == FloorShares(stakes, total, cashed)
        excess == GreaterOf(0, share[n] - stakes[n])
        unused(i) == stakes[i] - share[i]
        later(i) == Total([j \in (i + 1)..(n - 1) |-> unused(j)])
    IN  [i \in 1..n |->
            IF i = n THEN share[n] - excess
            ELSE share[i] + LesserOf(unused(i), GreaterOf(0, excess - later(i)))]

CashedSlice(s, cashed) ==
    [s EXCEPT !.amount = cashed,
              !.reserved = CashedReserve(s.reserved, cashed, s.amount - cashed, s.odds)]

\* Faults: the stake, or the reservation, is copied and not split.
RemainingSliceSameStake(s, cashed) ==
    [s EXCEPT !.reserved = s.reserved - CashedSlice(s, cashed).reserved]
RemainingSliceSameReserve(s, cashed) ==
    [s EXCEPT !.amount = s.amount - cashed]

RemainingSlice(s, cashed) ==
    [s EXCEPT !.amount = s.amount - cashed,
              !.reserved = s.reserved - CashedSlice(s, cashed).reserved]
=============================================================================
