---------------------------- MODULE NettingLines ----------------------------
(***************************************************************************)
(* The netting PDA as it is stored: three header slots, and an array of    *)
(* lines kept sorted by (period, mkt) so that a line is found by binary    *)
(* search.  Lines are inserted and removed by shifting the tail.  Markets  *)
(* are numbered in key order; implements NettingBook.                      *)
(***************************************************************************)
EXTENDS Netting, Sequences, SequencesExt

CONSTANTS
    Profits,       \* profits of one slice
    CreateSlots,   \* NETTING_CREATE_LINE_CAPACITY: slots allocated at creation
    MaxOpen        \* bound: profit accumulated on one outcome

\* What the constants are assumed to be.
NettingLinesAssumption ==
    /\ Mkts \subseteq Nat /\ Profits \subseteq Nat
    /\ CreateSlots \in Nat /\ MaxOpen \in Nat

VARIABLES
    exists,    \* the PDA is owned by the program
    header,    \* header[mkt][side]: open_home, open_away, open_draw
    lines,     \* the first number_of_lines slots
    slots      \* line slots the account has room for

linesVars == <<exists, header, lines, slots>>

BlankHeader == [mkt \in Headers |-> [side \in Sides |-> 0]]

LinesInit ==
    /\ exists = FALSE /\ header = BlankHeader /\ lines = << >> /\ slots = 0

-----------------------------------------------------------------------------
(* find_netting_line_or_insertion: the loop narrows at..hi, counted from 0. *)

Round(key, s) ==
    LET mid == s.at + ((s.hi - s.at) \div 2)
        here == lines[mid + 1].key
    IN  IF s.found \/ s.at >= s.hi THEN s
        ELSE IF here < key THEN [s EXCEPT !.at = mid + 1]
        ELSE IF here > key THEN [s EXCEPT !.hi = mid]
        ELSE [found |-> TRUE, at |-> mid, hi |-> mid]

\* The loop halves what is left: no more rounds than lines.
Search(key) ==
    LET after[k \in 0..Len(lines)] ==
            IF k = 0 THEN [found |-> FALSE, at |-> 0, hi |-> Len(lines)]
            ELSE Round(key, after[k - 1])
    IN  after[Len(lines)]

\* ensure_netting_space_for_market / _for_extra_line: room for one more line.
Grown == GreaterOf(slots, Len(lines) + 1)

Shown(line) == [open_0 |-> line.open_0, open_1 |-> line.open_1]

-----------------------------------------------------------------------------
CreateAccount ==
    /\ ~exists
    /\ exists' = TRUE /\ slots' = CreateSlots
    /\ UNCHANGED <<header, lines>>

\* netting_has_open_profit is false.
CloseAccount ==
    /\ exists
    /\ header = BlankHeader
    /\ \A i \in DOMAIN lines : Shown(lines[i]) = [open_0 |-> 0, open_1 |-> 0]
    /\ exists' = FALSE /\ lines' = << >> /\ slots' = 0
    /\ UNCHANGED header

\* add_netting_line, after the account was grown for it.
AddNettingLine(key) ==
    LET place == Search(key) IN
    /\ exists
    /\ ~place.found
    /\ Len(lines) < MaxLines
    /\ lines' = InsertAt(lines, place.at + 1, [key |-> key, open_0 |-> 0, open_1 |-> 0])
    /\ slots' = Grown
    /\ UNCHANGED <<exists, header>>

\* Fault: a line that owes profit is removed.
RemoveNettingLineOpen(key) ==
    LET place == Search(key) IN
    /\ exists
    /\ place.found
    /\ lines' = RemoveAt(lines, place.at + 1)
    /\ UNCHANGED <<exists, header, slots>>

\* remove_netting_line: the tail moves down, the freed slot is kept.
RemoveNettingLine(key) ==
    LET place == Search(key) IN
    /\ exists
    /\ place.found
    /\ Shown(lines[place.at + 1]) = [open_0 |-> 0, open_1 |-> 0]
    /\ lines' = RemoveAt(lines, place.at + 1)
    /\ UNCHANGED <<exists, header, slots>>

\* A slice of a header market moves one header slot.
MoveHeader(mkt, side, profit) ==
    /\ exists
    /\ header[mkt][side] + profit \in 0..MaxOpen
    /\ header' = [header EXCEPT ![mkt][side] = @ + profit]
    /\ UNCHANGED <<exists, lines, slots>>

\* A line with profit added to one of its two outcomes.
Moved(line, side, profit) ==
    IF side = 0 THEN [line EXCEPT !.open_0 = @ + profit]
                ELSE [line EXCEPT !.open_1 = @ + profit]

\* NettingWrite::ExistingLine, and the line part of apply_settle_netting.
MoveLine(key, side, profit) ==
    LET at == Search(key).at + 1 IN
    /\ exists
    /\ Search(key).found
    /\ (IF side = 0 THEN lines[at].open_0 ELSE lines[at].open_1) + profit \in 0..MaxOpen
    /\ lines' = [lines EXCEPT ![at] = Moved(@, side, profit)]
    /\ UNCHANGED <<exists, header, slots>>

\* NettingWrite::NewLine: the line is inserted blank and written.
OpenLine(key, side, profit) ==
    LET place == Search(key) IN
    /\ exists
    /\ ~place.found
    /\ Len(lines) < MaxLines
    /\ lines' = InsertAt(lines, place.at + 1,
                    Moved([key |-> key, open_0 |-> 0, open_1 |-> 0], side, profit))
    /\ slots' = Grown
    /\ UNCHANGED <<exists, header>>

LinesNext ==
    \/ CreateAccount \/ CloseAccount
    \/ \E key \in Lines : AddNettingLine(key) \/ RemoveNettingLine(key)
    \/ \E mkt \in Headers, side \in 0..2, profit \in Profits :
           MoveHeader(mkt, side, profit) \/ MoveHeader(mkt, side, -profit)
    \/ \E key \in Lines, side \in 0..1, profit \in Profits :
           \/ OpenLine(key, side, profit)
           \/ MoveLine(key, side, profit)
           \/ MoveLine(key, side, -profit)

LinesSpec == LinesInit /\ [][LinesNext]_linesVars

-----------------------------------------------------------------------------
(* Properties *)

\* The book the array stands for.
LineOf(key) == CHOOSE i \in DOMAIN lines : lines[i].key = key
MarketKeys == {lines[i].key : i \in DOMAIN lines}
LineOpen(key, side) ==
    IF key \notin MarketKeys \/ side = 2 THEN 0
    ELSE IF side = 0 THEN lines[LineOf(key)].open_0 ELSE lines[LineOf(key)].open_1

BookShown ==
    [exists |-> exists, lines |-> MarketKeys,
     open |-> [mkt \in Mkts |-> [side \in Sides |->
         IF mkt \in Headers THEN header[mkt][side]
         ELSE IF mkt \in Lines THEN LineOpen(mkt, side) ELSE 0]]]

Abstract == INSTANCE NettingBook WITH bk <- BookShown

\* Shifting lines about never moves profit from one market to another: the
\* array implements the book (calculate_netting, apply_netting,
\* apply_settle_netting, add, remove and close).
ImplementsBook == Abstract!BookSpec
=============================================================================
