------------------------------ MODULE Custody ------------------------------
(***************************************************************************)
(* The accounts of the aggregator program that single bets move money      *)
(* between, for one mint, one operator and one event:                      *)
(*   - per market maker, the mint vault: the encumbrance PDA and the       *)
(*     liability token account it owns, the netting PDA (the book of open  *)
(*     profit on each market of the event), and the MM's own token account;*)
(*   - per ticket, the bet or cashout PDA with its filler slices and the   *)
(*     stake token account it owns;                                        *)
(*   - per bet id, the cashout escrow PDA with its token account;          *)
(*   - the users' token accounts, pooled into one balance.                 *)
(* A Solana transaction is atomic, so every instruction is one action.     *)
(* The instructions are in Vaults, Fills, Settlement and Cashouts; Singles *)
(* composes them.                                                          *)
(***************************************************************************)
EXTENDS Netting, Splits

CONSTANTS
    MMs,          \* registered market maker programs
    Bets,         \* (owner, bet_id) keys a user may open
    Cashouts,     \* (mm, cashout_id) keys a cashout ticket may use
    MMFunds,      \* tokens an MM's program starts with
    UserFunds,    \* tokens the users start with
    None          \* "no such account"

Tickets == Bets \cup Cashouts

ASSUME CustodyAssumption ==
    /\ IsFiniteSet(MMs) /\ IsFiniteSet(Bets) /\ IsFiniteSet(Cashouts)
    /\ Bets \cap Cashouts = {}
    /\ MMFunds \in Nat /\ UserFunds \in Nat
    /\ None \notin MMs \cup Tickets \cup Mkts

VARIABLES
    vault,     \* vault[m]: the mint vault of m
    book,      \* book[m]: the netting PDA of m
    wallet,    \* wallet[m]: the token account of m's program
    user,      \* the users' token accounts
    ticket,    \* ticket[k]: the bet or cashout PDA at key k
    stake,     \* stake[k]: the token account owned by ticket k
    escrow,    \* escrow[b]: the cashout escrow PDA of bet id b
    live,      \* live[m]: m's event state has left pregame (sequence >= 2)
    paused     \* config status

money == <<vault, book, wallet, user>>
positions == <<ticket, stake, escrow>>
vars == <<vault, book, wallet, user, ticket, stake, escrow, live, paused>>

-----------------------------------------------------------------------------
(* Accounts *)

VoidResults == {"Push", "Cancelled", "RolledBack"}
GradeResults == {"Won", "Lost", "HalfWon", "HalfLost"} \cup VoidResults
Results == {"Absent", "Pending", "CashedOut"} \cup GradeResults

Vault == [exists: BOOLEAN, liability: Nat, enc: Nat, cashouts: Nat]
NoVault == [exists |-> FALSE, liability |-> 0, enc |-> 0, cashouts |-> 0]

\* fillers is the on-chain order of the slices; slices[m] is NoSlice for an
\* MM that is not in it.  key is the bet id the escrow PDA is derived from,
\* by the MM that bought a cashout ticket.
Ticket == [result: Results, mkt: Mkts \cup {None}, side: Sides, live: BOOLEAN,
           amount: Nat, payout: Nat, fillers: Seq(MMs), slices: [MMs -> Slice],
           key: Bets \cup {None}, by: MMs \cup {None}]
NoTicket == [result |-> "Absent", mkt |-> None, side |-> 0, live |-> FALSE,
             amount |-> 0, payout |-> 0, fillers |-> << >>,
             slices |-> [m \in MMs |-> NoSlice], key |-> None, by |-> None]

\* age counts clock ticks since the cashout, up to the delay.
Escrow == [cash: Cashouts \cup {None}, mm: MMs \cup {None}, amount: Nat,
           removed: Nat, payment: Nat, age: Nat]
NoEscrow == [cash |-> None, mm |-> None, amount |-> 0, removed |-> 0,
             payment |-> 0, age |-> 0]

TypeOK ==
    /\ vault \in [MMs -> Vault]
    /\ book \in [MMs -> Book]
    /\ wallet \in [MMs -> Nat]
    /\ user \in Nat
    /\ ticket \in [Tickets -> Ticket]
    /\ stake \in [Tickets -> Nat]
    /\ escrow \in [Bets -> Escrow]
    /\ live \in [MMs -> BOOLEAN]
    /\ paused \in BOOLEAN

Exists(k) == ticket[k].result # "Absent"
EscrowLive(b) == escrow[b].cash # None

============================================================================
