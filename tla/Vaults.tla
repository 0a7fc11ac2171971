------------------------------- MODULE Vaults -------------------------------
(***************************************************************************)
(* Instructions of a market maker's admin on its own vault and book, and   *)
(* what happens around them: the config authority pausing the program, an  *)
(* MM's own program moving tokens and posting its event state.             *)
(***************************************************************************)
EXTENDS Custody

\* init_mm_mint_vault: the encumbrance PDA and its liability account.
InitMmMintVault(m) ==
    /\ ~vault[m].exists
    /\ vault' = [vault EXCEPT ![m] = [NoVault EXCEPT !.exists = TRUE]]
    /\ UNCHANGED <<book, wallet, user, positions, live, paused>>

\* Faults: closing without looking at the encumbrance; closing without paying
\* out what the liability account holds.
CloseMmMintVaultReserved(m) ==
    /\ vault[m].exists /\ vault[m].cashouts = 0
    /\ wallet' = [wallet EXCEPT ![m] = @ + vault[m].liability]
    /\ vault' = [vault EXCEPT ![m] = NoVault]
    /\ UNCHANGED <<book, user, positions, live, paused>>
CloseMmMintVaultUnpaid(m) ==
    /\ vault[m].exists
    /\ vault[m].enc = 0 /\ vault[m].cashouts = 0
    /\ vault' = [vault EXCEPT ![m] = NoVault]
    /\ UNCHANGED <<book, wallet, user, positions, live, paused>>

\* close_mm_mint_vault: only when nothing is reserved and no cashout ticket
\* is to be paid into the liability account; what it holds goes to the MM.
CloseMmMintVault(m) ==
    /\ vault[m].exists
    /\ vault[m].enc = 0 /\ vault[m].cashouts = 0
    /\ wallet' = [wallet EXCEPT ![m] = @ + vault[m].liability]
    /\ vault' = [vault EXCEPT ![m] = NoVault]
    /\ UNCHANGED <<book, user, positions, live, paused>>

\* withdraw_from_liability_account
Withdraw(m, amount) ==
    /\ ~paused
    /\ vault[m].exists
    /\ vault[m].enc <= vault[m].liability
    /\ amount <= vault[m].liability - vault[m].enc
    /\ vault' = [vault EXCEPT ![m].liability = @ - amount]
    /\ wallet' = [wallet EXCEPT ![m] = @ + amount]
    /\ UNCHANGED <<book, user, positions, live, paused>>

\* A plain token transfer into the liability account (README, Liability
\* account top-ups); also a refund of an auction deposit that did not succeed.
Deposit(m, amount) ==
    /\ vault[m].exists
    /\ amount \in 1..wallet[m]
    /\ vault' = [vault EXCEPT ![m].liability = @ + amount]
    /\ wallet' = [wallet EXCEPT ![m] = @ - amount]
    /\ UNCHANGED <<book, user, positions, live, paused>>

\* create_netting_account
CreateNettingAccount(m) ==
    /\ ~book[m].exists
    /\ book' = [book EXCEPT ![m] = [NoBook EXCEPT !.exists = TRUE]]
    /\ UNCHANGED <<vault, wallet, user, positions, live, paused>>

\* close_netting_account: refused while netting_has_open_profit.
CloseNettingAccount(m) ==
    /\ book[m].exists
    /\ book[m].open = FlatOpen
    /\ book' = [book EXCEPT ![m] = NoBook]
    /\ UNCHANGED <<vault, wallet, user, positions, live, paused>>

\* add_line_to_netting_account
AddLine(m, line) ==
    /\ book[m].exists
    /\ line \in Lines \ book[m].lines
    /\ Cardinality(book[m].lines) < MaxLines
    /\ book' = [book EXCEPT ![m].lines = @ \cup {line}]
    /\ UNCHANGED <<vault, wallet, user, positions, live, paused>>

\* remove_line_from_netting_account: the line itself must be flat.
RemoveLine(m, line) ==
    /\ book[m].exists
    /\ line \in book[m].lines
    /\ book[m].open[line][0] = 0 /\ book[m].open[line][1] = 0
    /\ book' = [book EXCEPT ![m].lines = @ \ {line}]
    /\ UNCHANGED <<vault, wallet, user, positions, live, paused>>

\* change_config_status
ChangeConfigStatus ==
    /\ paused' = ~paused
    /\ UNCHANGED <<money, positions, live>>

\* Each MM program keeps its own event state: those in ms post one whose
\* sequence has left pregame (sequences 0 and 1).
GoLive(ms) ==
    /\ \E m \in ms : ~live[m]
    /\ live' = [m \in MMs |-> live[m] \/ m \in ms]
    /\ UNCHANGED <<money, positions, paused>>
=============================================================================
