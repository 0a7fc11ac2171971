--------------------------- MODULE BackendProofs ---------------------------
(***************************************************************************)
(* The services off the chain, for any number of markets, market makers,   *)
(* sockets, requests, transactions and runs, and any number of faults: the *)
(* publishing backend never loses the row of an event that has accounts on *)
(* chain, the hub never routes a request to a socket that was reported     *)
(* closed, and the indexer leaves no transaction behind its watermark and  *)
(* no amount changed after grading.                                        *)
(***************************************************************************)
EXTENDS Publisher, RfqHub, Indexer, FiniteSetTheorems, TLAPS

-----------------------------------------------------------------------------
(* The publishing backend *)

\* The stages in which an event is worked on that is in the list.
Working == {"loading", "creating", "marking", "sending", "verifying"}

\* The row is there while its event is worked on, and while a transaction given
\* up on may still create an account: it is deleted in a stage in which none can.
PublisherInv ==
    /\ RowsCoverAccounts
    /\ pc \in Working => dbRow.tracked
    /\ \A m \in Markets : late[m] # {} => dbRow.tracked /\ pc \in {"idle", "verifying"}

\* A row is made of four fields.
Row == [tracked: BOOLEAN, due: BOOLEAN, state: BOOLEAN, markets: SUBSET Markets]
Account == [open: BOOLEAN, odds: Odds, fresh: BOOLEAN]

\* Nothing of the event is on chain exactly when each of its accounts is absent.
LEMMA NothingPresent ==
    Present = {} <=> event = FALSE /\ netting = "absent" /\ \A m \in Markets : ~market[m].open
BY DEF Present, Open

\* Nothing is there at the start.
LEMMA InitTrue ==
    ASSUME PublisherAssumption, PublisherInit
    PROVE  PublisherInv
<1>1. Closed \in Account /\ NoDbRow \in Row /\ Closed.open = FALSE
    BY DEF PublisherAssumption, Closed, NoDbRow, Account, Row
<1>2. PublisherTypeOK
  <2>1. 0 \in 0..Faults /\ 0 \in 0..Moves
      BY DEF PublisherAssumption
  <2>. QED
      BY <1>1, <2>1 DEF PublisherInit, PublisherTypeOK, Stages, Account, Row
<1>3. Present = {}
    BY <1>1, NothingPresent DEF PublisherInit
<1>. QED
    BY <1>2, <1>3 DEF PublisherInit, PublisherInv, RowsCoverAccounts, Working

\* Accounts after an instruction group are accounts.
LEMMA GroupType ==
    ASSUME PublisherAssumption, NEW g \in Group, NEW k \in Account
    PROVE  AfterInit(g, k) \in Account /\ AfterGroup(g, k) \in Account
BY DEF PublisherAssumption, Group, Account, AfterInit, AfterGroup, Blank

\* A row with other flags, and one that is deleted, are rows.
LEMMA RowType ==
    ASSUME NEW r \in Row
    PROVE  /\ NoDbRow \in Row
           /\ ResetFlags(r) \in Row /\ ResetFlags(r).tracked = r.tracked
           /\ \A d \in BOOLEAN, x \in BOOLEAN, s \in SUBSET Markets :
                /\ [r EXCEPT !.due = d] \in Row
                /\ [r EXCEPT !.due = d].tracked = r.tracked
                /\ [r EXCEPT !.state = x] \in Row
                /\ [r EXCEPT !.state = x].tracked = r.tracked
                /\ [r EXCEPT !.markets = s] \in Row
                /\ [r EXCEPT !.markets = s].tracked = r.tracked
           /\ [r EXCEPT !.tracked = TRUE, !.due = FALSE] \in Row
           /\ [r EXCEPT !.tracked = TRUE, !.due = FALSE].tracked = TRUE
BY DEF Row, NoDbRow, ResetFlags

\* A fault that is spent is counted, and never beyond the bound.
LEMMA SpendType ==
    ASSUME PublisherAssumption, faults \in 0..Faults, NEW b \in BOOLEAN, Spend(b)
    PROVE  faults' \in 0..Faults
BY DEF PublisherAssumption, Spend

\* The invariant, variable by variable.
LEMMA Kept ==
    ASSUME PublisherInv
    PROVE  /\ event \in BOOLEAN /\ market \in [Markets -> Account]
           /\ netting \in {"absent", "flat", "owing"}
           /\ feed \in [Markets -> Odds \cup {NoOdds}] /\ started \in BOOLEAN
           /\ dbRow \in Row /\ pc \in Stages /\ seen \subseteq Markets \cup {"event", "netting"}
           /\ late \in [Markets -> SUBSET Group] /\ script \in BOOLEAN
           /\ faults \in 0..Faults /\ moves \in 0..Moves
           /\ Present # {} => dbRow.tracked
           /\ pc \in Working => dbRow.tracked
           /\ \A m \in Markets : late[m] # {} => dbRow.tracked /\ pc \in {"idle", "verifying"}
BY DEF PublisherInv, RowsCoverAccounts, PublisherTypeOK, Account, Row

\* What the next state must be for the invariant to be kept.
LEMMA Keep ==
    ASSUME event' \in BOOLEAN /\ market' \in [Markets -> Account],
           netting' \in {"absent", "flat", "owing"},
           feed' \in [Markets -> Odds \cup {NoOdds}] /\ started' \in BOOLEAN,
           dbRow' \in Row /\ pc' \in Stages /\ seen' \subseteq Markets \cup {"event", "netting"},
           late' \in [Markets -> SUBSET Group] /\ script' \in BOOLEAN,
           faults' \in 0..Faults /\ moves' \in 0..Moves,
           Present' # {} => dbRow'.tracked,
           pc' \in Working => dbRow'.tracked,
           \A m \in Markets : late'[m] # {} => dbRow'.tracked /\ pc' \in {"idle", "verifying"}
    PROVE  PublisherInv'
BY DEF PublisherInv, RowsCoverAccounts, PublisherTypeOK, Account, Row

\* Steps that close accounts, or write to those that are open, add nothing.
LEMMA NothingNew ==
    ASSUME PublisherInv, event' \in BOOLEAN, event' => event,
           netting' = "absent" \/ netting # "absent",
           \A m \in Markets : market'[m].open => market[m].open
    PROVE  Present' # {} => Present # {}
BY DEF Present, Open

\* A row that stays tracked covers whatever is created.
LEMMA Untouched ==
    ASSUME UNCHANGED onChain
    PROVE  Present' = Present
BY DEF onChain, Present, Open

-----------------------------------------------------------------------------
(* What happens around the backend *)

\* Odds, the start time and bets: only a bet's first fill adds an account, for
\* an event whose row is there.
LEMMA WorldKeeps ==
    ASSUME PublisherAssumption, PublisherInv,
           FeedMoves \/ Kickoff \/ Postpone \/ CreateNetting \/ TakeBet \/ SettleBets
    PROVE  PublisherInv'
<1>1. CASE FeedMoves
  <2>1. PICK m \in Markets, o \in Odds \cup {NoOdds} : feed' = [feed EXCEPT ![m] = o]
      BY <1>1 DEF FeedMoves
  <2>2. feed' \in [Markets -> Odds \cup {NoOdds}] /\ moves' \in 0..Moves
      BY <1>1, <2>1, Kept DEF FeedMoves, PublisherAssumption
  <2>3. Present' = Present
      BY <1>1, Untouched DEF FeedMoves, onChain
  <2>. QED
      BY <1>1, <2>2, <2>3, Kept, Keep DEF FeedMoves
<1>2. CASE Kickoff
  <2>1. dbRow' = [dbRow EXCEPT !.due = dbRow.tracked] /\ dbRow.tracked \in BOOLEAN
      BY <1>2, Kept DEF Kickoff, Row
  <2>2. dbRow' \in Row /\ dbRow'.tracked = dbRow.tracked
    <3>1. dbRow \in Row
        BY Kept
    <3>2. \A d \in BOOLEAN : /\ [dbRow EXCEPT !.due = d] \in Row
                            /\ [dbRow EXCEPT !.due = d].tracked = dbRow.tracked
        BY <3>1, RowType
    <3>. QED
        BY <2>1, <3>2
  <2>3. Present' = Present
      BY <1>2, Untouched DEF Kickoff, onChain
  <2>. QED
      BY <1>2, <2>2, <2>3, Kept, Keep DEF Kickoff
<1>3. CASE Postpone
  <2>1. Present' = Present
      BY <1>3, Untouched DEF Postpone, onChain
  <2>2. moves' \in 0..Moves
      BY <1>3, Kept DEF Postpone, PublisherAssumption
  <2>. QED
      BY <1>3, <2>1, <2>2, Kept, Keep DEF Postpone
<1>4. CASE CreateNetting
    BY <1>4, Kept, Keep DEF CreateNetting
<1>5. CASE TakeBet \/ SettleBets
  <2>1. /\ netting # "absent" /\ netting' \in {"flat", "owing"}
        /\ UNCHANGED <<event, market, feed, started, moves, dbRow, pc, seen, late, script, faults>>
      BY <1>5 DEF TakeBet, SettleBets
  <2>2. Present # {}
      BY <2>1, NothingPresent
  <2>. QED
      BY <2>1, <2>2, Kept, Keep
<1>. QED
    BY <1>1, <1>2, <1>3, <1>4, <1>5

\* A late group may create an account, but only while the row is there.
LEMMA LateKeeps ==
    ASSUME PublisherAssumption, PublisherInv, NEW m \in Markets, LandLate(m)
    PROVE  PublisherInv'
<1>1. PICK g \in late[m] :
          /\ market' = [market EXCEPT ![m] =
                 IF GroupWorks(g, @) THEN AfterGroup(g, @) ELSE @]
          /\ late' = [late EXCEPT ![m] = @ \ {g}]
    BY DEF LandLate
<1>2. dbRow.tracked /\ g \in Group /\ pc \in {"idle", "verifying"}
    BY Kept
<1>3. AfterGroup(g, market[m]) \in Account
    BY <1>2, Kept, GroupType
<1>4. market' \in [Markets -> Account] /\ late' \in [Markets -> SUBSET Group]
    BY <1>1, <1>3, Kept
<1>. QED
    BY <1>2, <1>4, Kept, Keep DEF LandLate

\* Crashes and the operator's script: accounts are closed, flags are reset, the
\* row stays.
LEMMA OperatorKeeps ==
    ASSUME PublisherAssumption, PublisherInv, Crash \/ ScriptCloses \/ ScriptResets
    PROVE  PublisherInv'
<1>1. CASE Crash
  <2>1. Present' = Present
      BY <1>1, Untouched DEF Crash, onChain
  <2>2. faults' \in 0..Faults
      BY <1>1, Kept, SpendType DEF Crash
  <2>3. pc' \in Stages /\ pc' \notin Working /\ pc' \in {"idle", "verifying"} /\ seen' = {}
      BY <1>1 DEF Crash, Stages, Working
  <2>. QED
      BY <1>1, <2>1, <2>2, <2>3, Kept, Keep DEF Crash
<1>2. CASE ScriptCloses
  <2>1. PICK closed \in SUBSET (Present \ {"netting"}) :
            /\ event' = (event /\ "event" \notin closed)
            /\ market' = [n \in Markets |-> IF n \in closed THEN Closed ELSE market[n]]
      BY <1>2 DEF ScriptCloses
  <2>2. Closed \in Account /\ Closed.open = FALSE
      BY DEF PublisherAssumption, Closed, Account
  <2>3. event' \in BOOLEAN /\ market' \in [Markets -> Account]
      BY <2>1, <2>2, Kept
  <2>4. Present' # {} => Present # {}
      BY <1>2, <2>1, <2>2, <2>3, Kept, NothingNew DEF ScriptCloses
  <2>5. faults' \in 0..Faults
      BY <1>2, Kept, SpendType DEF ScriptCloses
  <2>. QED
      BY <1>2, <2>3, <2>4, <2>5, Kept, Keep DEF ScriptCloses
<1>3. CASE ScriptResets
  <2>1. dbRow' \in Row /\ dbRow'.tracked = dbRow.tracked
      BY <1>3, Kept, RowType DEF ScriptResets
  <2>2. Present' = Present
      BY <1>3, Untouched DEF ScriptResets, onChain
  <2>. QED
      BY <1>3, <2>1, <2>2, Kept, Keep DEF ScriptResets
<1>. QED
    BY <1>1, <1>2, <1>3

-----------------------------------------------------------------------------
(* The cycle *)

\* A new cycle: what was given up on has landed by now or never will.
LEMMA BeginKeeps ==
    ASSUME PublisherAssumption, PublisherInv, Begin
    PROVE  PublisherInv'
<1>1. /\ market' = [m \in Markets |-> [market[m] EXCEPT !.fresh = FALSE]]
      /\ late' = [m \in Markets |-> {}] /\ seen' = {}
      /\ pc' = IF dbRow.tracked /\ dbRow.due THEN "reading" ELSE "tracking"
    BY DEF Begin
<1>2. \A m \in Markets : market'[m] \in Account /\ market'[m].open = market[m].open
  <2>1. \A k \in Account : /\ [k EXCEPT !.fresh = FALSE] \in Account
                           /\ [k EXCEPT !.fresh = FALSE].open = k.open
      BY DEF Account
  <2>. QED
      BY <1>1, <2>1, Kept
<1>3. market' \in [Markets -> Account] /\ late' \in [Markets -> SUBSET Group]
    BY <1>1, <1>2
<1>4. Present' # {} => Present # {}
    BY <1>2, Kept, NothingNew DEF Begin
<1>5. pc' \in Stages /\ pc' \notin Working
    BY <1>1 DEF Stages, Working
<1>. QED
    BY <1>1, <1>3, <1>4, <1>5, Kept, Keep DEF Begin

\* The row goes when the read finds nothing; else it stays.
LEMMA ReadKeeps ==
    ASSUME PublisherAssumption, PublisherInv, ReadForClosing
    PROVE  PublisherInv'
<1>1. Present' = Present
    BY Untouched DEF ReadForClosing, onChain
<1>2. \A m \in Markets : late'[m] = {}
    BY Kept DEF ReadForClosing
<1>3. faults' \in 0..Faults
    BY Kept, SpendType DEF ReadForClosing
<1>4. pc' \in Stages /\ pc' \notin Working
    BY DEF ReadForClosing, Stages, Working
<1>5. dbRow' \in Row /\ (Present # {} => dbRow'.tracked)
    BY Kept, RowType DEF ReadForClosing
<1>6. seen' \subseteq Markets \cup {"event", "netting"}
    BY Kept DEF ReadForClosing, Present, Open
<1>. QED
    BY <1>1, <1>2, <1>3, <1>4, <1>5, <1>6, Kept, Keep DEF ReadForClosing

\* Closes that land, all or some, leave the row.
LEMMA ClosesKeep ==
    ASSUME PublisherAssumption, PublisherInv, SendCloses \/ CloseNetting
    PROVE  PublisherInv'
<1>1. CASE SendCloses
  <2>1. PICK landed \in SUBSET (Closes \cap Present), failed \in BOOLEAN :
            /\ event' = (event /\ "event" \notin landed)
            /\ market' = [m \in Markets |-> IF m \in landed THEN Closed ELSE market[m]]
            /\ pc' = IF failed THEN "tracking" ELSE "closingNetting"
            /\ Spend(failed /\ Closes \subseteq Present)
      BY <1>1 DEF SendCloses
  <2>2. Closed \in Account /\ Closed.open = FALSE
      BY DEF PublisherAssumption, Closed, Account
  <2>3. event' \in BOOLEAN /\ market' \in [Markets -> Account]
      BY <2>1, <2>2, Kept
  <2>4. Present' # {} => Present # {}
      BY <1>1, <2>1, <2>2, <2>3, Kept, NothingNew DEF SendCloses
  <2>5. faults' \in 0..Faults
      BY <2>1, Kept, SpendType
  <2>6. pc' \in Stages /\ pc' \notin Working
      BY <2>1 DEF Stages, Working
  <2>7. \A m \in Markets : late[m] = {}
      BY <1>1, Kept DEF SendCloses
  <2>. QED
      BY <1>1, <2>3, <2>4, <2>5, <2>6, <2>7, Kept, Keep DEF SendCloses
<1>2. CASE CloseNetting
  <2>1. netting' \in {"absent", "flat", "owing"} /\ (netting' = "absent" \/ netting # "absent")
      BY <1>2, Kept DEF CloseNetting
  <2>2. Present' # {} => Present # {}
      BY <1>2, <2>1, Kept, NothingNew DEF CloseNetting
  <2>3. faults' \in 0..Faults
      BY <1>2, Kept, SpendType DEF CloseNetting
  <2>4. pc' \in Stages /\ pc' \notin Working
      BY <1>2 DEF CloseNetting, Stages, Working
  <2>5. \A m \in Markets : late[m] = {}
      BY <1>2, Kept DEF CloseNetting
  <2>. QED
      BY <1>2, <2>1, <2>2, <2>3, <2>4, <2>5, Kept, Keep DEF CloseNetting
<1>. QED
    BY <1>1, <1>2

\* The row goes when nothing is left, and comes back with the event.
LEMMA CheckKeeps ==
    ASSUME PublisherAssumption, PublisherInv, CheckClosed \/ Track
    PROVE  PublisherInv'
<1>1. Present' = Present
    BY Untouched DEF CheckClosed, Track, onChain
<1>2. \A m \in Markets : late[m] = {}
    BY Kept DEF CheckClosed, Track
<1>3. CASE CheckClosed
  <2>1. dbRow' \in {NoDbRow, dbRow} /\ (Present # {} => dbRow' = dbRow)
      BY <1>3 DEF CheckClosed
  <2>2. dbRow' \in Row /\ (Present # {} => dbRow'.tracked)
      BY <2>1, Kept, RowType
  <2>3. pc' \in Stages /\ pc' \notin Working
      BY <1>3 DEF CheckClosed, Stages, Working
  <2>. QED
      BY <1>1, <1>2, <1>3, <2>2, <2>3, Kept, Keep DEF CheckClosed
<1>4. CASE Track
  <2>1. dbRow' \in Row /\ (dbRow.tracked => dbRow'.tracked)
      BY <1>4, Kept, RowType DEF Track
  <2>2. pc' \in Stages /\ (pc' \in Working => dbRow'.tracked)
      BY <1>4, Kept, RowType DEF Track, Stages, Working
  <2>. QED
      BY <1>1, <1>2, <1>4, <2>1, <2>2, Kept, Keep DEF Track
<1>. QED
    BY <1>3, <1>4

\* The flags are brought up to date, in the row that is there.
LEMMA LoadKeeps ==
    ASSUME PublisherAssumption, PublisherInv, Load
    PROVE  PublisherInv'
<1>1. Present' = Present
    BY Untouched DEF Load, onChain
<1>2. (\A m \in Markets : late[m] = {}) /\ dbRow.tracked
    BY Kept DEF Load, Working
<1>3. faults' \in 0..Faults
    BY Kept, SpendType DEF Load
<1>4. pc' \in {"idle", "creating"} /\ pc' \in Stages
    BY DEF Load, Stages
<1>5. dbRow' \in Row /\ dbRow'.tracked = dbRow.tracked
  <2>. DEFINE found == Open \ dbRow.markets
              state == dbRow.state \/ event
              s == dbRow.markets \cup found
  <2>1. dbRow' = dbRow \/ dbRow' = [dbRow EXCEPT !.state = state, !.markets = s]
      BY DEF Load
  <2>2. dbRow \in Row /\ state \in BOOLEAN /\ s \in SUBSET Markets
      BY Kept DEF Row, Open
  <2>. HIDE DEF state, s
  <2>3. \A x \in BOOLEAN, t \in SUBSET Markets :
            /\ [dbRow EXCEPT !.state = x, !.markets = t] \in Row
            /\ [dbRow EXCEPT !.state = x, !.markets = t].tracked = dbRow.tracked
      BY <2>2 DEF Row
  <2>4. /\ [dbRow EXCEPT !.state = state, !.markets = s] \in Row
        /\ [dbRow EXCEPT !.state = state, !.markets = s].tracked = dbRow.tracked
      BY <2>2, <2>3 DEF Row
  <2>5. CASE dbRow' = dbRow
      BY <2>2, <2>5
  <2>6. CASE dbRow' = [dbRow EXCEPT !.state = state, !.markets = s]
      BY <2>4, <2>6
  <2>. QED
      BY <2>1, <2>5, <2>6
<1>6. seen' \subseteq Markets \cup {"event", "netting"}
    BY Kept DEF Load, Open, Row
<1>. QED
    BY <1>1, <1>2, <1>3, <1>4, <1>5, <1>6, Kept, Keep DEF Load

\* The event state is created, and flagged.
LEMMA CreateKeeps ==
    ASSUME PublisherAssumption, PublisherInv, CreateEvent \/ MarkEvent
    PROVE  PublisherInv'
<1>1. (\A m \in Markets : late[m] = {}) /\ dbRow.tracked
    BY Kept DEF CreateEvent, MarkEvent, Working
<1>2. CASE CreateEvent
  <2>1. event' \in BOOLEAN /\ pc' \in {"sending", "marking"} /\ faults' \in 0..Faults
    <3>1. event \in BOOLEAN /\ faults \in 0..Faults
        BY Kept
    <3>2. CASE "event" \in seen
        BY <1>2, <3>1, <3>2, SpendType DEF CreateEvent
    <3>3. CASE "event" \notin seen
      <4>1. PICK landed \in BOOLEAN, failed \in BOOLEAN :
                /\ event' = (event \/ landed)
                /\ pc' = IF failed THEN "sending" ELSE "marking"
                /\ Spend(failed /\ ~event)
          BY <1>2, <3>3 DEF CreateEvent
      <4>2. faults' \in 0..Faults
          BY <3>1, <4>1, SpendType
      <4>. QED
          BY <3>1, <4>1, <4>2
    <3>. QED
        BY <3>2, <3>3
  <2>2. pc' \in Stages
      BY <2>1 DEF Stages
  <2>. QED
      BY <1>1, <1>2, <2>1, <2>2, Kept, Keep DEF CreateEvent
<1>3. CASE MarkEvent
  <2>1. dbRow' = [dbRow EXCEPT !.state = dbRow.tracked] /\ dbRow \in Row /\ dbRow.tracked \in BOOLEAN
      BY <1>3, Kept DEF MarkEvent, Row
  <2>2. \A x \in BOOLEAN : /\ [dbRow EXCEPT !.state = x] \in Row
                           /\ [dbRow EXCEPT !.state = x].tracked = dbRow.tracked
      BY <2>1, RowType
  <2>3. dbRow' \in Row /\ dbRow'.tracked = dbRow.tracked
      BY <2>1, <2>2
  <2>4. pc' \in Stages
      BY <1>3 DEF MarkEvent, Stages
  <2>5. Present' = Present
      BY <1>3, Untouched DEF MarkEvent, onChain
  <2>. QED
      BY <1>1, <1>3, <2>3, <2>4, <2>5, Kept, Keep DEF MarkEvent
<1>. QED
    BY <1>2, <1>3

\* Whatever part of the odds and of the new accounts lands, now or late, does so
\* for an event with its row.
LEMMA SendKeeps ==
    ASSUME PublisherAssumption, PublisherInv, SendOdds
    PROVE  PublisherInv'
<1>1. (\A m \in Markets : late[m] = {}) /\ dbRow.tracked /\ dbRow \in Row
    BY Kept DEF SendOdds, Working
<1>2. PICK answers \in BOOLEAN, failed \in BOOLEAN :
         LET group == [m \in Markets |-> GroupFor(m, IF answers THEN feed[m] ELSE NoOdds)]
             sent == {m \in Markets : ~Empty(group[m])}
             works == {m \in sent : GroupWorks(group[m], market[m])}
         IN \E landed \in SUBSET works, half \in SUBSET sent :
              /\ half \subseteq {m \in sent \ landed : group[m].init /\ InitWorks(group[m], market[m])}
              /\ ~failed => landed = sent
              /\ market' = [m \in Markets |->
                    IF m \in landed THEN AfterGroup(group[m], market[m])
                    ELSE IF m \in half THEN AfterInit(group[m], market[m]) ELSE market[m]]
              /\ \E l \in SUBSET ((sent \ landed) \ half) :
                    late' = [m \in Markets |-> IF m \in l THEN {group[m]} ELSE late[m]]
              /\ dbRow' = IF failed THEN ResetFlags(dbRow) ELSE dbRow
              /\ pc' = IF \E m \in sent : group[m].init THEN "verifying" ELSE "idle"
              /\ Spend(~answers \/ (failed /\ works = sent))
    BY Zenon DEF SendOdds
<1>. DEFINE group == [m \in Markets |-> GroupFor(m, IF answers THEN feed[m] ELSE NoOdds)]
            sent == {m \in Markets : ~Empty(group[m])}
            works == {m \in sent : GroupWorks(group[m], market[m])}
<1>3. \A m \in Markets : group[m] \in Group
    BY <1>1, Kept DEF GroupFor, Group
<1>. HIDE DEF group
<1>4. PICK landed \in SUBSET works, half \in SUBSET sent :
          /\ market' = [m \in Markets |->
                IF m \in landed THEN AfterGroup(group[m], market[m])
                ELSE IF m \in half THEN AfterInit(group[m], market[m]) ELSE market[m]]
          /\ \E l \in SUBSET ((sent \ landed) \ half) :
                late' = [m \in Markets |-> IF m \in l THEN {group[m]} ELSE late[m]]
          /\ dbRow' = IF failed THEN ResetFlags(dbRow) ELSE dbRow
          /\ pc' = IF \E m \in sent : group[m].init THEN "verifying" ELSE "idle"
          /\ Spend(~answers \/ (failed /\ works = sent))
    BY <1>2 DEF group
<1>5. market' \in [Markets -> Account]
  <2>1. \A m \in Markets : /\ AfterInit(group[m], market[m]) \in Account
                           /\ AfterGroup(group[m], market[m]) \in Account
      BY <1>3, Kept, GroupType
  <2>. QED
      BY <1>4, <2>1, Kept
<1>6. late' \in [Markets -> SUBSET Group]
    BY <1>3, <1>4, Kept
<1>7. dbRow' \in Row /\ dbRow'.tracked
    BY <1>1, <1>4, RowType
<1>8. faults' \in 0..Faults
    BY <1>4, Kept, SpendType
<1>9. pc' \in Stages /\ pc' \in {"idle", "verifying"}
    BY <1>4 DEF Stages
<1>. QED
    BY <1>1, <1>5, <1>6, <1>7, <1>8, <1>9, Kept, Keep DEF SendOdds

\* The new accounts are flagged.
LEMMA VerifyKeeps ==
    ASSUME PublisherAssumption, PublisherInv, VerifyCreated
    PROVE  PublisherInv'
<1>1. Present' = Present
    BY Untouched DEF VerifyCreated, onChain
<1>2. PICK visible \in SUBSET (Open \ seen) :
          dbRow' = IF dbRow.tracked THEN [dbRow EXCEPT !.markets = @ \cup visible] ELSE dbRow
    BY DEF VerifyCreated
<1>3. dbRow' \in Row /\ dbRow'.tracked = dbRow.tracked
  <2>. DEFINE s == dbRow.markets \cup visible
  <2>1. dbRow \in Row /\ s \in SUBSET Markets
      BY Kept DEF Row, Open
  <2>2. dbRow' = dbRow \/ dbRow' = [dbRow EXCEPT !.markets = s]
      BY <1>2
  <2>. HIDE DEF s
  <2>3. [dbRow EXCEPT !.markets = s] \in Row /\ [dbRow EXCEPT !.markets = s].tracked = dbRow.tracked
      BY <2>1, RowType
  <2>. QED
      BY <2>1, <2>2, <2>3
<1>4. dbRow.tracked /\ pc' = "idle" /\ pc' \in Stages
    BY Kept DEF VerifyCreated, Working, Stages
<1>. QED
    BY <1>1, <1>3, <1>4, Kept, Keep DEF VerifyCreated

\* Every step keeps the row of an event that has accounts.
LEMMA NextKeeps ==
    ASSUME PublisherAssumption, PublisherInv, [PublisherNext]_publisherVars
    PROVE  PublisherInv'
<1>1. CASE Cycle
    BY <1>1, BeginKeeps, ReadKeeps, ClosesKeep, CheckKeeps, LoadKeeps, CreateKeeps,
       SendKeeps, VerifyKeeps DEF Cycle
<1>2. CASE UNCHANGED publisherVars
    BY <1>2, Kept, Keep, Untouched DEF publisherVars, onChain
<1>. QED
    BY <1>1, <1>2, WorldKeeps, LateKeeps, OperatorKeeps DEF PublisherNext

\* Whatever exists on chain for an event has its row in the backend's database,
\* however closes and creations fail, lag, land late or are interrupted, so a
\* later cycle finds and closes it (closeStartedEvents).
THEOREM RowsCover ==
    ASSUME PublisherAssumption
    PROVE  PublisherSpec => []RowsCoverAccounts
<1>1. PublisherInit => PublisherInv
    BY InitTrue
<1>2. PublisherInv /\ [PublisherNext]_publisherVars => PublisherInv'
    BY NextKeeps
<1>3. PublisherInv => RowsCoverAccounts
    BY DEF PublisherInv
<1>. QED
    BY <1>1, <1>2, <1>3, PTL DEF PublisherSpec

-----------------------------------------------------------------------------
(* The hub *)

\* The registered sockets are up and named, with the socket of every market
\* maker its own.
LEMMA HubStarts ==
    ASSUME RfqHubAssumption, HubInit
    PROVE  RoutesLive
<1>1. 0 \in 0..Breaks
    BY DEF RfqHubAssumption
<1>. QED
    BY <1>1 DEF HubInit, RoutesLive, RfqTypeOK, Registered, NewRequest

\* The hub's end of a socket, and a request.
HubEnd == [up: BOOLEAN, helloing: BOOLEAN, named: BOOLEAN]
Request == [phase: {"new", "pending", "answered"}, asked: SUBSET Sockets,
            expected: SUBSET MMs, replied: SUBSET MMs, timedOut: BOOLEAN]

\* Answers, replies and sockets that are gone leave a request a request.
LEMMA RequestType ==
    ASSUME NEW q \in Request
    PROVE  /\ \A t \in BOOLEAN : SettleRequest(q, t) \in Request
           /\ SettleIfAllReplied(q) \in Request
           /\ \A s \in SUBSET MMs : SettleIfAllReplied([q EXCEPT !.replied = s]) \in Request
<1>1. \A t \in BOOLEAN : SettleRequest(q, t) \in Request
    BY DEF SettleRequest, Request
<1>2. \A p \in Request : \A t \in BOOLEAN : SettleRequest(p, t) \in Request
    BY DEF SettleRequest, Request
<1>3. \A p \in Request : SettleIfAllReplied(p) \in Request
    BY <1>2 DEF SettleIfAllReplied
<1>4. \A s \in SUBSET MMs : [q EXCEPT !.replied = s] \in Request
    BY DEF Request
<1>. QED
    BY <1>1, <1>3, <1>4

\* The two ends of a socket change one flag at a time.
LEMMA HubEndType ==
    ASSUME NEW e \in HubEnd
    PROVE  /\ [e EXCEPT !.helloing = FALSE] \in HubEnd
           /\ [e EXCEPT !.helloing = FALSE].up = e.up
           /\ [e EXCEPT !.helloing = FALSE].named = e.named
           /\ [e EXCEPT !.helloing = FALSE, !.named = TRUE] \in HubEnd
           /\ [e EXCEPT !.helloing = FALSE, !.named = TRUE].up = e.up
           /\ [e EXCEPT !.helloing = FALSE, !.named = TRUE].named = TRUE
           /\ [e EXCEPT !.up = FALSE] \in HubEnd
BY DEF HubEnd

\* Every registered socket is up, named and its market maker's own.
Routed(h, r) ==
    \A m \in MMs : r[m] # None => /\ r[m] \in Sockets /\ h[r[m]].up /\ h[r[m]].named
                                  /\ Owner[r[m]] = m

\* What RoutesLive says, variable by variable.
LEMMA HubKept ==
    ASSUME RfqHubAssumption
    PROVE  /\ Owner \in [Sockets -> MMs] /\ None \notin Sockets /\ Breaks \in Nat
           /\ RoutesLive <=>
                /\ client \in [Sockets -> {"open", "gone"}]
                /\ hub \in [Sockets -> HubEnd] /\ mms \in [MMs -> Sockets \cup {None}]
                /\ inbox \in [Sockets -> SUBSET Requests]
                /\ outbox \in [Sockets -> SUBSET Requests]
                /\ req \in [Requests -> Request] /\ breaks \in 0..Breaks
                /\ Routed(hub, mms)
BY DEF RfqHubAssumption, RoutesLive, RfqTypeOK, Registered, HubEnd, Request, Routed

\* The same of the next state.
LEMMA HubKeep ==
    ASSUME client' \in [Sockets -> {"open", "gone"}],
           hub' \in [Sockets -> HubEnd], mms' \in [MMs -> Sockets \cup {None}],
           inbox' \in [Sockets -> SUBSET Requests], outbox' \in [Sockets -> SUBSET Requests],
           req' \in [Requests -> Request], breaks' \in 0..Breaks, Routed(hub', mms')
    PROVE  RoutesLive'
BY DEF RoutesLive, RfqTypeOK, Registered, HubEnd, Request, Routed

\* Requests, replies and the timer leave the routes alone.
LEMMA RequestsKeep ==
    ASSUME RfqHubAssumption, RoutesLive, NEW r \in Requests,
           \/ Collect(r) \/ Timeout(r)
           \/ \E s \in Sockets : ReceiveQuote(s, r) \/ Answer(s, r)
    PROVE  RoutesLive'
<1>1. CASE Collect(r)
  <2>1. PICK asked \in SUBSET {mms[m] : m \in Registered} :
            LET q == [req[r] EXCEPT !.phase = "pending", !.asked = asked,
                                    !.expected = Registered]
            IN  /\ req' = [req EXCEPT ![r] = IF asked = {} THEN SettleRequest(q, FALSE) ELSE q]
                /\ inbox' = [s \in Sockets |-> IF s \in asked /\ client[s] = "open"
                                               THEN inbox[s] \cup {r} ELSE inbox[s]]
      BY <1>1 DEF Collect
  <2>. DEFINE q == [req[r] EXCEPT !.phase = "pending", !.asked = asked,
                                  !.expected = Registered]
  <2>2. asked \subseteq Sockets /\ Registered \subseteq MMs
      BY HubKept DEF Registered
  <2>3. q \in Request
    <3>1. req[r] \in Request
        BY HubKept
    <3>. QED
        BY <2>2, <3>1 DEF Request
  <2>. HIDE DEF q
  <2>4. req' \in [Requests -> Request]
      BY <2>1, <2>3, HubKept, RequestType DEF q
  <2>5. inbox' \in [Sockets -> SUBSET Requests]
      BY <2>1, HubKept
  <2>. QED
      BY <1>1, <2>4, <2>5, HubKept, HubKeep DEF Collect
<1>2. CASE Timeout(r)
  <2>1. req' \in [Requests -> Request]
      BY <1>2, HubKept, RequestType DEF Timeout
  <2>. QED
      BY <1>2, <2>1, HubKept, HubKeep DEF Timeout
<1>3. ASSUME NEW s \in Sockets, ReceiveQuote(s, r) PROVE RoutesLive'
  <2>1. outbox' \in [Sockets -> SUBSET Requests]
      BY <1>3, HubKept DEF ReceiveQuote
  <2>2. req[r] \in Request /\ Owner[s] \in MMs
      BY HubKept
  <2>3. WithReply(req[r], Owner[s]) \in Request
    <3>1. \A x \in SUBSET MMs : SettleIfAllReplied([req[r] EXCEPT !.replied = x]) \in Request
        BY <2>2, RequestType
    <3>2. req[r].replied \cup {Owner[s]} \in SUBSET MMs
        BY <2>2 DEF Request
    <3>. QED
        BY <2>2, <3>1, <3>2 DEF WithReply
  <2>4. req' = [req EXCEPT ![r] = WithReply(req[r], Owner[s])]
      BY <1>3 DEF ReceiveQuote
  <2>5. req' \in [Requests -> Request]
      BY <2>3, <2>4, HubKept
  <2>. QED
      BY <1>3, <2>1, <2>5, HubKept, HubKeep DEF ReceiveQuote
<1>4. ASSUME NEW s \in Sockets, Answer(s, r) PROVE RoutesLive'
  <2>1. inbox' \in [Sockets -> SUBSET Requests] /\ outbox' \in [Sockets -> SUBSET Requests]
      BY <1>4, HubKept DEF Answer
  <2>. QED
      BY <1>4, <2>1, HubKept, HubKeep DEF Answer
<1>. QED
    BY <1>1, <1>2, <1>3, <1>4

\* A connection starts on a socket nobody is registered with, and is registered
\* only while it is up.
LEMMA SessionsKeep ==
    ASSUME RfqHubAssumption, RoutesLive, NEW s \in Sockets,
           Connect(s) \/ HelloVerified(s) \/ HelloRefused(s) \/ Break(s)
    PROVE  RoutesLive'
<1>1. CASE Connect(s)
  <2>1. /\ client' \in [Sockets -> {"open", "gone"}] /\ inbox' \in [Sockets -> SUBSET Requests]
        /\ hub' \in [Sockets -> HubEnd]
      BY <1>1, HubKept DEF Connect, HubEnd
  <2>2. Routed(hub', mms')
      BY <1>1, HubKept DEF Connect, Routed, HubEnd
  <2>. QED
      BY <1>1, <2>1, <2>2, HubKept, HubKeep DEF Connect
<1>2. CASE HelloVerified(s)
  <2>1. client' \in [Sockets -> {"open", "gone"}] /\ mms' \in [MMs -> Sockets \cup {None}]
      BY <1>2, HubKept DEF HelloVerified
  <2>2. hub[s] \in HubEnd
      BY HubKept
  <2>3. CASE StillUp(s)
    <3>1. /\ hub' = [hub EXCEPT ![s].helloing = FALSE, ![s].named = TRUE]
          /\ mms' = [mms EXCEPT ![Owner[s]] = s]
        BY <1>2, <2>3 DEF HelloVerified
    <3>2. hub'[s] = [hub[s] EXCEPT !.helloing = FALSE, !.named = TRUE]
        BY <3>1, HubKept
    <3>3. \A t \in Sockets \ {s} : hub'[t] = hub[t]
        BY <3>1, HubKept
    <3>4. hub'[s].up /\ hub'[s].named
        BY <2>2, <2>3, <3>2, HubEndType DEF StillUp
    <3>5. hub' \in [Sockets -> HubEnd]
        BY <2>2, <3>1, <3>2, HubKept, HubEndType
    <3>6. Routed(hub', mms')
        BY <3>1, <3>4, <3>3, HubKept DEF Routed
    <3>. QED
        BY <1>2, <2>1, <3>6, <3>5, HubKept, HubKeep DEF HelloVerified
  <2>4. CASE ~StillUp(s)
    <3>1. hub' = [hub EXCEPT ![s].helloing = FALSE] /\ mms' = mms
        BY <1>2, <2>4 DEF HelloVerified
    <3>2. hub'[s] = [hub[s] EXCEPT !.helloing = FALSE]
        BY <3>1, HubKept
    <3>3. \A t \in Sockets : hub'[t].up = hub[t].up /\ hub'[t].named = hub[t].named
        BY <2>2, <3>1, <3>2, HubKept, HubEndType
    <3>4. hub' \in [Sockets -> HubEnd]
        BY <2>2, <3>1, <3>2, HubKept, HubEndType
    <3>5. Routed(hub', mms')
        BY <3>1, <3>3, HubKept DEF Routed
    <3>. QED
        BY <1>2, <2>1, <3>5, <3>4, HubKept, HubKeep DEF HelloVerified
  <2>. QED
      BY <2>3, <2>4
<1>3. CASE HelloRefused(s)
  <2>1. client' \in [Sockets -> {"open", "gone"}] /\ breaks' \in 0..Breaks
      BY <1>3, HubKept DEF HelloRefused
  <2>2. hub[s] \in HubEnd /\ hub' = [hub EXCEPT ![s] = [hub[s] EXCEPT !.helloing = FALSE]]
      BY <1>3, HubKept DEF HelloRefused
  <2>3. \A t \in Sockets : hub'[t].up = hub[t].up /\ hub'[t].named = hub[t].named
      BY <2>2, HubKept, HubEndType
  <2>4. hub' \in [Sockets -> HubEnd]
      BY <2>2, HubKept, HubEndType
  <2>5. Routed(hub', mms')
      BY <1>3, <2>3, HubKept DEF HelloRefused, Routed
  <2>. QED
      BY <1>3, <2>1, <2>5, <2>4, HubKept, HubKeep DEF HelloRefused
<1>4. CASE Break(s)
  <2>1. client' \in [Sockets -> {"open", "gone"}] /\ breaks' \in 0..Breaks
      BY <1>4, HubKept DEF Break
  <2>. QED
      BY <1>4, <2>1, HubKept, HubKeep DEF Break
<1>. QED
    BY <1>1, <1>2, <1>3, <1>4

\* A socket that closes takes its own registration with it, and no other.
LEMMA CloseKeeps ==
    ASSUME RfqHubAssumption, RoutesLive, NEW s \in Sockets, OnClose(s)
    PROVE  RoutesLive'
<1>1. /\ hub' = [hub EXCEPT ![s].up = FALSE]
      /\ mms' = IF hub[s].named THEN Forget(s) ELSE mms
      /\ outbox' = [outbox EXCEPT ![s] = {}]
      /\ UNCHANGED <<client, inbox, breaks>>
    BY DEF OnClose
<1>2. /\ hub' \in [Sockets -> HubEnd] /\ outbox' \in [Sockets -> SUBSET Requests]
      /\ mms' \in [MMs -> Sockets \cup {None}]
  <2>1. hub[s] \in HubEnd
      BY HubKept
  <2>2. [hub[s] EXCEPT !.up = FALSE] \in HubEnd
      BY <2>1, HubEndType
  <2>3. hub' \in [Sockets -> HubEnd]
      BY <1>1, <2>2, HubKept
  <2>4. outbox' \in [Sockets -> SUBSET Requests]
      BY <1>1, HubKept
  <2>5. mms' \in [MMs -> Sockets \cup {None}]
      BY <1>1, HubKept DEF Forget
  <2>. QED
      BY <2>3, <2>4, <2>5
<1>3. req' \in [Requests -> Request]
  <2>. DEFINE unasked(q) == [q EXCEPT !.asked = @ \ {s}]
              unexpected(q) == [unasked(q) EXCEPT !.expected = @ \ {Owner[s]}]
  <2>1. req' = [r \in Requests |->
           IF hub[s].named /\ req[r].phase = "pending" /\ Owner[s] \in req[r].expected
           THEN SettleIfAllReplied(unexpected(req[r])) ELSE unasked(req[r])]
      BY DEF OnClose
  <2>2. \A q \in Request : unasked(q) \in Request /\ unexpected(q) \in Request
      BY DEF Request
  <2>. HIDE DEF unasked, unexpected
  <2>3. \A r \in Requests : req[r] \in Request
      BY HubKept
  <2>4. \A r \in Requests : /\ unasked(req[r]) \in Request
                            /\ SettleIfAllReplied(unexpected(req[r])) \in Request
      BY <2>2, <2>3, RequestType
  <2>. QED
      BY <2>1, <2>4
<1>4. Routed(hub', mms')
  <2>1. \A t \in Sockets \ {s} : hub'[t] = hub[t]
      BY <1>1, HubKept
  <2>2. \A m \in MMs : mms'[m] # None => mms'[m] = mms[m] /\ mms[m] # s
    <3>1. CASE hub[s].named
        BY <1>1, <3>1, HubKept DEF Forget, Routed
    <3>2. CASE ~hub[s].named
        BY <1>1, <3>2, HubKept DEF Routed
    <3>. QED
        BY <3>1, <3>2
  <2>. QED
      BY <2>1, <2>2, HubKept DEF Routed
<1>. QED
    BY <1>1, <1>2, <1>3, <1>4, HubKept, HubKeep

\* A market maker is never registered with a socket that has been reported
\* closed, though sockets die while a hello is verified, newer ones take their
\* place, and old ones close late (handleHello, onClose).
THEOREM HubRoutesLive ==
    ASSUME RfqHubAssumption
    PROVE  HubSpec => []RoutesLive
<1>1. HubInit => RoutesLive
    BY HubStarts
<1>2. RoutesLive /\ [HubNext]_hubVars => RoutesLive'
  <2>. SUFFICES ASSUME RoutesLive, [HubNext]_hubVars
                PROVE  RoutesLive'
      OBVIOUS
  <2>1. CASE HubNext
      BY <2>1, RequestsKeep, SessionsKeep, CloseKeeps DEF HubNext
  <2>2. CASE UNCHANGED hubVars
      BY <2>2, HubKept, HubKeep DEF hubVars
  <2>. QED
      BY <2>1, <2>2
<1>. QED
    BY <1>1, <1>2, PTL DEF HubSpec

-----------------------------------------------------------------------------
(* The indexer *)

Tx == [kind: {"fill", "grade", "cashout", "claim", "revert", "settle", "failed"},
       at: Accounts, amount: Nat, ok: BOOLEAN, slot: Nat \ {0}]

\* Slots never decrease along the chain, and what is a cashout is of the cashout's
\* account.
Chains == {ch \in Seq(Tx) :
             /\ \A i, j \in DOMAIN ch : i <= j => ch[i].slot <= ch[j].slot
             /\ \A i \in DOMAIN ch : ch[i].kind = "cashout" => ch[i].at = "cash"}

\* SlotOf and Alone of any chain ch, and the transactions that should be known
\* by the time one of slot s is.
SlotIn(ch, i) == IF i = 0 THEN 0 ELSE ch[i].slot
AloneIn(ch, i) == \A j \in DOMAIN ch : SlotIn(ch, j) = SlotIn(ch, i) => j = i
Due(ch, s) == {j \in DOMAIN ch : ch[j].ok /\ AloneIn(ch, j) /\ ch[j].slot <= s}

Covered(ch, done, k) == Due(ch, SlotIn(ch, k)) \subseteq done

\* What is due by the k-th signature of a run is done or among the first k.
Ahead(ch, done, sigs) ==
    \A k \in DOMAIN sigs :
        Due(ch, ch[sigs[k]].slot) \subseteq done \cup {sigs[l] : l \in 1..k}

Busy == {"fetch", "account", "escrow"}
RunFine(ch, done, q) ==
    /\ DOMAIN q = {"stage", "from", "sigs"} /\ q.stage \in {"off", "list"} \cup Busy
    /\ q.stage = "list" => q.from \in 0..Len(ch) /\ Covered(ch, done, q.from)
    /\ q.stage \in Busy =>
          q.sigs \in Seq(1..Len(ch)) /\ q.sigs # <<>> /\ Ahead(ch, done, q.sigs)
    /\ q.stage = "account" => ch[Head(q.sigs)].kind \in {"fill", "cashout"}

RowFields == {"status", "amount", "slot", "created", "graded", "claimed"}
BetFine(ch, done, b) ==
    /\ b.created \in 0..Len(ch) /\ Covered(ch, done, b.created)
    /\ b.graded \in 0..Len(ch) /\ Covered(ch, done, b.graded)
    /\ b.claimed \in 0..Len(ch) /\ Covered(ch, done, b.claimed)

Shaped(rows) == DOMAIN rows = Accounts /\ \A t \in Accounts : DOMAIN rows[t] = RowFields

\* Whatever a run may resume from has everything due behind it: the watermark
\* and every transaction the row of the bet names.
Known == indexed \cup missed \cup dropped
IndexerInv ==
    /\ chain \in Chains /\ (chain = <<>> => sealed) /\ sealed \in BOOLEAN
    /\ mark \in 0..Len(chain) /\ Covered(chain, Known, mark)
    /\ Shaped(row) /\ BetFine(chain, Known, row["bet"])
    /\ DOMAIN run = Runs /\ \A r \in Runs : RunFine(chain, Known, run[r])

\* What is due in a chain with one more transaction was due before.
LEMMA DueEarlier ==
    ASSUME NEW ch \in Chains, NEW t, NEW dh \in Chains, dh = Append(ch, t),
           NEW k \in 0..Len(ch)
    PROVE  /\ SlotIn(dh, k) = SlotIn(ch, k) /\ SlotIn(ch, k) \in Nat
           /\ Due(dh, SlotIn(dh, k)) \subseteq Due(ch, SlotIn(ch, k))
<1>1. /\ ch \in Seq(Tx) /\ dh \in Seq(Tx) /\ DOMAIN ch = 1..Len(ch)
      /\ Len(dh) = Len(ch) + 1 /\ DOMAIN dh = 1..Len(dh) /\ Len(ch) \in Nat
      /\ \A i \in 1..Len(ch) : dh[i] = ch[i]
      /\ t = dh[Len(ch) + 1]
  <2>1. ch \in Seq(Tx) /\ dh \in Seq(Tx)
      BY DEF Chains
  <2>2. Len(dh) = Len(ch) + 1 /\ Len(ch) \in Nat /\ DOMAIN ch = 1..Len(ch)
        /\ DOMAIN dh = 1..Len(dh)
      BY <2>1
  <2>3. (\A i \in 1..Len(ch) : dh[i] = ch[i]) /\ t = dh[Len(ch) + 1]
      BY <2>1
  <2>. QED
      BY <2>1, <2>2, <2>3
<1>2. \A i \in 1..Len(dh) : dh[i].slot \in Nat \ {0}
  <2>1. \A i \in 1..Len(dh) : dh[i] \in Tx
      BY <1>1
  <2>. QED
      BY <2>1 DEF Tx
<1>3. \A i \in 0..Len(ch) : SlotIn(dh, i) = SlotIn(ch, i) /\ SlotIn(ch, i) \in Nat
    BY <1>1, <1>2 DEF SlotIn
<1>. SUFFICES ASSUME NEW j \in Due(dh, SlotIn(dh, k))
              PROVE  j \in Due(ch, SlotIn(ch, k))
    BY <1>3
<1>4. j \in 1..Len(dh) /\ dh[j].ok /\ AloneIn(dh, j) /\ dh[j].slot <= SlotIn(dh, k)
    BY <1>1 DEF Due
<1>5. j # Len(ch) + 1
  <2>. SUFFICES ASSUME j = Len(ch) + 1
                PROVE  FALSE
      OBVIOUS
  <2>1. k # 0
      BY <1>2, <1>4 DEF SlotIn
  <2>2. k \in DOMAIN dh /\ j \in DOMAIN dh /\ k <= j /\ k # j
      BY <1>1, <2>1
  <2>3. dh[k].slot <= dh[j].slot
      BY <2>2 DEF Chains
  <2>4. SlotIn(dh, k) = dh[k].slot /\ SlotIn(dh, j) = dh[j].slot
      BY <1>1, <2>1 DEF SlotIn
  <2>5. SlotIn(dh, k) = SlotIn(dh, j)
      BY <1>1, <1>2, <1>4, <2>2, <2>3, <2>4
  <2>. QED
      BY <1>4, <2>2, <2>5 DEF AloneIn
<1>6. j \in 1..Len(ch) /\ dh[j] = ch[j]
    BY <1>1, <1>4, <1>5
<1>7. AloneIn(ch, j)
    BY <1>1, <1>3, <1>4, <1>6 DEF AloneIn
<1>. QED
    BY <1>1, <1>3, <1>4, <1>6, <1>7 DEF Due

\* What a row or a run relies on stays so while the chain grows.
LEMMA GrowthKeeps ==
    ASSUME NEW ch \in Chains, NEW t, NEW dh \in Chains, dh = Append(ch, t), NEW done
    PROVE  /\ \A k \in 0..Len(ch) : Covered(ch, done, k) => Covered(dh, done, k)
           /\ \A q : RunFine(ch, done, q) => RunFine(dh, done, q)
           /\ \A b : BetFine(ch, done, b) => BetFine(dh, done, b)
<1>1. Len(ch) \in Nat /\ Len(dh) = Len(ch) + 1 /\ \A i \in 1..Len(ch) : dh[i] = ch[i]
  <2>1. ch \in Seq(Tx) /\ dh \in Seq(Tx)
      BY DEF Chains
  <2>. QED
      BY <2>1
<1>2. \A k \in 0..Len(ch) : Covered(ch, done, k) => Covered(dh, done, k)
    BY DueEarlier DEF Covered
<1>3. ASSUME NEW sigs \in Seq(1..Len(ch)), Ahead(ch, done, sigs)
      PROVE  Ahead(dh, done, sigs)
  <2>. SUFFICES ASSUME NEW k \in DOMAIN sigs
                PROVE  Due(dh, dh[sigs[k]].slot) \subseteq done \cup {sigs[l] : l \in 1..k}
      BY DEF Ahead
  <2>1. sigs[k] \in 1..Len(ch)
      OBVIOUS
  <2>2. SlotIn(ch, sigs[k]) = ch[sigs[k]].slot /\ SlotIn(dh, sigs[k]) = dh[sigs[k]].slot
        /\ sigs[k] \in 0..Len(ch)
      BY <1>1, <2>1 DEF SlotIn
  <2>3. Due(dh, dh[sigs[k]].slot) \subseteq Due(ch, ch[sigs[k]].slot)
      BY <2>2, DueEarlier
  <2>. QED
      BY <2>3, <1>3 DEF Ahead
<1>4. ASSUME NEW q, RunFine(ch, done, q) PROVE RunFine(dh, done, q)
  <2>1. q.stage = "list" => q.from \in 0..Len(dh) /\ Covered(dh, done, q.from)
      BY <1>1, <1>2, <1>4 DEF RunFine
  <2>2. q.stage \in Busy => q.sigs \in Seq(1..Len(dh)) /\ Ahead(dh, done, q.sigs)
    <3>. SUFFICES ASSUME q.stage \in Busy
                  PROVE  q.sigs \in Seq(1..Len(dh)) /\ Ahead(dh, done, q.sigs)
        OBVIOUS
    <3>1. q.sigs \in Seq(1..Len(ch)) /\ Ahead(ch, done, q.sigs)
        BY <1>4 DEF RunFine
    <3>2. 1..Len(ch) \subseteq 1..Len(dh)
        BY <1>1
    <3>. QED
        BY <1>3, <3>1, <3>2
  <2>3. q.stage = "account" => dh[Head(q.sigs)].kind \in {"fill", "cashout"}
    <3>. SUFFICES ASSUME q.stage = "account"
                  PROVE  dh[Head(q.sigs)].kind \in {"fill", "cashout"}
        OBVIOUS
    <3>1. q.sigs \in Seq(1..Len(ch)) /\ q.sigs # <<>>
        BY <1>4 DEF RunFine, Busy
    <3>2. Head(q.sigs) \in 1..Len(ch)
        BY <3>1
    <3>. QED
        BY <1>1, <1>4, <3>2 DEF RunFine
  <2>. QED
      BY <1>4, <2>1, <2>2, <2>3 DEF RunFine
<1>5. ASSUME NEW b, BetFine(ch, done, b) PROVE BetFine(dh, done, b)
    BY <1>1, <1>2, <1>5 DEF BetFine
<1>. QED
    BY <1>2, <1>4, <1>5

\* And while more is known.
LEMMA MoreKnown ==
    ASSUME NEW ch, NEW done, NEW more, done \subseteq more
    PROVE  /\ \A k : Covered(ch, done, k) => Covered(ch, more, k)
           /\ \A q : RunFine(ch, done, q) => RunFine(ch, more, q)
           /\ \A b : BetFine(ch, done, b) => BetFine(ch, more, b)
<1>1. \A k : Covered(ch, done, k) => Covered(ch, more, k)
    BY DEF Covered
<1>2. \A sigs : Ahead(ch, done, sigs) => Ahead(ch, more, sigs)
    BY DEF Ahead
<1>. QED
    BY <1>1, <1>2 DEF RunFine, BetFine

\* Once the first signature of a run is dealt with, everything due by it is,
\* and the rest of the run is as it should be.
LEMMA HeadDone ==
    ASSUME NEW ch \in Chains, NEW done, NEW more, done \subseteq more,
           NEW sigs \in Seq(1..Len(ch)), sigs # <<>>, Ahead(ch, done, sigs),
           Head(sigs) \in more \/ ~ch[Head(sigs)].ok
    PROVE  Covered(ch, more, Head(sigs)) /\ RunFine(ch, more, Rest(Tail(sigs)))
<1>. DEFINE i == Head(sigs)
            rest == Tail(sigs)
<1>1. /\ Len(sigs) \in Nat \ {0} /\ DOMAIN sigs = 1..Len(sigs)
      /\ i = sigs[1] /\ i \in 1..Len(ch)
      /\ rest \in Seq(1..Len(ch)) /\ Len(rest) = Len(sigs) - 1
      /\ DOMAIN rest = 1..Len(rest)
      /\ \A l \in 1..Len(rest) : rest[l] = sigs[l + 1]
    OBVIOUS
<1>. HIDE DEF i, rest
<1>2. \A s : i \in Due(ch, s) => i \in more
    BY DEF Due, i
<1>3. Due(ch, ch[sigs[1]].slot) \subseteq done \cup {sigs[l] : l \in 1..1}
    BY <1>1 DEF Ahead
<1>4. Covered(ch, more, i)
  <2>1. Len(ch) \in Nat
    <3>1. ch \in Seq(Tx)
        BY DEF Chains
    <3>. QED
        BY <3>1
  <2>2. SlotIn(ch, i) = ch[i].slot
      BY <1>1, <2>1 DEF SlotIn
  <2>. QED
      BY <1>1, <1>2, <1>3, <2>2 DEF Covered
<1>5. Ahead(ch, more, rest)
  <2>. SUFFICES ASSUME NEW k \in DOMAIN rest, NEW j \in Due(ch, ch[rest[k]].slot),
                       j \notin more
                PROVE  j \in {rest[l] : l \in 1..k}
      BY DEF Ahead
  <2>1. k \in 1..Len(rest) /\ k \in Nat /\ k + 1 \in DOMAIN sigs /\ rest[k] = sigs[k + 1]
      BY <1>1, SMTT(30)
  <2>2. j \in done \cup {sigs[l] : l \in 1..(k + 1)}
      BY <2>1 DEF Ahead
  <2>3. PICK l \in 1..(k + 1) : j = sigs[l]
      BY <2>2
  <2>4. l # 1
      BY <1>1, <1>2, <2>3
  <2>5. l - 1 \in 1..k /\ rest[l - 1] = sigs[l]
      BY <1>1, <2>1, <2>4, SMTT(30)
  <2>. QED
      BY <2>3, <2>5
<1>6. RunFine(ch, more, Rest(rest))
  <2>1. CASE rest = <<>>
      BY <2>1 DEF Rest, Off, RunFine, Busy
  <2>2. CASE rest # <<>>
      BY <1>1, <1>5, <2>2 DEF Rest, RunFine, Busy
  <2>. QED
      BY <2>1, <2>2
<1>. QED
    BY <1>4, <1>6 DEF i, rest

\* The order of a run's list, of any chain ch, and the list itself.
BeforeIn(ch, i, j) ==
    SlotIn(ch, i) < SlotIn(ch, j) \/ (SlotIn(ch, i) = SlotIn(ch, j) /\ i > j)
Sorted(ch, sigs) == \A k, l \in DOMAIN sigs : k < l => BeforeIn(ch, sigs[k], sigs[l])

\* There is an order to put the list in: a signature goes where as many come
\* before it as the order says.
LEMMA SortedExists ==
    ASSUME NEW ch \in Chains, NEW from \in 0..Len(ch)
    PROVE  \E sigs \in SetToSeqs((from + 1)..Len(ch)) : Sorted(ch, sigs)
<1>. DEFINE S == (from + 1)..Len(ch)
            n == Cardinality(S)
            upTo(i) == {j \in S : j = i \/ BeforeIn(ch, j, i)}
            rank == [i \in S |-> Cardinality(upTo(i))]
<1>1. /\ Len(ch) \in Nat /\ IsFiniteSet(S) /\ n \in Nat /\ IsFiniteSet(1..n)
      /\ Cardinality(1..n) = n
  <2>1. ch \in Seq(Tx)
      BY DEF Chains
  <2>2. Len(ch) \in Nat
      BY <2>1
  <2>3. from \in Int /\ from + 1 \in Int /\ Len(ch) \in Int
      BY <2>2
  <2>4. IsFiniteSet(S) /\ n \in Nat
      BY <2>3, FS_Interval, FS_CardinalityType
  <2>5. IsFiniteSet(1..n) /\ Cardinality(1..n) = n
      BY <2>4, FS_Interval
  <2>. QED
      BY <2>2, <2>4, <2>5
<1>2. \A i \in S : SlotIn(ch, i) \in Nat /\ i \in Nat
  <2>. SUFFICES ASSUME NEW i \in S
                PROVE  SlotIn(ch, i) \in Nat /\ i \in Nat
      OBVIOUS
  <2>1. ch \in Seq(Tx) /\ i \in 1..Len(ch) /\ i \in Nat /\ i # 0
      BY <1>1 DEF Chains
  <2>2. ch[i] \in Tx
      BY <2>1
  <2>. QED
      BY <2>1, <2>2 DEF Tx, SlotIn
<1>3. \A i, j \in S : i # j => BeforeIn(ch, i, j) \/ BeforeIn(ch, j, i)
    BY <1>2 DEF BeforeIn
<1>4. \A i, j, k \in S : BeforeIn(ch, i, j) /\ BeforeIn(ch, j, k) => BeforeIn(ch, i, k)
    BY <1>2 DEF BeforeIn
<1>5. \A i \in S : ~BeforeIn(ch, i, i)
    BY <1>2 DEF BeforeIn
<1>. HIDE DEF S, n
<1>6. \A i \in S : upTo(i) \subseteq S /\ IsFiniteSet(upTo(i)) /\ Cardinality(upTo(i)) \in 1..n
  <2>. SUFFICES ASSUME NEW i \in S
                PROVE  upTo(i) \subseteq S /\ IsFiniteSet(upTo(i))
                       /\ Cardinality(upTo(i)) \in 1..n
      OBVIOUS
  <2>1. upTo(i) \in SUBSET S /\ {i} \in SUBSET upTo(i)
      OBVIOUS
  <2>. HIDE DEF upTo
  <2>2. IsFiniteSet(upTo(i)) /\ Cardinality(upTo(i)) <= n
      BY <1>1, <2>1, FS_Subset DEF n
  <2>3. Cardinality(upTo(i)) \in Nat /\ Cardinality({i}) <= Cardinality(upTo(i))
      BY <2>1, <2>2, FS_Subset, FS_CardinalityType
  <2>4. Cardinality({i}) = 1
      BY FS_Singleton
  <2>. QED
      BY <1>1, <2>1, <2>2, <2>3, <2>4
<1>7. \A i, j \in S : BeforeIn(ch, i, j) => rank[i] < rank[j]
  <2>. SUFFICES ASSUME NEW i \in S, NEW j \in S, BeforeIn(ch, i, j)
                PROVE  rank[i] < rank[j]
      OBVIOUS
  <2>1. upTo(i) \in SUBSET upTo(j)
      BY <1>4
  <2>2. j \in upTo(j) /\ j \notin upTo(i)
      BY <1>4, <1>5
  <2>3. rank[i] = Cardinality(upTo(i)) /\ rank[j] = Cardinality(upTo(j))
      OBVIOUS
  <2>. HIDE DEF upTo, rank
  <2>4. IsFiniteSet(upTo(j)) /\ Cardinality(upTo(i)) \in Nat /\ Cardinality(upTo(j)) \in Nat
      BY <1>1, <1>6
  <2>5. Cardinality(upTo(i)) <= Cardinality(upTo(j))
        /\ Cardinality(upTo(i)) # Cardinality(upTo(j))
      BY <2>1, <2>2, <2>4, FS_Subset
  <2>. QED
      BY <2>3, <2>4, <2>5
<1>8. rank \in [S -> 1..n] /\ \A i, j \in S : rank[i] = rank[j] => i = j
  <2>1. rank \in [S -> 1..n]
      BY <1>6
  <2>2. \A i \in S : rank[i] \in Nat
      BY <1>1, <2>1
  <2>. HIDE DEF rank, upTo
  <2>. QED
      BY <1>3, <1>7, <2>1, <2>2
<1>. HIDE DEF rank, upTo
<1>9. \A k \in 1..n : \E i \in S : rank[i] = k
  <2>1. rank \in Injection(S, 1..n)
      BY <1>8 DEF Injection, IsInjective
  <2>2. rank \in Surjection(S, 1..n)
      BY <1>1, <2>1, FS_Injection DEF n
  <2>. QED
      BY <2>2 DEF Surjection
<1>. DEFINE sigs == [k \in 1..n |-> CHOOSE i \in S : rank[i] = k]
<1>10. /\ sigs \in [1..n -> S]
       /\ \A k \in 1..n : rank[sigs[k]] = k
    BY <1>9
<1>. HIDE DEF sigs
<1>11. \A k, l \in 1..n : k < l => BeforeIn(ch, sigs[k], sigs[l])
  <2>. SUFFICES ASSUME NEW k \in 1..n, NEW l \in 1..n, k < l
                PROVE  BeforeIn(ch, sigs[k], sigs[l])
      OBVIOUS
  <2>1. k \in Int /\ l \in Int /\ sigs[k] \in S /\ sigs[l] \in S
        /\ rank[sigs[k]] = k /\ rank[sigs[l]] = l
      BY <1>1, <1>10
  <2>2. sigs[k] # sigs[l]
      BY <2>1
  <2>3. ~BeforeIn(ch, sigs[l], sigs[k])
      BY <1>7, <2>1
  <2>. QED
      BY <1>3, <2>1, <2>2, <2>3
<1>12. \A k, l \in 1..n : k # l => sigs[k] # sigs[l]
    BY <1>10
<1>13. sigs \in SetToSeqs(S)
    BY <1>10, <1>12 DEF SetToSeqs, n
<1>14. Sorted(ch, sigs)
    BY <1>10, <1>11 DEF Sorted
<1>. QED
    BY <1>13, <1>14 DEF S

\* A run that resumes where everything due is known has a list behind which
\* everything due is.
LEMMA ListAhead ==
    ASSUME NEW ch \in Chains, NEW done, NEW from \in 0..Len(ch), Covered(ch, done, from),
           NEW sigs \in SetToSeqs((from + 1)..Len(ch)), Sorted(ch, sigs)
    PROVE  sigs \in Seq(1..Len(ch)) /\ Ahead(ch, done, sigs)
<1>. DEFINE S == (from + 1)..Len(ch)
            n == Cardinality(S)
<1>1. /\ ch \in Seq(Tx) /\ DOMAIN ch = 1..Len(ch) /\ Len(ch) \in Nat
      /\ IsFiniteSet(S) /\ n \in Nat /\ IsFiniteSet(1..n) /\ Cardinality(1..n) = n
  <2>1. ch \in Seq(Tx)
      BY DEF Chains
  <2>2. Len(ch) \in Nat /\ DOMAIN ch = 1..Len(ch)
      BY <2>1
  <2>3. from \in Int /\ from + 1 \in Int /\ Len(ch) \in Int
      BY <2>2
  <2>4. IsFiniteSet(S) /\ n \in Nat
      BY <2>3, FS_Interval, FS_CardinalityType
  <2>5. IsFiniteSet(1..n) /\ Cardinality(1..n) = n
      BY <2>4, FS_Interval
  <2>. QED
      BY <2>1, <2>2, <2>4, <2>5
<1>2. sigs \in [1..n -> S] /\ \A k, l \in 1..n : k # l => sigs[k] # sigs[l]
    BY DEF SetToSeqs
<1>3. \A j \in S : j \in 1..Len(ch)
    BY <1>1
<1>4. \A j \in DOMAIN ch : ch[j].slot \in Nat \ {0} /\ SlotIn(ch, j) = ch[j].slot
  <2>1. \A j \in DOMAIN ch : ch[j] \in Tx /\ j # 0
      BY <1>1
  <2>. QED
      BY <2>1 DEF Tx, SlotIn
<1>5. \A j \in DOMAIN ch : j \notin S => j <= from /\ j \in Nat
    BY <1>1
<1>. HIDE DEF S, n
<1>6. \A j \in S : \E k \in 1..n : sigs[k] = j
  <2>1. sigs \in Injection(1..n, S)
      BY <1>2 DEF Injection, IsInjective
  <2>2. sigs \in Surjection(1..n, S)
      BY <1>1, <2>1, FS_Injection DEF n
  <2>. QED
      BY <2>2 DEF Surjection
<1>7. sigs \in Seq(1..Len(ch)) /\ DOMAIN sigs = 1..n
  <2>1. sigs \in [1..n -> 1..Len(ch)]
      BY <1>2, <1>3
  <2>. QED
      BY <1>1, <2>1
<1>8. ASSUME NEW k \in 1..n, NEW j \in Due(ch, ch[sigs[k]].slot), j \notin done
      PROVE  j \in {sigs[l] : l \in 1..k}
  <2>1. j \in DOMAIN ch /\ ch[j].ok /\ AloneIn(ch, j) /\ ch[j].slot <= ch[sigs[k]].slot
      BY DEF Due
  <2>2. j \in S
    <3>. SUFFICES ASSUME j \notin S
                  PROVE  FALSE
        OBVIOUS
    <3>1. j <= from /\ from # 0 /\ from \in DOMAIN ch
        BY <1>1, <1>5, <2>1
    <3>2. ch[j].slot <= ch[from].slot
        BY <2>1, <3>1 DEF Chains
    <3>3. j \in Due(ch, SlotIn(ch, from))
        BY <1>4, <2>1, <3>1, <3>2 DEF Due
    <3>. QED
        BY <3>3, <1>8 DEF Covered
  <2>3. PICK l \in 1..n : sigs[l] = j
      BY <1>6, <2>2
  <2>4. sigs[k] \in DOMAIN ch
      BY <1>1, <1>2, <1>3
  <2>5. ~BeforeIn(ch, sigs[k], j)
    <3>1. SlotIn(ch, j) = SlotIn(ch, sigs[k]) => sigs[k] = j
        BY <2>1, <2>4 DEF AloneIn
    <3>2. SlotIn(ch, j) \in Nat /\ SlotIn(ch, sigs[k]) \in Nat
          /\ SlotIn(ch, j) <= SlotIn(ch, sigs[k])
        BY <1>4, <2>1, <2>4
    <3>3. j \in Int
        BY <1>1, <2>1
    <3>. QED
        BY <3>1, <3>2, <3>3 DEF BeforeIn
  <2>6. ~(k < l)
      BY <1>7, <2>3, <2>5 DEF Sorted
  <2>7. l \in 1..k
      BY <1>1, <2>6
  <2>. QED
      BY <2>3, <2>7
<1>. QED
    BY <1>7, <1>8 DEF Ahead

\* Nothing has happened, is indexed or is due at the start.
LEMMA IndexerStarts ==
    ASSUME IndexerInit
    PROVE  IndexerInv
<1>. USE DEF IndexerInit
<1>1. chain \in Chains
    BY DEF Chains
<1>2. Len(chain) = 0
    OBVIOUS
<1>3. Due(chain, 0) = {} /\ SlotIn(chain, 0) = 0
    BY DEF Due, SlotIn
<1>4. Covered(chain, Known, 0)
    BY <1>3 DEF Covered
<1>5. Shaped(row) /\ row["bet"] = NoRow
    BY DEF Shaped, NoRow, RowFields, Accounts
<1>6. BetFine(chain, Known, row["bet"])
    BY <1>2, <1>4, <1>5 DEF BetFine, NoRow
<1>7. \A r \in Runs : RunFine(chain, Known, run[r])
    BY DEF AllOff, Off, RunFine, Busy
<1>. QED
    BY <1>1, <1>2, <1>4, <1>5, <1>6, <1>7 DEF IndexerInv, AllOff

\* A transaction lands: the tables and the runs do not see it.
LEMMA LandKeeps ==
    ASSUME IndexerInv, NEW kind, NEW at \in Accounts, NEW amount \in Nat,
           NEW ok \in BOOLEAN, kind = "cashout" => at = "cash",
           kind \in {"fill", "grade", "cashout", "claim", "revert", "settle", "failed"},
           Land(kind, at, amount, ok)
    PROVE  IndexerInv'
<1>. DEFINE n == Len(chain)
            slot == SlotOf(n) + (IF sealed THEN 1 ELSE 0)
            t == [kind |-> kind, at |-> at, amount |-> amount, ok |-> ok, slot |-> slot]
<1>1. /\ chain' = Append(chain, t) /\ sealed' = FALSE
      /\ UNCHANGED <<row, escrowRow, mark, run, missed, dropped, indexed, mishaps>>
    BY DEF Land
<1>2. chain \in Seq(Tx) /\ n \in Nat /\ DOMAIN chain = 1..n
  <2>1. chain \in Seq(Tx)
      BY DEF IndexerInv, Chains
  <2>. QED
      BY <2>1
<1>3. slot \in Nat \ {0} /\ SlotOf(n) \in Nat /\ SlotOf(n) <= slot
  <2>1. CASE n = 0
    <3>1. chain = <<>>
        BY <1>2, <2>1
    <3>. QED
        BY <2>1, <3>1 DEF SlotOf, IndexerInv
  <2>2. CASE n # 0
    <3>1. chain[n] \in Tx
        BY <1>2, <2>2
    <3>2. SlotOf(n) \in Nat \ {0}
        BY <2>2, <3>1 DEF SlotOf, Tx
    <3>. HIDE DEF n
    <3>. QED
        BY <3>2 DEF IndexerInv
  <2>. QED
      BY <2>1, <2>2
<1>. HIDE DEF slot
<1>4. t \in Tx
    BY <1>3 DEF Tx
<1>5. \A i \in 1..n : chain[i].slot <= slot
  <2>. SUFFICES ASSUME NEW i \in 1..n
                PROVE  chain[i].slot <= slot
      OBVIOUS
  <2>1. i <= n /\ n # 0 /\ n \in DOMAIN chain /\ i \in DOMAIN chain
      BY <1>2
  <2>2. chain[i].slot <= chain[n].slot
      BY <2>1 DEF IndexerInv, Chains
  <2>3. chain[i] \in Tx
      BY <1>2
  <2>4. chain[i].slot \in Nat /\ chain[n].slot = SlotOf(n)
      BY <2>1, <2>3 DEF Tx, SlotOf
  <2>. QED
      BY <1>3, <2>2, <2>4
<1>. DEFINE dh == Append(chain, t)
<1>6. dh \in Seq(Tx) /\ DOMAIN dh = 1..(n + 1) /\ Len(dh) = n + 1
      /\ dh[n + 1] = t /\ \A i \in 1..n : dh[i] = chain[i]
    BY <1>2, <1>4
<1>7. t.slot = slot /\ t.kind = kind /\ t.at = at
    OBVIOUS
<1>. HIDE DEF dh, t, n
<1>8. \A i, j \in DOMAIN dh : i <= j => dh[i].slot <= dh[j].slot
  <2>. SUFFICES ASSUME NEW i \in DOMAIN dh, NEW j \in DOMAIN dh, i <= j
                PROVE  dh[i].slot <= dh[j].slot
      OBVIOUS
  <2>1. CASE j = n + 1
      BY <1>2, <1>3, <1>5, <1>6, <1>7, <2>1
  <2>2. CASE j # n + 1
    <3>1. i \in 1..n /\ j \in 1..n
        BY <1>2, <1>6, <2>2
    <3>2. chain[i].slot <= chain[j].slot
        BY <1>2, <3>1 DEF IndexerInv, Chains
    <3>. QED
        BY <1>6, <3>1, <3>2
  <2>. QED
      BY <2>1, <2>2
<1>9. \A i \in DOMAIN dh : dh[i].kind = "cashout" => dh[i].at = "cash"
  <2>1. \A i \in 1..n : chain[i].kind = "cashout" => chain[i].at = "cash"
      BY <1>2 DEF IndexerInv, Chains
  <2>2. \A i \in DOMAIN dh : i = n + 1 \/ i \in 1..n
      BY <1>2, <1>6
  <2>. QED
      BY <1>6, <1>7, <2>1, <2>2
<1>10. dh \in Chains /\ chain \in Chains
    BY <1>6, <1>8, <1>9 DEF Chains, IndexerInv
<1>11. /\ \A k \in 0..n : Covered(chain, Known, k) => Covered(dh, Known, k)
       /\ \A q : RunFine(chain, Known, q) => RunFine(dh, Known, q)
       /\ \A b : BetFine(chain, Known, b) => BetFine(dh, Known, b)
    BY <1>10, GrowthKeeps DEF dh, n
<1>12. chain' = dh /\ Known' = Known /\ row' = row /\ mark' = mark /\ run' = run
    BY <1>1 DEF Known, dh
<1>13. chain' # <<>>
    BY <1>2, <1>6, <1>12
<1>14. mark \in 0..n /\ mark \in 0..Len(dh)
    BY <1>2, <1>6 DEF IndexerInv, n
<1>15. Covered(dh, Known, mark) /\ BetFine(dh, Known, row["bet"])
       /\ \A r \in Runs : RunFine(dh, Known, run[r])
    BY <1>11, <1>14 DEF IndexerInv
<1>. QED
    BY <1>1, <1>10, <1>12, <1>13, <1>14, <1>15 DEF IndexerInv

\* A transaction that lands comes after everything that is due so far.
LEMMA HappensKeeps ==
    ASSUME IndexerAssumption, IndexerInv, Happens
    PROVE  IndexerInv'
<1>. USE DEF Accounts
<1>1. Stake \in Nat /\ 0 \in Nat
    BY DEF IndexerAssumption
<1>2. CASE BetFill
    BY <1>1, <1>2, LandKeeps DEF BetFill
<1>3. CASE Claim
    BY <1>1, <1>3, LandKeeps DEF Claim
<1>4. CASE Revert
    BY <1>1, <1>4, LandKeeps DEF Revert
<1>5. CASE Fails
    BY <1>1, <1>5, LandKeeps DEF Fails
<1>6. CASE Seal
    BY <1>6 DEF Seal, IndexerInv, Known
<1>7. ASSUME NEW t \in Accounts, Grade(t) PROVE IndexerInv'
    BY <1>1, <1>7, LandKeeps DEF Grade
<1>8. ASSUME NEW t \in Accounts, Settle(t) PROVE IndexerInv'
    BY <1>1, <1>8, LandKeeps DEF Settle
<1>9. ASSUME NEW amount \in 1..Stake, NEW delayed \in BOOLEAN, Cashout(amount, delayed)
      PROVE  IndexerInv'
  <2>1. amount \in Nat
      BY <1>1
  <2>2. Land("cashout", "cash", amount, TRUE)
      BY <1>9 DEF Cashout
  <2>. QED
      BY <2>1, <2>2, LandKeeps
<1>. QED
    BY <1>2, <1>3, <1>4, <1>5, <1>6, <1>7, <1>8, <1>9 DEF Happens

\* A step of the indexer keeps what it knows, if each run is as it should be.
LEMMA RunsKeep ==
    ASSUME IndexerInv, UNCHANGED chainVars, Known \subseteq Known',
           mark' \in 0..Len(chain), Covered(chain, Known', mark'),
           Shaped(row'), BetFine(chain, Known', row'["bet"]),
           DOMAIN run' = Runs,
           \A r \in Runs : run'[r] = run[r] \/ RunFine(chain, Known', run'[r])
    PROVE  IndexerInv'
<1>1. chain' = chain /\ sealed' = sealed
    BY DEF chainVars
<1>2. \A r \in Runs : RunFine(chain, Known', run'[r])
  <2>1. \A r \in Runs : RunFine(chain, Known, run[r])
      BY DEF IndexerInv
  <2>2. \A q : RunFine(chain, Known, q) => RunFine(chain, Known', q)
      BY MoreKnown
  <2>. QED
      BY <2>1, <2>2
<1>3. \A r \in Runs : RunFine(chain', Known', run'[r])
    BY <1>1, <1>2
<1>. QED
    BY <1>1, <1>3 DEF IndexerInv

\* When nothing else is known and the tables stay, only the run matters.
LEMMA RunMoves ==
    ASSUME IndexerInv, UNCHANGED <<chainVars, row, mark, indexed>>,
           UNCHANGED <<missed, dropped>>, NEW r \in Runs, NEW q, run' = [run EXCEPT ![r] = q],
           RunFine(chain, Known, q)
    PROVE  IndexerInv'
<1>1. Known' = Known
    BY DEF Known
<1>2. \A x \in Runs : run'[x] = run[x] \/ RunFine(chain, Known', run'[x])
    BY <1>1 DEF IndexerInv
<1>3. mark' \in 0..Len(chain) /\ Covered(chain, Known', mark')
      /\ Shaped(row') /\ BetFine(chain, Known', row'["bet"]) /\ DOMAIN run' = Runs
    BY <1>1 DEF IndexerInv
<1>. QED
    BY <1>1, <1>2, <1>3, RunsKeep

\* A run that is off is as it should be, and so are all after a restart.
LEMMA OffIsFine ==
    ASSUME NEW ch, NEW done
    PROVE  RunFine(ch, done, Off)
BY DEF RunFine, Off, Busy

\* The transaction a busy run is at.
LEMMA AtSig ==
    ASSUME IndexerInv, NEW r \in Runs, run[r].stage \in Busy
    PROVE  /\ Sig(r) \in 1..Len(chain) /\ Sig(r) \in DOMAIN chain
           /\ Sig(r) \in 0..Len(chain) /\ chain \in Chains /\ chain[Sig(r)] \in Tx
           /\ run[r].sigs \in Seq(1..Len(chain)) /\ run[r].sigs # <<>>
           /\ Ahead(chain, Known, run[r].sigs)
<1>1. RunFine(chain, Known, run[r]) /\ chain \in Chains
    BY DEF IndexerInv
<1>2. run[r].sigs \in Seq(1..Len(chain)) /\ run[r].sigs # <<>>
      /\ Ahead(chain, Known, run[r].sigs)
    BY <1>1 DEF RunFine
<1>3. Sig(r) \in 1..Len(chain)
    BY <1>2 DEF Sig
<1>4. chain \in Seq(Tx)
    BY <1>1 DEF Chains
<1>5. Sig(r) \in DOMAIN chain /\ Sig(r) \in 0..Len(chain) /\ chain[Sig(r)] \in Tx
    BY <1>3, <1>4
<1>. QED
    BY <1>1, <1>2, <1>3, <1>5

\* Done with a transaction, a run moves on; the watermark may follow.
LEMMA DoneMoves ==
    ASSUME IndexerInv, NEW r \in Runs, run[r].stage \in Busy, UNCHANGED chainVars,
           Known \subseteq Known', Sig(r) \in Known' \/ ~chain[Sig(r)].ok,
           mark' = Advanced(Sig(r)) \/ mark' = mark,
           Proceed(r) \/ run' = AllOff,
           Shaped(row'), BetFine(chain, Known', row'["bet"])
    PROVE  IndexerInv'
<1>1. chain \in Chains /\ run[r].sigs \in Seq(1..Len(chain)) /\ run[r].sigs # <<>>
      /\ Ahead(chain, Known, run[r].sigs) /\ Sig(r) = Head(run[r].sigs)
      /\ Sig(r) \in 0..Len(chain)
    BY AtSig DEF Sig
<1>2. /\ Covered(chain, Known', Sig(r))
      /\ RunFine(chain, Known', Rest(Tail(run[r].sigs)))
    BY <1>1, HeadDone
<1>3. mark' \in 0..Len(chain) /\ Covered(chain, Known', mark')
  <2>1. mark \in 0..Len(chain) /\ Covered(chain, Known, mark)
      BY DEF IndexerInv
  <2>2. Covered(chain, Known', mark)
      BY <2>1, MoreKnown
  <2>. QED
      BY <1>1, <1>2, <2>1, <2>2 DEF Advanced
<1>4. DOMAIN run' = Runs
      /\ \A x \in Runs : run'[x] = run[x] \/ RunFine(chain, Known', run'[x])
  <2>1. CASE Proceed(r)
      BY <1>2, <2>1 DEF Proceed, IndexerInv
  <2>2. CASE run' = AllOff
      BY <2>2, OffIsFine DEF AllOff
  <2>. QED
      BY <2>1, <2>2
<1>. QED
    BY <1>3, <1>4, RunsKeep

\* Where a run resumes, everything due is known.
LEMMA StartKeeps ==
    ASSUME IndexerInv, NEW r \in Runs, Start(r)
    PROVE  IndexerInv'
<1>. DEFINE q == [stage |-> "list", from |-> ResumePoint, sigs |-> <<>>]
<1>1. ResumePoint \in 0..Len(chain) /\ Covered(chain, Known, ResumePoint)
    BY DEF ResumePoint, IndexerInv, BetFine
<1>2. RunFine(chain, Known, q)
    BY <1>1 DEF RunFine, Busy
<1>. HIDE DEF q
<1>3. run' = [run EXCEPT ![r] = q] /\ UNCHANGED <<missed, dropped>>
      /\ UNCHANGED <<chainVars, row, mark, indexed>>
    BY DEF Start, q
<1>. QED
    BY <1>2, <1>3, RunMoves

\* A listing leaves nothing out, and a failed one ends the run.
LEMMA ListKeeps ==
    ASSUME IndexerInv, NEW r \in Runs, List(r)
    PROVE  IndexerInv'
<1>. DEFINE from == run[r].from
            sigs == SigsSince(from)
<1>1. RunFine(chain, Known, run[r]) /\ run[r].stage = "list" /\ chain \in Chains
    BY DEF IndexerInv, List
<1>2. from \in 0..Len(chain) /\ Covered(chain, Known, from)
    BY <1>1 DEF RunFine
<1>3. \A i, j : Before(i, j) = BeforeIn(chain, i, j)
    BY DEF Before, BeforeIn, SlotOf, SlotIn
<1>4. SigsSince(from) = CHOOSE s \in SetToSeqs((from + 1)..Len(chain)) : Sorted(chain, s)
    BY <1>3, Zenon DEF SigsSince, Sorted
<1>5. sigs \in SetToSeqs((from + 1)..Len(chain)) /\ Sorted(chain, sigs)
  <2>. HIDE DEF from
  <2>1. \E s \in SetToSeqs((from + 1)..Len(chain)) : Sorted(chain, s)
      BY <1>1, <1>2, SortedExists
  <2>. QED
      BY <1>4, <2>1
<1>6. sigs \in Seq(1..Len(chain)) /\ Ahead(chain, Known, sigs)
  <2>. HIDE DEF from, sigs
  <2>. QED
      BY <1>1, <1>2, <1>5, ListAhead
<1>7. RunFine(chain, Known, Rest(sigs))
  <2>. HIDE DEF sigs
  <2>1. CASE sigs = <<>>
      BY <2>1, OffIsFine DEF Rest
  <2>2. CASE sigs # <<>>
      BY <1>6, <2>2 DEF Rest, RunFine, Busy
  <2>. QED
      BY <2>1, <2>2
<1>8. UNCHANGED <<missed, dropped>> /\ UNCHANGED <<chainVars, row, mark, indexed>>
      /\ (run' = [run EXCEPT ![r] = Rest(sigs)] \/ run' = [run EXCEPT ![r] = Off])
    BY DEF List
<1>. HIDE DEF sigs
<1>. QED
    BY <1>7, <1>8, OffIsFine, RunMoves

\* A fetch that fails: nothing to index, or a transaction that stays missed.
LEMMA MissKeeps ==
    ASSUME IndexerInv, NEW r \in Runs, TerminalMiss(r) \/ TransientMiss(r)
    PROVE  IndexerInv'
<1>1. run[r].stage \in Busy /\ UNCHANGED <<chainVars, row, indexed>> /\ Proceed(r)
    BY DEF TerminalMiss, TransientMiss, At, Busy
<1>2. Known \subseteq Known' /\ (Sig(r) \in Known' \/ ~chain[Sig(r)].ok)
      /\ (mark' = Advanced(Sig(r)) \/ mark' = mark)
    BY DEF TerminalMiss, TransientMiss, Known
<1>3. Shaped(row') /\ BetFine(chain, Known', row'["bet"])
    BY <1>1, <1>2, MoreKnown DEF IndexerInv
<1>. QED
    BY <1>1, <1>2, <1>3, DoneMoves

\* A run that ends early changes nothing else.
LEMMA AbortKeeps ==
    ASSUME IndexerInv, NEW r \in Runs, Aborts(r)
    PROVE  IndexerInv'
<1>1. run' = [run EXCEPT ![r] = Off] /\ UNCHANGED <<missed, dropped>>
      /\ UNCHANGED <<chainVars, row, mark, indexed>>
    BY DEF Aborts
<1>. QED
    BY <1>1, OffIsFine, RunMoves

\* To read the account first changes nothing but the stage.
LEMMA ReadsKeep ==
    ASSUME IndexerInv, NEW r \in Runs, ReadsAccount(r)
    PROVE  IndexerInv'
<1>1. RunFine(chain, Known, run[r]) /\ run[r].stage = "fetch"
      /\ chain[Head(run[r].sigs)].kind \in {"fill", "cashout"}
    BY DEF IndexerInv, ReadsAccount, At, Sig
<1>. DEFINE q == [run[r] EXCEPT !.stage = "account"]
<1>2. RunFine(chain, Known, q)
    BY <1>1 DEF RunFine, Busy
<1>. HIDE DEF q
<1>3. run' = [run EXCEPT ![r] = q] /\ UNCHANGED <<missed, dropped>>
      /\ UNCHANGED <<chainVars, row, mark, indexed>>
    BY DEF ReadsAccount, q
<1>. QED
    BY <1>2, <1>3, RunMoves

\* What the tables keep while transaction i is indexed: the bet's row names only
\* transactions that it named before, or i, or none; amounts freeze.
Named(r) == {r.created, r.graded, r.claimed}
RowsKeep(i) ==
    /\ Shaped(row') /\ RowsFrozen
    /\ Named(row'["bet"]) \subseteq {0, i} \cup Named(row["bet"])

\* One row is written.
LEMMA WriteKeeps ==
    ASSUME Shaped(row), NEW t \in Accounts, NEW i, NEW r, DOMAIN r = RowFields,
           Named(r) \subseteq {0, i} \cup Named(row[t]),
           row[t].status \notin {"none", "pending"} => r.amount = row[t].amount,
           Write(t, r)
    PROVE  RowsKeep(i)
<1>1. row' = [row EXCEPT ![t] = r] /\ DOMAIN row = Accounts
    BY DEF Write, Shaped
<1>2. \A x \in Accounts : row'[x] = IF x = t THEN r ELSE row[x]
    BY <1>1
<1>3. Shaped(row')
    BY <1>1, <1>2 DEF Shaped
<1>4. RowsFrozen
    BY <1>2 DEF RowsFrozen
<1>5. Named(row'["bet"]) \subseteq {0, i} \cup Named(row["bet"])
    BY <1>2 DEF Accounts
<1>. QED
    BY <1>3, <1>4, <1>5 DEF RowsKeep

\* An UPDATE of a row: of the status and of what the row names, not of the amount.
LEMMA UpdateKeeps ==
    ASSUME Shaped(row), NEW t \in Accounts, NEW i, NEW r, DOMAIN r = RowFields,
           Named(r) \subseteq {0, i} \cup Named(row[t]),
           row[t].status \notin {"none", "pending"} => r.amount = row[t].amount,
           Update(t, r)
    PROVE  RowsKeep(i)
<1>1. CASE row[t].status = "none"
  <2>1. DOMAIN NoRow = RowFields /\ Named(NoRow) = {0}
      BY DEF NoRow, RowFields, Named
  <2>2. Write(t, NoRow)
      BY <1>1 DEF Update
  <2>. HIDE DEF NoRow
  <2>. QED
      BY <1>1, <2>1, <2>2, WriteKeeps
<1>2. CASE row[t].status # "none"
  <2>1. Write(t, r)
      BY <1>2 DEF Update
  <2>. QED
      BY <2>1, WriteKeeps
<1>. QED
    BY <1>1, <1>2

\* A graded row names the signature that graded it, and what it named before.
LEMMA ResultKeeps ==
    ASSUME Shaped(row), NEW t \in Accounts, NEW i, Result(t, i)
    PROVE  RowsKeep(i)
<1>. DEFINE r == [row[t] EXCEPT !.status = "graded", !.graded = i, !.slot = SlotOf(i)]
<1>1. DOMAIN row[t] = RowFields
    BY DEF Shaped
<1>2. DOMAIN r = RowFields /\ r.amount = row[t].amount /\ r.created = row[t].created
      /\ r.graded = i /\ r.claimed = row[t].claimed
    BY <1>1 DEF RowFields
<1>3. Update(t, r)
    BY DEF Result
<1>. HIDE DEF r
<1>4. Named(r) \subseteq {0, i} \cup Named(row[t])
    BY <1>2 DEF Named
<1>. QED
    BY <1>2, <1>3, <1>4, UpdateKeeps

\* So does a claimed row.
LEMMA SettledKeeps ==
    ASSUME Shaped(row), NEW t \in Accounts, NEW i, Settled(t, i)
    PROVE  RowsKeep(i)
<1>. DEFINE r == [row[t] EXCEPT !.status = "claimed", !.claimed = i, !.slot = SlotOf(i)]
<1>1. DOMAIN row[t] = RowFields
    BY DEF Shaped
<1>2. DOMAIN r = RowFields /\ r.amount = row[t].amount /\ r.created = row[t].created
      /\ r.graded = row[t].graded /\ r.claimed = i
    BY <1>1 DEF RowFields
<1>3. Update(t, r)
    BY DEF Settled
<1>. HIDE DEF r
<1>4. Named(r) \subseteq {0, i} \cup Named(row[t])
    BY <1>2 DEF Named
<1>. QED
    BY <1>2, <1>3, <1>4, UpdateKeeps

\* A bet that was cashed out keeps its amount and names one signature more.
LEMMA CashedOutIs ==
    ASSUME Shaped(row), NEW i
    PROVE  /\ DOMAIN CashedOut(i) = RowFields /\ CashedOut(i).amount = row["bet"].amount
           /\ Named(CashedOut(i)) \subseteq {0, i} \cup Named(row["bet"])
<1>1. DOMAIN row["bet"] = RowFields
    BY DEF Shaped, Accounts
<1>. QED
    BY <1>1 DEF CashedOut, RowFields, Named

\* Writing it keeps what the rows name.
LEMMA ClaimKeeps ==
    ASSUME Shaped(row), NEW i, Update("bet", CashedOut(i))
    PROVE  RowsKeep(i)
<1>1. "bet" \in Accounts
    BY DEF Accounts
<1>. QED
    BY <1>1, CashedOutIs, UpdateKeeps

\* A cashout that was taken back keeps its amount.
LEMMA CashRevertedIs ==
    ASSUME NEW i, DOMAIN row["cash"] = RowFields
    PROVE  DOMAIN CashReverted(i) = RowFields /\ CashReverted(i).amount = row["cash"].amount
BY DEF CashReverted, RowFields

\* A cashout taken back changes the rows of the bet and of the cashout and keeps
\* what both name, but for the claim it undoes.
LEMMA RevertKeeps ==
    ASSUME Shaped(row), NEW i, Reverted(i)
    PROVE  RowsKeep(i)
<1>. DEFINE b == row["bet"]
            c == row["cash"]
            newB == BetReverted(i)
            newC == CashReverted(i)
<1>1. DOMAIN b = RowFields /\ DOMAIN c = RowFields
    BY DEF Shaped, Accounts
<1>2. DOMAIN newB = RowFields /\ newB.amount = b.amount /\ newB.created = b.created
      /\ newB.graded = b.graded /\ newB.claimed \in {0, b.claimed}
    BY <1>1 DEF RowFields, BetReverted
<1>3. DOMAIN newC = RowFields /\ newC.amount = c.amount
    BY <1>1, CashRevertedIs
<1>4. row' = [bet |-> newB, cash |-> newC]
    BY DEF Reverted
<1>. HIDE DEF newB, newC
<1>5. row'["bet"] = newB /\ row'["cash"] = newC /\ DOMAIN row' = Accounts
    BY <1>4 DEF Accounts
<1>6. Shaped(row') /\ RowsFrozen
    BY <1>2, <1>3, <1>5 DEF Shaped, RowsFrozen, Accounts
<1>. QED
    BY <1>2, <1>5, <1>6 DEF RowsKeep, Named

\* A new row names the signature that created it, and an old one is left alone.
LEMMA AddAccountKeeps ==
    ASSUME Shaped(row), NEW t \in Accounts, NEW i, NEW amount, NEW fresh \in BOOLEAN,
           AddAccount(t, i, amount, fresh)
    PROVE  RowsKeep(i)
<1>1. DOMAIN row[t] = RowFields
    BY DEF Shaped
<1>2. CASE row[t].status = "none"
  <2>. DEFINE r == [NoRow EXCEPT !.status = "pending", !.amount = amount,
                                 !.slot = SlotOf(i), !.created = i]
  <2>1. DOMAIN r = RowFields /\ Named(r) \subseteq {0, i}
      BY DEF NoRow, RowFields, Named
  <2>2. Write(t, r)
      BY <1>2 DEF AddAccount
  <2>. HIDE DEF r
  <2>. QED
      BY <1>2, <2>1, <2>2, WriteKeeps
<1>3. CASE row[t].status # "none" /\ fresh /\ row[t].status = "pending"
           /\ SlotOf(i) >= row[t].slot
  <2>. DEFINE r == [row[t] EXCEPT !.amount = amount, !.slot = SlotOf(i)]
  <2>1. DOMAIN r = RowFields /\ Named(r) = Named(row[t])
      BY <1>1 DEF RowFields, Named
  <2>2. Write(t, r)
      BY <1>3 DEF AddAccount
  <2>. HIDE DEF r
  <2>. QED
      BY <1>3, <2>1, <2>2, WriteKeeps
<1>4. CASE row[t].status # "none" /\ ~(fresh /\ row[t].status = "pending"
                                        /\ SlotOf(i) >= row[t].slot)
  <2>1. Write(t, row[t])
      BY <1>4 DEF AddAccount
  <2>. QED
      BY <1>1, <2>1, WriteKeeps
<1>. QED
    BY <1>2, <1>3, <1>4

\* A cashout takes its amount off the bet's row and keeps what the row names.
LEMMA CashoutFillKeeps ==
    ASSUME Shaped(row), NEW i, NEW delayed \in BOOLEAN, CashoutFill(i, delayed)
    PROVE  RowsKeep(i)
<1>. DEFINE r == row["bet"]
            remain == r.amount - chain[i].amount
            less == [r EXCEPT !.amount = remain, !.slot = SlotOf(i)]
<1>1. "bet" \in Accounts /\ DOMAIN r = RowFields
    BY DEF Shaped, Accounts
<1>2. DOMAIN less = RowFields /\ Named(less) = Named(r)
    BY <1>1 DEF RowFields, Named
<1>. HIDE DEF remain
<1>3. \/ Update("bet", r)
      \/ Update("bet", CashedOut(i))
      \/ r.status = "pending" /\ Update("bet", less)
    BY DEF CashoutFill, remain
<1>4. CASE Update("bet", r)
    BY <1>1, <1>4, UpdateKeeps
<1>5. CASE Update("bet", CashedOut(i))
    BY <1>5, ClaimKeeps
<1>6. CASE r.status = "pending" /\ Update("bet", less)
  <2>. HIDE DEF less
  <2>. QED
      BY <1>1, <1>2, <1>6, UpdateKeeps
<1>. QED
    BY <1>3, <1>4, <1>5, <1>6

\* Nothing that can be due is in slot 0.
LEMMA NothingAtZero ==
    ASSUME NEW ch \in Chains, NEW done
    PROVE  Covered(ch, done, 0)
<1>1. ch \in Seq(Tx)
    BY DEF Chains
<1>2. \A j \in DOMAIN ch : ch[j] \in Tx
    BY <1>1
<1>. QED
    BY <1>2 DEF Covered, Due, SlotIn, Tx

\* The rows of a transaction are written and it is indexed, whether or not the
\* process then stops.
LEMMA FinishKeeps ==
    ASSUME IndexerInv, NEW r \in Runs, run[r].stage \in Busy, RowsKeep(Sig(r)),
           Finish(r, Sig(r))
    PROVE  IndexerInv'
<1>. DEFINE i == Sig(r)
<1>1. /\ chain \in Chains /\ run[r].sigs \in Seq(1..Len(chain)) /\ run[r].sigs # <<>>
      /\ Ahead(chain, Known, run[r].sigs) /\ i = Head(run[r].sigs) /\ i \in 0..Len(chain)
    BY AtSig DEF Sig
<1>2. /\ indexed' = indexed \cup {i} /\ missed' = missed /\ dropped' = dropped
      /\ UNCHANGED chainVars
      /\ (mark' = Advanced(i) /\ Proceed(r)) \/ (run' = AllOff /\ mark' = mark)
    BY DEF Finish
<1>3. Known \subseteq Known' /\ i \in Known'
    BY <1>2 DEF Known
<1>4. Covered(chain, Known', i)
    BY <1>1, <1>3, HeadDone
<1>. HIDE DEF i
<1>5. BetFine(chain, Known', row["bet"])
    BY <1>3, MoreKnown DEF IndexerInv
<1>6. \A k \in {0, i} \cup Named(row["bet"]) :
          k \in 0..Len(chain) /\ Covered(chain, Known', k)
  <2>1. Covered(chain, Known', 0) /\ 0 \in 0..Len(chain)
    <3>1. chain \in Seq(Tx)
        BY <1>1 DEF Chains
    <3>. QED
        BY <1>1, <3>1, NothingAtZero
  <2>. QED
      BY <1>1, <1>4, <1>5, <2>1 DEF BetFine, Named
<1>7. Shaped(row') /\ BetFine(chain, Known', row'["bet"])
    BY <1>6 DEF RowsKeep, BetFine, Named, i
<1>. QED
    BY <1>2, <1>3, <1>7, DoneMoves DEF i

\* Indexing a grading, a settlement or a revert keeps what the rows name and
\* finishes with its signature.
LEMMA IndexUpdateKeeps ==
    ASSUME IndexerInv, NEW r \in Runs, IndexUpdate(r)
    PROVE  RowsKeep(Sig(r)) /\ run[r].stage \in Busy /\ Finish(r, Sig(r))
<1>. DEFINE i == Sig(r)
            tx == chain[i]
<1>1. run[r].stage \in Busy /\ Shaped(row)
    BY DEF IndexUpdate, At, Busy, IndexerInv
<1>2. tx.at \in Accounts
    BY <1>1, AtSig DEF Tx
<1>3. /\ \/ Result(tx.at, i) \/ Settled(tx.at, i) \/ Reverted(i)
         \/ Update("bet", CashedOut(i))
      /\ Finish(r, i)
    BY DEF IndexUpdate
<1>. HIDE DEF i, tx
<1>4. RowsKeep(i)
    BY <1>1, <1>2, <1>3, ResultKeeps, SettledKeeps, RevertKeeps, ClaimKeeps
<1>. QED
    BY <1>1, <1>3, <1>4 DEF i

\* A fill is done with its account; a cashout, whose account is not the bet's,
\* goes on to the escrow.
LEMMA IndexAccountKeeps ==
    ASSUME IndexerInv, NEW r \in Runs, IndexAccount(r)
    PROVE  IndexerInv' /\ RowsKeep(Sig(r))
<1>. DEFINE i == Sig(r)
            tx == chain[i]
<1>1. run[r].stage = "account" /\ run[r].stage \in Busy /\ Shaped(row)
    BY DEF IndexAccount, At, Busy, IndexerInv
<1>2. tx.at \in Accounts /\ (tx.kind = "cashout" => tx.at = "cash")
  <2>1. i \in DOMAIN chain /\ chain \in Chains /\ chain[i] \in Tx
      BY <1>1, AtSig
  <2>. QED
      BY <2>1 DEF Tx, Chains
<1>3. tx.kind \in {"fill", "cashout"}
    BY <1>1 DEF IndexerInv, RunFine, Sig
<1>4. PICK fresh \in BOOLEAN :
          AddAccount(tx.at, i, IF fresh THEN account[tx.at].amount ELSE tx.amount, fresh)
    BY DEF IndexAccount
<1>5. RowsKeep(i)
  <2>. DEFINE amount == IF fresh THEN account[tx.at].amount ELSE tx.amount
  <2>1. AddAccount(tx.at, i, amount, fresh)
      BY <1>4
  <2>. HIDE DEF i, tx, amount
  <2>. QED
      BY <1>1, <1>2, <2>1, AddAccountKeeps
<1>6. CASE tx.kind = "fill"
  <2>1. Finish(r, i)
      BY <1>6 DEF IndexAccount
  <2>. QED
      BY <1>1, <1>5, <2>1, FinishKeeps
<1>7. CASE tx.kind = "cashout"
  <2>1. /\ run' = [run EXCEPT ![r].stage = "escrow"]
        /\ UNCHANGED <<chainVars, mark, missed, dropped, indexed, mishaps>>
      BY <1>7 DEF IndexAccount
  <2>2. row'["bet"] = row["bet"]
    <3>1. tx.at = "cash"
        BY <1>2, <1>7
    <3>2. PICK x : row' = [row EXCEPT !["cash"] = x]
        BY <1>4, <3>1 DEF AddAccount, Write
    <3>. QED
        BY <3>2, <1>1 DEF Shaped, Accounts
  <2>. DEFINE q == [run[r] EXCEPT !.stage = "escrow"]
  <2>3. RunFine(chain, Known, q)
    <3>1. RunFine(chain, Known, run[r])
        BY DEF IndexerInv
    <3>. QED
        BY <1>1, <3>1 DEF RunFine, Busy
  <2>. HIDE DEF q
  <2>4. run' = [run EXCEPT ![r] = q]
      BY <2>1 DEF q
  <2>5. Known' = Known /\ mark' = mark
      BY <2>1 DEF Known
  <2>6. \A x \in Runs : run'[x] = run[x] \/ RunFine(chain, Known', run'[x])
      BY <2>3, <2>4, <2>5 DEF IndexerInv
  <2>7. /\ mark' \in 0..Len(chain) /\ Covered(chain, Known', mark') /\ DOMAIN run' = Runs
        /\ Shaped(row') /\ BetFine(chain, Known', row'["bet"])
      BY <1>5, <2>2, <2>4, <2>5 DEF IndexerInv, RowsKeep
  <2>8. IndexerInv'
      BY <2>1, <2>5, <2>6, <2>7, RunsKeep
  <2>. QED
      BY <1>5, <2>8
<1>. QED
    BY <1>3, <1>6, <1>7

\* So does indexing a cashout.
LEMMA IndexCashoutKeeps ==
    ASSUME IndexerInv, NEW r \in Runs, IndexCashout(r)
    PROVE  RowsKeep(Sig(r)) /\ run[r].stage \in Busy /\ Finish(r, Sig(r))
<1>1. run[r].stage \in Busy /\ Shaped(row)
    BY DEF IndexCashout, At, Busy, IndexerInv
<1>2. Finish(r, Sig(r)) /\ \E live \in BOOLEAN : CashoutFill(Sig(r), live)
    BY DEF IndexCashout
<1>. QED
    BY <1>1, <1>2, CashoutFillKeeps

\* An indexing that throws has left the bet's row alone, and frozen the amounts;
\* the run moves on with its transaction dropped, or all stop.
LEMMA IndexThrowsKeeps ==
    ASSUME IndexerInv, NEW r \in Runs, IndexThrows(r)
    PROVE  IndexerInv' /\ RowsFrozen
<1>1. run[r].stage \in Busy /\ Shaped(row) /\ GiveUp(r, Sig(r))
    BY DEF IndexThrows, Busy, IndexerInv
<1>2. DOMAIN row["cash"] = RowFields /\ "cash" \in Accounts
    BY <1>1 DEF Shaped, Accounts
<1>3. row' = row \/ Write("cash", CashReverted(Sig(r)))
    BY DEF IndexThrows
<1>4. Shaped(row') /\ RowsFrozen /\ row'["bet"] = row["bet"]
  <2>1. CASE row' = row
      BY <1>1, <2>1 DEF RowsFrozen
  <2>2. CASE Write("cash", CashReverted(Sig(r)))
    <3>. DEFINE c == CashReverted(Sig(r))
    <3>1. DOMAIN c = RowFields /\ c.amount = row["cash"].amount
        BY <1>2, CashRevertedIs
    <3>2. row' = [row EXCEPT !["cash"] = c] /\ DOMAIN row = Accounts
        BY <1>1, <2>2 DEF Write, Shaped
    <3>. HIDE DEF c
    <3>3. \A t \in Accounts : row'[t] = IF t = "cash" THEN c ELSE row[t]
        BY <3>2
    <3>4. DOMAIN row' = Accounts /\ "bet" \in Accounts
        BY <3>2 DEF Accounts
    <3>. QED
        BY <1>1, <3>1, <3>3, <3>4 DEF Shaped, RowsFrozen
  <2>. QED
      BY <1>3, <2>1, <2>2
<1>5. UNCHANGED chainVars
      /\ \/ mark' = Advanced(Sig(r)) /\ Proceed(r) /\ Known' = Known \cup {Sig(r)}
         \/ mark' = mark /\ run' = AllOff /\ Known' = Known
    BY <1>1 DEF GiveUp, Known
<1>6. BetFine(chain, Known', row'["bet"])
  <2>1. BetFine(chain, Known, row["bet"]) /\ Known \subseteq Known'
      BY <1>5 DEF IndexerInv
  <2>. QED
      BY <1>4, <2>1, MoreKnown
<1>7. CASE Proceed(r) /\ mark' = Advanced(Sig(r)) /\ Known' = Known \cup {Sig(r)}
    BY <1>1, <1>4, <1>5, <1>6, <1>7, DoneMoves
<1>8. CASE mark' = mark /\ run' = AllOff /\ Known' = Known
  <2>1. \A x \in Runs : RunFine(chain, Known', run'[x])
      BY <1>8, OffIsFine DEF AllOff
  <2>2. mark' \in 0..Len(chain) /\ Covered(chain, Known', mark') /\ DOMAIN run' = Runs
      BY <1>8 DEF IndexerInv, AllOff
  <2>. QED
      BY <1>4, <1>5, <1>6, <1>8, <2>1, <2>2, RunsKeep
<1>. QED
    BY <1>4, <1>5, <1>7, <1>8

\* What every step keeps, and every step freezes the amounts.
LEMMA IndexerStepKeeps ==
    ASSUME IndexerAssumption, IndexerInv, IndexerNext
    PROVE  IndexerInv' /\ RowsFrozen
<1>1. row' = row => RowsFrozen
    BY DEF RowsFrozen
<1>2. CASE Happens
  <2>1. row' = row
      BY <1>2 DEF Happens, BetFill, Claim, Revert, Fails, Seal, Grade, Settle, Cashout, Land
  <2>. QED
      BY <1>1, <1>2, <2>1, HappensKeeps
<1>3. CASE Restart
  <2>1. UNCHANGED <<chainVars, row, mark, missed, dropped, indexed>> /\ run' = AllOff
      BY <1>3 DEF Restart
  <2>2. Known' = Known
      BY <2>1 DEF Known
  <2>3. \A x \in Runs : RunFine(chain, Known', run'[x])
      BY <2>1, OffIsFine DEF AllOff
  <2>4. /\ mark' \in 0..Len(chain) /\ Covered(chain, Known', mark') /\ DOMAIN run' = Runs
        /\ Shaped(row') /\ BetFine(chain, Known', row'["bet"])
      BY <2>1, <2>2 DEF IndexerInv, AllOff
  <2>. QED
      BY <1>1, <2>1, <2>2, <2>3, <2>4, RunsKeep
<1>4. ASSUME NEW r \in Runs, Step(r) PROVE IndexerInv' /\ RowsFrozen
  <2>1. CASE Start(r) \/ List(r) \/ TerminalMiss(r) \/ TransientMiss(r) \/ Aborts(r)
             \/ ReadsAccount(r)
    <3>1. row' = row
        BY <2>1 DEF Start, List, TerminalMiss, TransientMiss, Aborts, ReadsAccount
    <3>. QED
        BY <1>1, <2>1, <3>1, StartKeeps, ListKeeps, MissKeeps, AbortKeeps, ReadsKeep
  <2>2. CASE IndexUpdate(r)
      BY <2>2, IndexUpdateKeeps, FinishKeeps DEF RowsKeep
  <2>3. CASE IndexAccount(r)
      BY <2>3, IndexAccountKeeps DEF RowsKeep
  <2>4. CASE IndexCashout(r)
      BY <2>4, IndexCashoutKeeps, FinishKeeps DEF RowsKeep
  <2>5. CASE IndexThrows(r)
      BY <2>5, IndexThrowsKeeps
  <2>. QED
      BY <1>4, <2>1, <2>2, <2>3, <2>4, <2>5 DEF Step
<1>. QED
    BY <1>2, <1>3, <1>4 DEF IndexerNext

\* Whatever runs of the indexer overlap, fail or crash, and whatever lands
\* meanwhile, the invariant holds.
LEMMA IndexerInvariant ==
    ASSUME IndexerAssumption
    PROVE  IndexerSpec => []IndexerInv
<1>1. IndexerInit => IndexerInv
    BY IndexerStarts
<1>2. IndexerInv /\ [IndexerNext]_indexerVars => IndexerInv'
  <2>1. ASSUME IndexerInv, UNCHANGED indexerVars PROVE IndexerInv'
    <3>1. UNCHANGED <<chainVars, row, mark, run>> /\ Known' = Known
        BY <2>1 DEF indexerVars, Known
    <3>2. /\ mark' \in 0..Len(chain) /\ Covered(chain, Known', mark')
          /\ DOMAIN run' = Runs
          /\ Shaped(row') /\ BetFine(chain, Known', row'["bet"])
        BY <2>1, <3>1 DEF IndexerInv
    <3>3. \A r \in Runs : run'[r] = run[r]
        BY <3>1
    <3>. QED
        BY <2>1, <3>1, <3>2, <3>3, RunsKeep
  <2>. QED
      BY <2>1, IndexerStepKeeps
<1>. QED
    BY <1>1, <1>2, PTL DEF IndexerSpec

\* However many runs overlap, end early or crash, the watermark leaves behind no
\* transaction untried: it was indexed, or its own fetch failed, or it was
\* answered with nothing, or its indexing threw (setIndexerWatermark,
\* quickIndexer.ts). Whatever a run can resume from, the watermark or the ids in
\* the row of the bet, has everything due behind it dealt with in one of these
\* ways, and everything due by a signature of a list is at or before it in the
\* list.
THEOREM NothingLost ==
    ASSUME IndexerAssumption
    PROVE  IndexerSpec => []NothingSkipped
<1>1. IndexerInv => NothingSkipped
  <2>. SUFFICES ASSUME IndexerInv, NEW i \in DOMAIN chain, chain[i].ok, Alone(i),
                       SlotOf(i) < SlotOf(mark)
                PROVE  i \in Known
      BY DEF NothingSkipped, Known
  <2>1. chain \in Seq(Tx) /\ mark \in 0..Len(chain) /\ Covered(chain, Known, mark)
      BY DEF IndexerInv, Chains
  <2>2. i # 0 /\ chain[i] \in Tx /\ (mark # 0 => chain[mark] \in Tx)
      BY <2>1
  <2>3. AloneIn(chain, i)
      BY DEF Alone, AloneIn, SlotOf, SlotIn
  <2>4. chain[i].slot <= SlotIn(chain, mark)
      BY <2>2 DEF SlotOf, SlotIn, Tx
  <2>. QED
      BY <2>1, <2>3, <2>4 DEF Due, Covered
<1>. QED
    BY <1>1, IndexerInvariant, PTL

\* A row that has left pending keeps its amount, whatever is replayed and by
\* whichever run ("graded/claimed records are never overwritten", addBetAccount).
THEOREM GradedRowsFreeze ==
    ASSUME IndexerAssumption
    PROVE  IndexerSpec => AmountsFreeze
<1>1. IndexerInv /\ [IndexerNext]_indexerVars => [RowsFrozen]_indexerVars
    BY IndexerStepKeeps
<1>. QED
    BY <1>1, IndexerInvariant, PTL DEF IndexerSpec, AmountsFreeze
=============================================================================
