----------------------------- MODULE Publisher -----------------------------
(***************************************************************************)
(* The publishing backend of a market maker (market_maker/backend): every  *)
(* five minutes it closes the accounts of the events that have started,    *)
(* creates those of upcoming ones and writes the odds of a feed into them. *)
(* It keeps in its own database a row per event and, per account, a flag   *)
(* "seen on chain" that spares a lookup.  One event is modelled, with its  *)
(* event state, its market accounts and its netting account.               *)
(*                                                                         *)
(* Each await of the backend is a step, so that the feed, the event's      *)
(* start time, bets, a crash, a transaction given up on and the operator's *)
(* closeAllPdas script come in between.  Account reads may lag behind what *)
(* was just confirmed (they read finalized state).                         *)
(*                                                                         *)
(* The sequence of an odds update is the wall clock in seconds, so all     *)
(* that an update compares is whether the account was already written in   *)
(* this cycle (fresh).  A transaction given up on lands within the minute  *)
(* its blockhash lives, hence before the next cycle; restarts are by hand  *)
(* and are assumed to take as long.                                        *)
(***************************************************************************)
EXTENDS Naturals, FiniteSets

CONSTANTS
    Markets,    \* the event's markets
    Odds,       \* odds a feed may give; 0 withdraws the market's odds
    NoOdds,     \* the feed says nothing of a market
    Faults,     \* bound: failed or interrupted steps, and runs of the script
    Moves       \* bound: changes of the feed and postponements

\* What the constants are assumed to be.
PublisherAssumption ==
    /\ IsFiniteSet(Markets) /\ 0 \in Odds /\ NoOdds \notin Odds
    /\ Faults \in Nat /\ Moves \in Nat

VARIABLES
    event,      \* the event state account exists
    market,     \* market[m]: the market data account of m
    netting,    \* the netting account: absent, flat, or with open profit
    feed,       \* feed[m]: what the odds provider says now
    started,    \* the API's start time of the event has passed
    dbRow,      \* the backend's database row of the event
    pc,         \* where the cycle is
    seen,       \* what the last read of the chain found
    late,       \* market groups given up on that may still land
    script,     \* closeAllPdas has closed accounts and not yet reset flags
    faults, moves

onChain == <<event, market, netting>>
world == <<feed, started, moves>>
publisherVars == <<event, market, netting, feed, started, dbRow, pc, seen, late, script,
                   faults, moves>>

Closed == [open |-> FALSE, odds |-> 0, fresh |-> FALSE]
Blank == [open |-> TRUE, odds |-> 0, fresh |-> FALSE]
NoDbRow == [tracked |-> FALSE, due |-> FALSE, state |-> FALSE, markets |-> {}]
Group == [init: BOOLEAN, odds: Odds \cup {NoOdds}]
Stages == {"idle", "reading", "closing", "closingNetting", "checking",
           "tracking", "loading", "creating", "marking", "sending", "verifying"}

PublisherTypeOK ==
    /\ event \in BOOLEAN
    /\ market \in [Markets -> [open: BOOLEAN, odds: Odds, fresh: BOOLEAN]]
    /\ netting \in {"absent", "flat", "owing"}
    /\ feed \in [Markets -> Odds \cup {NoOdds}]
    /\ started \in BOOLEAN
    /\ dbRow \in [tracked: BOOLEAN, due: BOOLEAN, state: BOOLEAN, markets: SUBSET Markets]
    /\ pc \in Stages
    /\ seen \subseteq Markets \cup {"event", "netting"}
    /\ late \in [Markets -> SUBSET Group]
    /\ script \in BOOLEAN
    /\ faults \in 0..Faults /\ moves \in 0..Moves

PublisherInit ==
    /\ event = FALSE
    /\ market = [m \in Markets |-> Closed]
    /\ netting = "absent"
    /\ feed \in [Markets -> Odds \cup {NoOdds}]
    /\ started = FALSE
    /\ dbRow = NoDbRow
    /\ pc = "idle"
    /\ seen = {}
    /\ late = [m \in Markets |-> {}]
    /\ script = FALSE
    /\ faults = 0 /\ moves = 0

-----------------------------------------------------------------------------
(* The chain *)

Open == {m \in Markets : market[m].open}
Present == Open \cup {a \in {"event"} : event}
                \cup {a \in {"netting"} : netting # "absent"}

\* A fault is spent exactly when b holds.
Spend(b) ==
    /\ b => faults < Faults
    /\ faults' = faults + (IF b THEN 1 ELSE 0)

\* A market's group of instructions, init_market then update_oracle, may be
\* split over two transactions.
InitWorks(g, k) == g.init => ~k.open
UpdateWorks(g, k) == g.odds # NoOdds => (g.init \/ (k.open /\ ~k.fresh))
GroupWorks(g, k) == InitWorks(g, k) /\ UpdateWorks(g, k)

AfterInit(g, k) == IF g.init THEN Blank ELSE k
AfterGroup(g, k) ==
    IF g.odds = NoOdds THEN AfterInit(g, k)
    ELSE [open |-> TRUE, odds |-> g.odds, fresh |-> TRUE]

LandLate(m) ==
    /\ \E g \in late[m] :
         /\ market' = [market EXCEPT
               ![m] = IF GroupWorks(g, @) THEN AfterGroup(g, @) ELSE @]
         /\ late' = [late EXCEPT ![m] = @ \ {g}]
    /\ UNCHANGED <<event, netting, feed, started, moves, dbRow, pc, seen, script, faults>>

-----------------------------------------------------------------------------
(* The world *)

FeedMoves ==
    /\ moves < Moves
    /\ \E m \in Markets, o \in Odds \cup {NoOdds} :
         /\ o # feed[m]
         /\ feed' = [feed EXCEPT ![m] = o]
    /\ moves' = moves + 1
    /\ UNCHANGED <<event, market, netting, started, dbRow, pc, seen, late, script, faults>>

\* The start time passes, in the API and in the row that copied it.
Kickoff ==
    /\ ~started
    /\ started' = TRUE
    /\ dbRow' = [dbRow EXCEPT !.due = dbRow.tracked]
    /\ UNCHANGED <<event, market, netting, feed, moves, pc, seen, late, script, faults>>

\* The API moves the start time of the event into the future again.
Postpone ==
    /\ started /\ moves < Moves
    /\ started' = FALSE
    /\ moves' = moves + 1
    /\ UNCHANGED <<event, market, netting, feed, dbRow, pc, seen, late, script, faults>>

CreateNetting ==
    /\ netting = "absent" /\ dbRow.tracked /\ ~dbRow.due
    /\ netting' = "flat"
    /\ UNCHANGED <<event, market, feed, started, moves, dbRow, pc, seen, late, script,
                   faults>>

TakeBet ==
    /\ netting = "flat" /\ event
    /\ \E m \in Open : market[m].odds # 0
    /\ netting' = "owing"
    /\ UNCHANGED <<event, market, feed, started, moves, dbRow, pc, seen, late, script,
                   faults>>

SettleBets ==
    /\ netting = "owing" /\ started
    /\ netting' = "flat"
    /\ UNCHANGED <<event, market, feed, started, moves, dbRow, pc, seen, late, script,
                   faults>>

-----------------------------------------------------------------------------
(* The cycle: closeStartedEvents *)

Begin ==
    /\ pc = "idle"
    /\ pc' = IF dbRow.tracked /\ dbRow.due THEN "reading" ELSE "tracking"
    /\ market' = [m \in Markets |-> [market[m] EXCEPT !.fresh = FALSE]]
    /\ late' = [m \in Markets |-> {}]
    /\ seen' = {}
    /\ UNCHANGED <<event, netting, feed, started, moves, dbRow, script, faults>>

ReadForClosing ==
    /\ pc = "reading"
    /\ \/ /\ Present = {}
          /\ dbRow' = NoDbRow /\ pc' = "tracking" /\ seen' = {} /\ Spend(FALSE)
       \/ /\ Present # {}
          /\ pc' = "closing" /\ seen' = Present /\ Spend(FALSE) /\ UNCHANGED dbRow
       \/ /\ pc' = "tracking" /\ UNCHANGED <<dbRow, seen>> /\ Spend(TRUE)
    /\ UNCHANGED <<event, market, netting, feed, started, moves, late, script>>

\* Fault: closes what the flags say is there, not what was read.
ClosesFlagged == dbRow.markets \cup {a \in {"event"} : dbRow.state}

\* The accounts to close, each in a transaction of its own or with others.
Closes == seen \ {"netting"}

SendCloses ==
    /\ pc = "closing"
    /\ \E landed \in SUBSET (Closes \cap Present), failed \in BOOLEAN :
         /\ ~failed => landed = Closes
         /\ event' = (event /\ "event" \notin landed)
         /\ market' = [m \in Markets |-> IF m \in landed THEN Closed ELSE market[m]]
         /\ pc' = IF failed THEN "tracking" ELSE "closingNetting"
         /\ Spend(failed /\ Closes \subseteq Present)
    /\ UNCHANGED <<netting, feed, started, moves, dbRow, seen, late, script>>

\* close_netting_account is refused while profit is open.
CloseNetting ==
    /\ pc = "closingNetting"
    /\ \E sent \in BOOLEAN :
         /\ netting' = IF sent /\ "netting" \in seen /\ netting = "flat"
                       THEN "absent" ELSE netting
         /\ Spend(~sent)
    /\ pc' = "checking"
    /\ UNCHANGED <<event, market, feed, started, moves, dbRow, seen, late, script>>

\* Fault: the row goes once the closes were sent.
CheckSent ==
    /\ pc = "checking"
    /\ dbRow' = NoDbRow
    /\ pc' = "tracking"
    /\ UNCHANGED <<event, market, netting, feed, started, moves, seen, late, script,
                   faults>>

\* The last read may still see what was just closed.
CheckClosed ==
    /\ pc = "checking"
    /\ \E lags \in BOOLEAN :
         dbRow' = IF Present = {} /\ ~lags THEN NoDbRow ELSE dbRow
    /\ pc' = "tracking"
    /\ UNCHANGED <<event, market, netting, feed, started, moves, seen, late, script,
                   faults>>

-----------------------------------------------------------------------------
(* The cycle: an upcoming event *)

\* Started events are no longer in the list that the cycle works through.
Track ==
    /\ pc = "tracking"
    /\ IF started
       THEN pc' = "idle" /\ UNCHANGED dbRow
       ELSE /\ pc' = "loading"
            /\ dbRow' = [dbRow EXCEPT !.tracked = TRUE, !.due = FALSE]
    /\ UNCHANGED <<event, market, netting, feed, started, moves, seen, late, script,
                   faults>>

\* Accounts with their flag set are taken to exist; the rest are looked up.
Load ==
    /\ pc = "loading"
    /\ \/ /\ Spend(FALSE)
          /\ LET found == (Open \ dbRow.markets)
                 state == dbRow.state \/ event
             IN /\ dbRow' = IF dbRow.tracked
                          THEN [dbRow EXCEPT !.state = state, !.markets = @ \cup found]
                          ELSE dbRow
                /\ seen' = dbRow.markets \cup found \cup {a \in {"event"} : state}
          /\ pc' = "creating"
       \/ Spend(TRUE) /\ pc' = "idle" /\ UNCHANGED <<dbRow, seen>>
    /\ UNCHANGED <<event, market, netting, feed, started, moves, late, script>>

\* init_event and update_event_state travel together.
CreateEvent ==
    /\ pc = "creating"
    /\ IF "event" \in seen
       THEN pc' = "sending" /\ UNCHANGED event /\ Spend(FALSE)
       ELSE \E landed, failed \in BOOLEAN :
              /\ landed => ~event
              /\ ~failed => landed
              /\ event' = (event \/ landed)
              /\ pc' = IF failed THEN "sending" ELSE "marking"
              /\ Spend(failed /\ ~event)
    /\ UNCHANGED <<market, netting, feed, started, moves, dbRow, seen, late, script>>

MarkEvent ==
    /\ pc = "marking"
    /\ dbRow' = [dbRow EXCEPT !.state = dbRow.tracked]
    /\ pc' = "sending"
    /\ UNCHANGED <<event, market, netting, feed, started, moves, seen, late, script,
                   faults>>

\* What is sent for m when the feed answers o.
GroupFor(m, o) == [init |-> m \notin seen, odds |-> o]
Empty(g) == ~g.init /\ g.odds = NoOdds

\* Fault: a failed update leaves the flags as they are.
KeepFlags(r) == r

ResetFlags(r) == [r EXCEPT !.state = FALSE, !.markets = {}]

SendOdds ==
    /\ pc = "sending"
    /\ \E answers \in BOOLEAN, failed \in BOOLEAN :
         LET group == [m \in Markets |-> GroupFor(m, IF answers THEN feed[m] ELSE NoOdds)]
             sent == {m \in Markets : ~Empty(group[m])}
             works == {m \in sent : GroupWorks(group[m], market[m])}
         IN \E landed \in SUBSET works, half \in SUBSET sent :
              /\ half \subseteq {m \in sent \ landed : group[m].init /\ InitWorks(group[m], market[m])}
              /\ ~failed => landed = sent
              /\ market' = [m \in Markets |->
                    IF m \in landed THEN AfterGroup(group[m], market[m])
                    ELSE IF m \in half THEN AfterInit(group[m], market[m]) ELSE market[m]]
              /\ \E l \in SUBSET ((sent \ landed) \ half) :
                    late' = [m \in Markets |-> IF m \in l THEN {group[m]} ELSE late[m]]
              /\ dbRow' = IF failed THEN ResetFlags(dbRow) ELSE dbRow
              /\ pc' = IF \E m \in sent : group[m].init THEN "verifying" ELSE "idle"
              /\ Spend(~answers \/ (failed /\ works = sent))
    /\ UNCHANGED <<event, netting, feed, started, moves, seen, script>>

\* New accounts are flagged as far as the read, which may lag, shows them.
VerifyCreated ==
    /\ pc = "verifying"
    /\ \E visible \in SUBSET (Open \ seen) :
         dbRow' = IF dbRow.tracked THEN [dbRow EXCEPT !.markets = @ \cup visible]
                  ELSE dbRow
    /\ pc' = "idle"
    /\ UNCHANGED <<event, market, netting, feed, started, moves, seen, late, script,
                   faults>>

-----------------------------------------------------------------------------
(* Crashes, and the operator's script *)

Crash ==
    /\ pc # "idle"
    /\ Spend(TRUE)
    /\ pc' = "idle"
    /\ seen' = {}
    /\ UNCHANGED <<event, market, netting, feed, started, moves, dbRow, late, script>>

\* closeAllPdas force-closes what it can, then resets every flag.
ScriptCloses ==
    /\ ~script /\ Spend(TRUE)
    /\ \E closed \in SUBSET (Present \ {"netting"}) :
         /\ event' = (event /\ "event" \notin closed)
         /\ market' = [m \in Markets |-> IF m \in closed THEN Closed ELSE market[m]]
    /\ script' = TRUE
    /\ UNCHANGED <<netting, feed, started, moves, dbRow, pc, seen, late>>

ScriptResets ==
    /\ script
    /\ dbRow' = ResetFlags(dbRow)
    /\ script' = FALSE
    /\ UNCHANGED <<event, market, netting, feed, started, moves, pc, seen, late, faults>>

Cycle ==
    \/ Begin \/ ReadForClosing \/ SendCloses \/ CloseNetting \/ CheckClosed
    \/ Track \/ Load \/ CreateEvent \/ MarkEvent \/ SendOdds \/ VerifyCreated

PublisherNext ==
    \/ Cycle \/ Crash \/ ScriptCloses \/ ScriptResets
    \/ FeedMoves \/ Kickoff \/ Postpone \/ CreateNetting \/ TakeBet \/ SettleBets
    \/ \E m \in Markets : LandLate(m)

PublisherSpec == PublisherInit /\ [][PublisherNext]_publisherVars

(* The timer of the backend never stops, the script ends, and a started    *)
(* event's bets are settled.                                               *)
PublisherFairSpec ==
    /\ PublisherSpec
    /\ WF_publisherVars(Cycle)
    /\ WF_publisherVars(ScriptResets)
    /\ WF_publisherVars(SettleBets)

-----------------------------------------------------------------------------
(* Properties *)

\* Whatever exists on chain for the event has its row, so that a later cycle
\* finds it and closes it: a row is deleted only when nothing is left, also
\* when closes failed half way, netting was still owing, or reads lagged.
RowsCoverAccounts == PublisherTypeOK /\ (Present # {} => dbRow.tracked)

\* Once an event has started for good, every account of it is closed and its
\* row deleted, however many closes failed on the way and whatever the flags
\* say of it.
StartedEventsClose == <>[]started => <>[](Present = {} /\ ~dbRow.tracked)

\* While an event stays upcoming, the odds on chain come to be what the feed
\* says, after failed sends, crashes, forced closes and stale flags.
OddsFollowFeed ==
    <>[](~started) =>
        <>[](\A m \in Markets : feed[m] # NoOdds =>
                market[m].open /\ market[m].odds = feed[m])
=============================================================================
