------------------------------ MODULE RfqHub -------------------------------
(***************************************************************************)
(* The request-for-quotes hub of the API (api/rfqHub.ts) and the sessions  *)
(* of the market makers' RFQ backends with it (market_maker/backend/       *)
(* rfq.ts).  A backend keeps one WebSocket open, signs a hello on it and   *)
(* reconnects when it breaks; the hub keeps one socket per market maker,   *)
(* sends every request to all of them and answers it when all have         *)
(* replied, or after two seconds with what has arrived.                    *)
(*                                                                         *)
(* The two ends of a socket are separate: a backend may be gone, and       *)
(* connected again, before the hub is told that the old socket closed.     *)
(* Requests for bets and for cashouts take the same path; signatures,      *)
(* quotes and malformed messages are left out.                             *)
(***************************************************************************)
EXTENDS Naturals, FiniteSets

CONSTANTS
    MMs,        \* market maker programs
    Sockets,    \* connections that may be there at once
    Owner,      \* Owner[s]: whose backend opens s
    Requests,   \* requests posted to the API
    None,       \* no socket
    Breaks      \* bound: broken connections and failed hellos

\* What the constants are assumed to be.
RfqHubAssumption ==
    /\ Owner \in [Sockets -> MMs] /\ None \notin Sockets /\ Breaks \in Nat

VARIABLES
    client,     \* client[s]: the backend's end
    hub,        \* hub[s]: the hub's end; helloing while the hello is verified
    mms,        \* mms[m]: the socket registered for m
    inbox,      \* inbox[s]: requests the backend has received and not answered
    outbox,     \* outbox[s]: requests whose quote is on its way to the hub
    req,        \* req[r]: the request, the sockets still up it was sent to, its answer
    breaks

hubVars == <<client, hub, mms, inbox, outbox, req, breaks>>

NewRequest == [phase |-> "new", asked |-> {}, expected |-> {}, replied |-> {},
               timedOut |-> FALSE]
Registered == {m \in MMs : mms[m] # None}

RfqTypeOK ==
    /\ client \in [Sockets -> {"open", "gone"}]
    /\ hub \in [Sockets -> [up: BOOLEAN, helloing: BOOLEAN, named: BOOLEAN]]
    /\ mms \in [MMs -> Sockets \cup {None}]
    /\ inbox \in [Sockets -> SUBSET Requests] /\ outbox \in [Sockets -> SUBSET Requests]
    /\ req \in [Requests -> [phase: {"new", "pending", "answered"}, asked: SUBSET Sockets,
                             expected: SUBSET MMs, replied: SUBSET MMs, timedOut: BOOLEAN]]
    /\ breaks \in 0..Breaks

HubInit ==
    /\ client = [s \in Sockets |-> "gone"]
    /\ hub = [s \in Sockets |-> [up |-> FALSE, helloing |-> FALSE, named |-> FALSE]]
    /\ mms = [m \in MMs |-> None]
    /\ inbox = [s \in Sockets |-> {}] /\ outbox = [s \in Sockets |-> {}]
    /\ req = [r \in Requests |-> NewRequest]
    /\ breaks = 0

-----------------------------------------------------------------------------
(* Answering a request *)

\* Fault: the timer answers only when somebody has replied.
SettleWhenQuoted(q, timedOut) ==
    IF timedOut /\ q.replied = {} THEN q
    ELSE [q EXCEPT !.phase = "answered", !.timedOut = timedOut]

\* finishPending
SettleRequest(q, timedOut) == [q EXCEPT !.phase = "answered", !.timedOut = timedOut]

\* The hub compares the numbers of replies and of market makers still expected.
SettleIfAllReplied(q) ==
    IF Cardinality(q.replied) >= Cardinality(q.expected) THEN SettleRequest(q, FALSE)
    ELSE q

\* collectQuotes and collectCashoutQuotes: fan out to everyone registered.  A send
\* to a socket whose other end is gone may fail; when all do, or nobody is
\* registered, the answer is empty and immediate.
Collect(r) ==
    /\ req[r].phase = "new"
    /\ \E asked \in SUBSET {mms[m] : m \in Registered} :
         LET q == [req[r] EXCEPT !.phase = "pending", !.asked = asked,
                                 !.expected = Registered]
         IN  /\ \A m \in Registered : client[mms[m]] = "open" => mms[m] \in asked
             /\ req' = [req EXCEPT
                   ![r] = IF asked = {} THEN SettleRequest(q, FALSE) ELSE q]
             /\ inbox' = [s \in Sockets |-> IF s \in asked /\ client[s] = "open"
                                            THEN inbox[s] \cup {r} ELSE inbox[s]]
    /\ UNCHANGED <<client, hub, mms, outbox, breaks>>

\* The first quote of a market maker that is expected counts, anything else is
\* ignored.
WithReply(q, m) ==
    IF q.phase = "pending" /\ m \in q.expected \ q.replied
    THEN SettleIfAllReplied([q EXCEPT !.replied = @ \cup {m}]) ELSE q

\* handleQuote and handleCashoutQuote
ReceiveQuote(s, r) ==
    /\ hub[s].up /\ hub[s].named /\ r \in outbox[s]
    /\ outbox' = [outbox EXCEPT ![s] = @ \ {r}]
    /\ req' = [req EXCEPT ![r] = WithReply(@, Owner[s])]
    /\ UNCHANGED <<client, hub, mms, inbox, breaks>>

\* RFQ_COLLECT_TIMEOUT_MS
Timeout(r) ==
    /\ req[r].phase = "pending"
    /\ req' = [req EXCEPT ![r] = SettleRequest(@, TRUE)]
    /\ UNCHANGED <<client, hub, mms, inbox, outbox, breaks>>

-----------------------------------------------------------------------------
(* Sessions *)

\* runSession: a backend has one session, and says hello at once.
Connect(s) ==
    /\ client[s] # "open" /\ ~hub[s].up /\ ~hub[s].helloing
    /\ \A t \in Sockets : Owner[t] = Owner[s] => client[t] # "open"
    /\ client' = [client EXCEPT ![s] = "open"]
    /\ hub' = [hub EXCEPT ![s] = [up |-> TRUE, helloing |-> TRUE, named |-> FALSE]]
    /\ inbox' = [inbox EXCEPT ![s] = {}]
    /\ UNCHANGED <<mms, outbox, req, breaks>>

\* Fault: the socket is not looked at again after the hello was verified.
RegisterAnyway(s) == TRUE

\* The socket did not close while the hello was being verified.
StillUp(s) == hub[s].up

\* The end of handleHello: the newest hello wins, an older socket of the same
\* market maker is closed.
HelloVerified(s) ==
    LET m == Owner[s] IN
    /\ hub[s].helloing
    /\ IF StillUp(s)
       THEN /\ hub' = [hub EXCEPT ![s].helloing = FALSE, ![s].named = TRUE]
            /\ client' = [t \in Sockets |-> IF t = mms[m] THEN "gone" ELSE client[t]]
            /\ mms' = [mms EXCEPT ![m] = s]
       ELSE /\ hub' = [hub EXCEPT ![s].helloing = FALSE]
            /\ UNCHANGED <<client, mms>>
    /\ UNCHANGED <<inbox, outbox, req, breaks>>

\* The verification fails: the backend gives the session up and reconnects.
HelloRefused(s) ==
    /\ hub[s].helloing /\ breaks < Breaks
    /\ hub' = [hub EXCEPT ![s].helloing = FALSE]
    /\ client' = [client EXCEPT ![s] = "gone"]
    /\ breaks' = breaks + 1
    /\ UNCHANGED <<mms, inbox, outbox, req>>

\* The connection breaks, the backend dies, or it waited too long for the ack.
Break(s) ==
    /\ client[s] = "open" /\ breaks < Breaks
    /\ client' = [client EXCEPT ![s] = "gone"]
    /\ breaks' = breaks + 1
    /\ UNCHANGED <<hub, mms, inbox, outbox, req>>

\* Fault: the market maker is forgotten whichever of its sockets closed.
ForgetAlways(s) == [mms EXCEPT ![Owner[s]] = None]

\* A market maker is forgotten only with its registered socket.
Forget(s) == IF mms[Owner[s]] = s THEN [mms EXCEPT ![Owner[s]] = None] ELSE mms

\* onClose: nothing is expected any more from the market maker of the socket, and
\* a request is answered when the others have replied.
OnClose(s) ==
    LET m == Owner[s]
        unasked(q) == [q EXCEPT !.asked = @ \ {s}]
    IN
    /\ client[s] = "gone" /\ hub[s].up
    /\ hub' = [hub EXCEPT ![s].up = FALSE]
    /\ mms' = IF hub[s].named THEN Forget(s) ELSE mms
    /\ req' = [r \in Requests |->
           IF hub[s].named /\ req[r].phase = "pending" /\ m \in req[r].expected
           THEN SettleIfAllReplied([unasked(req[r]) EXCEPT !.expected = @ \ {m}])
           ELSE unasked(req[r])]
    /\ outbox' = [outbox EXCEPT ![s] = {}]
    /\ UNCHANGED <<client, inbox, breaks>>

\* quoteBet: the backend may also decline, or fail to quote.
Answer(s, r) ==
    /\ client[s] = "open" /\ r \in inbox[s]
    /\ inbox' = [inbox EXCEPT ![s] = @ \ {r}]
    /\ outbox' \in {outbox, [outbox EXCEPT ![s] = @ \cup {r}]}
    /\ UNCHANGED <<client, hub, mms, req, breaks>>

HubNext ==
    \/ \E r \in Requests :
         \/ Collect(r) \/ Timeout(r)
         \/ \E s \in Sockets : ReceiveQuote(s, r) \/ Answer(s, r)
    \/ \E s \in Sockets :
         Connect(s) \/ HelloVerified(s) \/ HelloRefused(s) \/ Break(s) \/ OnClose(s)

HubSpec == HubInit /\ [][HubNext]_hubVars

\* The timer fires; a backend reconnects in a loop; the hello's lookups and the
\* hub's notice of a closed socket come to an end.
HubFairSpec ==
    /\ HubSpec
    /\ \A r \in Requests : WF_hubVars(Timeout(r))
    /\ \A s \in Sockets : /\ WF_hubVars(Connect(s)) /\ WF_hubVars(HelloVerified(s))
                          /\ WF_hubVars(OnClose(s))

-----------------------------------------------------------------------------
(* Properties *)

\* A request that was fanned out is answered, whoever replies, breaks or stays
\* silent.
RequestsAnswered ==
    \A r \in Requests : req[r].phase = "pending" ~> req[r].phase = "answered"

\* The socket a market maker is registered with has not been reported closed: a
\* socket that dies while its hello is verified is not registered afterwards.
RoutesLive ==
    /\ RfqTypeOK
    /\ \A m \in Registered : hub[mms[m]].up /\ hub[mms[m]].named /\ Owner[mms[m]] = m

\* While backends reconnect, each ends up registered with the session it has: the
\* late close of an old socket does not unregister the new one.
BackOnline == \A m \in MMs : <>[](mms[m] # None /\ client[mms[m]] = "open")
=============================================================================
