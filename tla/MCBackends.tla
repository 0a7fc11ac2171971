---------------------------- MODULE MCBackends ----------------------------
(***************************************************************************)
(* Small instances of the two services off the chain: an MM's publishing   *)
(* backend (Publisher) and the RFQ hub with the MMs' sessions (RfqHub).    *)
(* One run of TLC serves both: a behaviour picks a part at the start and   *)
(* runs it, while the other stays in its initial state.                    *)
(***************************************************************************)
EXTENDS Publisher, RfqHub

CONSTANTS home, m1, m2, a1, a2, b1, b2, r1

\* Each market maker has at most two sockets at the hub.
Owners == [s \in Sockets |-> IF s \in {a1, a2} THEN m1 ELSE m2]

ASSUME PublisherAssumption /\ RfqHubAssumption

VARIABLE part

vars == <<part, publisherVars, hubVars>>

Init ==
    /\ part \in {"publisher", "hub"}
    /\ HubInit
    /\ PublisherInit
    /\ part = "hub" => feed[home] = NoOdds

Publishing(A) == part = "publisher" /\ A /\ UNCHANGED <<part, hubVars>>
Quoting(A) == part = "hub" /\ A /\ UNCHANGED <<part, publisherVars>>

Next == Publishing(PublisherNext) \/ Quoting(HubNext)

\* The fairness of the two modules, for the part that runs.
FairSpec ==
    /\ Init /\ [][Next]_vars
    /\ WF_vars(Publishing(Cycle))
    /\ WF_vars(Publishing(ScriptResets))
    /\ WF_vars(Publishing(SettleBets))
    /\ WF_vars(Quoting(Timeout(r1)))
    /\ \A s \in {a1, a2, b1, b2} :
         /\ WF_vars(Quoting(Connect(s)))
         /\ WF_vars(Quoting(HelloVerified(s)))
         /\ WF_vars(Quoting(OnClose(s)))

\* Whatever connections break: every request that was fanned out is answered, and
\* market makers end up registered with the session they have.
HubRecovers == part = "hub" => RequestsAnswered /\ BackOnline
=============================================================================
