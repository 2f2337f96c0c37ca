----------------------------- MODULE Admission ------------------------------
(***************************************************************************)
(* The sockets the server keeps (hotspot-arcade-cardputer.ino, onWsEvent   *)
(* and haSocketTick; ha_network_policy.h): a slot of the socket table and  *)
(* a slot for outbound flow each, taken by the AsyncTCP task, given back   *)
(* by it, by the loop task when the hello does not come in time, and by    *)
(* the stop of the access point.  The engine is in Presence.               *)
(***************************************************************************)
EXTENDS Millis, FiniteSets

CONSTANTS Socket,       \* ids of WebSocket clients
          PendingLimit, \* HA_WS_PENDING_LIMIT
          ObjectLimit,  \* HA_WS_OBJECT_LIMIT
          Deadline,     \* HA_WS_HELLO_DEADLINE_MS
          TickLag,      \* bound: ms between the loop's reading of the clock and its tick
          TickPeriod    \* bound: ms between two readings

ASSUME AdmissionAssumption ==
    /\ PendingLimit \in Nat \ {0} /\ ObjectLimit \in Nat \ {0}
    /\ Deadline \in Nat \ {0} /\ TickLag \in Nat /\ TickPeriod \in Nat
    /\ TickLag <= TickPeriod /\ Deadline + TickPeriod + TickLag < Word

VARIABLES
    slot,       \* haSockets: whether a socket is known, and authenticated
    since,      \* connectedAtMs; looked at, and kept here, while the hello is awaited
    flows,      \* haWsFlow: the sockets with a flow slot
    link,       \* the clients of the library
    accepting,  \* haTransportAcceptingSockets
    tick        \* haSocketTick: where it is, the time it was called with, whom it expired

admissionVars == <<slot, since, flows, link, accepting, tick>>

Known(s)  == slot[s] # "none"
In(state) == {s \in Socket : slot[s] = state}

\* haSocketDisconnect
Forgets(S) ==
    /\ slot' = [s \in Socket |-> IF s \in S THEN "none" ELSE slot[s]]
    /\ since' = [s \in Socket |-> IF s \in S THEN 0 ELSE since[s]]

AdmissionInit ==
    /\ clock \in Time
    /\ slot = [s \in Socket |-> "none"] /\ since = [s \in Socket |-> 0]
    /\ flows = {} /\ link = [s \in Socket |-> "gone"]
    /\ accepting = TRUE
    /\ tick = [at |-> "top", now |-> clock, expired |-> {}]

\* The loop keeps its pace, whatever it does between two passes.
AdmissionElapse ==
    /\ Since(clock, tick.now) < (IF tick.at = "top" THEN TickPeriod ELSE TickLag)
    /\ Ticks
    /\ UNCHANGED admissionVars

-----------------------------------------------------------------------------
(* The AsyncTCP task; each under the mutex. *)

\* The library numbers its clients; a number is taken when nothing refers to it.
Fresh(s) == link[s] = "gone" /\ ~Known(s) /\ s \notin flows /\ s \notin tick.expired

\* haSocketConnect
Admits ==
    /\ Cardinality(In("pending")) < PendingLimit
    /\ Cardinality({s \in Socket : Known(s)}) < ObjectLimit

\* haWsFlowBegin; without a slot for it the socket's own slot is given back.
FlowBegins(s) ==
    IF Cardinality(flows) < ObjectLimit
    THEN /\ slot' = [slot EXCEPT ![s] = "pending"]
         /\ since' = [since EXCEPT ![s] = clock]
         /\ flows' = flows \cup {s}
         /\ link' = [link EXCEPT ![s] = "open"]
    ELSE link' = [link EXCEPT ![s] = "closing"] /\ UNCHANGED <<slot, since, flows>>

\* WS_EVT_CONNECT
Connects(s) ==
    /\ Fresh(s) /\ \A t \in Socket : t < s => ~Fresh(t)
    /\ IF accepting /\ Admits
       THEN FlowBegins(s)
       ELSE link' = [link EXCEPT ![s] = "closing"] /\ UNCHANGED <<slot, since, flows>>
    /\ UNCHANGED <<clock, accepting, tick>>

\* WS_EVT_DATA that makes the socket a player's; another socket of the same phone is closed.
Greets(s) ==
    /\ link[s] # "gone" /\ accepting /\ Known(s)
    /\ slot' = [slot EXCEPT ![s] = "authenticated"]
    /\ since' = [since EXCEPT ![s] = 0]
    /\ \E old \in {{}} \cup {{t} : t \in In("authenticated") \ {s}} :
           link' = [t \in Socket |-> IF t \in old /\ link[t] = "open" THEN "closing" ELSE link[t]]
    /\ UNCHANGED <<clock, flows, accepting, tick>>

\* The server gives a client up.
Closes(s) ==
    /\ link[s] = "open"
    /\ link' = [link EXCEPT ![s] = "closing"]
    /\ UNCHANGED <<clock, slot, since, flows, accepting, tick>>

\* Fault: the flow slot is not given back.
Disconnects_FlowKept(s) ==
    /\ link[s] # "gone"
    /\ link' = [link EXCEPT ![s] = "gone"]
    /\ Forgets({s})
    /\ UNCHANGED <<clock, flows, accepting, tick>>

\* WS_EVT_DISCONNECT
Disconnects(s) ==
    /\ link[s] # "gone"
    /\ link' = [link EXCEPT ![s] = "gone"]
    /\ Forgets({s})
    /\ flows' = flows \ {s}
    /\ UNCHANGED <<clock, accepting, tick>>

-----------------------------------------------------------------------------
(* The loop task. *)

LoopReads ==
    /\ tick.at = "top"
    /\ tick' = [at |-> "tick", now |-> clock, expired |-> {}]
    /\ UNCHANGED <<clock, slot, since, flows, link, accepting>>

\* Fault: an authenticated socket has a deadline, too.
Late_All(now) == {s \in Socket : Known(s) /\ Since(now, since[s]) >= Deadline}

\* haSocketHelloExpired
Late(now) == {s \in In("pending") : Since(now, since[s]) >= Deadline}

\* haSocketTick, under the mutex: there is room for every pending socket on its list.
Expires ==
    /\ tick.at = "tick"
    /\ \E expired \in SUBSET Late(tick.now) :
           /\ Cardinality(expired) = (IF Cardinality(Late(tick.now)) < PendingLimit
                                      THEN Cardinality(Late(tick.now)) ELSE PendingLimit)
           /\ Forgets(expired)
           /\ flows' = flows \ expired
           /\ tick' = [tick EXCEPT !.at = "close", !.expired = expired]
    /\ UNCHANGED <<clock, link, accepting>>

\* ... and without it: the clients are closed by their numbers.
ClosesExpired ==
    /\ tick.at = "close"
    /\ link' = [s \in Socket |->
                   IF s \in tick.expired /\ link[s] = "open" THEN "closing" ELSE link[s]]
    /\ tick' = [tick EXCEPT !.at = "top", !.expired = {}]
    /\ UNCHANGED <<clock, slot, since, flows, accepting>>

\* The keys of a pass are served between its reading of the clock and its tick.

\* suspendPortalTransport: both tables are cleared before the clients are closed.
Suspends ==
    /\ tick.at = "tick" /\ accepting
    /\ accepting' = FALSE
    /\ Forgets(Socket) /\ flows' = {}
    /\ UNCHANGED <<clock, link, tick>>

\* stopPortal: ws.closeAll
StopsServer ==
    /\ tick.at = "tick" /\ ~accepting
    /\ link' = [s \in Socket |-> IF link[s] = "open" THEN "closing" ELSE link[s]]
    /\ UNCHANGED <<clock, slot, since, flows, accepting, tick>>

\* startPortalTransport
Accepts ==
    /\ tick.at = "tick" /\ ~accepting
    /\ accepting' = TRUE
    /\ UNCHANGED <<clock, slot, since, flows, link, tick>>

AdmissionNext ==
    \/ \E s \in Socket : Connects(s) \/ Greets(s) \/ Closes(s) \/ Disconnects(s)
    \/ LoopReads \/ Expires \/ ClosesExpired
    \/ Suspends \/ StopsServer \/ Accepts
    \/ AdmissionElapse

AdmissionSpec == AdmissionInit /\ [][AdmissionNext]_<<clock, admissionVars>>

-----------------------------------------------------------------------------
(* Properties. *)

\* Every socket of the table has its flow slot and is a client of the library: no
\* interleaving of callbacks, hello deadlines and stops leaks a slot of either table.
SlotsAgree == flows = {s \in Socket : Known(s)} /\ \A s \in flows : link[s] # "gone"

\* docs/ARCHITECTURE.md, "Pending sockets have a five-second hello deadline": none is kept
\* longer than that and the loop's pace allow, so that silent phones do not shut out others.
PendingEnds ==
    \A s \in In("pending") : Since(clock, since[s]) < Deadline + TickPeriod + TickLag

\* ... and a player's socket has no deadline; one that connected before the loop read the
\* clock has all of its own.
DeadlineKept ==
    [][ \A s \in Socket :
            Expires /\ Known(s) /\ slot'[s] = "none"
            => /\ slot[s] = "pending"
               /\ \/ Since(clock, since[s]) >= Deadline
                  \/ Since(clock, since[s]) < Since(clock, tick.now) ]_<<clock, admissionVars>>

\* The two.
SlotsReturn == SlotsAgree /\ PendingEnds

\* docs/ARCHITECTURE.md, to the letter: a socket is not expired before its five seconds.
FiveSeconds ==
    [][ \A s \in Socket :
            Expires /\ Known(s) /\ slot'[s] = "none"
            => Since(clock, since[s]) >= Deadline ]_<<clock, admissionVars>>
=============================================================================
