------------------------------- MODULE Seats -------------------------------
(***************************************************************************)
(* What the mutex protects: the engine's seats, its session clock and the  *)
(* planned pause (vendor/engine/ha_games.h), with the presence part of the *)
(* host ledger that the engine's callbacks keep (ha_host.h).  Every        *)
(* operator maps such a state to the one after the call, so that a handler *)
(* which makes several calls under the lock is one step of a specification.*)
(***************************************************************************)
EXTENDS Integers, FiniteSets

CONSTANTS Identity,     \* stable identities of phones
          NoOne,        \* an unused ledger slot or seat
          Nameless,     \* a ledger slot without a session row
          MaxPlayers,   \* HA_MAX_PLAYERS
          Socket,       \* ids of WebSocket clients
          Grace,        \* HA_RESUME_GRACE_MS
          Word          \* 2^32, the width of millis()

ASSUME SeatAssumption ==
    /\ NoOne \notin Identity /\ Nameless \notin Identity /\ NoOne # Nameless
    /\ MaxPlayers \in Nat \ {0}
    /\ Socket \subseteq Nat \ {0}
    /\ Grace \in Nat /\ Word \in Nat /\ Grace < Word

Pid      == 1 .. MaxPlayers
Time     == 0 .. Word - 1
NoSocket == 0
NoSeat   == [id |-> NoOne, ws |-> NoSocket, detached |-> FALSE, at |-> 0, played |-> FALSE]

Seat   == [id : Identity \cup {NoOne}, ws : Socket \cup {NoSocket},
           detached : BOOLEAN, at : Time, played : BOOLEAN]   \* played: it has a part in a game
Engine == [src : Time, now : Time, paused : BOOLEAN, expected : SUBSET Pid,
           seat : [Pid -> Seat],
           live : [Pid -> Identity \cup {NoOne, Nameless}],
           row  : [Identity -> {"none", "offline", "online"}]]

\* uint32_t subtraction.
Since(now, then) == (now - then) % Word

\* haHost, with the sessions rows of an earlier party, and Engine::reset.
Reset(raw, rows) ==
    [src |-> raw, now |-> raw, paused |-> FALSE, expected |-> {},
     seat |-> [p \in Pid |-> NoSeat], live |-> [p \in Pid |-> NoOne], row |-> rows]

HolderOf(e, s)    == {p \in Pid : e.seat[p].id # NoOne /\ e.seat[p].ws = s}
SeatOf(e, id)     == {p \in Pid : e.seat[p].id = id}
FreePids(e)       == {p \in Pid : e.seat[p].id = NoOne}
Lowest(P)         == CHOOSE p \in P : \A q \in P : p <= q
Online(e, p)      == e.seat[p].ws # NoSocket

-----------------------------------------------------------------------------
(* The clock, and the expiry of seats that were left. *)

Sync(e, raw) ==
    [e EXCEPT !.src = raw, !.now = IF e.paused THEN @ ELSE (@ + Since(raw, e.src)) % Word]

Expiring(e) == {p \in Pid : e.seat[p].detached /\ Since(e.now, e.seat[p].at) >= Grace}

\* finalizeLeave, with haHostLeave.
Released(e, P) ==
    [e EXCEPT !.seat = [p \in Pid |-> IF p \in P THEN NoSeat ELSE @[p]],
              !.live = [p \in Pid |-> IF p \in P THEN NoOne ELSE @[p]],
              !.row  = [id \in Identity |->
                           IF \E p \in P : e.live[p] = id THEN "offline" ELSE @[id]]]

\* Fault: only the loop's tick sweeps.
Entered_NoSweep(e, raw) == Sync(e, raw)

\* syncClocks and expireDetached, with which every entry of the engine begins.
Entered(e, raw) == LET f == Sync(e, raw) IN Released(f, Expiring(f))

-----------------------------------------------------------------------------
(* Sockets come and go. *)

Detached(e, P) ==
    [e EXCEPT !.seat = [p \in Pid |->
        IF p \in P THEN [@[p] EXCEPT !.ws = NoSocket, !.detached = TRUE, !.at = e.now]
        ELSE @[p]]]

\* Engine::onInput, but for a hello: the holder of the socket plays.
Play(e, s) == [e EXCEPT !.seat = [p \in Pid |->
                  IF p \in HolderOf(e, s) /\ ~e.paused THEN [@[p] EXCEPT !.played = TRUE] ELSE @[p]]]

\* Engine::onWsDisconnect: a socket that holds no seat any more changes nothing.
Disconnect(e, s, raw) == LET f == Entered(e, raw) IN Detached(f, HolderOf(f, s))

\* Fault: the ledger's row is only updated when the seat is finalized.
ShownOffline_Later(e, P) == e

\* haHostSetOnline(pid, false)
ShownOffline(e, P) ==
    [e EXCEPT !.row = [id \in Identity |->
        IF \E p \in P : e.live[p] = id THEN "offline" ELSE @[id]]]

\* haHostJoinStable: an identity that is connected through another seat gets no row.
Joined(e, p, id) ==
    LET listed == IF e.live[p] # NoOne THEN e.live[p]
                  ELSE IF e.row[id] = "online" THEN Nameless
                  ELSE id
    IN [e EXCEPT !.live[p] = listed,
                 !.row = [i \in Identity |-> IF i = listed THEN "online" ELSE @[i]]]

Seated(e, p, id, s) ==
    Joined([e EXCEPT !.seat[p] = [@ EXCEPT !.id = id, !.ws = s, !.detached = FALSE, !.at = 0]],
           p, id)

\* The identity's seat, if the hello may have one; a socket keeps its identity.
HelloSeat(e, s, id, admitted) ==
    IF HolderOf(e, s) # {} THEN HolderOf(e, s) \cap SeatOf(e, id)
    ELSE IF SeatOf(e, id) # {} THEN SeatOf(e, id)
    ELSE IF ~e.paused /\ admitted /\ FreePids(e) # {} THEN {Lowest(FreePids(e))}
    ELSE {}

\* Engine::onHello: at most one seat; its former socket is closed by the caller.
Hello(e, s, id, admitted) ==
    LET P == HelloSeat(e, s, id, admitted) IN
    IF P = {} THEN e ELSE Seated(e, Lowest(P), id, s)

\* Fault: the former socket is left open.
TakenOver_LeftOpen(e, s, id, admitted) == {}

TakenOver(e, s, id, admitted) ==
    {e.seat[p].ws : p \in HelloSeat(e, s, id, admitted)} \ {s, NoSocket}

-----------------------------------------------------------------------------
(* Planned transport pauses. *)

\* pauseTransport, from a running engine: the players online are expected back.
Paused(e, raw) ==
    LET f == Entered(e, raw) IN
    [f EXCEPT !.paused = TRUE, !.expected = {p \in Pid : Online(f, p)}]

\* detachTransportSockets and haHostSuspendConnections: time stands still.
Suspended(e, raw) ==
    LET f == Detached(Sync(e, raw), {p \in Pid : Online(e, p)}) IN
    [f EXCEPT !.live = [p \in Pid |-> NoOne],
              !.row  = [id \in Identity |-> IF @[id] = "online" THEN "offline" ELSE @[id]]]

Missing(e) == {p \in e.expected : e.seat[p].id # NoOne /\ ~Online(e, p)}

\* Fault: everyone who is not online is finalized, not only those expected back.
ExpireMissing_All(e) ==
    LET M == {p \in Pid : e.seat[p].id # NoOne /\ ~Online(e, p)}
    IN  Released(e, Expiring(e) \cup M)

\* At the end of the window the missing are finalized in the same sweep as ever.
ExpireMissing(e) == Released(e, Expiring(e) \cup Missing(e))

\* resumeTransport: those still missing get the ordinary grace from here.
Resumed(e, raw, expireMissing) ==
    LET f == Sync(e, raw)
        g == IF expireMissing THEN ExpireMissing(f) ELSE f
    IN [Detached(g, Missing(g)) EXCEPT !.expected = {}, !.paused = FALSE]
=============================================================================
