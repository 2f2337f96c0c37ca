------------------------------ MODULE Presence ------------------------------
(***************************************************************************)
(* Presence while the access point runs (hotspot-arcade-cardputer.ino):    *)
(* the AsyncTCP task delivers what the phones do, the loop task ticks the  *)
(* engine and now and then runs a persistence transaction, during which    *)
(* disconnects are queued.  Both read millis() before they take the mutex. *)
(***************************************************************************)
EXTENDS Seats, Sequences

CONSTANTS LoopLag,      \* bound: ms between the loop's reading of the clock and its ticks
          CallbackLag,  \* bound: ms a callback waits for the mutex
          Period,       \* bound: ms between two passes of the loop
          MaxPending    \* HA_WS_PENDING_LIMIT

ASSUME LagAssumption ==
    /\ LoopLag \in Nat /\ CallbackLag \in Nat /\ Period \in Nat \ {0}
    /\ Grace + LoopLag + CallbackLag + Period < Word
    /\ MaxPending \in Nat \ {0}

VARIABLES
    clock,      \* millis()
    engine,     \* Engine and haHost, under the mutex
    table,      \* haSockets: what is known of a socket
    link,       \* the WebSocket clients of the library: their phone and state
    callback,   \* the callback of the AsyncTCP task that waits for the mutex
    loop,       \* where the loop task is and the time it read
    queue       \* haPersistencePendingDisconnects

vars == <<clock, engine, table, link, callback, loop, queue>>

Gone     == [state |-> "gone", id |-> NoOne]
Link     == [state : {"open", "closing"}, id : Identity] \cup {Gone}
Callback == [kind : {"none", "hello", "input", "disconnect"}, ws : Socket \cup {NoSocket}, raw : Time]
Idle     == [kind |-> "none", ws |-> NoSocket, raw |-> 0]
Stages   == {"top", "keys", "transaction", "closed", "restored", "sockets", "tick"}

Transaction == loop.at \in {"transaction", "closed", "restored"}

Init ==
    /\ clock = 0
    /\ engine = Reset(0, [id \in Identity |-> "none"])
    /\ table = [s \in Socket |-> "none"]
    /\ link = [s \in Socket |-> Gone]
    /\ callback = Idle
    /\ loop = [at |-> "top", now |-> 0]
    /\ queue = <<>>

\* Time passes; a task that holds an old reading is not overtaken by more than its bound.
Elapse ==
    /\ Since(clock, loop.now) < (IF loop.at = "top" THEN Period ELSE LoopLag)
    /\ callback.kind # "none" => Since(clock, callback.raw) < CallbackLag
    /\ clock' = (clock + 1) % Word
    /\ UNCHANGED <<engine, table, link, callback, loop, queue>>

-----------------------------------------------------------------------------
(* The AsyncTCP task. *)

Closed(links, S) ==
    [s \in Socket |-> IF s \in S /\ links[s].state = "open"
                      THEN [links[s] EXCEPT !.state = "closing"] ELSE links[s]]

\* Socket ids grow forever; one is taken again only when nothing refers to it.
Unused(s) == /\ link[s].state = "gone" /\ table[s] = "none" /\ HolderOf(engine, s) = {}
             /\ \A i \in DOMAIN queue : queue[i].ws # s

\* WS_EVT_CONNECT
Connect(s, id) ==
    /\ callback.kind = "none"
    /\ Unused(s) /\ \A t \in Socket : t < s => ~Unused(t)
    /\ IF Cardinality({t \in Socket : table[t] = "pending"}) < MaxPending
       THEN /\ table' = [table EXCEPT ![s] = "pending"]
            /\ link' = [link EXCEPT ![s] = [state |-> "open", id |-> id]]
       ELSE /\ table' = table
            /\ link' = [link EXCEPT ![s] = [state |-> "closing", id |-> id]]
    /\ UNCHANGED <<clock, engine, callback, loop, queue>>

\* A callback reads millis() and goes for the mutex.
Arrives(s, kind) ==
    /\ callback.kind = "none"
    /\ link[s].state # "gone"
    /\ callback' = [kind |-> kind, ws |-> s, raw |-> clock]
    /\ UNCHANGED <<clock, engine, table, link, loop, queue>>

\* WS_EVT_DATA: input of unknown sockets, and during a transaction, is dropped.
Taken == table[callback.ws] # "none" /\ ~Transaction

Ignored ==
    /\ callback.kind \in {"hello", "input"} /\ ~Taken
    /\ callback' = Idle
    /\ UNCHANGED <<clock, engine, table, link, loop, queue>>

Input ==
    /\ callback.kind = "input" /\ Taken
    /\ engine' = Play(Entered(engine, callback.raw), callback.ws)
    /\ callback' = Idle
    /\ UNCHANGED <<clock, table, link, loop, queue>>

\* A known identity needs no code; another may bring the wrong one.
Greeted ==
    /\ callback.kind = "hello" /\ Taken
    /\ \E admitted \in BOOLEAN :
           LET s == callback.ws
               id == link[s].id
               e == Entered(engine, callback.raw) IN
           /\ e.row[id] # "none" => admitted
           /\ engine' = Hello(e, s, id, admitted)
           /\ link' = Closed(link, TakenOver(e, s, id, admitted))
           /\ table' = IF HolderOf(engine', s) = {} THEN table
                       ELSE [table EXCEPT ![s] = "authenticated"]
    /\ callback' = Idle
    /\ UNCHANGED <<clock, loop, queue>>

\* haPersistenceQueueDisconnect
Queued(s, raw) ==
    IF \E i \in DOMAIN queue : queue[i].ws = s THEN queue
    ELSE Append(queue, [ws |-> s, raw |-> raw])

\* Fault: a disconnect during a transaction is dropped like any other event.
Disconnected_Dropped ==
    /\ callback.kind = "disconnect"
    /\ LET s == callback.ws
           P == HolderOf(engine, s) IN
       /\ engine' = ShownOffline(IF Transaction THEN engine
                                 ELSE Disconnect(engine, s, callback.raw), P)
       /\ table' = [table EXCEPT ![s] = "none"]
       /\ link' = [link EXCEPT ![s] = Gone]
    /\ callback' = Idle
    /\ UNCHANGED <<clock, loop, queue>>

\* WS_EVT_DISCONNECT
Disconnected ==
    /\ callback.kind = "disconnect"
    /\ LET s == callback.ws
           P == HolderOf(engine, s) IN
       /\ engine' = ShownOffline(IF Transaction THEN engine
                                 ELSE Disconnect(engine, s, callback.raw), P)
       /\ queue' = IF Transaction /\ P # {} THEN Queued(s, callback.raw) ELSE queue
       /\ table' = [table EXCEPT ![s] = "none"]
       /\ link' = [link EXCEPT ![s] = Gone]
    /\ callback' = Idle
    /\ UNCHANGED <<clock, loop>>

Callbacks == Ignored \/ Input \/ Greeted \/ Disconnected

\* The server closes an overloaded client.
CloseOverloaded(s) ==
    /\ link[s].state = "open"
    /\ link' = Closed(link, {s})
    /\ UNCHANGED <<clock, engine, table, callback, loop, queue>>

-----------------------------------------------------------------------------
(* The loop task. *)

LoopAt(from, to) == loop.at = from /\ loop' = [loop EXCEPT !.at = to]

LoopBegins ==
    /\ loop.at = "top" /\ loop' = [at |-> "keys", now |-> clock]
    /\ UNCHANGED <<clock, engine, table, link, callback, queue>>

\* haUiPumpKeys: no key, or New Session or Restore, with haPersistenceBeginTransaction.
Keys ==
    /\ \/ LoopAt("keys", "sockets") /\ UNCHANGED queue
       \/ LoopAt("keys", "transaction") /\ queue' = <<>>
    /\ UNCHANGED <<clock, engine, table, link, callback>>

\* haPersistenceRestoreHistory: every client is closed before the engine is reset.
CloseAll ==
    /\ LoopAt("transaction", "closed")
    /\ link' = Closed(link, Socket)
    /\ UNCHANGED <<clock, engine, table, callback, queue>>

Restore ==
    /\ LoopAt("closed", "restored")
    /\ queue' = <<>>
    /\ \E rows \in [Identity -> {"none", "offline"}] : engine' = Reset(clock, rows)
    /\ UNCHANGED <<clock, table, link, callback>>

Replay(e) ==
    LET after[n \in 0 .. Len(queue)] ==
            IF n = 0 THEN e ELSE Disconnect(after[n - 1], queue[n].ws, queue[n].raw)
    IN  after[Len(queue)]

\* haPersistenceEndTransaction, after a New Session or a restore, done or failed.
EndTransaction ==
    /\ LoopAt("transaction", "sockets") \/ LoopAt("restored", "sockets")
    /\ engine' = Replay(engine)
    /\ queue' = <<>>
    /\ UNCHANGED <<clock, table, link, callback>>

\* haSocketTick: any pending socket may have missed its deadline (see Admission).
SocketTick ==
    /\ LoopAt("sockets", "tick")
    /\ \E late \in SUBSET {s \in Socket : table[s] = "pending"} :
           /\ table' = [s \in Socket |-> IF s \in late THEN "none" ELSE table[s]]
           /\ link' = Closed(link, late)
    /\ UNCHANGED <<clock, engine, callback, queue>>

EngineTick ==
    /\ LoopAt("tick", "top")
    /\ engine' = Entered(engine, loop.now)
    /\ UNCHANGED <<clock, table, link, callback, queue>>

Loop == LoopBegins \/ Keys \/ CloseAll \/ Restore \/ EndTransaction \/ SocketTick \/ EngineTick

Next ==
    \/ Elapse
    \/ \E s \in Socket, id \in Identity : Connect(s, id)
    \/ \E s \in Socket, kind \in {"hello", "input", "disconnect"} : Arrives(s, kind)
    \/ Callbacks
    \/ \E s \in Socket : CloseOverloaded(s)
    \/ Loop

Spec == Init /\ [][Next]_vars

-----------------------------------------------------------------------------
(* Properties. *)

TypeOK ==
    /\ clock \in Time /\ engine \in Engine
    /\ table \in [Socket -> {"none", "pending", "authenticated"}]
    /\ link \in [Socket -> Link] /\ callback \in Callback
    /\ loop \in [at : Stages, now : Time]
    /\ queue \in Seq([ws : Socket, raw : Time]) /\ Len(queue) <= MaxPlayers

\* Engine::onHello: an identity has one seat, whatever its sockets do; a socket one too.
OneSeat ==
    /\ \A id \in Identity : Cardinality(SeatOf(engine, id)) <= 1
    /\ \A s \in Socket : Cardinality(HolderOf(engine, s)) <= 1

\* "avoiding ghost players": a seat that counts as online has a socket that is still
\* there and was let in, or whose disconnect is queued.
NoGhost ==
    \A p \in Pid : LET s == engine.seat[p].ws IN
        s # NoSocket => \/ link[s].state # "gone" /\ table[s] = "authenticated"
                        \/ \E i \in DOMAIN queue : queue[i].ws = s

\* Engine::onWsDisconnect, "the takeover guard": a socket that was let in and is not
\* being closed holds its phone's seat.
LetInIsSeated ==
    \A s \in Socket : table[s] = "authenticated" /\ link[s].state = "open"
        => \E p \in HolderOf(engine, s) : engine.seat[p].id = link[s].id

\* Seats and sockets belong to each other, one to one and in both directions.
SeatsMatchSockets == OneSeat /\ NoGhost /\ LetInIsSeated

\* haHostJoinStable, haHostSetOnline: the ledger shows as connected the identities of
\* the seats that are online, and their rows, but for queued disconnects.
LedgerAgrees ==
    \A id \in Identity :
        engine.row[id] = "online" <=>
            \E p \in SeatOf(engine, id) :
                Online(engine, p) /\ \A i \in DOMAIN queue : queue[i].ws # engine.seat[p].ws

\* Engine::onHello: "a 120s-old credential must not revive stale match state".
NotRevived ==
    [][\A p \in Pid :
        LET old == engine.seat[p] IN
        /\ callback.kind = "hello" /\ callback'.kind = "none"
        /\ old.detached /\ Since(callback.raw, old.at) >= Grace
        /\ engine' # engine
        => ~engine'.seat[p].played]_vars

\* docs/PROTOCOL.md: "A disconnected identity keeps its PID and exact game state for
\* 120 seconds", unless another session is restored.
GraceKept ==
    [][\A p \in Pid :
        LET old == engine.seat[p]
            new == engine'.seat[p] IN
        old.detached /\ loop'.at # "restored" /\ Since(clock, old.at) < Grace
            => new.id = old.id /\ new.played = old.played]_vars
=============================================================================
