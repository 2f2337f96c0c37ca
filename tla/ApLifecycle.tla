---------------------------- MODULE ApLifecycle ----------------------------
(***************************************************************************)
(* The planned life of the access point (hotspot-arcade-cardputer.ino,     *)
(* ha_ap_reconnect.h): the loop task pauses the engine, checkpoints,       *)
(* suspends the sockets, stops and restarts the portal and waits for the   *)
(* players that were online; the AsyncTCP task meanwhile delivers what     *)
(* sockets of before and after have to say.                                *)
(***************************************************************************)
EXTENDS Seats

CONSTANTS Window,       \* HA_AP_RECONNECT_WINDOW_MS
          LoopLag,      \* bound: ms between the loop's reading of the clock and its ticks
          CallbackLag,  \* bound: ms a callback waits for the mutex
          Period        \* bound: ms between two passes of the loop

ASSUME WindowAssumption ==
    /\ Window \in Nat /\ LoopLag \in Nat /\ CallbackLag \in Nat /\ Period \in Nat \ {0}
    /\ Grace + LoopLag + CallbackLag + Period < Word
    /\ Window + LoopLag + CallbackLag + Period < Word

VARIABLES
    clock,      \* millis()
    engine,     \* Engine and haHost, under the mutex
    table,      \* haSockets: the sockets let in
    link,       \* the WebSocket clients of the library: their phone and state
    callback,   \* the callback of the AsyncTCP task that waits for the mutex
    portal,     \* portalRunning
    accepting,  \* haTransportAcceptingSockets
    state,      \* haApState
    required,   \* haApRequiredRoster
    started,    \* haApReconnectStartedMs
    loop,       \* the loop task: where it is, the time it read, what it is about
    waited      \* for the properties: ms that have passed in the present ReconnectWait

vars == <<clock, engine, table, link, callback, portal, accepting, state, required, started,
          loop, waited>>
ap   == <<portal, accepting, state, required, started>>

Gone     == [state |-> "gone", id |-> NoOne]
Link     == [state : {"open", "closing", "lost"}, id : Identity] \cup {Gone}
Callback == [kind : {"none", "hello", "input", "disconnect"}, ws : Socket \cup {NoSocket}, raw : Time]
Idle     == [kind |-> "none", ws |-> NoSocket, raw |-> 0]
Stages   == {"top", "keys", "restore", "checkpoint", "suspend", "stop", "start", "accept", "wait",
             "empty", "tick", "evaluate", "resume", "expire"}
Nobody   == [ids |-> {}, unidentified |-> FALSE]

\* The boot has started the portal and resumed a session of phones that are not back yet;
\* known phones need no code (see Presence for the others).
Init ==
    /\ clock = 0
    /\ engine = Reset(0, [id \in Identity |-> "offline"])
    /\ table = {} /\ link = [s \in Socket |-> Gone] /\ callback = Idle
    /\ portal = TRUE /\ accepting = TRUE /\ state = "Running"
    /\ required = Nobody /\ started = 0
    /\ loop = [at |-> "top", now |-> 0, tries |-> 0]
    /\ waited = 0

Elapse ==
    /\ Since(clock, loop.now) < (IF loop.at = "top" THEN Period ELSE LoopLag)
    /\ callback.kind # "none" => Since(clock, callback.raw) < CallbackLag
    /\ clock' = (clock + 1) % Word
    /\ waited' = IF state # "ReconnectWait" THEN 0
                 ELSE IF waited < Word - 1 THEN waited + 1 ELSE waited
    /\ UNCHANGED <<engine, table, link, callback, ap, loop>>

-----------------------------------------------------------------------------
(* Policy. *)

\* Fault: everyone the ledger knows is waited for.
Capture_Known(e) == [ids |-> {id \in Identity : e.row[id] # "none"}, unidentified |-> FALSE]

\* haApRequiredCapture: the players who are online, by their ledger rows.
Capture(e) ==
    [ids |-> {id \in Identity : e.row[id] = "online" /\ \E p \in Pid : e.live[p] = id},
     unidentified |-> \E p \in Pid : e.live[p] = Nameless]

\* haApRequiredMissing(...) == 0
AllBack == ~required.unidentified /\ \A id \in required.ids : engine.row[id] = "online"

\* haApReconnectWindowExpired
WindowOver(now) == Since(now, started) >= Window

\* haPortalResume, and the same under the lock of a callback: nothing unless paused.
Resumes(raw, expireMissing) ==
    IF engine.paused
    THEN /\ engine' = Resumed(engine, raw, expireMissing)
         /\ state' = "Running" /\ required' = Nobody /\ started' = 0
    ELSE UNCHANGED <<engine, state, required, started>>

-----------------------------------------------------------------------------
(* The AsyncTCP task. *)

Unused(s) == link[s].state = "gone" /\ s \notin table /\ HolderOf(engine, s) = {}

\* WS_EVT_CONNECT, while the server runs; a paused transport refuses it.
Connect(s, id) ==
    /\ callback.kind = "none" /\ portal
    /\ Unused(s) /\ \A t \in Socket : t < s => ~Unused(t)
    /\ IF accepting
       THEN table' = table \cup {s} /\ link' = [link EXCEPT ![s] = [state |-> "open", id |-> id]]
       ELSE table' = table /\ link' = [link EXCEPT ![s] = [state |-> "closing", id |-> id]]
    /\ UNCHANGED <<clock, engine, callback, ap, loop, waited>>

Arrives(s, kind) ==
    /\ callback.kind = "none"
    /\ link[s].state # "gone"
    /\ callback' = [kind |-> kind, ws |-> s, raw |-> clock]
    /\ UNCHANGED <<clock, engine, table, link, ap, loop, waited>>

\* Fault: the deadline is left to the loop task.
DeadlineFirst_LoopOnly == FALSE

\* haApReconnectExpiresBeforeInput: the missing are finalized before they are heard.
DeadlineFirst == accepting /\ state = "ReconnectWait" /\ WindowOver(callback.raw) /\ engine.paused

\* Fault: a socket is listened to whether or not it is in the table.
Listened_Any(s) == accepting

\* haSocketFind: sockets of before the pause are not in the table any more.
Listened(s) == accepting /\ s \in table

\* Engine::onInput for a hello, and for anything else.
Heard(e, s) ==
    IF ~Listened(s) THEN e
    ELSE IF callback.kind = "input" THEN Play(Entered(e, callback.raw), s)
    ELSE Hello(Entered(e, callback.raw), s, link[s].id, TRUE)

ClosedBy(e, s) ==
    IF ~Listened(s) \/ callback.kind = "input" THEN {}
    ELSE TakenOver(Entered(e, callback.raw), s, link[s].id, TRUE)

\* WS_EVT_DATA
Data ==
    /\ callback.kind \in {"hello", "input"}
    /\ LET e == IF DeadlineFirst THEN Resumed(engine, callback.raw, TRUE) ELSE engine
           s == callback.ws IN
       /\ engine' = Heard(e, s)
       /\ link' = [t \in Socket |->
              IF t \in ClosedBy(e, s) /\ link[t].state = "open"
              THEN [link[t] EXCEPT !.state = "closing"] ELSE link[t]]
    /\ IF DeadlineFirst THEN state' = "Running" /\ required' = Nobody /\ started' = 0
       ELSE UNCHANGED <<state, required, started>>
    /\ callback' = Idle
    /\ UNCHANGED <<clock, table, portal, accepting, loop, waited>>

\* WS_EVT_DISCONNECT
Disconnected ==
    /\ callback.kind = "disconnect"
    /\ LET s == callback.ws IN
       /\ engine' = ShownOffline(Disconnect(engine, s, callback.raw), HolderOf(engine, s))
       /\ table' = table \ {s}
       /\ link' = [link EXCEPT ![s] = Gone]
    /\ callback' = Idle
    /\ UNCHANGED <<clock, ap, loop, waited>>

Callbacks == Data \/ Disconnected

-----------------------------------------------------------------------------
(* The loop task.  A key is served before the ticks of the same pass. *)

LoopAt(from, to) ==
    loop.at = from /\ loop' = [loop EXCEPT !.at = to, !.tries = IF to = "tick" THEN 0 ELSE @]
OnAir            == <<clock, table, link, callback, waited>>

LoopBegins ==
    /\ loop.at = "top" /\ loop' = [at |-> "keys", now |-> clock, tries |-> 0]
    /\ UNCHANGED <<OnAir, engine, ap>>

\* No key, or a name that is refused while players are waited for.
NoKey == LoopAt("keys", "tick") /\ UNCHANGED <<OnAir, engine, ap>>

\* haHostTogglePortal, while waiting: the host resumes early.
HostResumes ==
    /\ state = "ReconnectWait" /\ portal
    /\ LoopAt("keys", "tick")
    /\ Resumes(clock, FALSE)
    /\ UNCHANGED <<OnAir, portal, accepting>>

\* haPortalPauseAndStop, for the switch (no attempt to start) or for a new name.
Pause ==
    /\ portal /\ state # "ReconnectWait" /\ ~engine.paused
    /\ \E tries \in {0, 2} :
           loop.at = "keys" /\ loop' = [loop EXCEPT !.at = "checkpoint", !.tries = tries]
    /\ engine' = Paused(engine, clock)
    /\ required' = Capture(engine')
    /\ UNCHANGED <<OnAir, portal, accepting, state, started>>

\* The forced checkpoint; when it fails the live transport goes on.
Checkpoint ==
    \/ LoopAt("checkpoint", "suspend") /\ UNCHANGED <<OnAir, engine, ap>>
    \/ /\ LoopAt("checkpoint", "tick") /\ Resumes(clock, FALSE)
       /\ UNCHANGED <<OnAir, portal, accepting>>

Suspend ==
    /\ LoopAt("suspend", "stop")
    /\ engine' = Suspended(engine, clock)
    /\ table' = {} /\ accepting' = FALSE
    /\ UNCHANGED <<clock, link, callback, portal, state, required, started, waited>>

\* stopPortalTransport: the clients are closed, their disconnects come when they come.
Stop ==
    /\ LoopAt("stop", IF loop.tries = 0 THEN "tick" ELSE "start")
    /\ link' = [s \in Socket |-> IF link[s] = Gone THEN Gone ELSE [link[s] EXCEPT !.state = "lost"]]
    /\ portal' = FALSE
    /\ state' = IF loop.tries = 0 THEN "ManualOff" ELSE state
    /\ UNCHANGED <<clock, engine, table, callback, accepting, required, started, waited>>

\* haHostTogglePortal, while the portal is off.
SwitchOn ==
    /\ ~portal
    /\ loop.at = "keys" /\ loop' = [loop EXCEPT !.at = "start", !.tries = 1]
    /\ UNCHANGED <<OnAir, engine, ap>>

\* startPortalTransport fails; a new name's transaction may try the former one.
StartFails ==
    /\ loop.at = "start"
    /\ \/ loop.tries > 1 /\ loop' = [loop EXCEPT !.tries = @ - 1] /\ UNCHANGED ap
       \/ /\ LoopAt("start", "tick") /\ state' = "ManualOff"
          /\ UNCHANGED <<portal, accepting, required, started>>
    /\ UNCHANGED <<OnAir, engine>>

\* The 100 ms that startPortalTransport waits are a step of the clock, or less than one.
Start ==
    /\ LoopAt("start", "accept")
    /\ portal' = TRUE
    /\ UNCHANGED <<OnAir, engine, accepting, state, required, started>>

Accept ==
    /\ LoopAt("accept", "wait")
    /\ accepting' = TRUE
    /\ UNCHANGED <<OnAir, engine, portal, state, required, started>>

\* Fault: the start of the wait is not recorded.
Wait_NoStamp ==
    /\ LoopAt("wait", IF required = Nobody THEN "empty" ELSE "tick")
    /\ state' = "ReconnectWait" /\ waited' = 0
    /\ UNCHANGED <<clock, table, link, callback, engine, portal, accepting, required, started>>

\* haPortalStartReconnect
Wait ==
    /\ LoopAt("wait", IF required = Nobody THEN "empty" ELSE "tick")
    /\ state' = "ReconnectWait" /\ started' = clock /\ waited' = 0
    /\ UNCHANGED <<clock, table, link, callback, engine, portal, accepting, required>>

ResumeEmpty ==
    /\ LoopAt("empty", "tick")
    /\ Resumes(clock, FALSE)
    /\ UNCHANGED <<OnAir, portal, accepting>>

\* The history browser, from a key: an archived session takes the present one's place.
RestoreAsked == LoopAt("keys", "restore") /\ UNCHANGED <<OnAir, engine, ap>>

\* Fault: the fresh engine runs although the portal is off.
Restored_Running == Reset(clock, [id \in Identity |-> "offline"])

Restored ==
    LET e == Reset(clock, [id \in Identity |-> "offline"])
    IN  IF portal THEN e ELSE Paused(e, clock)

\* haPersistenceRestoreHistory, once the record is written (see Presence for what comes
\* between): the clients are closed, the barrier of the former session is void.
Restore ==
    /\ LoopAt("restore", "tick")
    /\ engine' = Restored
    /\ link' = [s \in Socket |-> IF link[s].state = "open" THEN [link[s] EXCEPT !.state = "closing"]
                                ELSE link[s]]
    /\ state' = IF portal THEN "Running" ELSE "ManualOff"
    /\ required' = Nobody /\ started' = 0
    /\ UNCHANGED <<clock, table, callback, portal, accepting, waited>>

Tick ==
    /\ IF portal THEN LoopAt("tick", "evaluate") /\ engine' = Entered(engine, loop.now)
       ELSE LoopAt("tick", "top") /\ UNCHANGED engine
    /\ UNCHANGED <<OnAir, ap>>

\* Fault: only the return of everyone ends the wait.
Evaluated_AllBack == IF AllBack THEN "resume" ELSE "top"

\* haApReconnectEvaluate: the deadline wins.
Evaluated ==
    IF WindowOver(loop.now) THEN "expire" ELSE IF AllBack THEN "resume" ELSE "top"

\* haPortalTick decides under the lock and acts under it again.
Evaluate ==
    /\ LoopAt("evaluate", IF state = "ReconnectWait" THEN Evaluated ELSE "top")
    /\ UNCHANGED <<OnAir, engine, ap>>

Resume ==
    /\ \/ LoopAt("resume", "top") /\ Resumes(clock, FALSE)
       \/ LoopAt("expire", "top") /\ Resumes(clock, TRUE)
    /\ UNCHANGED <<OnAir, portal, accepting>>

Keys == NoKey \/ HostResumes \/ Pause \/ SwitchOn \/ RestoreAsked
Rest == \/ Checkpoint \/ Suspend \/ Stop \/ StartFails \/ Start \/ Accept \/ Wait
        \/ ResumeEmpty \/ Restore \/ Tick \/ Evaluate \/ Resume

Next ==
    \/ Elapse
    \/ \E s \in Socket, id \in Identity : Connect(s, id)
    \/ \E s \in Socket, kind \in {"hello", "input", "disconnect"} : Arrives(s, kind)
    \/ Callbacks
    \/ LoopBegins \/ Keys \/ Rest

Spec == Init /\ [][Next]_vars

-----------------------------------------------------------------------------
(* Properties. *)

TypeOK ==
    /\ clock \in Time /\ engine \in Engine
    /\ table \subseteq Socket /\ link \in [Socket -> Link] /\ callback \in Callback
    /\ portal \in BOOLEAN /\ accepting \in BOOLEAN
    /\ state \in {"Running", "ManualOff", "ReconnectWait"}
    /\ required \in [ids : SUBSET Identity, unidentified : BOOLEAN]
    /\ started \in Time /\ waited \in Time
    /\ loop \in [at : Stages, now : Time, tries : 0 .. 2]

\* docs/ARCHITECTURE.md, AP lifecycle states: between two passes of the loop the state
\* tells what the portal, the gate of the callbacks and the engine's pause are.
StateTells ==
    loop.at = "top" =>
        /\ state = "Running"       => portal /\ accepting /\ ~engine.paused
        /\ state = "ManualOff"     => ~portal /\ ~accepting /\ engine.paused
        /\ state = "ReconnectWait" => portal /\ accepting /\ engine.paused

\* One state machine on both tasks.
StateAgrees == TypeOK /\ StateTells

\* "delayed disconnect callbacks cannot leak stale online seats": no seat is held by a
\* socket of before the last stop, and only sockets in the table hold one.
NoStaleSeat ==
    /\ \A s \in Socket : HolderOf(engine, s) # {} => s \in table
    /\ \A s \in table : link[s].state # "lost"

Restoring == loop.at = "restore" /\ loop'.at = "tick"

\* haApRequiredCapture: "a head count is not sufficient": the identities waited for are
\* back exactly when the seats that the engine expects are.
RequiredAgrees ==
    state = "ReconnectWait" /\ engine.paused =>
        (AllBack <=> \A p \in engine.expected : Online(engine, p))

\* docs/ARCHITECTURE.md: a planned restart "gives the captured required identities ten
\* minutes to return": a missing seat is finalized at the end of the window only, unless
\* another session is restored.
WindowKept ==
    [][\A p \in Missing(engine) :
        engine'.seat[p].id # engine.seat[p].id /\ ~Restoring
            => state = "ReconnectWait" /\ waited >= Window]_vars

\* The session time that has really passed; a pause takes none.
TrueNow == (engine.now + (IF engine.paused THEN 0 ELSE Since(clock, engine.src))) % Word

\* The reading of the clock by which a step of either task judges.
Reading == IF callback' # callback THEN callback.raw
           ELSE IF loop.at \in {"tick", "expire"} THEN loop.now ELSE clock

\* "The planned pause freezes the logical and disconnect clocks, so it does not consume
\* the ordinary two-minute grace": who was left keeps the seat and the part in a game for
\* the grace, but for a reading that is older than the leave.
LeftKept(p) ==
    LET old  == engine.seat[p]
        left == Since(TrueNow, old.at) IN
    /\ old.detached /\ p \notin Missing(engine) /\ ~Restoring
    /\ left < Grace /\ (engine.paused \/ Since(clock, Reading) <= left)
    => engine'.seat[p].id = old.id /\ engine'.seat[p].played = old.played

\* Who is missing keeps the seat for the window, but for a reading that is older than the
\* wait; and a hello that was read at the deadline or after it does not bring the part in
\* a game back, whichever task sees the deadline first (haApReconnectExpiresBeforeInput).
MissingKept(p) ==
    /\ engine'.seat[p].id # engine.seat[p].id /\ ~Restoring
       => state = "ReconnectWait" /\ (waited >= Window \/ Since(clock, Reading) > waited)
    /\ /\ callback.kind = "hello" /\ callback'.kind = "none" /\ accepting
       /\ state = "ReconnectWait" /\ waited - Since(clock, callback.raw) >= Window
       => ~engine'.seat[p].played

\* Engine::expireDetached and the reconnect window take no seat early, but by a reading
\* older than what it is compared with, which the unsigned difference makes the longest.
KeptUnlessStale == [][(\A p \in Pid : LeftKept(p)) /\ (\A p \in Missing(engine) : MissingKept(p))]_vars

\* haPortalTick: whoever stays away, the first pass of the loop that begins at the end of
\* the window, or after it, ends the wait.
WaitEnds == loop.at = "top" /\ state = "ReconnectWait" /\ loop.now = clock => waited < Window

=============================================================================
