------------------------- MODULE ApLifecycleProofs --------------------------
(***************************************************************************)
(* The life of the access point, for any number of phones, sockets and     *)
(* seats and any lengths of the window, the grace and the lags: the state  *)
(* tells the truth, no seat is held by a socket of an earlier life, a wait *)
(* is over when its window is, firmware and engine wait for the same, and  *)
(* grace and window are kept but for readings older than their start.      *)
(***************************************************************************)
EXTENDS ApLifecycle, SeatsProofs

-----------------------------------------------------------------------------
(* The clock. *)

LEMMA LengthFacts ==
    /\ Word \in Nat /\ Word > 0 /\ Time = 0 .. Word - 1 /\ 0 \in Time
    /\ Window \in Nat /\ LoopLag \in Nat /\ CallbackLag \in Nat /\ Period \in Nat
    /\ Window + LoopLag + CallbackLag + Period < Word
BY SeatAssumption, WindowAssumption DEF Time

LEMMA TickFacts ==
    ASSUME NEW then \in Time, clock \in Time, clock' = (clock + 1) % Word
    PROVE  /\ clock' \in Time
           /\ Since(clock', then) = IF Since(clock, then) = Word - 1 THEN 0
                                    ELSE Since(clock, then) + 1
<1>1. clock' = IF clock = Word - 1 THEN 0 ELSE clock + 1
  BY LengthFacts, ModFacts
<1>2. clock' \in Time
  BY <1>1, LengthFacts
<1>3. Since(clock, then) = IF clock >= then THEN clock - then ELSE clock - then + Word
  BY SinceFacts
<1>4. Since(clock', then) = IF clock' >= then THEN clock' - then ELSE clock' - then + Word
  BY <1>2, SinceFacts
<1> QED
  BY <1>1, <1>2, <1>3, <1>4, LengthFacts

-----------------------------------------------------------------------------
(* The invariant. *)

\* What StateTells says, of any stage at which nothing is being moved.
Steady ==
    /\ state = "Running"       => portal /\ accepting /\ ~engine.paused
    /\ state = "ManualOff"     => ~portal /\ ~accepting /\ engine.paused
    /\ state = "ReconnectWait" => portal /\ accepting /\ engine.paused

\* The stages of a planned stop and start; they begin from Running or from ManualOff.
Moving == {"checkpoint", "suspend", "stop", "start", "accept", "wait"}

\* The stages that only a portal that runs is in.
Watching == {"empty", "evaluate", "resume", "expire"}

Moved(on, gate) == portal = on /\ accepting = gate /\ engine.paused

Truthful ==
    /\ loop.at \in {"checkpoint", "suspend"} => Moved(TRUE, TRUE) /\ state = "Running"
    /\ loop.at = "stop"   => Moved(TRUE, FALSE) /\ state = "Running"
    /\ loop.at = "start"  => Moved(FALSE, FALSE) /\ state # "ReconnectWait"
    /\ loop.at = "accept" => Moved(TRUE, FALSE) /\ state # "ReconnectWait"
    /\ loop.at = "wait"   => Moved(TRUE, TRUE) /\ state # "ReconnectWait"
    /\ loop.at \notin Moving => Steady
    /\ loop.at \in Watching => portal

\* Who sits is in the table, and the table is of this life of the access point.
Listed ==
    /\ Fits(engine, table)
    /\ ~accepting => table = {}
    /\ \A s \in table : link[s].state # "lost"

\* A callback is about a client the library still has.
Pending == callback.kind # "none" => callback.ws \in Socket /\ link[callback.ws].state # "gone"

ApInv == TypeOK /\ Truthful /\ Listed /\ Pending

LEMMA LinkFacts ==
    /\ Gone \in Link /\ Gone.state = "gone"
    /\ \A x \in Link : /\ x.state \in {"open", "closing", "lost", "gone"}
                       /\ x.state # "gone" => x.id \in Identity
                       /\ x.state = "gone" => x = Gone
    /\ \A id \in Identity, st \in {"open", "closing", "lost"} :
           [state |-> st, id |-> id] \in Link
    /\ \A x \in Link, st \in {"open", "closing", "lost"} :
           x.state # "gone" => /\ [x EXCEPT !.state = st] \in Link
                               /\ [x EXCEPT !.state = st].state = st
BY DEF Link, Gone

LEMMA LoopFacts ==
    ASSUME TypeOK, NEW a, NEW b \in Stages, LoopAt(a, b)
    PROVE  /\ loop.at = a /\ loop'.at = b /\ loop'.now = loop.now
           /\ loop' \in [at : Stages, now : Time, tries : 0 .. 2]
<1> DEFINE t == IF b = "tick" THEN 0 ELSE loop.tries
           L == [at : Stages, now : Time, tries : 0 .. 2]
<1>1. loop \in L
  BY DEF TypeOK
<1>2. loop.at = a /\ loop' = [loop EXCEPT !.at = b, !.tries = t]
  BY DEF LoopAt
<1>3. t \in 0 .. 2
  BY <1>1
<1> HIDE DEF t
<1> QED
  BY <1>1, <1>2, <1>3

\* A step that leaves the sockets alone needs only a look at the engine and the gate.
LEMMA SocketsStay ==
    ASSUME ApInv, UNCHANGED <<table, link, callback>>, Fits(engine', table'),
           accepting => accepting'
    PROVE  Listed' /\ Pending'
BY DEF ApInv, Listed, Pending, Fits

LEMMA EngineStays ==
    ASSUME ApInv, UNCHANGED <<engine, table>>
    PROVE  Fits(engine', table')
BY DEF ApInv, Listed, Fits

-----------------------------------------------------------------------------
(* The AsyncTCP task. *)

LEMMA OfflineRows == [id \in Identity |-> "offline"] \in [Identity -> Rows]
BY DEF Rows

LEMMA Begins == ASSUME Init PROVE ApInv
<1>1. Fits(engine, {}) /\ engine.paused = FALSE
  BY OfflineRows, Resetting, LengthFacts DEF Init
<1>2. TypeOK
  <2>1. engine \in Engine
    BY <1>1 DEF Fits
  <2>2. link \in [Socket -> Link] /\ callback \in Callback
    BY LinkFacts, LengthFacts DEF Init, Callback, Idle
  <2>3. required \in [ids : SUBSET Identity, unidentified : BOOLEAN]
    BY DEF Init, Nobody
  <2>4. loop \in [at : Stages, now : Time, tries : 0 .. 2]
    BY LengthFacts DEF Init, Stages
  <2> QED
    BY <2>1, <2>2, <2>3, <2>4, LengthFacts DEF Init, TypeOK
<1>3. Truthful
  BY <1>1 DEF Init, Truthful, Steady, Moving, Watching
<1>4. Listed /\ Pending
  BY <1>1 DEF Init, Listed, Pending, Idle
<1> QED
  BY <1>2, <1>3, <1>4 DEF ApInv

LEMMA Elapsing == ASSUME ApInv, Elapse PROVE ApInv'
<1> USE DEF ApInv, Elapse, ap
<1>1. clock' \in Time
  BY LengthFacts, ModFacts DEF TypeOK
<1>2. waited' \in Time
  BY LengthFacts DEF TypeOK
<1>3. TypeOK'
  BY <1>1, <1>2 DEF TypeOK
<1>4. Truthful'
  BY DEF Truthful, Steady, Moved, Watching
<1>5. Listed' /\ Pending'
  BY SocketsStay, EngineStays
<1> QED
  BY <1>3, <1>4, <1>5

LEMMA Connecting ==
    ASSUME ApInv, NEW s \in Socket, NEW id \in Identity, Connect(s, id)
    PROVE  ApInv'
<1> USE DEF ApInv, Connect, ap
<1>1. PICK st \in {"open", "closing"} : /\ link' = [link EXCEPT ![s] = [state |-> st, id |-> id]]
                                       /\ table' = IF accepting THEN table \cup {s} ELSE table
  OBVIOUS
<1>2. link' \in [Socket -> Link] /\ link'[s].state = st
  BY <1>1, LinkFacts DEF TypeOK
<1>3. TypeOK'
  BY <1>1, <1>2 DEF TypeOK
<1>4. Truthful'
  BY DEF Truthful, Steady, Moved, Watching
<1>5. Listed'
  <2>1. Fits(engine', table')
    BY <1>1 DEF Listed, Fits
  <2>2. \A t \in table' : link'[t].state # "lost"
    BY <1>1, <1>2 DEF Listed, TypeOK
  <2> QED
    BY <1>1, <2>1, <2>2 DEF Listed
<1>6. Pending'
  BY DEF Pending
<1> QED
  BY <1>3, <1>4, <1>5, <1>6

LEMMA Arriving ==
    ASSUME ApInv, NEW s \in Socket, NEW kind \in {"hello", "input", "disconnect"}, Arrives(s, kind)
    PROVE  ApInv'
<1> USE DEF ApInv, Arrives, ap
<1>1. callback' \in Callback
  BY DEF TypeOK, Callback
<1>2. TypeOK'
  BY <1>1 DEF TypeOK
<1>3. Truthful'
  BY DEF Truthful, Steady, Moved, Watching
<1>4. Listed'
  BY DEF Listed
<1>5. Pending'
  BY DEF Pending
<1> QED
  BY <1>2, <1>3, <1>4, <1>5

LEMMA Disconnecteds == ASSUME ApInv, Disconnected PROVE ApInv'
<1> USE DEF ApInv, ap
<1> DEFINE s == callback.ws
           e == Disconnect(engine, s, callback.raw)
<1>1. s \in Socket /\ callback.raw \in Time
  BY DEF Disconnected, Pending, TypeOK, Callback
<1>2. Fits(engine, table)
  BY DEF Listed
<1>3. Fits(e, table \ {s}) /\ e.paused = engine.paused
  BY <1>1, <1>2, Disconnecting
<1> HIDE DEF e
<1>4. /\ engine' = ShownOffline(e, HolderOf(engine, s)) /\ table' = table \ {s}
      /\ link' = [link EXCEPT ![s] = Gone] /\ callback' = Idle
      /\ UNCHANGED <<clock, ap, loop, waited>>
  BY DEF Disconnected, e
<1>5. Fits(engine', table') /\ engine'.paused = engine.paused
  BY <1>3, <1>4, Hiding
<1> HIDE DEF s
<1>6. TypeOK'
  <2>1. engine' \in Engine
    BY <1>5 DEF Fits
  <2>2. link' \in [Socket -> Link] /\ callback' \in Callback
    BY <1>4, LinkFacts, LengthFacts DEF TypeOK, Callback, Idle
  <2> QED
    BY <1>4, <2>1, <2>2 DEF TypeOK
<1>7. Truthful'
  BY <1>4, <1>5 DEF Truthful, Steady, Moved, Watching
<1>8. Listed'
  <2>1. \A t \in table' : link'[t].state # "lost"
    BY <1>4 DEF Listed, TypeOK
  <2> QED
    BY <1>4, <1>5, <2>1 DEF Listed
<1>9. Pending'
  BY <1>4 DEF Pending, Idle
<1> QED
  BY <1>6, <1>7, <1>8, <1>9

\* The engine after a message was heard, or was not.
LEMMA Hearing ==
    ASSUME ApInv, callback.kind \in {"hello", "input"}, NEW e, Fits(e, table)
    PROVE  Fits(Heard(e, callback.ws), table) /\ Heard(e, callback.ws).paused = e.paused
<1> DEFINE s == callback.ws
           f == Entered(e, callback.raw)
<1>1. s \in Socket /\ callback.raw \in Time /\ link[s].id \in Identity
  BY LinkFacts DEF ApInv, Pending, TypeOK, Callback
<1>2. Fits(f, table) /\ f.paused = e.paused
  BY <1>1, Entering
<1> HIDE DEF f
<1>3. CASE ~Listened(s)
  BY <1>3 DEF Heard
<1>4. CASE Listened(s) /\ callback.kind = "input"
  <2>1. Heard(e, s) = Play(f, s)
    BY <1>4 DEF Heard, f
  <2>2. Fits(Play(f, s), table) /\ Play(f, s).paused = f.paused
    BY <1>2, Playing
  <2> QED
    BY <1>2, <2>1, <2>2
<1>5. CASE Listened(s) /\ callback.kind # "input"
  <2>1. Heard(e, s) = Hello(f, s, link[s].id, TRUE)
    BY <1>5 DEF Heard, f
  <2>2. table \cup {s} = table
    BY <1>5 DEF Listened
  <2>3. /\ Fits(Hello(f, s, link[s].id, TRUE), table \cup {s})
        /\ Hello(f, s, link[s].id, TRUE).paused = f.paused
    BY <1>1, <1>2, Greeting
  <2> QED
    BY <1>2, <2>1, <2>2, <2>3
<1> QED
  BY <1>3, <1>4, <1>5

LEMMA Hearings == ASSUME ApInv, Data PROVE ApInv'
<1> USE DEF ApInv, ap
<1> DEFINE e == IF DeadlineFirst THEN Resumed(engine, callback.raw, TRUE) ELSE engine
<1>1. callback.raw \in Time /\ callback.kind \in {"hello", "input"} /\ Fits(engine, table)
  BY DEF Data, TypeOK, Callback, Listed
<1>2. Fits(e, table) /\ e.paused = IF DeadlineFirst THEN FALSE ELSE engine.paused
  BY <1>1, Resuming
<1>3. /\ engine' = Heard(e, callback.ws)
      /\ link' = [t \in Socket |->
             IF t \in ClosedBy(e, callback.ws) /\ link[t].state = "open"
             THEN [link[t] EXCEPT !.state = "closing"] ELSE link[t]]
      /\ IF DeadlineFirst THEN state' = "Running" /\ required' = Nobody /\ started' = 0
         ELSE UNCHANGED <<state, required, started>>
      /\ callback' = Idle
      /\ UNCHANGED <<clock, table, portal, accepting, loop, waited>>
  BY DEF Data
<1> HIDE DEF e
<1>4. Fits(engine', table') /\ engine'.paused = e.paused
  BY <1>1, <1>2, <1>3, Hearing
<1>5. /\ link' \in [Socket -> Link]
      /\ \A t \in Socket : link'[t].state = "lost" => link[t].state = "lost"
  BY <1>3, LinkFacts DEF TypeOK
<1>6. TypeOK'
  <2>1. engine' \in Engine
    BY <1>4 DEF Fits
  <2>2. callback' \in Callback /\ Nobody \in [ids : SUBSET Identity, unidentified : BOOLEAN]
    BY <1>3, LengthFacts DEF Callback, Idle, Nobody
  <2> QED
    BY <1>3, <1>5, <2>1, <2>2, LengthFacts DEF TypeOK
<1>7. Truthful'
  <2>1. CASE DeadlineFirst
    BY <1>2, <1>3, <1>4, <2>1 DEF DeadlineFirst, Truthful, Steady, Moved, Moving, Watching
  <2>2. CASE ~DeadlineFirst
    BY <1>2, <1>3, <1>4, <2>2 DEF Truthful, Steady, Moved, Watching
  <2> QED
    BY <2>1, <2>2
<1>8. Listed'
  BY <1>3, <1>4, <1>5 DEF Listed, TypeOK
<1>9. Pending'
  BY <1>3 DEF Pending, Idle
<1> QED
  BY <1>6, <1>7, <1>8, <1>9

-----------------------------------------------------------------------------
(* The loop task. *)

\* A step of the loop keeps the types when what it sets is typed.
LEMMA LoopTyped ==
    ASSUME ApInv, UNCHANGED <<clock, table, link, callback>>, engine' \in Engine,
           portal' \in BOOLEAN, accepting' \in BOOLEAN,
           state' \in {"Running", "ManualOff", "ReconnectWait"},
           required' \in [ids : SUBSET Identity, unidentified : BOOLEAN],
           started' \in Time, waited' \in Time,
           loop' \in [at : Stages, now : Time, tries : 0 .. 2]
    PROVE  TypeOK'
BY DEF ApInv, TypeOK

\* A step that only moves the loop on, to a stage that asks no more than this one.
LEMMA Onward ==
    ASSUME ApInv, UNCHANGED <<OnAir, engine, ap>>,
           loop' \in [at : Stages, now : Time, tries : 0 .. 2], Truthful'
    PROVE  ApInv'
<1> USE DEF OnAir, ap
<1>1. engine' \in Engine
  BY DEF ApInv, TypeOK
<1>2. TypeOK'
  BY <1>1, LoopTyped DEF ApInv, TypeOK
<1>3. Listed' /\ Pending'
  BY SocketsStay, EngineStays
<1> QED
  BY <1>2, <1>3 DEF ApInv

LEMMA Beginning == ASSUME ApInv, LoopBegins PROVE ApInv'
<1>1. loop' \in [at : Stages, now : Time, tries : 0 .. 2]
  BY LengthFacts DEF LoopBegins, ApInv, TypeOK, Stages
<1>2. loop.at = "top" /\ loop'.at = "keys" /\ UNCHANGED <<OnAir, engine, ap>>
  BY DEF LoopBegins
<1>3. Truthful'
  BY <1>2 DEF ApInv, Truthful, Steady, Moved, Moving, Watching, ap
<1> QED
  BY <1>1, <1>2, <1>3, Onward

LEMMA Passing ==
    ASSUME ApInv, NEW a \in Stages \ Moving, NEW b \in Stages \ Moving, LoopAt(a, b),
           b \in Watching => portal,
           UNCHANGED <<OnAir, engine, ap>>
    PROVE  ApInv'
<1>1. loop.at = a /\ loop'.at = b /\ loop' \in [at : Stages, now : Time, tries : 0 .. 2]
  BY LoopFacts DEF ApInv
<1>2. Truthful'
  BY <1>1 DEF ApInv, Truthful, Steady, Moved, Moving, Watching, ap
<1> QED
  BY <1>1, <1>2, Onward

LEMMA StageFacts ==
    /\ {"top", "keys", "restore", "empty", "tick", "evaluate", "resume", "expire"}
           \subseteq Stages \ Moving
    /\ Moving \subseteq Stages
    /\ Watching \subseteq Stages \ Moving
    /\ {"top", "keys", "tick", "restore"} \cap Watching = {}
BY DEF Stages, Moving, Watching

\* resumeTransport from any stage that has an engine paused in Running or ReconnectWait.
LEMMA Continuing ==
    ASSUME ApInv, NEW a \in Stages, NEW b \in Stages \ Moving, LoopAt(a, b),
           b \notin Watching, NEW expireMissing \in BOOLEAN, Resumes(clock, expireMissing),
           UNCHANGED <<OnAir, portal, accepting>>,
           a \notin Moving \/ a = "checkpoint",
           engine.paused => portal /\ accepting
    PROVE  ApInv'
<1> USE DEF ApInv, OnAir
<1>1. loop.at = a /\ loop'.at = b /\ loop' \in [at : Stages, now : Time, tries : 0 .. 2]
  BY LoopFacts
<1>2. clock \in Time /\ Fits(engine, table)
  BY DEF TypeOK, Listed
<1>3. CASE engine.paused
  <2>1. /\ engine' = Resumed(engine, clock, expireMissing)
        /\ state' = "Running" /\ required' = Nobody /\ started' = 0
    BY <1>3 DEF Resumes
  <2>2. Fits(engine', table) /\ engine'.paused = FALSE
    BY <1>2, <2>1, Resuming
  <2>3. engine' \in Engine /\ Fits(engine', table')
    BY <2>2 DEF Fits
  <2>4. TypeOK'
    BY <1>1, <2>1, <2>3, LengthFacts DEF TypeOK, Nobody
  <2>5. Truthful'
    BY <1>1, <1>3, <2>1, <2>2 DEF Truthful, Steady, Moving, Watching
  <2>6. Listed' /\ Pending'
    BY <2>3, SocketsStay
  <2> QED
    BY <2>4, <2>5, <2>6
<1>4. CASE ~engine.paused
  <2>1. UNCHANGED <<engine, state, required, started>>
    BY <1>4 DEF Resumes
  <2>2. Truthful'
    BY <1>1, <1>4, <2>1 DEF Truthful, Steady, Moved, Moving, Watching
  <2> QED
    BY <1>1, <2>1, <2>2, Onward DEF ap
<1> QED
  BY <1>3, <1>4

\* Away from a planned stop a portal that runs has its gate open.
LEMMA OpenGate ==
    ASSUME ApInv, loop.at \notin Moving, portal
    PROVE  accepting
BY DEF ApInv, TypeOK, Truthful, Steady

LEMMA HostResuming == ASSUME ApInv, HostResumes PROVE ApInv'
<1>1. /\ LoopAt("keys", "tick") /\ Resumes(clock, FALSE)
      /\ UNCHANGED <<OnAir, portal, accepting>> /\ portal
  BY DEF HostResumes
<1>2. loop.at = "keys"
  BY <1>1 DEF LoopAt
<1>3. accepting
  BY <1>1, <1>2, StageFacts, OpenGate
<1> QED
  BY <1>1, <1>3, StageFacts, Continuing

LEMMA ResumingEmpty == ASSUME ApInv, ResumeEmpty PROVE ApInv'
<1>1. /\ LoopAt("empty", "tick") /\ Resumes(clock, FALSE)
      /\ UNCHANGED <<OnAir, portal, accepting>>
  BY DEF ResumeEmpty
<1>2. loop.at = "empty" /\ portal
  BY <1>1 DEF LoopAt, ApInv, Truthful, Watching
<1>3. accepting
  BY <1>2, StageFacts, OpenGate
<1> QED
  BY <1>1, <1>2, <1>3, StageFacts, Continuing

LEMMA ResumingLate ==
    ASSUME ApInv, NEW a \in {"resume", "expire"}, LoopAt(a, "top"),
           NEW expireMissing \in BOOLEAN, Resumes(clock, expireMissing),
           UNCHANGED <<OnAir, portal, accepting>>
    PROVE  ApInv'
<1>1. loop.at = a /\ portal
  BY DEF LoopAt, ApInv, Truthful, Watching
<1>2. accepting
  BY <1>1, StageFacts, OpenGate
<1> QED
  BY <1>1, <1>2, StageFacts, Continuing

LEMMA Pausings == ASSUME ApInv, Pause PROVE ApInv'
<1> USE DEF ApInv
<1>1. PICK tries \in {0, 2} :
          loop.at = "keys" /\ loop' = [loop EXCEPT !.at = "checkpoint", !.tries = tries]
  BY DEF Pause
<1>2. /\ portal /\ state # "ReconnectWait" /\ ~engine.paused
      /\ engine' = Paused(engine, clock) /\ required' = Capture(engine')
      /\ UNCHANGED <<OnAir, portal, accepting, state, started>>
  BY DEF Pause
<1>3. loop' \in [at : Stages, now : Time, tries : 0 .. 2] /\ loop'.at = "checkpoint"
  <2>1. "checkpoint" \in Stages
    BY DEF Stages
  <2>2. tries \in 0 .. 2
    OBVIOUS
  <2>3. loop \in [at : Stages, now : Time, tries : 0 .. 2]
    BY DEF TypeOK
  <2> QED
    BY <1>1, <2>1, <2>2, <2>3
<1>4. clock \in Time /\ Fits(engine, table)
  BY DEF TypeOK, Listed
<1>5. Fits(engine', table) /\ engine'.paused = TRUE
  BY <1>2, <1>4, Pausing
<1>6. engine' \in Engine /\ Fits(engine', table')
  BY <1>2, <1>5 DEF Fits, OnAir
<1>7. required' \in [ids : SUBSET Identity, unidentified : BOOLEAN]
  <2>1. {id \in Identity : engine'.row[id] = "online" /\ \E p \in Pid : engine'.live[p] = id}
            \in SUBSET Identity
    OBVIOUS
  <2>2. (\E p \in Pid : engine'.live[p] = Nameless) \in BOOLEAN
    OBVIOUS
  <2> QED
    BY <1>2, <2>1, <2>2 DEF Capture
<1>8. TypeOK'
  BY <1>2, <1>3, <1>6, <1>7 DEF TypeOK, OnAir
<1>9. Truthful'
  <2>1. state = "Running" /\ accepting
    BY <1>1, <1>2, StageFacts DEF TypeOK, Truthful, Steady
  <2> QED
    BY <1>2, <1>3, <1>5, <2>1 DEF Truthful, Moved, Moving, Watching
<1>10. Listed' /\ Pending'
  BY <1>2, <1>6, SocketsStay DEF OnAir
<1> QED
  BY <1>8, <1>9, <1>10

LEMMA Checkpoints == ASSUME ApInv, Checkpoint PROVE ApInv'
<1>1. CASE LoopAt("checkpoint", "suspend") /\ UNCHANGED <<OnAir, engine, ap>>
  <2>1. /\ loop.at = "checkpoint" /\ loop'.at = "suspend"
        /\ loop' \in [at : Stages, now : Time, tries : 0 .. 2]
    BY <1>1, StageFacts, LoopFacts DEF ApInv, Moving
  <2>2. Truthful'
    BY <1>1, <2>1 DEF ApInv, Truthful, Moved, Moving, Watching, ap
  <2> QED
    BY <1>1, <2>1, <2>2, Onward
<1>2. CASE /\ LoopAt("checkpoint", "tick") /\ Resumes(clock, FALSE)
           /\ UNCHANGED <<OnAir, portal, accepting>>
  <2>1. loop.at = "checkpoint"
    BY <1>2 DEF LoopAt
  <2>2. portal /\ accepting
    BY <2>1 DEF ApInv, Truthful, Moved
  <2>3. "checkpoint" \in Stages /\ "tick" \in Stages \ Moving /\ "tick" \notin Watching
    BY DEF Stages, Moving, Watching
  <2> QED
    BY <1>2, <2>2, <2>3, Continuing
<1> QED
  BY <1>1, <1>2 DEF Checkpoint

LEMMA Suspends == ASSUME ApInv, Suspend PROVE ApInv'
<1> USE DEF ApInv
<1>1. /\ LoopAt("suspend", "stop") /\ engine' = Suspended(engine, clock)
      /\ table' = {} /\ accepting' = FALSE
      /\ UNCHANGED <<clock, link, callback, portal, state, required, started, waited>>
  BY DEF Suspend
<1>2. /\ loop.at = "suspend" /\ loop'.at = "stop"
      /\ loop' \in [at : Stages, now : Time, tries : 0 .. 2]
  BY <1>1, StageFacts, LoopFacts DEF Moving
<1>3. clock \in Time /\ Fits(engine, table)
  BY DEF TypeOK, Listed
<1>4. Fits(engine', table') /\ engine'.paused = engine.paused
  BY <1>1, <1>3, Suspending
<1>5. engine' \in Engine
  BY <1>4 DEF Fits
<1>6. TypeOK'
  BY <1>1, <1>2, <1>5 DEF TypeOK
<1>7. Truthful'
  BY <1>1, <1>2, <1>4 DEF Truthful, Moved, Moving, Watching
<1>8. Listed' /\ Pending'
  BY <1>1, <1>4 DEF Listed, Pending
<1> QED
  BY <1>6, <1>7, <1>8

LEMMA Stops == ASSUME ApInv, Stop PROVE ApInv'
<1> USE DEF ApInv
<1> DEFINE next == IF loop.tries = 0 THEN "tick" ELSE "start"
<1>1. /\ LoopAt("stop", next)
      /\ link' = [s \in Socket |-> IF link[s] = Gone THEN Gone ELSE [link[s] EXCEPT !.state = "lost"]]
      /\ portal' = FALSE /\ state' = (IF loop.tries = 0 THEN "ManualOff" ELSE state)
      /\ UNCHANGED <<clock, engine, table, callback, accepting, required, started, waited>>
  BY DEF Stop
<1>2. next \in {"tick", "start"} /\ next \in Stages
  BY DEF Stages
<1>3. /\ loop.at = "stop" /\ loop'.at = next
      /\ loop' \in [at : Stages, now : Time, tries : 0 .. 2]
  BY <1>1, <1>2, LoopFacts
<1>4. /\ link' \in [Socket -> Link]
      /\ \A s \in Socket : link'[s].state = "gone" => link[s].state = "gone"
  BY <1>1, LinkFacts DEF TypeOK
<1>5. TypeOK'
  BY <1>1, <1>3, <1>4 DEF TypeOK
<1>6. Moved(TRUE, FALSE) /\ state = "Running" /\ table = {}
  BY <1>3 DEF Truthful, Listed, Moved
<1>7. Truthful'
  <2>1. CASE loop.tries = 0
    BY <1>1, <1>3, <1>6, <2>1 DEF Truthful, Steady, Moved, Moving, Watching
  <2>2. CASE loop.tries # 0
    BY <1>1, <1>3, <1>6, <2>2 DEF Truthful, Steady, Moved, Moving, Watching
  <2> QED
    BY <2>1, <2>2
<1>8. Listed'
  BY <1>1, <1>6 DEF Listed, Fits
<1>9. Pending'
  BY <1>1, <1>4 DEF Pending
<1> QED
  BY <1>5, <1>7, <1>8, <1>9

LEMMA SwitchingOn == ASSUME ApInv, SwitchOn PROVE ApInv'
<1>1. /\ ~portal /\ loop.at = "keys" /\ loop' = [loop EXCEPT !.at = "start", !.tries = 1]
      /\ UNCHANGED <<OnAir, engine, ap>>
  BY DEF SwitchOn
<1>2. loop' \in [at : Stages, now : Time, tries : 0 .. 2] /\ loop'.at = "start"
  <2>1. "start" \in Stages
    BY DEF Stages
  <2>2. loop \in [at : Stages, now : Time, tries : 0 .. 2]
    BY DEF ApInv, TypeOK
  <2>3. PICK t \in 0 .. 2 : loop' = [loop EXCEPT !.at = "start", !.tries = t]
    BY <1>1
  <2> QED
    BY <2>1, <2>2, <2>3
<1>3. Truthful'
  <2>1. state = "ManualOff" /\ Moved(FALSE, FALSE)
    BY <1>1, StageFacts DEF ApInv, TypeOK, Truthful, Steady, Moved
  <2> QED
    BY <1>1, <1>2, <2>1 DEF Truthful, Moved, Moving, Watching, ap
<1> QED
  BY <1>1, <1>2, <1>3, Onward

LEMMA StartFailing == ASSUME ApInv, StartFails PROVE ApInv'
<1> USE DEF ApInv
<1>1. loop.at = "start" /\ UNCHANGED <<OnAir, engine>>
  BY DEF StartFails
<1>2. Moved(FALSE, FALSE) /\ state # "ReconnectWait"
  BY <1>1 DEF Truthful
<1>3. CASE loop.tries > 1 /\ loop' = [loop EXCEPT !.tries = @ - 1] /\ UNCHANGED ap
  <2>1. loop' \in [at : Stages, now : Time, tries : 0 .. 2] /\ loop'.at = "start"
    BY <1>1, <1>3 DEF TypeOK
  <2>2. Truthful'
    BY <1>1, <1>2, <1>3, <2>1 DEF Truthful, Moved, Moving, Watching, ap
  <2> QED
    BY <1>1, <1>3, <2>1, <2>2, Onward
<1>4. CASE /\ LoopAt("start", "tick") /\ state' = "ManualOff"
           /\ UNCHANGED <<portal, accepting, required, started>>
  <2>1. loop'.at = "tick" /\ loop' \in [at : Stages, now : Time, tries : 0 .. 2]
    BY <1>4, StageFacts, LoopFacts
  <2>2. TypeOK'
    BY <1>1, <1>4, <2>1 DEF TypeOK, OnAir
  <2>3. Truthful'
    BY <1>1, <1>2, <1>4, <2>1 DEF Truthful, Steady, Moved, Moving, Watching
  <2>4. Listed' /\ Pending'
    BY <1>1, <1>4, SocketsStay, EngineStays DEF OnAir
  <2> QED
    BY <2>2, <2>3, <2>4
<1> QED
  BY <1>3, <1>4 DEF StartFails

LEMMA Starts == ASSUME ApInv, Start PROVE ApInv'
<1> USE DEF ApInv
<1>1. /\ LoopAt("start", "accept") /\ portal' = TRUE
      /\ UNCHANGED <<OnAir, engine, accepting, state, required, started>>
  BY DEF Start
<1>2. /\ loop.at = "start" /\ loop'.at = "accept"
      /\ loop' \in [at : Stages, now : Time, tries : 0 .. 2]
  BY <1>1, StageFacts, LoopFacts DEF Moving
<1>3. TypeOK'
  BY <1>1, <1>2 DEF TypeOK, OnAir
<1>4. Truthful'
  BY <1>1, <1>2 DEF Truthful, Moved, Moving, Watching
<1>5. Listed' /\ Pending'
  BY <1>1, SocketsStay, EngineStays DEF OnAir
<1> QED
  BY <1>3, <1>4, <1>5

LEMMA Accepts == ASSUME ApInv, Accept PROVE ApInv'
<1> USE DEF ApInv
<1>1. /\ LoopAt("accept", "wait") /\ accepting' = TRUE
      /\ UNCHANGED <<OnAir, engine, portal, state, required, started>>
  BY DEF Accept
<1>2. /\ loop.at = "accept" /\ loop'.at = "wait"
      /\ loop' \in [at : Stages, now : Time, tries : 0 .. 2]
  BY <1>1, StageFacts, LoopFacts DEF Moving
<1>3. TypeOK'
  BY <1>1, <1>2 DEF TypeOK, OnAir
<1>4. Truthful'
  BY <1>1, <1>2 DEF Truthful, Moved, Moving, Watching
<1>5. Listed' /\ Pending'
  BY <1>1, SocketsStay, EngineStays DEF OnAir
<1> QED
  BY <1>3, <1>4, <1>5

LEMMA Waits == ASSUME ApInv, Wait PROVE ApInv'
<1> USE DEF ApInv
<1> DEFINE next == IF required = Nobody THEN "empty" ELSE "tick"
<1>1. /\ LoopAt("wait", next)
      /\ state' = "ReconnectWait" /\ started' = clock /\ waited' = 0
      /\ UNCHANGED <<clock, table, link, callback, engine, portal, accepting, required>>
  BY DEF Wait
<1>2. next \in {"empty", "tick"} /\ next \in Stages
  BY StageFacts
<1> HIDE DEF next
<1>3. /\ loop.at = "wait" /\ loop'.at = next
      /\ loop' \in [at : Stages, now : Time, tries : 0 .. 2]
  BY <1>1, <1>2, LoopFacts
<1>4. TypeOK'
  BY <1>1, <1>3, LengthFacts DEF TypeOK
<1>5. Truthful'
  BY <1>1, <1>2, <1>3 DEF Truthful, Steady, Moved, Moving, Watching
<1>6. Listed' /\ Pending'
  BY <1>1, SocketsStay, EngineStays
<1> QED
  BY <1>4, <1>5, <1>6

LEMMA Restorings == ASSUME ApInv, Restore PROVE ApInv'
<1> USE DEF ApInv
<1>1. /\ LoopAt("restore", "tick") /\ engine' = Restored
      /\ link' = [s \in Socket |->
             IF link[s].state = "open" THEN [link[s] EXCEPT !.state = "closing"] ELSE link[s]]
      /\ state' = (IF portal THEN "Running" ELSE "ManualOff")
      /\ required' = Nobody /\ started' = 0
      /\ UNCHANGED <<clock, table, callback, portal, accepting, waited>>
  BY DEF Restore
<1>2. /\ loop.at = "restore" /\ loop'.at = "tick"
      /\ loop' \in [at : Stages, now : Time, tries : 0 .. 2]
  BY <1>1, StageFacts, LoopFacts
<1>3. Fits(engine', table) /\ engine'.paused = ~portal
  <2> DEFINE e == Reset(clock, [id \in Identity |-> "offline"])
  <2>1. clock \in Time
    BY DEF TypeOK
  <2>2. Fits(e, table) /\ e.paused = FALSE
    BY <2>1, OfflineRows, Resetting
  <2> HIDE DEF e
  <2>3. Fits(Paused(e, clock), table) /\ Paused(e, clock).paused = TRUE
    BY <2>1, <2>2, Pausing
  <2>4. engine' = IF portal THEN e ELSE Paused(e, clock)
    BY <1>1 DEF Restored, e
  <2>5. portal \in BOOLEAN
    BY DEF TypeOK
  <2> QED
    BY <2>2, <2>3, <2>4, <2>5
<1>4. /\ link' \in [Socket -> Link]
      /\ \A s \in Socket : /\ link'[s].state = "gone" => link[s].state = "gone"
                           /\ link'[s].state = "lost" => link[s].state = "lost"
  BY <1>1, LinkFacts DEF TypeOK
<1>5. TypeOK'
  <2>1. engine' \in Engine
    BY <1>3 DEF Fits
  <2>2. Nobody \in [ids : SUBSET Identity, unidentified : BOOLEAN]
    BY DEF Nobody
  <2> QED
    BY <1>1, <1>2, <1>4, <2>1, <2>2, LengthFacts DEF TypeOK
<1>6. Truthful'
  <2>1. portal \in BOOLEAN /\ accepting \in BOOLEAN /\ accepting = portal
    BY <1>2, StageFacts DEF TypeOK, Truthful, Steady
  <2>2. CASE portal
    BY <1>1, <1>2, <1>3, <2>1, <2>2 DEF Truthful, Steady, Moving, Watching
  <2>3. CASE ~portal
    BY <1>1, <1>2, <1>3, <2>1, <2>3 DEF Truthful, Steady, Moving, Watching
  <2> QED
    BY <2>2, <2>3
<1>7. Listed' /\ Pending'
  BY <1>1, <1>3, <1>4 DEF Listed, Pending, Fits, TypeOK
<1> QED
  BY <1>5, <1>6, <1>7

LEMMA Ticking == ASSUME ApInv, Tick PROVE ApInv'
<1> USE DEF ApInv
<1>1. CASE portal
  <2>1. /\ LoopAt("tick", "evaluate") /\ engine' = Entered(engine, loop.now)
        /\ UNCHANGED <<OnAir, ap>>
    BY <1>1 DEF Tick
  <2>2. /\ loop.at = "tick" /\ loop'.at = "evaluate"
        /\ loop' \in [at : Stages, now : Time, tries : 0 .. 2]
    BY <2>1, StageFacts, LoopFacts
  <2>3. loop.now \in Time /\ Fits(engine, table)
    BY DEF TypeOK, Listed
  <2>4. Fits(engine', table) /\ engine'.paused = engine.paused
    BY <2>1, <2>3, Entering
  <2>5. engine' \in Engine /\ Fits(engine', table')
    BY <2>1, <2>4 DEF Fits, OnAir
  <2>6. TypeOK'
    BY <2>1, <2>2, <2>5 DEF TypeOK, OnAir, ap
  <2>7. Truthful'
    BY <1>1, <2>1, <2>2, <2>4 DEF Truthful, Steady, Moved, Moving, Watching, ap
  <2>8. Listed' /\ Pending'
    BY <2>1, <2>5, SocketsStay DEF OnAir, ap
  <2> QED
    BY <2>6, <2>7, <2>8
<1>2. CASE ~portal
  <2>1. LoopAt("tick", "top") /\ UNCHANGED <<OnAir, engine, ap>>
    BY <1>2 DEF Tick
  <2> QED
    BY <2>1, StageFacts, Passing
<1> QED
  BY <1>1, <1>2

LEMMA Evaluating == ASSUME ApInv, Evaluate PROVE ApInv'
<1> DEFINE next == IF state = "ReconnectWait" THEN Evaluated ELSE "top"
<1>1. LoopAt("evaluate", next) /\ UNCHANGED <<OnAir, engine, ap>>
  BY DEF Evaluate
<1>2. next \in {"top", "resume", "expire"}
  BY DEF Evaluated
<1> HIDE DEF next
<1>3. loop.at = "evaluate" /\ portal
  BY <1>1 DEF LoopAt, ApInv, Truthful, Watching
<1> QED
  BY <1>1, <1>2, <1>3, StageFacts, Passing

LEMMA ApSteps == ASSUME ApInv, [Next]_vars PROVE ApInv'
<1>1. CASE Elapse
  BY <1>1, Elapsing
<1>2. CASE \E s \in Socket, id \in Identity : Connect(s, id)
  BY <1>2, Connecting
<1>3. CASE \E s \in Socket, kind \in {"hello", "input", "disconnect"} : Arrives(s, kind)
  BY <1>3, Arriving
<1>4. CASE Callbacks
  BY <1>4, Hearings, Disconnecteds DEF Callbacks
<1>5. CASE LoopBegins
  BY <1>5, Beginning
<1>6. CASE Keys
  <2>1. ASSUME NoKey PROVE ApInv'
    BY <2>1, StageFacts, Passing DEF NoKey
  <2>2. ASSUME RestoreAsked PROVE ApInv'
    BY <2>2, StageFacts, Passing DEF RestoreAsked
  <2> QED
    BY <1>6, <2>1, <2>2, HostResuming, Pausings, SwitchingOn DEF Keys
<1>7. CASE Rest
  <2>1. ASSUME Resume PROVE ApInv'
    BY <2>1, ResumingLate DEF Resume
  <2> QED
    BY <1>7, <2>1, Checkpoints, Suspends, Stops, StartFailing, Starts, Accepts, Waits,
       ResumingEmpty, Restorings, Ticking, Evaluating DEF Rest
<1>8. CASE UNCHANGED vars
  BY <1>8 DEF vars, ap, ApInv, TypeOK, Truthful, Steady, Moved, Listed, Fits, Pending
<1> QED
  BY <1>1, <1>2, <1>3, <1>4, <1>5, <1>6, <1>7, <1>8 DEF Next

\* The access point's life keeps the invariant.
THEOREM ApInvariant == Spec => []ApInv
<1> QED
  BY Begins, ApSteps, PTL DEF Spec

\* haApState, on both tasks: between two passes of the loop the state tells what portal,
\* gate and engine are, however callbacks, failed checkpoints and failed starts interleave.
THEOREM StateIsTrue == Spec => []StateAgrees
<1>1. ASSUME ApInv PROVE StateAgrees
  BY <1>1 DEF ApInv, StateAgrees, StateTells, Truthful, Steady, Moving
<1> QED
  BY <1>1, ApInvariant, PTL

\* haSocketReset, haPortalPauseAndStop: whoever holds a seat is in the table, and nobody in
\* the table is of before the last stop.
THEOREM SeatsAreLive == Spec => []NoStaleSeat
<1>1. ASSUME ApInv PROVE NoStaleSeat
  <2>1. ASSUME NEW s \in Socket, HolderOf(engine, s) # {} PROVE s \in table
    <3>1. PICK p \in Pid : engine.seat[p].id # NoOne /\ engine.seat[p].ws = s
      BY <2>1 DEF HolderOf
    <3>2. s # NoSocket
      BY NoSeatFacts
    <3> QED
      BY <1>1, <3>1, <3>2 DEF ApInv, Listed, Fits
  <2> QED
    BY <1>1, <2>1 DEF ApInv, Listed, NoStaleSeat
<1> QED
  BY <1>1, ApInvariant, PTL

-----------------------------------------------------------------------------
(* The end of a wait. *)

\* How old the loop's reading of the clock may be between two passes.
Slack == LoopLag + Period

Paced == Since(clock, loop.now) <= IF loop.at = "top" THEN Slack ELSE LoopLag

\* The last pass saw the window open; the present one sees it no later than it must.
Fresh ==
    state = "ReconnectWait" =>
        IF loop.at = "top" THEN Since(loop.now, started) < Window
        ELSE Since(clock, started) < Window + Slack + Since(clock, loop.now)

Counted == state = "ReconnectWait" => waited = Since(clock, started)

WaitInv == Paced /\ Fresh /\ Counted

LEMMA ReadingFacts ==
    ASSUME TypeOK
    PROVE  /\ clock \in Time /\ loop.now \in Time /\ started \in Time
           /\ Since(clock, loop.now) \in 0 .. Word - 1
           /\ Since(clock, started) \in 0 .. Word - 1
           /\ Since(loop.now, started) \in 0 .. Word - 1
BY SinceFacts DEF TypeOK

\* At the top the two differences add up to how long players have been waited for.
LEMMA TopFacts ==
    ASSUME TypeOK, WaitInv, Window + LoopLag + Slack < Word,
           loop.at = "top", state = "ReconnectWait"
    PROVE  Since(clock, started) = Since(clock, loop.now) + Since(loop.now, started)
<1>1. Since(clock, loop.now) <= Slack /\ Since(loop.now, started) < Window
  BY DEF WaitInv, Paced, Fresh
<1>2. Since(clock, started) =
          IF Since(clock, loop.now) + Since(loop.now, started) < Word
          THEN Since(clock, loop.now) + Since(loop.now, started)
          ELSE Since(clock, loop.now) + Since(loop.now, started) - Word
  BY ReadingFacts, ChainFacts
<1> QED
  BY <1>1, <1>2, ReadingFacts, LengthFacts DEF Slack

LEMMA WaitBegins == ASSUME Init PROVE WaitInv
BY LengthFacts, SinceFacts DEF Init, WaitInv, Paced, Fresh, Counted, Slack

LEMMA WaitElapses ==
    ASSUME TypeOK, WaitInv, Window + LoopLag + Slack < Word, Elapse
    PROVE  WaitInv'
<1> DEFINE r == Since(clock, loop.now)
           w == Since(clock, started)
<1>1. /\ r < (IF loop.at = "top" THEN Period ELSE LoopLag)
      /\ clock' = (clock + 1) % Word
      /\ waited' = (IF state # "ReconnectWait" THEN 0
                    ELSE IF waited < Word - 1 THEN waited + 1 ELSE waited)
      /\ UNCHANGED <<loop, state, started>>
  BY DEF Elapse, ap
<1>2. /\ clock' \in Time
      /\ Since(clock', loop.now) = IF r = Word - 1 THEN 0 ELSE r + 1
      /\ Since(clock', started) = IF w = Word - 1 THEN 0 ELSE w + 1
  BY <1>1, ReadingFacts, TickFacts
<1>3. r \in 0 .. Word - 1 /\ w \in 0 .. Word - 1
  BY ReadingFacts
<1>4. Since(clock', loop.now) = r + 1
  BY <1>1, <1>2, <1>3, LengthFacts
<1>5. state = "ReconnectWait" => w < Window + Slack + LoopLag - 1
  <2>1. CASE loop.at = "top" /\ state = "ReconnectWait"
    <3>1. w = r + Since(loop.now, started) /\ Since(loop.now, started) < Window
      BY <2>1, TopFacts DEF WaitInv, Fresh
    <3> QED
      BY <1>1, <1>3, <2>1, <3>1, ReadingFacts, LengthFacts DEF Slack
  <2>2. CASE loop.at # "top" /\ state = "ReconnectWait"
    <3>1. w < Window + Slack + r /\ r < LoopLag
      BY <1>1, <2>2 DEF WaitInv, Fresh
    <3> QED
      BY <1>3, <3>1, LengthFacts DEF Slack
  <2> QED
    BY <2>1, <2>2
<1>6. state = "ReconnectWait" => Since(clock', started) = w + 1
  BY <1>2, <1>3, <1>5, LengthFacts DEF Slack
<1> HIDE DEF r, w
<1>7. Paced'
  <2>1. Since(clock, loop.now)' = r + 1
    BY <1>1, <1>4
  <2>2. loop'.at = loop.at
    BY <1>1
  <2> QED
    BY <1>1, <1>3, <2>1, <2>2, LengthFacts DEF Paced, Slack
<1>8. Fresh'
  <2>1. SUFFICES ASSUME state = "ReconnectWait"
                 PROVE  IF loop.at = "top" THEN Since(loop.now, started) < Window
                        ELSE w + 1 < Window + Slack + (r + 1)
    BY <1>1, <1>4, <1>6 DEF Fresh
  <2>2. IF loop.at = "top" THEN Since(loop.now, started) < Window ELSE w < Window + Slack + r
    BY <2>1 DEF WaitInv, Fresh, r, w
  <2> QED
    BY <1>3, <2>2, LengthFacts DEF Slack
<1>9. Counted'
  <2>1. SUFFICES ASSUME state = "ReconnectWait" PROVE waited' = w + 1
    BY <1>1, <1>6 DEF Counted
  <2>2. waited = w
    BY <2>1 DEF WaitInv, Counted, w
  <2> QED
    BY <1>1, <1>3, <1>5, <2>1, <2>2, LengthFacts DEF Slack
<1> QED
  BY <1>7, <1>8, <1>9 DEF WaitInv

LEMMA PassBegins ==
    ASSUME TypeOK, WaitInv, Window + LoopLag + Slack < Word, LoopBegins
    PROVE  WaitInv'
<1>1. /\ loop.at = "top" /\ loop' = [at |-> "keys", now |-> clock, tries |-> 0]
      /\ UNCHANGED <<clock, waited, state, started>>
  BY DEF LoopBegins, OnAir, ap
<1>2. loop'.at = "keys" /\ loop'.now = clock
  BY <1>1
<1>3. Since(clock, clock) = 0
  BY ReadingFacts, NoTime
<1>4. Paced'
  BY <1>1, <1>2, <1>3, LengthFacts DEF Paced
<1>5. Fresh'
  <2>1. SUFFICES ASSUME state = "ReconnectWait"
                 PROVE  Since(clock, started) < Window + Slack + 0
    BY <1>1, <1>2, <1>3 DEF Fresh
  <2>2. /\ Since(clock, started) = Since(clock, loop.now) + Since(loop.now, started)
        /\ Since(clock, loop.now) <= Slack /\ Since(loop.now, started) < Window
    BY <1>1, <2>1, TopFacts DEF WaitInv, Paced, Fresh
  <2> QED
    BY <2>2, ReadingFacts, LengthFacts DEF Slack
<1>6. Counted'
  BY <1>1 DEF WaitInv, Counted
<1> QED
  BY <1>4, <1>5, <1>6 DEF WaitInv

LEMMA WaitStarts == ASSUME TypeOK, WaitInv, Wait PROVE WaitInv'
<1> DEFINE next == IF required = Nobody THEN "empty" ELSE "tick"
<1>1. /\ LoopAt("wait", next) /\ state' = "ReconnectWait" /\ started' = clock /\ waited' = 0
      /\ clock' = clock
  BY DEF Wait
<1>2. next # "top" /\ next \in Stages
  BY DEF Stages
<1>3. loop.at = "wait" /\ loop'.at # "top" /\ loop'.now = loop.now
  BY <1>1, <1>2, LoopFacts
<1>4. Since(clock, clock) = 0
  BY ReadingFacts, NoTime
<1>5. Paced'
  BY <1>1, <1>3 DEF WaitInv, Paced
<1>6. Fresh'
  BY <1>1, <1>3, <1>4, ReadingFacts, WindowAssumption DEF Fresh, Slack
<1>7. Counted'
  BY <1>1, <1>4 DEF Counted
<1> QED
  BY <1>5, <1>6, <1>7 DEF WaitInv

\* Every other step leaves the readings alone; it begins no wait, and it ends a pass only
\* when there is none or its window is open.
LEMMA WaitGoesOn ==
    ASSUME TypeOK, WaitInv, UNCHANGED <<clock, waited>>, loop'.now = loop.now,
           state' # "ReconnectWait" \/ UNCHANGED <<state, started>>,
           \/ loop'.at = loop.at
           \/ loop.at # "top" /\ loop'.at # "top"
           \/ /\ loop.at # "top"
              /\ state' # "ReconnectWait" \/ Since(loop.now, started) < Window
    PROVE  WaitInv'
<1> USE DEF WaitInv
<1> DEFINE r == Since(clock, loop.now)
<1>1. Paced'
  <2>1. r \in Nat
    BY ReadingFacts, LengthFacts
  <2>2. /\ r <= IF loop.at = "top" THEN Slack ELSE LoopLag
        /\ Since(clock, loop.now)' = r
    BY DEF Paced
  <2> HIDE DEF r
  <2> QED
    BY <2>1, <2>2, LengthFacts DEF Paced, Slack
<1>2. Fresh'
  BY DEF Fresh
<1>3. Counted'
  BY DEF Counted
<1> QED
  BY <1>1, <1>2, <1>3

\* The AsyncTCP task only ever ends a wait.
LEMMA WaitHeard ==
    ASSUME TypeOK, WaitInv,
           \/ \E s \in Socket, id \in Identity : Connect(s, id)
           \/ \E s \in Socket, kind \in {"hello", "input", "disconnect"} : Arrives(s, kind)
           \/ Callbacks
    PROVE  WaitInv'
<1>1. UNCHANGED <<clock, waited, loop>>
  BY DEF Connect, Arrives, Callbacks, Data, Disconnected
<1>2. state' # "ReconnectWait" \/ UNCHANGED <<state, started>>
  BY DEF Connect, Arrives, Callbacks, Data, Disconnected, ap
<1> QED
  BY <1>1, <1>2, WaitGoesOn

\* A pass goes on from stage to stage.
LEMMA WaitOnward ==
    ASSUME TypeOK, WaitInv, NEW a \in Stages \ {"top"}, NEW b \in Stages \ {"top"}, LoopAt(a, b),
           UNCHANGED <<clock, waited>>,
           state' # "ReconnectWait" \/ UNCHANGED <<state, started>>
    PROVE  WaitInv'
<1>1. loop.at = a /\ loop'.at = b /\ loop'.now = loop.now
  BY LoopFacts
<1> QED
  BY <1>1, WaitGoesOn

LEMMA LaterFacts == Stages \ {"top"} = {"keys", "restore", "checkpoint", "suspend", "stop", "start",
                                        "accept", "wait", "empty", "tick", "evaluate", "resume",
                                        "expire"}
BY DEF Stages

LEMMA WaitKeys == ASSUME TypeOK, WaitInv, Keys PROVE WaitInv'
<1> USE LaterFacts
<1>1. CASE NoKey
  BY <1>1, WaitOnward DEF NoKey, OnAir, ap
<1>2. CASE HostResumes
  <2>1. /\ LoopAt("keys", "tick") /\ UNCHANGED <<clock, waited>>
        /\ state' # "ReconnectWait" \/ UNCHANGED <<state, started>>
    BY <1>2 DEF HostResumes, Resumes, OnAir
  <2> QED
    BY <2>1, WaitOnward
<1>3. CASE Pause
  <2>1. /\ loop.at = "keys" /\ loop'.at = "checkpoint" /\ loop'.now = loop.now
        /\ UNCHANGED <<clock, waited, state, started>>
    BY <1>3 DEF Pause, OnAir, TypeOK
  <2> QED
    BY <2>1, WaitGoesOn
<1>4. CASE SwitchOn
  <2>1. /\ loop.at = "keys" /\ loop'.at = "start" /\ loop'.now = loop.now
        /\ UNCHANGED <<clock, waited, state, started>>
    BY <1>4 DEF SwitchOn, OnAir, ap, TypeOK
  <2> QED
    BY <2>1, WaitGoesOn
<1>5. CASE RestoreAsked
  BY <1>5, WaitOnward DEF RestoreAsked, OnAir, ap
<1> QED
  BY <1>1, <1>2, <1>3, <1>4, <1>5 DEF Keys

LEMMA WaitStops ==
    ASSUME TypeOK, WaitInv, Checkpoint \/ Suspend \/ Stop \/ StartFails \/ Start \/ Accept
    PROVE  WaitInv'
<1> USE LaterFacts
<1>1. CASE Checkpoint
  <2>1. PICK b \in {"suspend", "tick"} : LoopAt("checkpoint", b)
    BY <1>1 DEF Checkpoint
  <2>2. UNCHANGED <<clock, waited>> /\ (state' # "ReconnectWait" \/ UNCHANGED <<state, started>>)
    BY <1>1 DEF Checkpoint, Resumes, OnAir, ap
  <2> QED
    BY <2>1, <2>2, WaitOnward
<1>2. CASE Suspend
  BY <1>2, WaitOnward DEF Suspend
<1>3. CASE Stop
  <2>1. PICK b \in {"tick", "start"} : LoopAt("stop", b)
    BY <1>3 DEF Stop
  <2>2. UNCHANGED <<clock, waited>> /\ (state' # "ReconnectWait" \/ UNCHANGED <<state, started>>)
    BY <1>3 DEF Stop
  <2> QED
    BY <2>1, <2>2, WaitOnward
<1>4. CASE StartFails
  <2>1. CASE loop.tries > 1 /\ loop' = [loop EXCEPT !.tries = @ - 1] /\ UNCHANGED ap
    <3>1. loop'.at = loop.at /\ loop'.now = loop.now /\ UNCHANGED <<clock, waited, state, started>>
      BY <1>4, <2>1 DEF StartFails, OnAir, ap, TypeOK
    <3> QED
      BY <3>1, WaitGoesOn
  <2>2. CASE LoopAt("start", "tick") /\ state' = "ManualOff"
    <3>1. UNCHANGED <<clock, waited>>
      BY <1>4 DEF StartFails, OnAir
    <3> QED
      BY <2>2, <3>1, WaitOnward
  <2> QED
    BY <1>4, <2>1, <2>2 DEF StartFails
<1>5. CASE Start
  BY <1>5, WaitOnward DEF Start, OnAir
<1>6. CASE Accept
  BY <1>6, WaitOnward DEF Accept, OnAir
<1> QED
  BY <1>1, <1>2, <1>3, <1>4, <1>5, <1>6

LEMMA WaitResumes ==
    ASSUME ApInv, WaitInv, ResumeEmpty \/ Restore \/ Tick \/ Evaluate \/ Resume
    PROVE  WaitInv'
<1> USE LaterFacts
<1>0. TypeOK
  BY DEF ApInv
<1>1. CASE ResumeEmpty
  <2>1. /\ LoopAt("empty", "tick") /\ UNCHANGED <<clock, waited>>
        /\ state' # "ReconnectWait" \/ UNCHANGED <<state, started>>
    BY <1>1 DEF ResumeEmpty, Resumes, OnAir
  <2> QED
    BY <1>0, <2>1, WaitOnward
<1>2. CASE Restore
  <2>1. /\ LoopAt("restore", "tick") /\ UNCHANGED <<clock, waited>> /\ state' # "ReconnectWait"
    BY <1>2 DEF Restore
  <2> QED
    BY <1>0, <2>1, WaitOnward
<1>3. CASE Tick
  <2>1. UNCHANGED <<clock, waited, state, started>>
    BY <1>3 DEF Tick, OnAir, ap
  <2>2. CASE portal
    BY <1>0, <1>3, <2>1, <2>2, WaitOnward DEF Tick
  <2>3. CASE ~portal
    <3>1. LoopAt("tick", "top")
      BY <1>3, <2>3 DEF Tick
    <3>2. loop.at = "tick" /\ loop'.now = loop.now
      BY <1>0, <3>1, LoopFacts DEF Stages
    <3>3. state # "ReconnectWait"
      BY <2>3, <3>2, StageFacts DEF ApInv, Truthful, Steady
    <3> QED
      BY <1>0, <2>1, <3>2, <3>3, WaitGoesOn
  <2> QED
    BY <2>2, <2>3
<1>4. CASE Evaluate
  <2> DEFINE next == IF state = "ReconnectWait" THEN Evaluated ELSE "top"
  <2>1. LoopAt("evaluate", next) /\ UNCHANGED <<clock, waited, state, started>>
    BY <1>4 DEF Evaluate, OnAir, ap
  <2>2. next \in {"expire", "resume", "top"}
    BY DEF Evaluated
  <2>3. next = "top" => state # "ReconnectWait" \/ Since(loop.now, started) < Window
    <3>1. Since(loop.now, started) \in Int /\ Window \in Int
      BY <1>0, ReadingFacts, LengthFacts
    <3> QED
      BY <3>1 DEF Evaluated, WindowOver
  <2> HIDE DEF next
  <2>4. loop.at = "evaluate" /\ loop'.at = next /\ loop'.now = loop.now
    BY <1>0, <2>1, <2>2, LoopFacts DEF Stages
  <2> QED
    BY <1>0, <2>1, <2>2, <2>3, <2>4, WaitGoesOn
<1>5. CASE Resume
  <2>1. PICK a \in {"resume", "expire"}, expireMissing \in BOOLEAN :
            LoopAt(a, "top") /\ Resumes(clock, expireMissing)
    BY <1>5 DEF Resume
  <2>2. UNCHANGED <<clock, waited>>
    BY <1>5 DEF Resume, OnAir
  <2>3. loop.at = a /\ loop'.now = loop.now
    BY <1>0, <2>1, LoopFacts DEF Stages
  <2>4. state' # "ReconnectWait"
    <3>1. state = "ReconnectWait" => engine.paused
      BY <2>3, StageFacts DEF ApInv, Truthful, Steady
    <3> QED
      BY <2>1, <3>1 DEF Resumes
  <2> QED
    BY <1>0, <2>2, <2>3, <2>4, WaitGoesOn
<1> QED
  BY <1>1, <1>2, <1>3, <1>4, <1>5

LEMMA WaitSteps ==
    ASSUME ApInv, WaitInv, Window + LoopLag + Slack < Word, [Next]_vars
    PROVE  WaitInv'
<1>0. TypeOK
  BY DEF ApInv
<1>1. CASE Elapse
  BY <1>0, <1>1, WaitElapses
<1>2. CASE \/ \E s \in Socket, id \in Identity : Connect(s, id)
           \/ \E s \in Socket, kind \in {"hello", "input", "disconnect"} : Arrives(s, kind)
           \/ Callbacks
  BY <1>0, <1>2, WaitHeard
<1>3. CASE LoopBegins
  BY <1>0, <1>3, PassBegins
<1>4. CASE Keys
  BY <1>0, <1>4, WaitKeys
<1>5. CASE Rest
  BY <1>0, <1>5, WaitStops, WaitStarts, WaitResumes DEF Rest
<1>6. CASE UNCHANGED vars
  BY <1>6 DEF vars, ap, WaitInv, Paced, Fresh, Counted
<1> QED
  BY <1>1, <1>2, <1>3, <1>4, <1>5, <1>6 DEF Next

\* haPortalTick: where a pass of the loop and the pause to the next fit the clock's range
\* twice beside the window, no wait is open at the end of a pass whose reading is at the
\* end of the window or past it, however the clock wraps.
THEOREM WaitsEnd == ASSUME Window + LoopLag + (LoopLag + Period) < Word PROVE Spec => []WaitEnds
<1>1. Window + LoopLag + Slack < Word
  BY DEF Slack
<1>2. Init => ApInv /\ WaitInv
  BY Begins, WaitBegins
<1>3. (ApInv /\ WaitInv) /\ [Next]_vars => (ApInv /\ WaitInv)'
  BY <1>1, ApSteps, WaitSteps
<1>4. ApInv /\ WaitInv => WaitEnds
  <2>1. SUFFICES ASSUME ApInv, WaitInv, loop.at = "top", state = "ReconnectWait", loop.now = clock
                 PROVE  waited < Window
    BY DEF WaitEnds
  <2>2. waited = Since(clock, started) /\ Since(clock, started) < Window
    BY <2>1 DEF WaitInv, Fresh, Counted
  <2> QED
    BY <2>1, <2>2, ReadingFacts, LengthFacts DEF ApInv
<1> QED
  BY <1>2, <1>3, <1>4, PTL DEF Spec

-----------------------------------------------------------------------------
(* Who is waited for: the ledger's rows and the engine's seats. *)

\* An identity has one seat; a row is online when its seat has a socket, and a live entry
\* is of the seat's identity; a seat that was left has no socket.
Ledger(e) ==
    /\ \A p, q \in Pid : e.seat[p].id = e.seat[q].id /\ e.seat[p].id # NoOne => p = q
    /\ \A p \in Pid : e.live[p] \in {NoOne, e.seat[p].id}
    /\ \A p \in Pid : Online(e, p) => /\ e.seat[p].id # NoOne
                                      /\ e.live[p] = e.seat[p].id
                                      /\ e.row[e.seat[p].id] = "online"
    /\ \A id \in Identity : e.row[id] = "online" =>
           \E p \in Pid : e.seat[p].id = id /\ Online(e, p)
    /\ \A p \in Pid : e.seat[p].detached => ~Online(e, p)

\* Of every seat that is expected its identity is required, or that of a seat now gone;
\* and conversely.
Expects(e, R) ==
    /\ ~R.unidentified
    /\ \A p \in e.expected : IF e.seat[p].id # NoOne THEN e.seat[p].id \in R.ids
                             ELSE \E id \in R.ids : SeatOf(e, id) = {}
    /\ \A id \in R.ids : \E p \in e.expected : e.seat[p].id \in {id, NoOne}

\* Ledger and expectation look at nothing else.
LEMMA SameLedger ==
    ASSUME NEW e, NEW f, Ledger(e), f.live = e.live, f.row = e.row,
           \A p \in Pid : /\ f.seat[p].id = e.seat[p].id /\ f.seat[p].ws = e.seat[p].ws
                          /\ f.seat[p].detached = e.seat[p].detached
    PROVE  Ledger(f)
BY DEF Ledger, Online

LEMMA SameExpected ==
    ASSUME NEW e \in Engine, NEW f, NEW R, Expects(e, R), f.expected = e.expected,
           \A p \in Pid : f.seat[p].id = e.seat[p].id
    PROVE  Expects(f, R)
<1>1. \A p \in e.expected : p \in Pid
  BY EngineFacts
<1> QED
  BY <1>1 DEF Expects, SeatOf

\* Seats without a socket are finalized.
LEMMA ReleasedLedger ==
    ASSUME NEW e \in Engine, Ledger(e), NEW P \in SUBSET Pid, \A p \in P : ~Online(e, p)
    PROVE  Ledger(Released(e, P))
<1> DEFINE f == Released(e, P)
<1>1. /\ \A p \in Pid : f.seat[p] = IF p \in P THEN NoSeat ELSE e.seat[p]
      /\ \A p \in Pid : f.live[p] = IF p \in P THEN NoOne ELSE e.live[p]
      /\ \A id \in Identity : f.row[id] = IF \E p \in P : e.live[p] = id THEN "offline" ELSE e.row[id]
  <2>1. /\ f.expected = e.expected
        /\ f.seat = [p \in Pid |-> IF p \in P THEN NoSeat ELSE e.seat[p]]
        /\ f.live = [p \in Pid |-> IF p \in P THEN NoOne ELSE e.live[p]]
        /\ f.row  = [id \in Identity |->
                        IF \E p \in P : e.live[p] = id THEN "offline" ELSE e.row[id]]
    BY ReleasedIs
  <2> HIDE DEF f
  <2> QED
    BY <2>1
<1> HIDE DEF f
<1>2. NoSeat.id = NoOne /\ NoSeat.ws = NoSocket /\ NoSeat.detached = FALSE
  BY DEF NoSeat
<1>3. \A p \in Pid : Online(f, p) => p \notin P /\ Online(e, p) /\ f.seat[p] = e.seat[p]
  BY <1>1, <1>2 DEF Online
<1>4. \A p, q \in Pid : f.seat[p].id = f.seat[q].id /\ f.seat[p].id # NoOne => p = q
  BY <1>1, <1>2 DEF Ledger
<1>5. \A p \in Pid : f.live[p] \in {NoOne, f.seat[p].id}
  BY <1>1, <1>2 DEF Ledger
<1>6. ASSUME NEW p \in Pid, Online(f, p)
      PROVE  f.seat[p].id # NoOne /\ f.live[p] = f.seat[p].id /\ f.row[f.seat[p].id] = "online"
  <2>1. p \notin P /\ Online(e, p) /\ f.seat[p] = e.seat[p] /\ f.live[p] = e.live[p]
    BY <1>1, <1>3, <1>6
  <2>2. e.seat[p].id # NoOne /\ e.live[p] = e.seat[p].id /\ e.row[e.seat[p].id] = "online"
    BY <2>1 DEF Ledger
  <2>3. e.seat[p].id \in Identity
    BY <2>2, EngineFacts, SeatFacts
  <2>4. \A q \in P : e.live[q] # e.seat[p].id
    BY <2>1, <2>2 DEF Ledger
  <2> QED
    BY <1>1, <2>1, <2>2, <2>3, <2>4
<1>7. ASSUME NEW id \in Identity, f.row[id] = "online"
      PROVE  \E p \in Pid : f.seat[p].id = id /\ Online(f, p)
  <2>1. e.row[id] = "online"
    BY <1>1, <1>7
  <2>2. PICK p \in Pid : e.seat[p].id = id /\ Online(e, p)
    BY <2>1 DEF Ledger
  <2>3. p \notin P /\ f.seat[p] = e.seat[p]
    BY <1>1, <2>2
  <2> QED
    BY <2>2, <2>3 DEF Online
<1>8. \A p \in Pid : f.seat[p].detached => ~Online(f, p)
  BY <1>1, <1>2, <1>3 DEF Ledger
<1>9. Ledger(f)
  BY <1>4, <1>5, <1>6, <1>7, <1>8 DEF Ledger
<1> QED
  BY <1>9 DEF f

LEMMA ReleasedExpects ==
    ASSUME NEW e \in Engine, Ledger(e), NEW P \in SUBSET Pid,
           NEW R \in [ids : SUBSET Identity, unidentified : BOOLEAN], Expects(e, R)
    PROVE  Expects(Released(e, P), R)
<1> DEFINE f == Released(e, P)
<1>1. /\ \A p \in Pid : f.seat[p] = IF p \in P THEN NoSeat ELSE e.seat[p]
      /\ f.expected = e.expected
  <2>1. /\ f.expected = e.expected
        /\ f.seat = [p \in Pid |-> IF p \in P THEN NoSeat ELSE e.seat[p]]
        /\ f.live = [p \in Pid |-> IF p \in P THEN NoOne ELSE e.live[p]]
        /\ f.row  = [id \in Identity |->
                        IF \E p \in P : e.live[p] = id THEN "offline" ELSE e.row[id]]
    BY ReleasedIs
  <2> HIDE DEF f
  <2> QED
    BY <2>1
<1> HIDE DEF f
<1>2. NoSeat.id = NoOne /\ e.expected \subseteq Pid
  BY EngineFacts DEF NoSeat
<1>3. \A id \in R.ids : id # NoOne
  BY SeatAssumption
<1>4. \A id \in R.ids : SeatOf(e, id) = {} => SeatOf(f, id) = {}
  BY <1>1, <1>2, <1>3 DEF SeatOf
<1>5. ASSUME NEW p \in f.expected
      PROVE  IF f.seat[p].id # NoOne THEN f.seat[p].id \in R.ids
             ELSE \E id \in R.ids : SeatOf(f, id) = {}
  <2>1. p \in Pid /\ p \in e.expected
    BY <1>1, <1>2, <1>5
  <2>2. CASE e.seat[p].id = NoOne
    BY <1>1, <1>2, <1>4, <2>1, <2>2 DEF Expects
  <2>3. CASE e.seat[p].id # NoOne /\ p \notin P
    BY <1>1, <2>1, <2>3 DEF Expects
  <2>4. CASE e.seat[p].id # NoOne /\ p \in P
    <3>1. e.seat[p].id \in R.ids /\ f.seat[p].id = NoOne
      BY <1>1, <1>2, <2>1, <2>4 DEF Expects
    <3>2. SeatOf(f, e.seat[p].id) = {}
      BY <1>1, <1>2, <2>1, <2>4 DEF SeatOf, Ledger
    <3> QED
      BY <3>1, <3>2
  <2> QED
    BY <2>2, <2>3, <2>4
<1>6. \A id \in R.ids : \E p \in f.expected : f.seat[p].id \in {id, NoOne}
  BY <1>1, <1>2 DEF Expects
<1>7. Expects(f, R)
  BY <1>5, <1>6 DEF Expects
<1> QED
  BY <1>7 DEF f

\* What is true of the engine: who has a socket, who is listed, who is waited for.
Rosters == [ids : SUBSET Identity, unidentified : BOOLEAN]

Sound(e, T, R) == Fits(e, T) /\ Ledger(e) /\ (e.paused => Expects(e, R))

LEMMA SoundSync ==
    ASSUME NEW e, NEW T, NEW R \in Rosters, Sound(e, T, R), NEW raw \in Time
    PROVE  Sound(Sync(e, raw), T, R)
<1> DEFINE f == Sync(e, raw)
<1>1. e \in Engine /\ Fits(e, T) /\ Ledger(e) /\ (e.paused => Expects(e, R))
  BY DEF Sound, Fits
<1>2. /\ f.paused = e.paused /\ f.expected = e.expected /\ f.seat = e.seat /\ f.live = e.live
      /\ f.row = e.row
  BY <1>1, SyncIs
<1>3. Fits(f, T)
  BY <1>1, Syncing
<1> HIDE DEF f
<1>4. Ledger(f)
  BY <1>1, <1>2, SameLedger
<1>5. e.paused => Expects(f, R)
  BY <1>1, <1>2, SameExpected
<1>6. Sound(f, T, R)
  BY <1>2, <1>3, <1>4, <1>5 DEF Sound
<1> QED
  BY <1>6 DEF f

LEMMA SoundRelease ==
    ASSUME NEW e, NEW T, NEW R \in Rosters, Sound(e, T, R), NEW P \in SUBSET Pid,
           \A p \in P : ~Online(e, p)
    PROVE  Sound(Released(e, P), T, R) /\ Released(e, P).paused = e.paused
<1>1. e \in Engine /\ Fits(e, T) /\ Ledger(e) /\ (e.paused => Expects(e, R))
  BY DEF Sound, Fits
<1>2. Fits(Released(e, P), T) /\ Released(e, P).paused = e.paused
  BY <1>1, Releasing
<1>3. Ledger(Released(e, P))
  BY <1>1, ReleasedLedger
<1>4. e.paused => Expects(Released(e, P), R)
  BY <1>1, ReleasedExpects DEF Rosters
<1> QED
  BY <1>2, <1>3, <1>4 DEF Sound

LEMMA SoundEnter ==
    ASSUME NEW e, NEW T, NEW R \in Rosters, Sound(e, T, R), NEW raw \in Time
    PROVE  Sound(Entered(e, raw), T, R)
<1> DEFINE f == Sync(e, raw)
<1>1. Sound(f, T, R)
  BY SoundSync
<1>2. Entered(e, raw) = Released(f, Expiring(f))
  BY DEF Entered
<1> HIDE DEF f
<1>3. Expiring(f) \in SUBSET Pid
  BY DEF Expiring
<1>4. \A p \in Expiring(f) : ~Online(f, p)
  BY <1>1 DEF Expiring, Sound, Ledger
<1> QED
  BY <1>1, <1>2, <1>3, <1>4, SoundRelease

\* A sweep keeps who has a socket.
LEMMA EnteredHolders ==
    ASSUME NEW e, NEW T, NEW R, Sound(e, T, R), NEW raw, NEW s \in Socket
    PROVE  HolderOf(Entered(e, raw), s) = HolderOf(e, s)
<1> DEFINE f == Sync(e, raw)
           X == Expiring(f)
<1>1. e \in Engine /\ f.seat = e.seat
  BY SyncIs DEF Sound, Fits
<1>2. X \subseteq Pid /\ \A p \in X : ~Online(e, p)
  <2>1. X \subseteq Pid /\ \A p \in X : e.seat[p].detached
    BY <1>1 DEF Expiring
  <2> QED
    BY <2>1 DEF Sound, Ledger
<1>3. Entered(e, raw) = Released(f, X)
  BY DEF Entered
<1> HIDE DEF X
<1>4. Released(f, X).seat = [p \in Pid |-> IF p \in X THEN NoSeat ELSE f.seat[p]]
  <2>1. f = [e EXCEPT !.src = raw, !.now = f.now]
    BY <1>1 DEF Sync, Engine
  <2> HIDE DEF f
  <2>2. Released(f, X).seat = [p \in Pid |-> IF p \in X THEN NoSeat ELSE f.seat[p]]
    BY <1>1, <2>1 DEF Released, Engine
  <2> QED
    BY <2>2
<1> HIDE DEF f
<1>5. s # NoSocket /\ NoSeat.id = NoOne
  BY NoSeatFacts
<1>6. \A p \in Pid : p \in X => e.seat[p].ws # s
  BY <1>2, <1>5 DEF Online
<1> QED
  BY <1>1, <1>3, <1>4, <1>5, <1>6 DEF HolderOf

LEMMA SoundLeave ==
    ASSUME NEW e, NEW T, NEW R \in Rosters, Sound(e, T, R), NEW s \in Socket
    PROVE  Sound(ShownOffline(Detached(e, HolderOf(e, s)), HolderOf(e, s)), T, R)
<1> DEFINE P == HolderOf(e, s)
           f == Detached(e, P)
           g == ShownOffline(f, P)
<1>1. e \in Engine /\ Fits(e, T) /\ Ledger(e) /\ (e.paused => Expects(e, R))
  BY DEF Sound, Fits
<1>2. Fits(f, T)
  BY <1>1, Detaching
<1>3. f \in Engine /\ Fits(g, T)
  BY <1>2, Hiding DEF Fits
<1>5. \A p \in P : p \in Pid /\ Online(e, p)
  BY NoSeatFacts DEF HolderOf, Online
<1> HIDE DEF P
<1>4. /\ f.paused = e.paused /\ f.expected = e.expected /\ f.live = e.live /\ f.row = e.row
      /\ \A p \in Pid :
            /\ f.seat[p].id = e.seat[p].id
            /\ p \in P => f.seat[p].ws = NoSocket /\ f.seat[p].detached
            /\ p \notin P => f.seat[p] = e.seat[p]
  BY <1>1, DetachedIs
<1> HIDE DEF f
<1>6. /\ g.paused = f.paused /\ g.expected = f.expected /\ g.seat = f.seat /\ g.live = f.live
      /\ \A id \in Identity :
            g.row[id] = IF \E p \in P : f.live[p] = id THEN "offline" ELSE f.row[id]
  BY <1>3, HiddenIs
<1> HIDE DEF g
<1>7. /\ g.paused = e.paused /\ g.expected = e.expected /\ g.live = e.live /\ g.seat = f.seat
  BY <1>4, <1>6
<1>8. \A id \in Identity : g.row[id] = IF \E p \in P : e.live[p] = id THEN "offline" ELSE e.row[id]
  BY <1>4, <1>6
<1>9. \A p \in Pid : Online(g, p) <=> p \notin P /\ Online(e, p)
  BY <1>4, <1>7 DEF Online
<1>10. \A p \in P : e.live[p] = e.seat[p].id /\ e.seat[p].id # NoOne
  BY <1>1, <1>5 DEF Ledger
<1>11. Ledger(g)
  <2>1. ASSUME NEW p \in Pid, Online(g, p)
        PROVE  g.seat[p].id # NoOne /\ g.live[p] = g.seat[p].id /\ g.row[g.seat[p].id] = "online"
    <3>1. p \notin P /\ Online(e, p)
      BY <1>9, <2>1
    <3>2. e.seat[p].id # NoOne /\ e.live[p] = e.seat[p].id /\ e.row[e.seat[p].id] = "online"
      BY <1>1, <3>1 DEF Ledger
    <3>3. e.seat[p].id \in Identity
      BY <1>1, <3>2, EngineFacts, SeatFacts
    <3>4. \A q \in P : e.live[q] # e.seat[p].id
      BY <1>1, <1>5, <1>10, <3>1, <3>2 DEF Ledger
    <3> QED
      BY <1>4, <1>7, <1>8, <3>2, <3>3, <3>4
  <2>2. ASSUME NEW id \in Identity, g.row[id] = "online"
        PROVE  \E p \in Pid : g.seat[p].id = id /\ Online(g, p)
    <3>1. e.row[id] = "online" /\ \A p \in P : e.live[p] # id
      BY <1>7, <1>8, <2>2
    <3>2. PICK p \in Pid : e.seat[p].id = id /\ Online(e, p)
      BY <1>1, <3>1 DEF Ledger
    <3>3. p \notin P
      BY <1>10, <3>1, <3>2
    <3> QED
      BY <1>4, <1>7, <1>9, <3>2, <3>3
  <2>3. ASSUME NEW p \in Pid, g.seat[p].detached PROVE ~Online(g, p)
    <3>1. p \in P \/ e.seat[p].detached
      BY <1>4, <1>7, <2>3
    <3>2. p \in P \/ ~Online(e, p)
      BY <1>1, <3>1 DEF Ledger
    <3> QED
      BY <1>9, <3>2
  <2>0. \A p \in Pid : g.seat[p].id = e.seat[p].id
    BY <1>4, <1>7
  <2>4. /\ \A p, q \in Pid : g.seat[p].id = g.seat[q].id /\ g.seat[p].id # NoOne => p = q
        /\ \A p \in Pid : g.live[p] \in {NoOne, g.seat[p].id}
    BY <1>1, <1>7, <2>0 DEF Ledger
  <2> QED
    BY <2>1, <2>2, <2>3, <2>4 DEF Ledger
<1>12. e.paused => Expects(g, R)
  <2>1. \A p \in Pid : g.seat[p].id = e.seat[p].id
    BY <1>4, <1>7
  <2> QED
    BY <1>1, <1>7, <2>1, SameExpected
<1>13. Sound(g, T, R)
  BY <1>3, <1>7, <1>11, <1>12 DEF Sound
<1> QED
  BY <1>13 DEF g, f, P

LEMMA SoundPlay ==
    ASSUME NEW e, NEW T, NEW R \in Rosters, Sound(e, T, R), NEW s
    PROVE  Sound(Play(e, s), T, R)
<1> DEFINE f == Play(e, s)
<1>1. e \in Engine /\ Fits(e, T) /\ Ledger(e) /\ (e.paused => Expects(e, R))
  BY DEF Sound, Fits
<1>2. /\ f.paused = e.paused /\ f.expected = e.expected /\ f.live = e.live /\ f.row = e.row
      /\ \A p \in Pid : /\ f.seat[p].id = e.seat[p].id /\ f.seat[p].ws = e.seat[p].ws
                        /\ f.seat[p].detached = e.seat[p].detached
  BY <1>1, PlayIs
<1>3. Fits(f, T)
  BY <1>1, Playing
<1> HIDE DEF f
<1>4. Ledger(f) /\ (e.paused => Expects(f, R))
  BY <1>1, <1>2, SameLedger, SameExpected
<1>5. Sound(f, T, R)
  BY <1>2, <1>3, <1>4 DEF Sound
<1> QED
  BY <1>5 DEF f

LEMMA SoundSeat ==
    ASSUME NEW e, NEW R \in Rosters, Sound(e, Socket, R), NEW p \in Pid,
           NEW id \in Identity, NEW s \in Socket,
           \/ e.seat[p].id = id
           \/ e.seat[p].id = NoOne /\ ~e.paused /\ SeatOf(e, id) = {}
    PROVE  Sound(Seated(e, p, id, s), Socket, R)
<1> DEFINE g == Seated(e, p, id, s)
<1>1. e \in Engine /\ Fits(e, Socket) /\ Ledger(e) /\ (e.paused => Expects(e, R))
  BY DEF Sound, Fits
<1>2. Fits(g, Socket) /\ g.paused = e.paused
  <2>1. Fits(g, Socket \cup {s}) /\ g.paused = e.paused
    BY <1>1, Seating
  <2> QED
    BY <2>1 DEF Fits
<1>3. id # NoOne /\ NoOne \notin Identity /\ s # NoSocket
  BY SeatAssumption, NoSeatFacts
<1>4. \A q \in Pid : e.seat[q].id = id => q = p
  BY <1>1, <1>3 DEF Ledger, SeatOf
<1>5. e.live[p] # NoOne => e.live[p] = id
  BY <1>1 DEF Ledger
<1>6. ASSUME e.live[p] = NoOne, e.row[id] = "online" PROVE FALSE
  <2>1. PICK q \in Pid : e.seat[q].id = id /\ Online(e, q)
    BY <1>1, <1>6 DEF Ledger
  <2> QED
    BY <1>1, <1>3, <1>4, <1>6, <2>1 DEF Ledger
<1>7. /\ g.paused = e.paused /\ g.expected = e.expected
      /\ g.seat[p].id = id /\ g.seat[p].ws = s /\ ~g.seat[p].detached
      /\ g.live[p] = id /\ g.row[id] = "online"
      /\ \A q \in Pid : q # p => g.seat[q] = e.seat[q] /\ g.live[q] = e.live[q]
      /\ \A i \in Identity : i # id => g.row[i] = e.row[i]
  BY <1>1, <1>5, <1>6, SeatedIs
<1> HIDE DEF g
<1>8. \A q \in Pid : q # p => (Online(g, q) <=> Online(e, q))
  BY <1>7 DEF Online
<1>9. Ledger(g)
  <2>1. \A q, r \in Pid : g.seat[q].id = g.seat[r].id /\ g.seat[q].id # NoOne => q = r
    BY <1>1, <1>4, <1>7 DEF Ledger
  <2>2. \A q \in Pid : g.live[q] \in {NoOne, g.seat[q].id}
    BY <1>1, <1>7 DEF Ledger
  <2>3. ASSUME NEW q \in Pid, Online(g, q)
        PROVE  g.seat[q].id # NoOne /\ g.live[q] = g.seat[q].id /\ g.row[g.seat[q].id] = "online"
    <3>1. CASE q = p
      BY <1>3, <1>7, <3>1
    <3>2. CASE q # p
      <4>1. e.seat[q].id # NoOne /\ e.live[q] = e.seat[q].id /\ e.row[e.seat[q].id] = "online"
        BY <1>1, <1>8, <2>3, <3>2 DEF Ledger
      <4>2. e.seat[q].id \in Identity
        BY <1>1, <4>1, EngineFacts, SeatFacts
      <4> QED
        BY <1>7, <3>2, <4>1, <4>2
    <3> QED
      BY <3>1, <3>2
  <2>4. ASSUME NEW i \in Identity, g.row[i] = "online"
        PROVE  \E q \in Pid : g.seat[q].id = i /\ Online(g, q)
    <3>1. CASE i = id
      BY <1>3, <1>7, <3>1 DEF Online
    <3>2. CASE i # id
      <4>1. PICK q \in Pid : e.seat[q].id = i /\ Online(e, q)
        BY <1>1, <1>7, <2>4, <3>2 DEF Ledger
      <4>2. q # p
        BY <1>3, <3>2, <4>1
      <4> QED
        BY <1>7, <1>8, <4>1, <4>2
    <3> QED
      BY <3>1, <3>2
  <2>5. \A q \in Pid : g.seat[q].detached => ~Online(g, q)
    BY <1>1, <1>7, <1>8 DEF Ledger
  <2> QED
    BY <2>1, <2>2, <2>3, <2>4, <2>5 DEF Ledger
<1>10. ASSUME e.paused PROVE Expects(g, R)
  <2>1. \A q \in Pid : g.seat[q].id = e.seat[q].id
    BY <1>7, <1>10
  <2> QED
    BY <1>1, <1>7, <1>10, <2>1, SameExpected
<1>11. Sound(g, Socket, R)
  BY <1>2, <1>9, <1>10 DEF Sound
<1> QED
  BY <1>11 DEF g

LEMMA SoundHello ==
    ASSUME NEW e, NEW R \in Rosters, Sound(e, Socket, R), NEW id \in Identity, NEW s \in Socket,
           NEW admitted
    PROVE  Sound(Hello(e, s, id, admitted), Socket, R)
<1> DEFINE P == HelloSeat(e, s, id, admitted)
<1>1. ASSUME NEW p \in P
      PROVE  /\ p \in Pid
             /\ \/ e.seat[p].id = id
                \/ e.seat[p].id = NoOne /\ ~e.paused /\ SeatOf(e, id) = {}
  BY HelloSeatFacts
<1>2. CASE P = {}
  BY <1>2 DEF Hello
<1>3. CASE P # {}
  <2>1. P \in SUBSET Pid
    BY <1>1
  <2>2. Lowest(P) \in P
    BY <1>3, <2>1, LowestFacts
  <2>3. Sound(Seated(e, Lowest(P), id, s), Socket, R)
    BY <1>1, <2>2, SoundSeat
  <2> QED
    BY <1>3, <2>3 DEF Hello
<1> QED
  BY <1>2, <1>3

\* The pause captures whoever is online, in the ledger and in the engine.
LEMMA SoundPause ==
    ASSUME NEW e, NEW R \in Rosters, Sound(e, Socket, R), NEW raw \in Time, ~e.paused
    PROVE  Capture(Paused(e, raw)) \in Rosters
           /\ Sound(Paused(e, raw), Socket, Capture(Paused(e, raw)))
<1> DEFINE f == Entered(e, raw)
           expected == {p \in Pid : Online(f, p)}
           g == Paused(e, raw)
           C == Capture(g)
<1>1. Sound(f, Socket, R)
  BY SoundEnter
<1>2. f \in Engine /\ Ledger(f)
  BY <1>1 DEF Sound, Fits
<1>3. Fits(e, Socket)
  BY DEF Sound
<1>4. Fits(g, Socket) /\ g.paused = TRUE
  BY <1>3, Pausing
<1>5. g = [f EXCEPT !.paused = TRUE, !.expected = expected]
  BY DEF Paused
<1>6. \A p \in Pid : p \in expected <=> Online(f, p)
  OBVIOUS
<1>7. expected \subseteq Pid
  OBVIOUS
<1>8. /\ C.ids = {id \in Identity : g.row[id] = "online" /\ \E p \in Pid : g.live[p] = id}
      /\ C.unidentified = (\E p \in Pid : g.live[p] = Nameless)
      /\ C \in Rosters
  <2>1. (\E p \in Pid : g.live[p] = Nameless) \in BOOLEAN
    OBVIOUS
  <2> QED
    BY <2>1 DEF Capture, Rosters
<1> HIDE DEF f, expected, g, C
<1>9. /\ g.expected = expected /\ g.seat = f.seat /\ g.live = f.live /\ g.row = f.row
  BY <1>2, <1>5 DEF Engine
<1>10. Ledger(g)
  BY <1>2, <1>9, SameLedger
<1>11. \A p \in Pid : Online(g, p) <=> Online(f, p)
  BY <1>9 DEF Online
<1>12. ~C.unidentified
  <2>1. \A p \in Pid : g.seat[p].id # Nameless
    <3>1. g \in Engine
      BY <1>4 DEF Fits
    <3> QED
      BY <3>1, EngineFacts, SeatFacts, SeatAssumption
  <2>2. \A p \in Pid : g.live[p] # Nameless
    BY <1>10, <2>1, SeatAssumption DEF Ledger
  <2> QED
    BY <1>8, <2>2
<1>13. ASSUME NEW p \in g.expected
       PROVE  g.seat[p].id # NoOne /\ g.seat[p].id \in C.ids
  <2>1. p \in Pid /\ Online(g, p)
    BY <1>6, <1>7, <1>9, <1>11, <1>13
  <2>2. g.seat[p].id # NoOne /\ g.live[p] = g.seat[p].id /\ g.row[g.seat[p].id] = "online"
    BY <1>10, <2>1 DEF Ledger
  <2>3. g.seat[p].id \in Identity
    BY <1>4, <2>1, <2>2, EngineFacts, SeatFacts DEF Fits
  <2> QED
    BY <1>8, <2>1, <2>2, <2>3
<1>14. ASSUME NEW id \in C.ids
       PROVE  \E p \in g.expected : g.seat[p].id \in {id, NoOne}
  <2>1. id \in Identity /\ g.row[id] = "online"
    BY <1>8, <1>14
  <2>2. PICK p \in Pid : g.seat[p].id = id /\ Online(g, p)
    BY <1>10, <2>1 DEF Ledger
  <2> QED
    BY <1>6, <1>9, <1>11, <2>2
<1>15. Expects(g, C)
  BY <1>12, <1>13, <1>14 DEF Expects
<1>16. Sound(g, Socket, C)
  BY <1>4, <1>10, <1>15 DEF Sound
<1> QED
  BY <1>8, <1>16 DEF g, C

\* Nobody is online when the transport has gone.
LEMMA SoundSuspend ==
    ASSUME NEW e, NEW R \in Rosters, Sound(e, Socket, R), NEW raw \in Time
    PROVE  Sound(Suspended(e, raw), Socket, R)
<1> DEFINE f == Sync(e, raw)
           P == {p \in Pid : Online(e, p)}
           g == Detached(f, P)
           live == [p \in Pid |-> NoOne]
           row  == [id \in Identity |-> IF g.row[id] = "online" THEN "offline" ELSE g.row[id]]
           h == Suspended(e, raw)
<1>1. e \in Engine /\ Fits(e, Socket) /\ Ledger(e) /\ (e.paused => Expects(e, R))
  BY DEF Sound, Fits
<1>2. Fits(f, Socket) /\ f.expected = e.expected /\ f.seat = e.seat
  BY <1>1, Syncing, SyncIs
<1>3. h = [g EXCEPT !.live = live, !.row = row]
  BY DEF Suspended
<1>4. Fits(h, {}) /\ h.paused = e.paused
  BY <1>1, Suspending
<1>5. \A p \in Pid : live[p] = NoOne
  OBVIOUS
<1>6. \A id \in Identity : row[id] # "online"
  OBVIOUS
<1> HIDE DEF f, P, live, row, h
<1>7. f \in Engine
  BY <1>2 DEF Fits
<1>8. /\ g.expected = f.expected
      /\ \A p \in Pid : g.seat[p].id = f.seat[p].id
  BY <1>7, DetachedIs
<1>9. g \in Engine
  BY <1>2, Detaching DEF Fits
<1> HIDE DEF g
<1>10. h.expected = g.expected /\ h.seat = g.seat /\ h.live = live /\ h.row = row
  BY <1>3, <1>9 DEF Engine
<1>11. \A p \in Pid : ~Online(h, p)
  BY <1>4 DEF Fits, Online
<1>12. \A p \in Pid : h.seat[p].id = e.seat[p].id
  BY <1>2, <1>8, <1>10
<1>13. Ledger(h)
  <2>1. \A p, q \in Pid : h.seat[p].id = h.seat[q].id /\ h.seat[p].id # NoOne => p = q
    BY <1>1, <1>12 DEF Ledger
  <2> QED
    BY <1>5, <1>6, <1>10, <1>11, <2>1 DEF Ledger
<1>14. e.paused => Expects(h, R)
  BY <1>1, <1>2, <1>8, <1>10, <1>12, SameExpected
<1>15. Fits(h, Socket)
  BY <1>4 DEF Fits
<1> QED
  BY <1>4, <1>13, <1>14, <1>15 DEF Sound, h

\* Seats without a socket get their grace anew.
LEMMA ForgottenLedger ==
    ASSUME NEW e \in Engine, Ledger(e), NEW P \in SUBSET Pid, \A p \in P : ~Online(e, p)
    PROVE  Ledger(Detached(e, P))
<1> DEFINE f == Detached(e, P)
<1>1. /\ f.paused = e.paused /\ f.expected = e.expected /\ f.live = e.live /\ f.row = e.row
      /\ \A p \in Pid :
            /\ f.seat[p].id = e.seat[p].id
            /\ p \in P => f.seat[p].ws = NoSocket /\ f.seat[p].detached
            /\ p \notin P => f.seat[p] = e.seat[p]
  BY DetachedIs
<1> HIDE DEF f
<1>2. \A p \in Pid : Online(f, p) <=> Online(e, p)
  BY <1>1 DEF Online
<1>3. \A p \in Pid : f.seat[p].detached => ~Online(f, p)
  BY <1>1, <1>2 DEF Ledger
<1>4. \A p \in Pid : f.seat[p].id = e.seat[p].id
  BY <1>1
<1>5. Ledger(f)
  BY <1>1, <1>2, <1>3, <1>4 DEF Ledger
<1> QED
  BY <1>5 DEF f

LEMMA SoundResume ==
    ASSUME NEW e, NEW R \in Rosters, Sound(e, Socket, R), NEW raw \in Time,
           NEW expireMissing \in BOOLEAN, NEW S
    PROVE  Sound(Resumed(e, raw, expireMissing), Socket, S)
<1> DEFINE f == Sync(e, raw)
           X == Expiring(f) \cup Missing(f)
           g == IF expireMissing THEN ExpireMissing(f) ELSE f
           h == Detached(g, Missing(g))
           r == Resumed(e, raw, expireMissing)
<1>1. Sound(f, Socket, R)
  BY SoundSync
<1>2. r = [h EXCEPT !.expected = {}, !.paused = FALSE]
  BY DEF Resumed
<1>3. Fits(r, Socket) /\ r.paused = FALSE
  BY Resuming DEF Sound
<1> HIDE DEF f, r
<1>4. Ledger(f) /\ f \in Engine /\ f.expected \subseteq Pid
  BY <1>1, EngineFacts DEF Sound, Fits
<1>5. X \in SUBSET Pid /\ \A p \in X : ~Online(f, p)
  BY <1>4 DEF Expiring, Missing, Ledger
<1>6. ExpireMissing(f) = Released(f, X)
  BY DEF ExpireMissing
<1> HIDE DEF X
<1>7. Sound(Released(f, X), Socket, R)
  BY <1>1, <1>5, SoundRelease
<1>8. Sound(g, Socket, R)
  BY <1>1, <1>6, <1>7
<1> HIDE DEF g
<1>9. g \in Engine /\ Ledger(g) /\ g.expected \subseteq Pid
  BY <1>8, EngineFacts DEF Sound, Fits
<1>10. Missing(g) \in SUBSET Pid /\ \A p \in Missing(g) : ~Online(g, p)
  BY <1>9 DEF Missing
<1>11. Ledger(h)
  BY <1>9, <1>10, ForgottenLedger
<1>12. h \in Engine
  BY <1>8, Detaching DEF Sound, Fits
<1> HIDE DEF h
<1>13. r.seat = h.seat /\ r.live = h.live /\ r.row = h.row
  BY <1>2, <1>12 DEF Engine
<1>14. Ledger(r)
  BY <1>11, <1>13, SameLedger
<1> QED
  BY <1>3, <1>14 DEF Sound, r

\* Nobody is back yet in a session that is restored.
LEMMA SoundRestore ==
    ASSUME clock \in Time, portal \in BOOLEAN
    PROVE  Nobody \in Rosters /\ Sound(Restored, Socket, Nobody)
<1> DEFINE e == Reset(clock, [id \in Identity |-> "offline"])
           f == Entered(e, clock)
           g == Paused(e, clock)
<1>1. Nobody \in Rosters
  BY DEF Nobody, Rosters
<1>2. Fits(e, {}) /\ Fits(e, Socket) /\ e.paused = FALSE
  BY OfflineRows, Resetting
<1>3. Ledger(e)
  <2>1. /\ \A p \in Pid : e.seat[p].id = NoOne /\ e.live[p] = NoOne /\ ~Online(e, p)
        /\ \A id \in Identity : e.row[id] # "online"
    BY NoSeatFacts DEF Reset, Online
  <2> QED
    BY <2>1 DEF Ledger
<1>4. Sound(e, Socket, Nobody)
  BY <1>2, <1>3 DEF Sound
<1>5. Restored = IF portal THEN e ELSE g
  BY DEF Restored
<1> HIDE DEF e
<1>6. Sound(g, Socket, Capture(g)) /\ g.paused
  <2>1. Sound(g, Socket, Capture(g))
    BY <1>1, <1>2, <1>4, SoundPause
  <2>2. g.paused = TRUE
    BY <1>2, Pausing
  <2> QED
    BY <2>1, <2>2
<1>7. \A p \in Pid : ~Online(f, p)
  <2>1. Fits(f, {})
    BY <1>2, Entering
  <2> HIDE DEF f
  <2> QED
    BY <2>1 DEF Fits, Online
<1>8. f \in Engine
  BY <1>2, Entering DEF Fits
<1>9. g.expected = {}
  <2>1. g = [f EXCEPT !.paused = TRUE, !.expected = {p \in Pid : Online(f, p)}]
    BY DEF Paused
  <2>2. {p \in Pid : Online(f, p)} = {}
    BY <1>7
  <2> HIDE DEF f, g
  <2> QED
    BY <1>8, <2>1, <2>2 DEF Engine
<1> HIDE DEF g
<1>10. Expects(g, Nobody)
  BY <1>9 DEF Expects, Nobody
<1>11. Sound(g, Socket, Nobody)
  BY <1>6, <1>10 DEF Sound
<1> QED
  BY <1>1, <1>4, <1>5, <1>11

Roster == Sound(engine, Socket, required)

LEMMA RosterTyped ==
    ASSUME ApInv
    PROVE  /\ clock \in Time /\ callback.raw \in Time /\ loop.now \in Time /\ portal \in BOOLEAN
           /\ required \in Rosters /\ Nobody \in Rosters
<1>1. Nobody \in Rosters
  BY DEF Nobody, Rosters
<1> QED
  BY <1>1 DEF ApInv, TypeOK, Callback, Rosters

LEMMA RosterBegins == ASSUME Init PROVE Roster
<1> DEFINE e == Reset(0, [id \in Identity |-> "offline"])
<1>1. Fits(e, Socket) /\ e.paused = FALSE
  BY OfflineRows, Resetting, LengthFacts
<1>2. Ledger(e)
  <2>1. /\ \A p \in Pid : e.seat[p].id = NoOne /\ e.live[p] = NoOne /\ ~Online(e, p)
        /\ \A id \in Identity : e.row[id] # "online"
    BY NoSeatFacts DEF Reset, Online
  <2> QED
    BY <2>1 DEF Ledger
<1>3. engine = e
  BY DEF Init
<1> HIDE DEF e
<1> QED
  BY <1>1, <1>2, <1>3 DEF Roster, Sound

LEMMA RosterHears == ASSUME ApInv, Roster, Data PROVE Roster'
<1> DEFINE e == IF DeadlineFirst THEN Resumed(engine, callback.raw, TRUE) ELSE engine
           R == IF DeadlineFirst THEN Nobody ELSE required
           s == callback.ws
           f == Entered(e, callback.raw)
<1>1. required \in Rosters /\ R \in Rosters /\ callback.raw \in Time
  BY RosterTyped
<1>2. s \in Socket /\ link[s].id \in Identity
  BY LinkFacts DEF ApInv, Pending, TypeOK, Callback, Data
<1>3. engine' = Heard(e, s) /\ required' = R
  BY DEF Data
<1>4. Sound(e, Socket, R)
  <2>1. CASE DeadlineFirst
    <3>1. Sound(Resumed(engine, callback.raw, TRUE), Socket, R)
      BY <1>1, SoundResume DEF Roster
    <3> QED
      BY <2>1, <3>1
  <2>2. CASE ~DeadlineFirst
    BY <2>2 DEF Roster
  <2> QED
    BY <2>1, <2>2
<1> HIDE DEF e, R
<1>5. Sound(f, Socket, R)
  BY <1>1, <1>4, SoundEnter
<1>6. Heard(e, s) \in {e, Play(f, s), Hello(f, s, link[s].id, TRUE)}
  BY DEF Heard
<1> HIDE DEF f
<1>7. Sound(Play(f, s), Socket, R)
  BY <1>1, <1>5, SoundPlay
<1>8. Sound(Hello(f, s, link[s].id, TRUE), Socket, R)
  BY <1>1, <1>2, <1>5, SoundHello
<1>9. Sound(engine', Socket, R)
  BY <1>3, <1>4, <1>6, <1>7, <1>8
<1> QED
  BY <1>3, <1>9 DEF Roster

LEMMA RosterLeft == ASSUME ApInv, Roster, Disconnected PROVE Roster'
<1> DEFINE s == callback.ws
           f == Entered(engine, callback.raw)
<1>1. required \in Rosters /\ callback.raw \in Time
  BY RosterTyped
<1>2. s \in Socket
  BY DEF ApInv, Pending, TypeOK, Callback, Disconnected
<1>3. engine' = ShownOffline(Detached(f, HolderOf(f, s)), HolderOf(engine, s))
      /\ required' = required
  BY DEF Disconnected, Disconnect, ap
<1>4. HolderOf(f, s) = HolderOf(engine, s)
  BY <1>2, EnteredHolders DEF Roster
<1>5. Sound(f, Socket, required)
  BY <1>1, SoundEnter DEF Roster
<1> HIDE DEF f
<1>6. Sound(ShownOffline(Detached(f, HolderOf(f, s)), HolderOf(f, s)), Socket, required)
  BY <1>1, <1>2, <1>5, SoundLeave
<1> QED
  BY <1>3, <1>4, <1>6 DEF Roster

\* resumeTransport, from whichever task, opens the barrier.
LEMMA RosterResumes ==
    ASSUME ApInv, Roster, NEW raw \in Time, NEW expireMissing \in BOOLEAN, Resumes(raw, expireMissing)
    PROVE  Roster'
<1>1. CASE engine.paused
  <2>1. engine' = Resumed(engine, raw, expireMissing)
    BY <1>1 DEF Resumes
  <2>2. Sound(Resumed(engine, raw, expireMissing), Socket, required')
    BY RosterTyped, SoundResume DEF Roster
  <2> QED
    BY <2>1, <2>2 DEF Roster
<1>2. CASE ~engine.paused
  BY <1>2 DEF Resumes, Roster
<1> QED
  BY <1>1, <1>2

LEMMA RosterPauses == ASSUME ApInv, Roster, Pause PROVE Roster'
<1>1. engine' = Paused(engine, clock) /\ required' = Capture(engine') /\ ~engine.paused
  BY DEF Pause
<1>2. Sound(Paused(engine, clock), Socket, Capture(Paused(engine, clock)))
  BY <1>1, RosterTyped, SoundPause DEF Roster
<1> QED
  BY <1>1, <1>2 DEF Roster

LEMMA RosterSuspends == ASSUME ApInv, Roster, Suspend PROVE Roster'
<1>1. engine' = Suspended(engine, clock) /\ required' = required
  BY DEF Suspend
<1>2. Sound(Suspended(engine, clock), Socket, required)
  BY RosterTyped, SoundSuspend DEF Roster
<1> QED
  BY <1>1, <1>2 DEF Roster

LEMMA RosterRestores == ASSUME ApInv, Roster, Restore PROVE Roster'
<1>1. engine' = Restored /\ required' = Nobody
  BY DEF Restore
<1>2. Sound(Restored, Socket, Nobody)
  BY RosterTyped, SoundRestore
<1> QED
  BY <1>1, <1>2 DEF Roster

LEMMA RosterTicks == ASSUME ApInv, Roster, Tick PROVE Roster'
<1>1. required' = required /\ engine' \in {engine, Entered(engine, loop.now)}
  BY DEF Tick, ap
<1>2. Sound(Entered(engine, loop.now), Socket, required)
  BY RosterTyped, SoundEnter DEF Roster
<1> QED
  BY <1>1, <1>2 DEF Roster

LEMMA RosterSteps == ASSUME ApInv, Roster, [Next]_vars PROVE Roster'
<1>1. ASSUME UNCHANGED <<engine, required>> PROVE Roster'
  BY <1>1 DEF Roster
<1>2. CASE \/ Elapse \/ LoopBegins \/ NoKey \/ SwitchOn \/ RestoreAsked \/ Stop \/ Start
           \/ Accept \/ Wait \/ Evaluate \/ UNCHANGED vars
           \/ \E s \in Socket, id \in Identity : Connect(s, id)
           \/ \E s \in Socket, kind \in {"hello", "input", "disconnect"} : Arrives(s, kind)
  BY <1>1, <1>2 DEF Elapse, Connect, Arrives, LoopBegins, NoKey, SwitchOn, RestoreAsked, Stop,
     Start, Accept, Wait, Evaluate, vars, ap
<1>3. CASE StartFails
  BY <1>1, <1>3 DEF StartFails, ap
<1>4. CASE Callbacks
  BY <1>4, RosterHears, RosterLeft DEF Callbacks
<1>5. CASE HostResumes \/ ResumeEmpty \/ Resume \/ Checkpoint
  <2>1. clock \in Time
    BY RosterTyped
  <2>2. \/ UNCHANGED <<engine, required>>
        \/ \E expireMissing \in BOOLEAN : Resumes(clock, expireMissing)
    BY <1>5 DEF HostResumes, ResumeEmpty, Resume, Checkpoint, ap
  <2> QED
    BY <1>1, <2>1, <2>2, RosterResumes
<1>6. CASE Pause \/ Suspend \/ Restore \/ Tick
  BY <1>6, RosterPauses, RosterSuspends, RosterRestores, RosterTicks
<1> QED
  BY <1>2, <1>3, <1>4, <1>5, <1>6 DEF Next, Keys, Rest

\* haApRequiredMissing and Engine::transportAllRequiredReconnected: the barrier that the
\* firmware keeps by identities and the one the engine keeps by seats open together, for
\* any number of phones, however seats were finalized or taken over meanwhile.
THEOREM BarriersAgree == Spec => []RequiredAgrees
<1>1. Init => ApInv /\ Roster
  BY Begins, RosterBegins
<1>2. (ApInv /\ Roster) /\ [Next]_vars => (ApInv /\ Roster)'
  BY ApSteps, RosterSteps
<1>3. ApInv /\ Roster => RequiredAgrees
  <2>1. SUFFICES ASSUME ApInv, Roster, engine.paused
                 PROVE  AllBack <=> \A p \in engine.expected : Online(engine, p)
    BY DEF RequiredAgrees
  <2>2. Ledger(engine) /\ Expects(engine, required) /\ engine.expected \subseteq Pid
    BY <2>1, EngineFacts DEF Roster, Sound, Fits
  <2>3. required.ids \subseteq Identity
    BY <2>1 DEF ApInv, TypeOK
  <2>4. ASSUME AllBack, NEW p \in engine.expected PROVE Online(engine, p)
    <3>1. CASE engine.seat[p].id # NoOne
      <4>1. engine.seat[p].id \in required.ids /\ p \in Pid
        BY <2>2, <2>4, <3>1 DEF Expects
      <4>2. engine.row[engine.seat[p].id] = "online"
        BY <2>4, <4>1 DEF AllBack
      <4>3. PICK q \in Pid : engine.seat[q].id = engine.seat[p].id /\ Online(engine, q)
        BY <2>2, <2>3, <4>1, <4>2 DEF Ledger
      <4> QED
        BY <2>2, <3>1, <4>1, <4>3 DEF Ledger
    <3>2. CASE engine.seat[p].id = NoOne
      <4>1. PICK id \in required.ids : SeatOf(engine, id) = {}
        BY <2>2, <2>4, <3>2 DEF Expects
      <4>2. engine.row[id] = "online"
        BY <2>4, <4>1 DEF AllBack
      <4>3. \E q \in Pid : engine.seat[q].id = id
        BY <2>2, <2>3, <4>1, <4>2 DEF Ledger
      <4> QED
        BY <4>1, <4>3 DEF SeatOf
    <3> QED
      BY <3>1, <3>2
  <2>5. ASSUME \A p \in engine.expected : Online(engine, p) PROVE AllBack
    <3>1. ASSUME NEW id \in required.ids PROVE engine.row[id] = "online"
      <4>1. PICK p \in engine.expected : engine.seat[p].id \in {id, NoOne}
        BY <2>2, <3>1 DEF Expects
      <4> QED
        BY <2>2, <2>5, <4>1 DEF Ledger
    <3> QED
      BY <2>2, <3>1 DEF AllBack, Expects
  <2> QED
    BY <2>4, <2>5
<1> QED
  BY <1>1, <1>2, <1>3, PTL DEF Spec

-----------------------------------------------------------------------------
(* The grace and the window, whatever the lags of the readings are. *)

\* Who was left has no socket; who is missing was left in this very pause, which takes no time.
Away(e) ==
    /\ Fits(e, Socket)
    /\ \A p \in Pid : e.seat[p].detached => e.seat[p].id # NoOne /\ e.seat[p].ws = NoSocket
    /\ ~e.paused => e.expected = {}
    /\ \A p \in Missing(e) : e.seat[p].detached /\ e.seat[p].at = e.now

\* What the session clock says at a reading.
SessionTime(e, raw) == (e.now + (IF e.paused THEN 0 ELSE Since(raw, e.src))) % Word

\* A seat keeps its phone and its part in a game.
Keeps(e, f, p) == f.seat[p].id = e.seat[p].id /\ f.seat[p].played = e.seat[p].played

\* Nothing but seats, the pause, what is expected and the session clock counts.
LEMMA SameAway ==
    ASSUME NEW e, Away(e), NEW f, Fits(f, Socket), f.paused = e.paused, f.expected = e.expected,
           f.paused => f.now = e.now,
           \A p \in Pid : /\ f.seat[p].id = e.seat[p].id /\ f.seat[p].ws = e.seat[p].ws
                          /\ f.seat[p].detached = e.seat[p].detached /\ f.seat[p].at = e.seat[p].at
    PROVE  Away(f)
<1>1. e.expected \subseteq Pid
  BY EngineFacts DEF Away, Fits
<1>2. Missing(f) = Missing(e) /\ Missing(e) \subseteq Pid
  BY <1>1 DEF Missing, Online
<1>3. ~f.paused => Missing(f) = {}
  BY DEF Away, Missing
<1> QED
  BY <1>2, <1>3 DEF Away

LEMMA AwaySync ==
    ASSUME NEW e, Away(e), NEW raw \in Time
    PROVE  LET f == Sync(e, raw) IN
           /\ Away(f) /\ f.seat = e.seat /\ f.src = raw /\ f.paused = e.paused
           /\ f.expected = e.expected /\ f.now = SessionTime(e, raw)
<1> DEFINE f == Sync(e, raw)
<1>1. e \in Engine /\ Fits(e, Socket)
  BY DEF Away, Fits
<1>2. /\ f.src = raw /\ f.paused = e.paused /\ f.expected = e.expected /\ f.seat = e.seat
      /\ f.now = IF e.paused THEN e.now ELSE (e.now + Since(raw, e.src)) % Word
  BY <1>1, SyncIs
<1>3. Fits(f, Socket)
  BY <1>1, Syncing
<1> HIDE DEF f
<1>4. Away(f)
  BY <1>2, <1>3, SameAway
<1>5. (e.now + 0) % Word = e.now
  <2>1. e.now \in 0 .. Word - 1
    BY <1>1, EngineFacts, WordFacts
  <2> QED
    BY <2>1, WordFacts
<1>6. f.now = SessionTime(e, raw)
  BY <1>2, <1>5 DEF SessionTime
<1> QED
  BY <1>2, <1>4, <1>6 DEF f

LEMMA AwayRelease ==
    ASSUME NEW e, Away(e), NEW P \in SUBSET Pid
    PROVE  LET f == Released(e, P) IN
           /\ Away(f) /\ f.src = e.src /\ f.now = e.now /\ f.paused = e.paused
           /\ f.expected = e.expected
           /\ \A p \in Pid : f.seat[p] = IF p \in P THEN NoSeat ELSE e.seat[p]
<1> DEFINE f == Released(e, P)
<1>1. e \in Engine /\ Fits(e, Socket)
  BY DEF Away, Fits
<1>2. f.src = e.src /\ f.now = e.now /\ f.paused = e.paused /\ f.expected = e.expected
  BY <1>1, ReleasedIs
<1>3. \A p \in Pid : f.seat[p] = IF p \in P THEN NoSeat ELSE e.seat[p]
  BY <1>1, ReleasedSeats
<1>4. Fits(f, Socket)
  BY <1>1, Releasing
<1> HIDE DEF f
<1>5. NoSeat.id = NoOne /\ ~NoSeat.detached
  BY DEF NoSeat
<1>6. \A p \in Missing(f) : p \in Missing(e) /\ f.seat[p] = e.seat[p]
  <2>1. e.expected \subseteq Pid
    BY <1>1, EngineFacts
  <2> QED
    BY <1>2, <1>3, <1>5, <2>1 DEF Missing, Online
<1>7. Away(f)
  BY <1>2, <1>3, <1>4, <1>5, <1>6 DEF Away
<1> QED
  BY <1>2, <1>7, <1>3 DEF f

\* Every entry of the engine finalizes who was away for the grace, and nobody else.
LEMMA AwayEnter ==
    ASSUME NEW e, Away(e), NEW raw \in Time
    PROVE  LET f == Entered(e, raw) IN
           /\ Away(f) /\ f.src = raw /\ f.now = SessionTime(e, raw) /\ f.paused = e.paused
           /\ f.expected = e.expected
           /\ \A p \in Pid : f.seat[p] = IF /\ e.seat[p].detached
                                            /\ Since(SessionTime(e, raw), e.seat[p].at) >= Grace
                                         THEN NoSeat ELSE e.seat[p]
<1> DEFINE f == Sync(e, raw)
           X == Expiring(f)
           g == Released(f, X)
<1>1. /\ Away(f) /\ f.seat = e.seat /\ f.src = raw /\ f.paused = e.paused
      /\ f.expected = e.expected /\ f.now = SessionTime(e, raw)
  BY AwaySync
<1> HIDE DEF f
<1>2. X \in SUBSET Pid
      /\ \A p \in Pid : p \in X <=> /\ e.seat[p].detached
                                    /\ Since(SessionTime(e, raw), e.seat[p].at) >= Grace
  BY <1>1 DEF Expiring
<1> HIDE DEF X
<1>3. /\ Away(g) /\ g.src = f.src /\ g.now = f.now /\ g.paused = f.paused
      /\ g.expected = f.expected
      /\ \A p \in Pid : g.seat[p] = IF p \in X THEN NoSeat ELSE f.seat[p]
  BY <1>1, <1>2, AwayRelease
<1>4. Entered(e, raw) = g
  BY DEF Entered, f, X, g
<1> HIDE DEF g
<1> QED
  BY <1>1, <1>2, <1>3, <1>4

\* Seats are left at the session's time.
LEMMA AwayDetach ==
    ASSUME NEW e, Away(e), NEW P \in SUBSET Pid, \A p \in P : e.seat[p].id # NoOne
    PROVE  LET f == Detached(e, P) IN
           /\ Away(f) /\ f.src = e.src /\ f.now = e.now /\ f.paused = e.paused
           /\ f.expected = e.expected
           /\ \A p \in Pid : Keeps(e, f, p) /\ (p \notin P => f.seat[p] = e.seat[p])
<1> DEFINE f == Detached(e, P)
<1>1. e \in Engine /\ Fits(e, Socket)
  BY DEF Away, Fits
<1>2. /\ f.src = e.src /\ f.now = e.now /\ f.paused = e.paused /\ f.expected = e.expected
      /\ \A p \in Pid :
            /\ f.seat[p].id = e.seat[p].id /\ f.seat[p].played = e.seat[p].played
            /\ p \in P => f.seat[p].ws = NoSocket /\ f.seat[p].detached /\ f.seat[p].at = e.now
            /\ p \notin P => f.seat[p] = e.seat[p]
  BY <1>1, DetachedIs
<1>3. Fits(f, Socket)
  BY <1>1, Detaching
<1> HIDE DEF f
<1>4. \A p \in Pid : f.seat[p].detached => f.seat[p].id # NoOne /\ f.seat[p].ws = NoSocket
  BY <1>2 DEF Away
<1>5. ASSUME NEW p \in Missing(f) PROVE f.seat[p].detached /\ f.seat[p].at = f.now
  <2>1. p \in Pid /\ p \in e.expected
    BY <1>1, <1>2, EngineFacts DEF Missing
  <2>2. CASE p \in P
    BY <1>2, <2>1, <2>2
  <2>3. CASE p \notin P
    <3>1. p \in Missing(e)
      BY <1>2, <2>1, <2>3 DEF Missing, Online
    <3> QED
      BY <1>2, <2>1, <2>3, <3>1 DEF Away
  <2> QED
    BY <2>2, <2>3
<1>6. Away(f)
  BY <1>2, <1>3, <1>4, <1>5 DEF Away
<1> QED
  BY <1>2, <1>6 DEF f, Keeps

LEMMA AwayPlay ==
    ASSUME NEW e, Away(e), NEW s \in Socket
    PROVE  LET f == Play(e, s) IN
           /\ Away(f) /\ f.src = e.src /\ f.now = e.now /\ f.paused = e.paused
           /\ f.expected = e.expected
           /\ \A p \in Pid : e.seat[p].detached => f.seat[p] = e.seat[p]
<1> DEFINE f == Play(e, s)
<1>1. e \in Engine /\ Fits(e, Socket)
  BY DEF Away, Fits
<1>2. /\ f.src = e.src /\ f.now = e.now /\ f.paused = e.paused /\ f.expected = e.expected
      /\ \A p \in Pid : /\ f.seat[p].id = e.seat[p].id /\ f.seat[p].ws = e.seat[p].ws
                        /\ f.seat[p].detached = e.seat[p].detached /\ f.seat[p].at = e.seat[p].at
                        /\ p \notin HolderOf(e, s) => f.seat[p] = e.seat[p]
  BY <1>1, PlayIs
<1>3. Fits(f, Socket)
  BY <1>1, Playing
<1> HIDE DEF f
<1>4. Away(f)
  BY <1>2, <1>3, SameAway
<1>5. ASSUME NEW p \in Pid, e.seat[p].detached PROVE p \notin HolderOf(e, s)
  BY <1>5, NoSeatFacts DEF Away, HolderOf
<1> QED
  BY <1>2, <1>4, <1>5 DEF f

LEMMA AwayHide ==
    ASSUME NEW e, Away(e), NEW P
    PROVE  LET f == ShownOffline(e, P) IN
           /\ Away(f) /\ f.seat = e.seat /\ f.src = e.src /\ f.now = e.now
<1> DEFINE f == ShownOffline(e, P)
<1>1. e \in Engine /\ Fits(e, Socket)
  BY DEF Away, Fits
<1>2. /\ f.src = e.src /\ f.now = e.now /\ f.paused = e.paused /\ f.expected = e.expected
      /\ f.seat = e.seat
  BY <1>1, HiddenIs
<1>3. Fits(f, Socket)
  BY <1>1, Hiding
<1> HIDE DEF f
<1>4. Away(f)
  BY <1>2, <1>3, SameAway
<1> QED
  BY <1>2, <1>4 DEF f

\* A hello is given its own seat or a free one: nobody else loses a seat by it.
LEMMA AwayHello ==
    ASSUME NEW e, Away(e), NEW id \in Identity, NEW s \in Socket, NEW admitted
    PROVE  LET f == Hello(e, s, id, admitted) IN
           /\ Away(f) /\ f.src = e.src /\ f.now = e.now /\ f.paused = e.paused
           /\ f.expected = e.expected
           /\ \A p \in Pid : /\ e.seat[p].id # NoOne => Keeps(e, f, p)
                            /\ f.seat[p].played = e.seat[p].played
<1> DEFINE P == HelloSeat(e, s, id, admitted)
           p == Lowest(P)
           f == Hello(e, s, id, admitted)
<1>1. e \in Engine /\ Fits(e, Socket)
  BY DEF Away, Fits
<1>2. CASE P = {}
  BY <1>2 DEF Hello, Keeps
<1>3. CASE P # {}
  <2>1. \A q \in P : q \in Pid /\ (e.seat[q].id = id \/ e.seat[q].id = NoOne)
    BY HelloSeatFacts
  <2>2. f = Seated(e, p, id, s)
    BY <1>3 DEF Hello
  <2>3. P \in SUBSET Pid
    BY <2>1
  <2> HIDE DEF P, f
  <2>4. p \in P
    BY <1>3, <2>3, LowestFacts
  <2> HIDE DEF p
  <2>5. p \in Pid /\ (e.seat[p].id = id \/ e.seat[p].id = NoOne)
    BY <2>1, <2>4
  <2>6. /\ f.src = e.src /\ f.now = e.now /\ f.paused = e.paused /\ f.expected = e.expected
        /\ f.seat[p].id = id /\ f.seat[p].ws = s /\ ~f.seat[p].detached
        /\ f.seat[p].played = e.seat[p].played
        /\ \A q \in Pid : q # p => f.seat[q] = e.seat[q]
    BY <1>1, <2>2, <2>5, SeatedSeats
  <2>7. Fits(f, Socket)
    <3>1. Fits(f, Socket \cup {s})
      BY <1>1, <2>2, <2>5, Seating
    <3> QED
      BY <3>1 DEF Fits
  <2>8. s # NoSocket
    BY NoSeatFacts
  <2>9. \A q \in Missing(f) : q \in Missing(e) /\ f.seat[q] = e.seat[q]
    <3>1. e.expected \subseteq Pid
      BY <1>1, EngineFacts
    <3> QED
      BY <2>6, <2>8, <3>1 DEF Missing, Online
  <2>10. Away(f)
    BY <2>6, <2>7, <2>9 DEF Away
  <2> QED
    BY <2>5, <2>6, <2>10 DEF f, Keeps
<1> QED
  BY <1>2, <1>3

\* Whoever is online is expected back: nobody is missing yet.
LEMMA AwayPause ==
    ASSUME NEW e, Away(e), ~e.paused, NEW raw \in Time
    PROVE  LET f == Paused(e, raw) IN
           /\ Away(f) /\ f.src = raw
           /\ \A p \in Pid : f.seat[p] = IF /\ e.seat[p].detached
                                            /\ Since(SessionTime(e, raw), e.seat[p].at) >= Grace
                                         THEN NoSeat ELSE e.seat[p]
<1> DEFINE f == Entered(e, raw)
           expected == {p \in Pid : Online(f, p)}
           g == Paused(e, raw)
<1>1. /\ Away(f) /\ f.src = raw
      /\ \A p \in Pid : f.seat[p] = IF /\ e.seat[p].detached
                                       /\ Since(SessionTime(e, raw), e.seat[p].at) >= Grace
                                    THEN NoSeat ELSE e.seat[p]
  BY AwayEnter
<1>2. g = [f EXCEPT !.paused = TRUE, !.expected = expected]
  BY DEF Paused
<1>3. \A p \in expected : Online(f, p)
  OBVIOUS
<1>4. Fits(g, Socket)
  BY Pausing DEF Away
<1> HIDE DEF f, g, expected
<1>5. f \in Engine
  BY <1>1 DEF Away, Fits
<1>6. g.src = f.src /\ g.paused = TRUE /\ g.expected = expected /\ g.seat = f.seat
  BY <1>2, <1>5 DEF Engine
<1>7. Missing(g) = {}
  BY <1>3, <1>6 DEF Missing, Online
<1>8. Away(g)
  BY <1>1, <1>4, <1>6, <1>7 DEF Away
<1> QED
  BY <1>1, <1>6, <1>8 DEF g

\* Everyone is left at once, and time stands still.
LEMMA AwaySuspend ==
    ASSUME NEW e, Away(e), e.paused, NEW raw \in Time
    PROVE  LET f == Suspended(e, raw) IN
           /\ Away(f) /\ f.src = raw
           /\ \A p \in Pid : Keeps(e, f, p)
<1> DEFINE f == Sync(e, raw)
           P == {p \in Pid : Online(e, p)}
           g == Detached(f, P)
           live == [p \in Pid |-> NoOne]
           row  == [id \in Identity |-> IF g.row[id] = "online" THEN "offline" ELSE g.row[id]]
           h == Suspended(e, raw)
<1>1. Away(f) /\ f.seat = e.seat /\ f.src = raw /\ f.paused
  BY AwaySync
<1>2. h = [g EXCEPT !.live = live, !.row = row]
  BY DEF Suspended
<1>3. Fits(h, {})
  BY Suspending DEF Away
<1>4. P \in SUBSET Pid /\ \A p \in P : e.seat[p].id # NoOne
  BY DEF Online, Away, Fits
<1> HIDE DEF f, P, live, row, h
<1>5. /\ Away(g) /\ g.src = f.src /\ g.paused = f.paused
      /\ \A p \in Pid : Keeps(f, g, p)
  BY <1>1, <1>4, AwayDetach
<1> HIDE DEF g
<1>6. g \in Engine
  BY <1>5 DEF Away, Fits
<1>7. /\ h.src = g.src /\ h.now = g.now /\ h.paused = g.paused /\ h.expected = g.expected
      /\ h.seat = g.seat
  BY <1>2, <1>6 DEF Engine
<1>8. Fits(h, Socket)
  BY <1>3 DEF Fits
<1>9. Away(h)
  BY <1>5, <1>7, <1>8, SameAway
<1> QED
  BY <1>1, <1>5, <1>7, <1>9 DEF h, Keeps

\* resumeTransport: the missing get the ordinary grace from here, or with the end of the
\* window lose their seats; nobody else but who was away for the grace loses one.
LEMMA AwayResume ==
    ASSUME NEW e, Away(e), NEW raw \in Time, NEW expireMissing \in BOOLEAN
    PROVE  LET f == Resumed(e, raw, expireMissing)
               over(p) == e.seat[p].detached /\ Since(SessionTime(e, raw), e.seat[p].at) >= Grace
           IN
           /\ Away(f) /\ f.src = raw /\ f.now = SessionTime(e, raw) /\ ~f.paused
           /\ ~expireMissing => \A p \in Pid : /\ Keeps(e, f, p)
                                               /\ p \notin Missing(e) => f.seat[p] = e.seat[p]
           /\ expireMissing => \A p \in Pid : f.seat[p] = IF p \in Missing(e) \/ over(p)
                                                          THEN NoSeat ELSE e.seat[p]
<1> DEFINE f == Sync(e, raw)
           X == Expiring(f) \cup Missing(f)
           k == Released(f, X)
           g == IF expireMissing THEN ExpireMissing(f) ELSE f
           h == Detached(g, Missing(g))
           r == Resumed(e, raw, expireMissing)
           over(p) == e.seat[p].detached /\ Since(SessionTime(e, raw), e.seat[p].at) >= Grace
<1>1. /\ Away(f) /\ f.seat = e.seat /\ f.src = raw /\ f.expected = e.expected
      /\ f.now = SessionTime(e, raw)
  BY AwaySync
<1>2. r = [h EXCEPT !.expected = {}, !.paused = FALSE]
  BY DEF Resumed
<1>3. Fits(r, Socket) /\ r.paused = FALSE
  BY Resuming DEF Away
<1> HIDE DEF f, r
<1>4. Missing(f) = Missing(e) /\ Missing(e) \subseteq Pid
  <2>1. e.expected \subseteq Pid
    BY EngineFacts DEF Away, Fits
  <2> QED
    BY <1>1, <2>1 DEF Missing, Online
<1>5. \A p \in Pid : p \in Expiring(f) <=> over(p)
  BY <1>1 DEF Expiring
<1>6. X \in SUBSET Pid /\ \A p \in Pid : p \in X <=> p \in Missing(e) \/ over(p)
  BY <1>4, <1>5 DEF Expiring
<1>7. ExpireMissing(f) = k
  BY DEF ExpireMissing
<1> HIDE DEF X, over
<1>8. /\ Away(k) /\ k.src = f.src /\ k.now = f.now /\ k.expected = f.expected
      /\ \A p \in Pid : k.seat[p] = IF p \in X THEN NoSeat ELSE f.seat[p]
  BY <1>1, <1>6, AwayRelease
<1> HIDE DEF k
<1>9. Missing(k) = {}
  <2>1. ASSUME NEW p \in Missing(k) PROVE FALSE
    <3>1. p \in Missing(k) /\ p \in k.expected /\ k.seat[p].id # NoOne /\ ~Online(k, p)
      BY <2>1 DEF Missing
    <3>2. p \in Pid /\ p \in f.expected
      BY <1>8, <3>1, EngineFacts DEF Away, Fits
    <3>3. p \notin X /\ k.seat[p] = f.seat[p]
      BY <1>8, <3>1, <3>2, NoSeatFacts
    <3>4. p \in Missing(f)
      BY <3>1, <3>2, <3>3 DEF Missing, Online
    <3> QED
      BY <1>4, <1>6, <3>2, <3>3, <3>4
  <2> QED
    BY <2>1
<1>10. /\ Away(g) /\ g.src = raw /\ g.now = SessionTime(e, raw)
       /\ expireMissing => g = k
       /\ ~expireMissing => g = f
  BY <1>1, <1>7, <1>8
<1> HIDE DEF g
<1>11. Missing(g) \in SUBSET Pid /\ \A p \in Missing(g) : g.seat[p].id # NoOne
  <2>1. g.expected \subseteq Pid
    BY <1>10, EngineFacts DEF Away, Fits
  <2> QED
    BY <2>1 DEF Missing
<1>12. /\ Away(h) /\ h.src = g.src /\ h.now = g.now
       /\ \A p \in Pid : Keeps(g, h, p) /\ (p \notin Missing(g) => h.seat[p] = g.seat[p])
  BY <1>10, <1>11, AwayDetach
<1> HIDE DEF h
<1>13. h \in Engine
  BY <1>12 DEF Away, Fits
<1>14. r.src = h.src /\ r.now = h.now /\ r.paused = FALSE /\ r.expected = {} /\ r.seat = h.seat
  BY <1>2, <1>13 DEF Engine
<1>15. Away(r)
  <2>1. Missing(r) = {}
    BY <1>14 DEF Missing
  <2> QED
    BY <1>3, <1>12, <1>14, <2>1 DEF Away
<1>16. ASSUME ~expireMissing, NEW p \in Pid
       PROVE  Keeps(e, r, p) /\ (p \notin Missing(e) => r.seat[p] = e.seat[p])
  BY <1>1, <1>4, <1>10, <1>12, <1>14, <1>16 DEF Keeps
<1>17. ASSUME expireMissing, NEW p \in Pid
       PROVE  r.seat[p] = IF p \in Missing(e) \/ over(p) THEN NoSeat ELSE e.seat[p]
  BY <1>1, <1>6, <1>8, <1>9, <1>10, <1>12, <1>14, <1>17
<1> QED
  BY <1>10, <1>12, <1>14, <1>15, <1>16, <1>17 DEF r, over

LEMMA AwayReset ==
    ASSUME NEW raw \in Time
    PROVE  LET e == Reset(raw, [id \in Identity |-> "offline"]) IN Away(e) /\ ~e.paused
<1> DEFINE e == Reset(raw, [id \in Identity |-> "offline"])
<1>1. Fits(e, Socket) /\ e.paused = FALSE
  BY OfflineRows, Resetting
<1>2. e.expected = {} /\ \A p \in Pid : ~e.seat[p].detached
  BY DEF Reset, NoSeat
<1> HIDE DEF e
<1>3. Missing(e) = {}
  BY <1>2 DEF Missing
<1>4. Away(e)
  BY <1>1, <1>2, <1>3 DEF Away
<1> QED
  BY <1>1, <1>4 DEF e

\* A seat that was left no longer than the grace ago, by a reading of the clock.
InGrace(e, raw, p) == e.seat[p].detached /\ ~(Since(SessionTime(e, raw), e.seat[p].at) >= Grace)

\* A second reading in the same millisecond says the same.
LEMMA SameReading ==
    ASSUME NEW f, Away(f), NEW raw \in Time, f.src = raw
    PROVE  SessionTime(f, raw) = f.now
<1>1. f.now \in 0 .. Word - 1
  BY EngineFacts, WordFacts DEF Away, Fits
<1>2. (f.now + 0) % Word = f.now
  BY <1>1, WordFacts
<1>3. Since(raw, f.src) = 0
  BY NoTime
<1> QED
  BY <1>2, <1>3 DEF SessionTime

\* Whatever is heard, nobody else is finalized; a hello brings no part in a game.
LEMMA AwayHeard ==
    ASSUME ApInv, callback.kind \in {"hello", "input"}, NEW e, Away(e)
    PROVE  LET f == Heard(e, callback.ws) IN
           /\ Away(f)
           /\ \A p \in Pid : InGrace(e, callback.raw, p) => Keeps(e, f, p)
           /\ callback.kind = "hello" => \A p \in Pid : ~e.seat[p].played => ~f.seat[p].played
<1> DEFINE s == callback.ws
           g == Entered(e, callback.raw)
           f == Heard(e, s)
<1>1. s \in Socket /\ callback.raw \in Time /\ link[s].id \in Identity
  BY LinkFacts DEF ApInv, Pending, TypeOK, Callback
<1>2. /\ Away(g)
      /\ \A p \in Pid : g.seat[p] = IF /\ e.seat[p].detached
                                       /\ Since(SessionTime(e, callback.raw), e.seat[p].at) >= Grace
                                    THEN NoSeat ELSE e.seat[p]
  BY <1>1, AwayEnter
<1> HIDE DEF g
<1>3. \A p \in Pid : InGrace(e, callback.raw, p) => g.seat[p] = e.seat[p]
  BY <1>2 DEF InGrace
<1>4. \A p \in Pid : ~e.seat[p].played => ~g.seat[p].played
  BY <1>2 DEF NoSeat
<1>5. CASE ~Listened(s)
  BY <1>5 DEF Heard, Keeps
<1>6. CASE Listened(s) /\ callback.kind = "input"
  <2>1. f = Play(g, s)
    BY <1>6 DEF Heard, g
  <2>2. Away(f) /\ \A p \in Pid : g.seat[p].detached => f.seat[p] = g.seat[p]
    BY <1>1, <1>2, <2>1, AwayPlay
  <2> HIDE DEF f
  <2>3. \A p \in Pid : InGrace(e, callback.raw, p) => f.seat[p] = e.seat[p]
    BY <1>3, <2>2 DEF InGrace
  <2> QED
    BY <1>6, <2>2, <2>3 DEF Keeps, f
<1>7. CASE Listened(s) /\ callback.kind # "input"
  <2>1. f = Hello(g, s, link[s].id, TRUE)
    BY <1>7 DEF Heard, g
  <2>2. ASSUME NEW admitted
        PROVE  LET h == Hello(g, s, link[s].id, admitted) IN
               /\ Away(h)
               /\ \A p \in Pid : /\ g.seat[p].id # NoOne => Keeps(g, h, p)
                                 /\ h.seat[p].played = g.seat[p].played
    BY <1>1, <1>2, AwayHello
  <2>3. /\ Away(f)
        /\ \A p \in Pid : /\ g.seat[p].id # NoOne => Keeps(g, f, p)
                          /\ f.seat[p].played = g.seat[p].played
    BY <2>1, <2>2
  <2> HIDE DEF f
  <2>4. \A p \in Pid : InGrace(e, callback.raw, p) => Keeps(e, f, p)
    <3>1. \A p \in Pid : InGrace(e, callback.raw, p) => g.seat[p].id # NoOne
      BY <1>3 DEF InGrace, Away
    <3> QED
      BY <1>3, <2>3, <3>1 DEF Keeps
  <2> QED
    BY <1>4, <2>3, <2>4 DEF f
<1> QED
  BY <1>5, <1>6, <1>7

\* Data: the missing lose their seats when their deadline has passed, and only then.
LEMMA AwayData ==
    ASSUME ApInv, Away(engine), Data
    PROVE  /\ Away(engine')
           /\ \A p \in Pid : /\ InGrace(engine, callback.raw, p)
                             /\ DeadlineFirst => p \notin Missing(engine)
                             => Keeps(engine, engine', p)
           /\ callback.kind = "hello" /\ DeadlineFirst =>
                  \A p \in Missing(engine) : ~engine'.seat[p].played
<1> DEFINE r == Resumed(engine, callback.raw, TRUE)
           e == IF DeadlineFirst THEN r ELSE engine
<1>1. callback.raw \in Time /\ callback.kind \in {"hello", "input"}
  BY DEF ApInv, TypeOK, Callback, Data
<1>2. engine' = Heard(e, callback.ws)
  BY DEF Data
<1>3. ASSUME NEW x \in BOOLEAN
      PROVE  LET f == Resumed(engine, callback.raw, x) IN
             /\ Away(f) /\ f.src = callback.raw /\ f.now = SessionTime(engine, callback.raw)
             /\ x => \A p \in Pid :
                   f.seat[p] = IF \/ p \in Missing(engine)
                                  \/ /\ engine.seat[p].detached
                                     /\ Since(SessionTime(engine, callback.raw), engine.seat[p].at) >= Grace
                               THEN NoSeat ELSE engine.seat[p]
  BY <1>1, AwayResume
<1>4. /\ Away(r) /\ r.src = callback.raw /\ r.now = SessionTime(engine, callback.raw)
      /\ \A p \in Pid :
            r.seat[p] = IF \/ p \in Missing(engine)
                           \/ /\ engine.seat[p].detached
                              /\ Since(SessionTime(engine, callback.raw), engine.seat[p].at) >= Grace
                        THEN NoSeat ELSE engine.seat[p]
  BY <1>3
<1> HIDE DEF r
<1>5. Away(e) /\ (DeadlineFirst => e = r) /\ (~DeadlineFirst => e = engine)
  BY <1>4
<1> HIDE DEF e
<1>6. /\ Away(engine')
      /\ \A p \in Pid : InGrace(e, callback.raw, p) => Keeps(e, engine', p)
      /\ callback.kind = "hello" => \A p \in Pid : ~e.seat[p].played => ~engine'.seat[p].played
  BY <1>1, <1>2, <1>5, AwayHeard
<1>7. SessionTime(r, callback.raw) = SessionTime(engine, callback.raw)
  BY <1>1, <1>4, SameReading
<1>8. ASSUME NEW p \in Pid, InGrace(engine, callback.raw, p),
             DeadlineFirst => p \notin Missing(engine)
      PROVE  Keeps(engine, engine', p)
  <2>1. CASE ~DeadlineFirst
    BY <1>5, <1>6, <1>8, <2>1
  <2>2. CASE DeadlineFirst
    <3>1. e = r /\ r.seat[p] = engine.seat[p]
      BY <1>4, <1>5, <1>8, <2>2 DEF InGrace
    <3>2. InGrace(r, callback.raw, p)
      BY <1>7, <1>8, <3>1 DEF InGrace
    <3> QED
      BY <1>6, <3>1, <3>2 DEF Keeps
  <2> QED
    BY <2>1, <2>2
<1>9. ASSUME callback.kind = "hello", DeadlineFirst, NEW p \in Missing(engine)
      PROVE  ~engine'.seat[p].played
  <2>1. p \in Pid
    <3>1. engine.expected \subseteq Pid
      BY EngineFacts DEF Away, Fits
    <3> QED
      BY <3>1 DEF Missing
  <2>2. e.seat[p] = NoSeat
    BY <1>4, <1>5, <1>9, <2>1
  <2> QED
    BY <1>6, <1>9, <2>1, <2>2 DEF NoSeat
<1> QED
  BY <1>6, <1>8, <1>9

LEMMA AwayDisconnected ==
    ASSUME ApInv, Away(engine), Disconnected
    PROVE  /\ Away(engine')
           /\ \A p \in Pid : InGrace(engine, callback.raw, p) => Keeps(engine, engine', p)
<1> DEFINE s == callback.ws
           f == Entered(engine, callback.raw)
           P == HolderOf(f, s)
           g == Detached(f, P)
<1>1. callback.raw \in Time
  BY DEF ApInv, TypeOK, Callback
<1>2. engine' = ShownOffline(g, HolderOf(engine, s))
  BY DEF Disconnected, Disconnect
<1>3. /\ Away(f)
      /\ \A p \in Pid : f.seat[p] = IF /\ engine.seat[p].detached
                                       /\ Since(SessionTime(engine, callback.raw), engine.seat[p].at) >= Grace
                                    THEN NoSeat ELSE engine.seat[p]
  BY <1>1, AwayEnter
<1> HIDE DEF f
<1>4. P \in SUBSET Pid /\ \A p \in P : f.seat[p].id # NoOne
  BY DEF HolderOf
<1> HIDE DEF P
<1>5. Away(g) /\ \A p \in Pid : Keeps(f, g, p)
  BY <1>3, <1>4, AwayDetach
<1> HIDE DEF g
<1>6. Away(engine') /\ engine'.seat = g.seat
  BY <1>2, <1>5, AwayHide
<1> QED
  BY <1>3, <1>5, <1>6 DEF InGrace, Keeps

LEMMA AwayResumes ==
    ASSUME Away(engine), NEW raw \in Time, NEW expireMissing \in BOOLEAN, Resumes(raw, expireMissing)
    PROVE  /\ Away(engine')
           /\ \A p \in Pid : /\ InGrace(engine, raw, p)
                             /\ expireMissing /\ engine.paused => p \notin Missing(engine)
                             => Keeps(engine, engine', p)
<1>1. CASE ~engine.paused
  BY <1>1 DEF Resumes, Keeps
<1>2. CASE engine.paused
  <2> DEFINE f == Resumed(engine, raw, expireMissing)
  <2>1. engine' = f
    BY <1>2 DEF Resumes
  <2>2. /\ Away(f)
        /\ ~expireMissing => \A p \in Pid : Keeps(engine, f, p)
        /\ expireMissing =>
              \A p \in Pid :
                  f.seat[p] = IF \/ p \in Missing(engine)
                                 \/ /\ engine.seat[p].detached
                                    /\ Since(SessionTime(engine, raw), engine.seat[p].at) >= Grace
                              THEN NoSeat ELSE engine.seat[p]
    BY AwayResume
  <2> HIDE DEF f
  <2> QED
    BY <1>2, <2>1, <2>2 DEF InGrace, Keeps
<1> QED
  BY <1>1, <1>2

LEMMA AwayPauses ==
    ASSUME ApInv, Away(engine), Pause
    PROVE  /\ Away(engine')
           /\ \A p \in Pid : InGrace(engine, clock, p) => Keeps(engine, engine', p)
<1> DEFINE f == Paused(engine, clock)
<1>1. clock \in Time /\ ~engine.paused /\ engine' = f
  BY DEF ApInv, TypeOK, Pause
<1>2. /\ Away(f)
      /\ \A p \in Pid : f.seat[p] = IF /\ engine.seat[p].detached
                                       /\ Since(SessionTime(engine, clock), engine.seat[p].at) >= Grace
                                    THEN NoSeat ELSE engine.seat[p]
  BY <1>1, AwayPause
<1> HIDE DEF f
<1> QED
  BY <1>1, <1>2 DEF InGrace, Keeps

LEMMA AwaySuspends ==
    ASSUME ApInv, Away(engine), Suspend
    PROVE  Away(engine') /\ \A p \in Pid : Keeps(engine, engine', p)
<1>1. clock \in Time /\ engine' = Suspended(engine, clock) /\ engine.paused
  BY DEF ApInv, TypeOK, Suspend, LoopAt, Truthful, Moved
<1> QED
  BY <1>1, AwaySuspend

LEMMA AwayRestores == ASSUME ApInv, Restore PROVE Away(engine')
<1> DEFINE e == Reset(clock, [id \in Identity |-> "offline"])
<1>1. clock \in Time /\ engine' = IF portal THEN e ELSE Paused(e, clock)
  BY DEF ApInv, TypeOK, Restore, Restored
<1>2. Away(e) /\ ~e.paused
  BY <1>1, AwayReset
<1> HIDE DEF e
<1>3. Away(Paused(e, clock))
  BY <1>1, <1>2, AwayPause
<1> QED
  BY <1>1, <1>2, <1>3

LEMMA AwayTicks ==
    ASSUME ApInv, Away(engine), Tick
    PROVE  /\ Away(engine')
           /\ \A p \in Pid : InGrace(engine, loop.now, p) => Keeps(engine, engine', p)
<1> DEFINE f == Entered(engine, loop.now)
<1>1. loop.now \in Time /\ engine' \in {engine, f}
  BY DEF ApInv, TypeOK, Tick
<1>2. /\ Away(f)
      /\ \A p \in Pid : f.seat[p] = IF /\ engine.seat[p].detached
                                       /\ Since(SessionTime(engine, loop.now), engine.seat[p].at) >= Grace
                                    THEN NoSeat ELSE engine.seat[p]
  BY <1>1, AwayEnter
<1> HIDE DEF f
<1> QED
  BY <1>1, <1>2 DEF InGrace, Keeps

LEMMA AwayBegins == ASSUME Init PROVE Away(engine)
BY AwayReset, LengthFacts DEF Init

\* The loop goes to expire the missing when its reading is at the end of their window.
Timed == loop.at = "expire" /\ engine.paused => WindowOver(loop.now)

\* Who is expired although missing: at the deadline, on whichever task sees it first.
Expires ==
    \/ callback' # callback /\ callback.kind \in {"hello", "input"} /\ DeadlineFirst
    \/ callback' = callback /\ loop.at = "expire" /\ engine.paused

\* A step keeps what is known of the missing, and finalizes nobody else within the grace
\* by its reading.
LEMMA Spared ==
    ASSUME ApInv, Away(engine), [Next]_vars
    PROVE  /\ Away(engine')
           /\ \A p \in Pid : /\ ~Restoring /\ InGrace(engine, Reading, p)
                             /\ p \notin Missing(engine) \/ ~Expires
                             => Keeps(engine, engine', p)
<1>0. loop \in [at : Stages, now : Time, tries : 0 .. 2] /\ clock \in Time
  BY DEF ApInv, TypeOK
<1>1. ASSUME engine' = engine
      PROVE  Away(engine') /\ \A p \in Pid : Keeps(engine, engine', p)
  BY <1>1 DEF Keeps
<1>2. CASE \/ Elapse \/ LoopBegins \/ NoKey \/ SwitchOn \/ RestoreAsked \/ Stop \/ StartFails
           \/ Start \/ Accept \/ Wait \/ Evaluate \/ UNCHANGED vars
           \/ \E s \in Socket, id \in Identity : Connect(s, id)
           \/ \E s \in Socket, kind \in {"hello", "input", "disconnect"} : Arrives(s, kind)
  BY <1>1, <1>2 DEF Elapse, Connect, Arrives, LoopBegins, NoKey, SwitchOn, RestoreAsked, Stop,
     StartFails, Start, Accept, Wait, Evaluate, vars
<1>3. CASE Data
  <2>1. callback.kind \in {"hello", "input"} /\ callback' = Idle
    BY <1>3 DEF Data
  <2>2. callback' # callback
    BY <2>1 DEF Idle
  <2>3. Reading = callback.raw
    BY <2>2 DEF Reading
  <2> QED
    BY <1>3, <2>1, <2>2, <2>3, AwayData DEF Expires
<1>4. CASE Disconnected
  <2>1. callback.kind = "disconnect" /\ callback' = Idle
    BY <1>4 DEF Disconnected
  <2>2. Reading = callback.raw
    BY <2>1 DEF Reading, Idle
  <2> QED
    BY <1>4, <2>2, AwayDisconnected
<1>5. CASE HostResumes \/ ResumeEmpty \/ Resume \/ Checkpoint
  <2>1. callback' = callback /\ loop.at # "tick"
    BY <1>5 DEF HostResumes, ResumeEmpty, Resume, Checkpoint, LoopAt, OnAir
  <2>2. \/ engine' = engine
        \/ \E x \in BOOLEAN : Resumes(clock, x) /\ (x <=> loop.at = "expire")
    BY <1>5 DEF HostResumes, ResumeEmpty, Resume, Checkpoint, LoopAt
  <2>3. ASSUME NEW x \in BOOLEAN, Resumes(clock, x), x <=> loop.at = "expire",
               NEW p \in Pid, InGrace(engine, Reading, p), p \notin Missing(engine) \/ ~Expires
        PROVE  Keeps(engine, engine', p)
    <3>1. CASE ~engine.paused
      BY <1>1, <2>3, <3>1 DEF Resumes
    <3>2. CASE engine.paused
      <4>1. InGrace(engine, clock, p)
        BY <2>3, <3>2 DEF InGrace, SessionTime
      <4>2. x => p \notin Missing(engine)
        BY <2>1, <2>3, <3>2 DEF Expires
      <4> QED
        BY <1>0, <2>3, <4>1, <4>2, AwayResumes
    <3> QED
      BY <3>1, <3>2
  <2>4. ASSUME NEW x \in BOOLEAN, Resumes(clock, x) PROVE Away(engine')
    BY <1>0, <2>4, AwayResumes
  <2> QED
    BY <1>1, <2>2, <2>3, <2>4
<1>6. CASE Tick
  <2>1. loop.at = "tick" /\ callback' = callback
    BY <1>6 DEF Tick, LoopAt, OnAir
  <2>2. Reading = loop.now
    BY <2>1 DEF Reading
  <2> QED
    BY <1>6, <2>2, AwayTicks
<1>7. CASE Restore
  <2>1. Restoring
    BY <1>7, StageFacts, LoopFacts DEF ApInv, Restore, Restoring
  <2> QED
    BY <1>7, <2>1, AwayRestores
<1>8. CASE Pause \/ Suspend
  <2>1. loop.at \notin {"tick", "expire"} /\ callback' = callback
    BY <1>8 DEF Pause, Suspend, LoopAt, OnAir
  <2>2. Reading = clock
    BY <2>1 DEF Reading
  <2> QED
    BY <1>8, <2>2, AwayPauses, AwaySuspends
<1> QED
  BY <1>2, <1>3, <1>4, <1>5, <1>6, <1>7, <1>8 DEF Next, Keys, Rest, Callbacks

LEMMA TimedBegins == ASSUME Init PROVE Timed
BY DEF Init, Timed

\* Every other step but an evaluation begins no expiry.
LEMMA TimedStays ==
    ASSUME Timed,
           loop'.at = "expire" /\ engine'.paused
               => loop.at = "expire" /\ engine.paused /\ loop'.now = loop.now /\ started' = started
    PROVE  Timed'
BY DEF Timed, WindowOver

LEMMA TimedHears == ASSUME ApInv, Timed, Callbacks PROVE Timed'
<1>1. CASE Data
  <2> DEFINE e == IF DeadlineFirst THEN Resumed(engine, callback.raw, TRUE) ELSE engine
  <2>1. callback.raw \in Time /\ callback.kind \in {"hello", "input"} /\ Fits(engine, table)
    BY <1>1 DEF Data, ApInv, TypeOK, Callback, Listed
  <2>2. ASSUME NEW x \in BOOLEAN
        PROVE  LET r == Resumed(engine, callback.raw, x) IN Fits(r, table) /\ r.paused = FALSE
    BY <2>1, Resuming
  <2>3. Fits(e, table) /\ e.paused = IF DeadlineFirst THEN FALSE ELSE engine.paused
    BY <2>1, <2>2
  <2>4. /\ engine' = Heard(e, callback.ws) /\ loop' = loop
        /\ ~DeadlineFirst => UNCHANGED started
    BY <1>1 DEF Data
  <2> HIDE DEF e
  <2>5. engine'.paused = e.paused
    BY <2>1, <2>3, <2>4, Hearing
  <2> QED
    BY <2>3, <2>4, <2>5, TimedStays
<1>2. CASE Disconnected
  <2> DEFINE e == Disconnect(engine, callback.ws, callback.raw)
  <2>1. callback.raw \in Time /\ Fits(engine, table)
    BY DEF ApInv, TypeOK, Callback, Listed
  <2>2. Fits(e, table \ {callback.ws}) /\ e.paused = engine.paused
    BY <2>1, Disconnecting
  <2>3. /\ engine' = ShownOffline(e, HolderOf(engine, callback.ws))
        /\ UNCHANGED <<started, loop>>
    BY <1>2 DEF Disconnected, ap
  <2> HIDE DEF e
  <2>4. engine'.paused = engine.paused
    BY <2>2, <2>3, Hiding
  <2> QED
    BY <2>3, <2>4, TimedStays
<1> QED
  BY <1>1, <1>2 DEF Callbacks

LEMMA TimedSteps == ASSUME ApInv, Timed, [Next]_vars PROVE Timed'
<1>0. TypeOK
  BY DEF ApInv
<1>1. loop \in [at : Stages, now : Time, tries : 0 .. 2]
  BY <1>0 DEF TypeOK
<1>2. ASSUME NEW a, NEW b \in Stages, LoopAt(a, b), b # "expire" PROVE loop'.at # "expire"
  <2>1. loop'.at = b
    BY <1>0, <1>2, LoopFacts
  <2> QED
    BY <1>2, <2>1
<1>3. CASE \/ Elapse \/ UNCHANGED vars
           \/ \E s \in Socket, id \in Identity : Connect(s, id)
           \/ \E s \in Socket, kind \in {"hello", "input", "disconnect"} : Arrives(s, kind)
  <2>1. UNCHANGED <<loop, engine, started>>
    BY <1>3 DEF Elapse, Connect, Arrives, ap, vars
  <2> QED
    BY <2>1, TimedStays
<1>4. CASE Callbacks
  BY <1>4, TimedHears
<1>5. CASE Evaluate
  <2> DEFINE next == IF state = "ReconnectWait" THEN Evaluated ELSE "top"
  <2>1. LoopAt("evaluate", next) /\ UNCHANGED <<OnAir, engine, ap>>
    BY <1>5 DEF Evaluate
  <2>2. next \in Stages /\ (next = "expire" => WindowOver(loop.now))
    BY DEF Stages, Evaluated
  <2> HIDE DEF next
  <2>3. loop'.at = next /\ loop'.now = loop.now
    BY <1>0, <2>1, <2>2, LoopFacts
  <2> QED
    BY <2>1, <2>2, <2>3 DEF Timed, WindowOver, ap
<1>6. CASE LoopBegins \/ Pause \/ SwitchOn
  <2>1. ASSUME LoopBegins PROVE loop'.at # "expire"
    BY <2>1 DEF LoopBegins
  <2>2. ASSUME SwitchOn PROVE loop'.at # "expire"
    BY <1>1, <2>2 DEF SwitchOn
  <2>3. ASSUME Pause PROVE loop'.at # "expire"
    <3>1. PICK tries \in {0, 2} : loop' = [loop EXCEPT !.at = "checkpoint", !.tries = tries]
      BY <2>3 DEF Pause
    <3> QED
      BY <1>1, <3>1
  <2>4. loop'.at # "expire"
    BY <1>6, <2>1, <2>2, <2>3
  <2> QED
    BY <2>4, TimedStays
<1>7. CASE StartFails
  <2>1. loop'.at # "expire"
    BY <1>1, <1>2, <1>7 DEF StartFails, Stages
  <2> QED
    BY <2>1, TimedStays
<1>8. CASE \/ NoKey \/ HostResumes \/ RestoreAsked \/ Checkpoint \/ Suspend \/ Stop \/ Start
           \/ Accept \/ Wait \/ ResumeEmpty \/ Restore \/ Tick \/ Resume
  <2>1. ASSUME NEW a, NEW b, LoopAt(a, b),
               b \in {"top", "tick", "restore", "suspend", "stop", "start", "accept", "wait", "empty",
                      "evaluate"}
        PROVE  loop'.at # "expire"
    <3>1. b \in Stages /\ b # "expire"
      BY <2>1 DEF Stages
    <3> QED
      BY <1>2, <2>1, <3>1
  <2>2. ASSUME NoKey \/ HostResumes \/ ResumeEmpty \/ Restore PROVE loop'.at # "expire"
    BY <2>1, <2>2 DEF NoKey, HostResumes, ResumeEmpty, Restore
  <2>3. ASSUME RestoreAsked \/ Checkpoint \/ Suspend PROVE loop'.at # "expire"
    <3>1. \/ LoopAt("keys", "restore") \/ LoopAt("checkpoint", "suspend")
          \/ LoopAt("checkpoint", "tick") \/ LoopAt("suspend", "stop")
      BY <2>3 DEF RestoreAsked, Checkpoint, Suspend
    <3> QED
      BY <2>1, <3>1
  <2>4. ASSUME Stop PROVE loop'.at # "expire"
    BY <2>1, <2>4 DEF Stop
  <2>5. ASSUME Start \/ Accept PROVE loop'.at # "expire"
    BY <2>1, <2>5 DEF Start, Accept
  <2>6. ASSUME Wait PROVE loop'.at # "expire"
    BY <2>1, <2>6 DEF Wait
  <2>7. ASSUME Tick PROVE loop'.at # "expire"
    BY <2>1, <2>7 DEF Tick
  <2>8. ASSUME Resume PROVE loop'.at # "expire"
    BY <2>1, <2>8 DEF Resume
  <2>9. loop'.at # "expire"
    BY <1>8, <2>2, <2>3, <2>4, <2>5, <2>6, <2>7, <2>8
  <2> QED
    BY <2>9, TimedStays
<1> QED
  BY <1>3, <1>4, <1>5, <1>6, <1>7, <1>8 DEF Next, Keys, Rest

KeptInv == ApInv /\ WaitInv /\ Away(engine) /\ Timed

LEMMA KeptBegins == ASSUME Init PROVE KeptInv
BY Begins, WaitBegins, AwayBegins, TimedBegins DEF KeptInv

LEMMA KeptSteps ==
    ASSUME Window + LoopLag + Slack < Word, KeptInv, [Next]_vars
    PROVE  KeptInv'
<1>1. TypeOK /\ ApInv' /\ Away(engine') /\ Timed'
  BY ApSteps, Spared, TimedSteps DEF KeptInv, ApInv
<1>2. WaitInv'
  BY WaitSteps DEF KeptInv
<1> QED
  BY <1>1, <1>2 DEF KeptInv

\* A reading that is older by no more than the time since a moment is after the moment.
LEMMA Later ==
    ASSUME NEW a \in Time, NEW b \in Time, NEW c \in Time, Since(a, b) <= Since(a, c)
    PROVE  Since(b, c) = Since(a, c) - Since(a, b)
<1>1. /\ Since(a, b) \in 0 .. Word - 1 /\ Since(b, c) \in 0 .. Word - 1
      /\ Since(a, c) \in 0 .. Word - 1
  BY SinceFacts
<1> QED
  BY <1>1, ChainFacts, WordFacts

\* The session's clock at a reading, from one of its own moments and what millis() read then.
At(now, src, raw) == (now + Since(raw, src)) % Word

\* The session's clock and millis() run alike: how old a reading is, it is on both.
LEMMA Alike ==
    ASSUME NEW now \in Time, NEW src \in Time, NEW late \in Time, NEW raw \in Time
    PROVE  /\ At(now, src, late) \in Time /\ At(now, src, raw) \in Time
           /\ Since(At(now, src, late), At(now, src, raw)) = Since(late, raw)
<1> DEFINE T == At(now, src, late)
           t == At(now, src, raw)
<1>1. ASSUME NEW x \in 0 .. Word - 1
      PROVE  (now + x) % Word = IF now + x < Word THEN now + x ELSE now + x - Word
  <2>1. now \in 0 .. Word - 1
    BY WordFacts
  <2>2. ASSUME NEW y \in Int, y \in 0 .. 2 * Word - 2
        PROVE  y % Word = IF y < Word THEN y ELSE y - Word
    BY <2>2, WordFacts
  <2> QED
    BY <2>1, <2>2, WordFacts
<1>2. Since(late, src) \in 0 .. Word - 1 /\ Since(raw, src) \in 0 .. Word - 1
  BY SinceFacts
<1>3. /\ T = IF now + Since(late, src) < Word THEN now + Since(late, src)
             ELSE now + Since(late, src) - Word
      /\ t = IF now + Since(raw, src) < Word THEN now + Since(raw, src)
             ELSE now + Since(raw, src) - Word
  BY <1>1, <1>2 DEF At
<1> HIDE DEF T, t
<1>4. T \in Time /\ t \in Time
  <2>1. ASSUME NEW x \in 0 .. Word - 1, NEW y, y = IF now + x < Word THEN now + x ELSE now + x - Word
        PROVE  y \in Time
    <3>1. now \in 0 .. Word - 1
      BY WordFacts
    <3>2. y \in 0 .. Word - 1
      BY <2>1, <3>1, WordFacts
    <3> QED
      BY <3>2, WordFacts
  <2>2. T \in Time
    BY <1>2, <1>3, <2>1
  <2>3. t \in Time
    BY <1>2, <1>3, <2>1
  <2> QED
    BY <2>2, <2>3
<1>5. Since(T, t) = IF T >= t THEN T - t ELSE T - t + Word
  BY <1>4, SinceFacts
<1>6. Since(late, raw) = IF late >= raw THEN late - raw ELSE late - raw + Word
  BY SinceFacts
<1>7. Since(late, src) = IF late >= src THEN late - src ELSE late - src + Word
  BY SinceFacts
<1>8. Since(raw, src) = IF raw >= src THEN raw - src ELSE raw - src + Word
  BY SinceFacts
<1>9. Since(T, t) = Since(late, raw)
  BY <1>3, <1>5, <1>6, <1>7, <1>8, WordFacts
<1> QED
  BY <1>4, <1>9 DEF T, t

\* Within the grace by the time that has passed is within it by a reading after the leave.
LEMMA ReadInGrace ==
    ASSUME Away(engine), clock \in Time, NEW raw \in Time, NEW p \in Pid,
           engine.seat[p].detached, Since(TrueNow, engine.seat[p].at) < Grace,
           engine.paused \/ Since(clock, raw) <= Since(TrueNow, engine.seat[p].at)
    PROVE  InGrace(engine, raw, p)
<1> DEFINE T == TrueNow
           t == SessionTime(engine, raw)
           a == engine.seat[p].at
<1>1. a \in Time /\ engine.now \in Time /\ engine.src \in Time
  BY EngineFacts, SeatFacts DEF Away, Fits
<1>2. CASE engine.paused
  <2>1. t = T
    BY <1>2 DEF SessionTime, TrueNow
  <2>2. T \in Time
    <3>1. engine.now + 0 = engine.now /\ engine.now \in 0 .. Word - 1
      BY <1>1, WordFacts
    <3> QED
      BY <1>2, <3>1, ModFacts, WordFacts DEF TrueNow
  <2>3. Since(T, a) \in 0 .. Word - 1
    BY <1>1, <2>2, SinceFacts
  <2> HIDE DEF T, t, a
  <2>4. ~(Since(t, a) >= Grace)
    <3>1. Since(T, a) < Grace
      BY DEF T, a
    <3> QED
      BY <2>1, <2>3, <3>1, SeatAssumption, WordFacts
  <2> QED
    BY <2>4 DEF InGrace, t, a
<1>3. CASE ~engine.paused
  <2>1. T = At(engine.now, engine.src, clock) /\ t = At(engine.now, engine.src, raw)
    BY <1>3 DEF SessionTime, TrueNow, At
  <2>2. T \in Time /\ t \in Time /\ Since(T, t) = Since(clock, raw)
    BY <1>1, <2>1, Alike
  <2>3. Since(clock, raw) <= Since(T, a) /\ Since(T, a) < Grace
    BY <1>3
  <2> HIDE DEF T, t, a
  <2>4. Since(t, a) = Since(T, a) - Since(T, t)
    BY <1>1, <2>2, <2>3, Later
  <2>5. Since(T, a) \in 0 .. Word - 1 /\ Since(T, t) \in 0 .. Word - 1
    BY <1>1, <2>2, SinceFacts
  <2>6. ~(Since(t, a) >= Grace)
    BY <2>3, <2>4, <2>5, SeatAssumption, WordFacts
  <2> QED
    BY <2>6 DEF InGrace, t, a
<1> QED
  BY <1>2, <1>3

LEMMA ReadingIs == ASSUME TypeOK PROVE Reading \in Time
BY DEF TypeOK, Callback, Reading

\* Nobody who is missing is out of grace, by any reading: a pause takes none.
LEMMA MissingInGrace ==
    ASSUME KeptInv, Grace > 0, NEW p \in Missing(engine), NEW raw
    PROVE  p \in Pid /\ engine.paused /\ InGrace(engine, raw, p)
<1>1. p \in Pid /\ engine.seat[p].detached /\ engine.seat[p].at = engine.now
  BY EngineFacts DEF KeptInv, Away, Fits, Missing
<1>2. engine.paused /\ engine.now \in Time
  BY EngineFacts DEF KeptInv, Away, Fits, Missing
<1>3. (engine.now + 0) % Word = engine.now
  BY <1>2, WordFacts
<1>4. SessionTime(engine, raw) = engine.now
  BY <1>2, <1>3 DEF SessionTime
<1>5. Since(engine.now, engine.now) = 0
  BY <1>2, NoTime
<1>6. ~(Since(engine.now, engine.now) >= Grace)
  BY <1>5, SeatAssumption
<1> QED
  BY <1>1, <1>2, <1>4, <1>6 DEF InGrace

LEMMA LeftAreKept ==
    ASSUME KeptInv, [Next]_vars, NEW p \in Pid
    PROVE  LeftKept(p)
<1>1. SUFFICES ASSUME engine.seat[p].detached, Since(TrueNow, engine.seat[p].at) < Grace,
                      p \notin Missing(engine), ~Restoring,
                      engine.paused \/ Since(clock, Reading) <= Since(TrueNow, engine.seat[p].at)
               PROVE  Keeps(engine, engine', p)
  BY DEF LeftKept, Keeps
<1>2. Away(engine) /\ ApInv /\ clock \in Time /\ Reading \in Time
  BY ReadingIs DEF KeptInv, ApInv, TypeOK
<1>3. InGrace(engine, Reading, p)
  BY <1>1, <1>2, ReadInGrace
<1> QED
  BY <1>1, <1>2, <1>3, Spared

LEMMA MissingAreKept ==
    ASSUME KeptInv, Grace > 0, [Next]_vars, NEW p \in Missing(engine)
    PROVE  MissingKept(p)
<1>0. /\ clock \in Time /\ Reading \in Time /\ started \in Time /\ TypeOK /\ ApInv
      /\ callback.raw \in Time
  BY ReadingIs DEF KeptInv, ApInv, TypeOK, Callback
<1>1. p \in Pid /\ engine.paused /\ \A raw \in Time : InGrace(engine, raw, p)
  BY MissingInGrace
<1>2. ASSUME state = "ReconnectWait" PROVE waited = Since(clock, started)
  BY <1>2 DEF KeptInv, WaitInv, Counted
<1>3. ASSUME engine'.seat[p].id # engine.seat[p].id, ~Restoring
      PROVE  state = "ReconnectWait" /\ (waited >= Window \/ Since(clock, Reading) > waited)
  <2>1. Expires
    BY <1>0, <1>1, <1>3, Spared DEF KeptInv, Keeps
  <2>2. state = "ReconnectWait" /\ WindowOver(Reading)
    <3>1. CASE callback' # callback /\ DeadlineFirst
      BY <3>1 DEF DeadlineFirst, Reading
    <3>2. CASE callback' = callback /\ loop.at = "expire"
      <4>1. WindowOver(Reading)
        BY <1>1, <3>2 DEF KeptInv, Timed, Reading
      <4>2. loop.at \notin Moving /\ loop.at \in Watching
        BY <3>2 DEF Moving, Watching
      <4>3. state \in {"Running", "ManualOff", "ReconnectWait"}
        BY <1>0 DEF TypeOK
      <4> QED
        BY <1>0, <1>1, <4>1, <4>2, <4>3 DEF ApInv, Truthful, Steady
    <3> QED
      BY <2>1, <3>1, <3>2 DEF Expires
  <2>3. Since(Reading, started) >= Window
    BY <2>2 DEF WindowOver
  <2>4. /\ Since(clock, Reading) \in 0 .. Word - 1 /\ Since(clock, started) \in 0 .. Word - 1
    BY <1>0, SinceFacts
  <2>5. CASE Since(clock, Reading) <= Since(clock, started)
    <3>1. Since(Reading, started) = Since(clock, started) - Since(clock, Reading)
      BY <1>0, <2>5, Later
    <3>2. Since(clock, started) >= Window
      BY <2>3, <2>4, <3>1, LengthFacts
    <3> QED
      BY <1>2, <2>2, <3>2
  <2>6. CASE ~(Since(clock, Reading) <= Since(clock, started))
    <3>1. Since(clock, Reading) > Since(clock, started)
      BY <2>4, <2>6, WordFacts
    <3> QED
      BY <1>2, <2>2, <3>1
  <2> QED
    BY <2>5, <2>6
<1>4. ASSUME callback.kind = "hello", callback'.kind = "none", accepting,
             state = "ReconnectWait", waited - Since(clock, callback.raw) >= Window
      PROVE  ~engine'.seat[p].played
  <2>1. Data
    <3>1. callback' # callback
      BY <1>4
    <3>2. ~Disconnected
      BY <1>4 DEF Disconnected
    <3>3. CASE \E s \in Socket, kind \in {"hello", "input", "disconnect"} : Arrives(s, kind)
      BY <1>4, <3>3 DEF Arrives
    <3> QED
      BY <1>4, <3>1, <3>2, <3>3 DEF Next, Elapse, Connect, Callbacks, LoopBegins, Keys, Rest,
         NoKey, HostResumes, Pause, SwitchOn, RestoreAsked, Checkpoint, Suspend, Stop, StartFails,
         Start, Accept, Wait, ResumeEmpty, Restore, Tick, Evaluate, Resume, OnAir, vars
  <2>2. /\ Since(clock, callback.raw) \in 0 .. Word - 1 /\ Since(clock, started) \in 0 .. Word - 1
    BY <1>0, SinceFacts
  <2>3. Since(clock, started) - Since(clock, callback.raw) >= Window
    BY <1>2, <1>4
  <2>4. Since(clock, callback.raw) <= Since(clock, started)
    BY <2>2, <2>3, LengthFacts
  <2>5. Since(callback.raw, started) = Since(clock, started) - Since(clock, callback.raw)
    BY <1>0, <2>4, Later
  <2>6. DeadlineFirst
    BY <1>1, <1>4, <2>3, <2>5 DEF DeadlineFirst, WindowOver
  <2> QED
    BY <1>0, <1>4, <2>1, <2>6, AwayData DEF KeptInv
<1> QED
  BY <1>3, <1>4 DEF MissingKept

\* Engine::syncClocks and expireDetached, haApReconnectExpiresBeforeInput, haPortalTick: for
\* any number of phones and any lags, no seat is taken before its grace of session time or
\* before the end of its window but by a reading older than the leave, or than the wait; and
\* a hello of after the deadline never finds its part in the game again.
THEOREM SeatsAreKept ==
    ASSUME Window + LoopLag + (LoopLag + Period) < Word, Grace > 0
    PROVE  Spec => KeptUnlessStale
<1>1. Window + LoopLag + Slack < Word
  BY DEF Slack
<1>2. KeptInv /\ [Next]_vars =>
          [(\A p \in Pid : LeftKept(p)) /\ (\A p \in Missing(engine) : MissingKept(p))]_vars
  BY LeftAreKept, MissingAreKept
<1>3. KeptInv /\ [Next]_vars => KeptInv'
  BY <1>1, KeptSteps
<1> QED
  BY <1>2, <1>3, KeptBegins, PTL DEF Spec, KeptUnlessStale
=============================================================================
