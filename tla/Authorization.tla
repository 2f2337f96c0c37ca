--------------------------- MODULE Authorization ----------------------------
(***************************************************************************)
(* Who may join the party (hotspot-arcade-cardputer.ino, haAuthorize-      *)
(* Identity, and ha_host.h, haHostCanTrackIdentity): phones the ledger     *)
(* knows come back without the party code; others have to show it, are     *)
(* counted when it is wrong, by the address of the phone and over all, and *)
(* are locked out for a while.  One call runs under the engine's mutex.    *)
(***************************************************************************)
EXTENDS Millis, FiniteSets

CONSTANTS Client,       \* addresses of phones
          NoClient,     \* an unused bucket
          Buckets,      \* HA_AUTH_CLIENT_BUCKETS
          ClientLimit,  \* HA_AUTH_CLIENT_FAILURES
          GlobalLimit,  \* HA_AUTH_GLOBAL_FAILURES
          Window,       \* HA_AUTH_WINDOW_MS
          Lockout,      \* HA_AUTH_LOCKOUT_MS
          Guest,        \* identities of phones
          Rows,         \* HA_SESSION_MAX_PLAYERS
          Seats         \* HA_MAX_PLAYERS

All == "all"            \* the counter over all clients

ASSUME AuthAssumption ==
    /\ NoClient \notin Client /\ All \notin Client
    /\ Buckets \in Nat \ {0} /\ ClientLimit \in Nat \ {0, 1} /\ GlobalLimit \in Nat \ {0, 1}
    /\ Window \in Nat \ {0} /\ Lockout \in Nat \ {0} /\ Rows \in Nat /\ Seats \in Nat
    /\ 2 * Lockout < Word /\ Window <= Lockout

VARIABLES
    clients,    \* haAuthClients
    global,     \* haAuthGlobal
    rows,       \* identities in the ledger of the session
    seated,     \* identities that hold a seat of the engine
    recent,     \* history: the wrong codes judged less than Window ago
    told,       \* history: what a client was told, and the ms it still has to wait
    aged        \* history: the clock has run half its range since the boot

authVars == <<clients, global, rows, seated, recent, told, aged>>

Slot     == 1 .. Buckets
Clear    == [fails |-> 0, open |-> FALSE, start |-> 0, lock |-> 0]
Free     == [key |-> NoClient, counter |-> Clear, seen |-> 0]
Nothing  == [due |-> FALSE, wait |-> 0]     \* nothing to wait for

AuthInit ==
    /\ aged = FALSE
    /\ clients = [i \in Slot |-> Free] /\ global = Clear
    /\ rows = {} /\ seated = {}
    /\ recent = [w \in Client \cup {All} |-> {}]
    /\ told = [k \in Client |-> Nothing]

-----------------------------------------------------------------------------
(* A counter. *)

\* haAuthNormalize: a lock-out that is over, and a window that is, leave nothing.
Normal(c, now) ==
    IF c.lock # 0
    THEN IF Remaining(now, c.lock) > 0 THEN c ELSE Clear
    ELSE IF c.open /\ Since(now, c.start) >= Window THEN Clear ELSE c

\* Fault: the lock-out begins one failure late.
Failed_Late(c, limit, now) ==
    LET d == Normal(c, now) IN
    IF d.lock # 0 THEN d
    ELSE IF d.fails >= limit THEN [Clear EXCEPT !.lock = (now + Lockout) % Word]
    ELSE [fails |-> d.fails + 1, open |-> TRUE,
          start |-> IF d.open THEN d.start ELSE now, lock |-> 0]

\* haAuthRecordFailure
Failed(c, limit, now) ==
    LET d == Normal(c, now) IN
    IF d.lock # 0 THEN d
    ELSE IF d.fails + 1 >= limit THEN [Clear EXCEPT !.lock = (now + Lockout) % Word]
    ELSE [fails |-> d.fails + 1, open |-> TRUE,
          start |-> IF d.open THEN d.start ELSE now, lock |-> 0]

-----------------------------------------------------------------------------
(* The buckets of the clients. *)

Lowest(S) == CHOOSE i \in S : \A j \in S : i <= j

Held(k)  == {i \in Slot : clients[i].key = k}
Unheld   == {i \in Slot : clients[i].key = NoClient}
Oldest(now) ==
    {i \in Slot : \A j \in Slot : Since(now, clients[i].seen) >= Since(now, clients[j].seen)}

\* haAuthClient: its own, else a free one, else the one seen longest ago.
SlotOf(k, now) ==
    IF Held(k) # {} THEN Lowest(Held(k))
    ELSE IF Unheld # {} THEN Lowest(Unheld) ELSE Lowest(Oldest(now))

\* The search normalises the used buckets it passes.
Sought(k, now) ==
    LET s == SlotOf(k, now)
        passed(i) == /\ clients[i].key # NoClient
                     /\ Held(k) # {} => i < s
    IN [i \in Slot |->
           IF i = s THEN IF Held(k) # {} THEN [clients[s] EXCEPT !.seen = now]
                         ELSE [key |-> k, counter |-> Clear, seen |-> now]
           ELSE IF passed(i) THEN [clients[i] EXCEPT !.counter = Normal(@, now)]
           ELSE clients[i]]

-----------------------------------------------------------------------------
(* haAuthorizeIdentity *)

\* Fault: an identity is admitted although the ledger has no row left for it.
CanTrack_Always(id) == TRUE

\* haHostCanTrackIdentity
CanTrack(id) == id \in rows \/ Cardinality(rows) < Rows

\* Engine::onHello and haHostJoinStable: a seat if one is free, and a row if one is.
Joins(id) ==
    IF Cardinality(seated) < Seats
    THEN /\ seated' = seated \cup {id}
         /\ rows' = IF Cardinality(rows \ {id}) < Rows THEN rows \cup {id} ELSE rows
    ELSE UNCHANGED <<seated, rows>>

\* A phone the ledger knows needs neither code nor patience.
KnownComes(id) ==
    /\ id \in rows \ seated
    /\ Joins(id)
    /\ UNCHANGED <<clock, clients, global, recent, told, aged>>

\* Fault: the shorter of two waits.
Longest_Shorter(a, b) == IF a > b THEN b ELSE a

Longest(a, b) == IF a > b THEN a ELSE b

\* The two counters of a call by client k, before the code is looked at.
Own(k)    == Normal(Sought(k, clock)[SlotOf(k, clock)].counter, clock)
Overall   == Normal(global, clock)
Wait(c)   == Remaining(clock, c.lock)
RetryAfter(c, g)  == Longest(Wait(c), Wait(g))
Throttled(k) == Wait(Own(k)) > 0 \/ Wait(Overall) > 0

Counters(k, c, g) ==
    /\ clients' = [Sought(k, clock) EXCEPT ![SlotOf(k, clock)].counter = c]
    /\ global' = g

\* A bucket given to another client takes the history of its failures with it.
Kept(k) == IF Held(k) # {} THEN recent[k] ELSE {}

Unknown(id) == id \notin rows \cup seated

\* What the phone is told: nothing, or to come back after some time.
Answered(k, c, g, throttled) ==
    told' = [told EXCEPT ![k] = [due |-> throttled, wait |-> RetryAfter(c, g)]]

\* Its client, or all, are locked out: the code is not looked at.
Refused(k, id) ==
    /\ Unknown(id) /\ Throttled(k)
    /\ Counters(k, Own(k), Overall)
    /\ Answered(k, Own(k), Overall, TRUE)
    /\ recent' = [recent EXCEPT ![k] = Kept(k)]
    /\ UNCHANGED <<clock, aged, rows, seated>>

\* A hello without a code is asked for one.
Asked(k, id) ==
    /\ Unknown(id) /\ ~Throttled(k)
    /\ Counters(k, Own(k), Overall)
    /\ Answered(k, Own(k), Overall, FALSE)
    /\ recent' = [recent EXCEPT ![k] = Kept(k)]
    /\ UNCHANGED <<clock, aged, rows, seated>>

\* The right code clears the client's counter, and admits unless the ledger is full.
Right(k, id) ==
    /\ Unknown(id) /\ ~Throttled(k)
    /\ Counters(k, Clear, Overall)
    /\ Answered(k, Clear, Overall, FALSE)
    /\ recent' = [recent EXCEPT ![k] = {}]
    /\ IF CanTrack(id) THEN Joins(id) ELSE UNCHANGED <<rows, seated>>
    /\ UNCHANGED <<clock, aged>>

\* A failure is remembered by its age and its number in the window of its counter d, but for
\* one whose lock-out is lost: a deadline of zero is none.
Judged(failures, d, c) ==
    IF c = Clear THEN {} ELSE failures \cup {[age |-> 0, nr |-> d.fails]}

\* A wrong code counts for the client and for all; nobody's waiting time holds any more.
Wrong(k, id) ==
    LET c == Failed(Own(k), ClientLimit, clock)
        g == Failed(Overall, GlobalLimit, clock)
    IN
    /\ Unknown(id) /\ ~Throttled(k)
    /\ Counters(k, c, g)
    /\ told' = [j \in Client |->
                   IF j = k THEN [due |-> c.fails = 0 \/ g.fails = 0, wait |-> RetryAfter(c, g)]
                   ELSE Nothing]
    /\ recent' = [recent EXCEPT ![k] = Judged(Kept(k), Own(k), c),
                                ![All] = Judged(@, Overall, g)]
    /\ UNCHANGED <<clock, aged, rows, seated>>

-----------------------------------------------------------------------------
(* The rest of the system. *)

\* finalizeLeave: the seat is released, the row stays.
Leaves(id) ==
    /\ id \in seated
    /\ seated' = seated \ {id}
    /\ UNCHANGED <<clock, clients, global, rows, recent, told, aged>>

\* haPersistenceRestoreHistory: the ledger of an earlier session, and no seats.
RestoreSession ==
    /\ rows' \in {R \in SUBSET Guest : Cardinality(R) <= Rows}
    /\ seated' = {}
    /\ UNCHANGED <<clock, clients, global, recent, told, aged>>

Older(failures) == {[f EXCEPT !.age = @ + 1] : f \in {g \in failures : g.age + 1 < Window}}

AuthElapse ==
    /\ Ticks
    /\ aged' = (aged \/ 2 * clock' > Word)
    /\ recent' = [w \in DOMAIN recent |-> Older(recent[w])]
    /\ told' = [k \in Client |-> [told[k] EXCEPT !.wait = IF @ > 0 THEN @ - 1 ELSE 0]]
    /\ UNCHANGED <<clients, global, rows, seated>>

AuthNext ==
    \/ \E k \in Client, id \in Guest :
           Refused(k, id) \/ Asked(k, id) \/ Right(k, id) \/ Wrong(k, id)
    \/ \E id \in Guest : KnownComes(id) \/ Leaves(id)
    \/ RestoreSession
    \/ AuthElapse

\* The boot is at time zero.
AuthSpec == clock = 0 /\ AuthInit /\ [][AuthNext]_<<clock, authVars>>

-----------------------------------------------------------------------------
(* Properties. *)

\* docs/PROTOCOL.md, "Unknown-code attempts are limited": the windows are fixed ones, so
\* two of them share the failures of any Window - never more, for a client that keeps its
\* bucket and for all clients together, but for a lock-out whose deadline falls on zero.
FailuresBounded ==
    /\ \A k \in Client : Cardinality(recent[k]) <= 2 * ClientLimit - 2
    /\ Cardinality(recent[All]) <= 2 * GlobalLimit - 2

\* docs/PROTOCOL.md, `retry_ms`: a client that waits as long as it was told is heard, when
\* nobody failed meanwhile - while the clock has not run half its range since the boot.
RetryIsEnough ==
    [][ \A k \in Client, id \in Guest :
            ~aged' /\ told[k].due /\ told[k].wait = 0 => ~Refused(k, id) ]_<<clock, authVars>>

\* haHostCanTrackIdentity, "Admission must reserve durable-ledger capacity": whoever has
\* a seat has a row for the score.
RowReserved == seated \subseteq rows

\* docs/PROTOCOL.md, "Unknown-code attempts are limited to five per minute per AP client
\* address and thirty globally, followed by a 60-second lockout": nobody is refused
\* unless the client or all of them are locked out.
RefusedOnlyLocked ==
    [][ \A k \in Client, id \in Guest :
            Refused(k, id) => Own(k).lock # 0 \/ Overall.lock # 0 ]_<<clock, authVars>>
=============================================================================
