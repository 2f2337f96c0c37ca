----------------------------- MODULE SeatsProofs -----------------------------
(***************************************************************************)
(* What the calls of the engine and of the ledger do to a state, for any   *)
(* number of phones, sockets and seats: the types are kept, no call but a  *)
(* hello gives a socket a seat, and what changes is what is named.         *)
(***************************************************************************)
EXTENDS Seats, WellFoundedInduction, TLAPS

-----------------------------------------------------------------------------
(* The clock. *)

LEMMA WordFacts == Word \in Nat /\ Word > 0 /\ Time = 0 .. Word - 1 /\ 0 \in Time
BY SeatAssumption DEF Time

LEMMA ModFacts ==
    ASSUME NEW x \in Int
    PROVE  /\ x \in 0 .. Word - 1 => x % Word = x
           /\ x + Word \in 0 .. Word - 1 => x % Word = x + Word
           /\ x = Word => x % Word = 0
           /\ x % Word \in 0 .. Word - 1
BY WordFacts

LEMMA SinceFacts ==
    ASSUME NEW now \in Time, NEW then \in Time
    PROVE  /\ Since(now, then) = IF now >= then THEN now - then ELSE now - then + Word
           /\ Since(now, then) \in 0 .. Word - 1
BY WordFacts, ModFacts DEF Since

LEMMA ChainFacts ==
    ASSUME NEW a \in Time, NEW b \in Time, NEW c \in Time
    PROVE  Since(a, c) = IF Since(a, b) + Since(b, c) < Word
                         THEN Since(a, b) + Since(b, c)
                         ELSE Since(a, b) + Since(b, c) - Word
<1>1. Since(a, b) = IF a >= b THEN a - b ELSE a - b + Word
  BY SinceFacts
<1>2. Since(b, c) = IF b >= c THEN b - c ELSE b - c + Word
  BY SinceFacts
<1>3. Since(a, c) = IF a >= c THEN a - c ELSE a - c + Word
  BY SinceFacts
<1> QED
  BY <1>1, <1>2, <1>3, WordFacts

LEMMA NoTime == ASSUME NEW t \in Time PROVE Since(t, t) = 0
BY SinceFacts, WordFacts

-----------------------------------------------------------------------------
(* The engine.  No call but a hello gives a socket a seat. *)

Names == Identity \cup {NoOne, Nameless}

Rows  == {"none", "offline", "online"}

\* A state of the engine in which sockets of T alone hold seats, and only taken ones.
Fits(e, T) ==
    /\ e \in Engine
    /\ \A p \in Pid : e.seat[p].ws # NoSocket => e.seat[p].ws \in T /\ e.seat[p].id # NoOne

LEMMA EngineFacts ==
    ASSUME NEW e \in Engine
    PROVE  /\ e.src \in Time /\ e.now \in Time /\ e.paused \in BOOLEAN
           /\ e.expected \in SUBSET Pid
           /\ e.seat \in [Pid -> Seat]
           /\ e.live \in [Pid -> Names]
           /\ e.row \in [Identity -> Rows]
BY DEF Engine, Names, Rows

LEMMA SeatFacts ==
    ASSUME NEW x \in Seat
    PROVE  /\ x.id \in Identity \cup {NoOne} /\ x.ws \in Socket \cup {NoSocket}
           /\ x.detached \in BOOLEAN /\ x.at \in Time /\ x.played \in BOOLEAN
BY DEF Seat

LEMMA NoSeatFacts ==
    /\ NoSeat \in Seat /\ NoSeat.ws = NoSocket /\ NoSeat.id = NoOne
    /\ NoSocket \notin Socket
BY SeatAssumption, WordFacts DEF NoSeat, Seat, NoSocket

\* Only a seat's sockets and identities count, and the pause.
LEMMA SameSeats ==
    ASSUME NEW e, NEW T, NEW f \in Engine, Fits(e, T), f.seat = e.seat
    PROVE  Fits(f, T)
BY DEF Fits

LEMMA FewerSeats ==
    ASSUME NEW e, NEW T, NEW f \in Engine, Fits(e, T),
           \A p \in Pid : \/ f.seat[p].ws = NoSocket
                          \/ f.seat[p].ws = e.seat[p].ws /\ f.seat[p].id = e.seat[p].id
    PROVE  Fits(f, T)
BY DEF Fits

LEMMA Syncing ==
    ASSUME NEW e, NEW T, Fits(e, T), NEW raw \in Time
    PROVE  Fits(Sync(e, raw), T) /\ Sync(e, raw).paused = e.paused
<1> DEFINE now == IF e.paused THEN e.now ELSE (e.now + Since(raw, e.src)) % Word
           f == Sync(e, raw)
<1>0. e \in Engine
  BY DEF Fits
<1>1. now \in Time
  <2>1. e.now \in Time /\ e.src \in Time
    BY <1>0, EngineFacts
  <2>2. Since(raw, e.src) \in 0 .. Word - 1
    BY <2>1, SinceFacts
  <2>3. e.now + Since(raw, e.src) \in Int
    BY <2>1, <2>2, WordFacts
  <2>4. (e.now + Since(raw, e.src)) % Word \in 0 .. Word - 1
    BY <2>3, ModFacts
  <2> QED
    BY <2>1, <2>4, WordFacts
<1>2. f = [e EXCEPT !.src = raw, !.now = now]
  BY DEF Sync
<1> HIDE DEF now, f
<1>3. f \in Engine /\ f.paused = e.paused /\ f.seat = e.seat
  BY <1>0, <1>1, <1>2 DEF Engine
<1> QED
  BY <1>3, SameSeats DEF f

LEMMA Releasing ==
    ASSUME NEW e, NEW T, Fits(e, T), NEW P
    PROVE  Fits(Released(e, P), T) /\ Released(e, P).paused = e.paused
<1> DEFINE seat == [p \in Pid |-> IF p \in P THEN NoSeat ELSE e.seat[p]]
           live == [p \in Pid |-> IF p \in P THEN NoOne ELSE e.live[p]]
           row  == [id \in Identity |-> IF \E p \in P : e.live[p] = id THEN "offline" ELSE e.row[id]]
           f    == Released(e, P)
<1>0. e \in Engine
  BY DEF Fits
<1>1. seat \in [Pid -> Seat] /\ live \in [Pid -> Names] /\ row \in [Identity -> Rows]
  BY <1>0, EngineFacts, NoSeatFacts DEF Names, Rows
<1>2. f = [e EXCEPT !.seat = seat, !.live = live, !.row = row]
  BY DEF Released
<1>3. \A p \in Pid : seat[p].ws = NoSocket \/ seat[p] = e.seat[p]
  BY NoSeatFacts
<1> HIDE DEF seat, live, row, f
<1>4. f \in Engine /\ f.paused = e.paused /\ f.seat = seat
  BY <1>0, <1>1, <1>2 DEF Engine, Names, Rows
<1>5. \A p \in Pid : \/ f.seat[p].ws = NoSocket
                     \/ f.seat[p].ws = e.seat[p].ws /\ f.seat[p].id = e.seat[p].id
  BY <1>3, <1>4
<1> QED
  BY <1>4, <1>5, FewerSeats DEF f

LEMMA Entering ==
    ASSUME NEW e, NEW T, Fits(e, T), NEW raw \in Time
    PROVE  Fits(Entered(e, raw), T) /\ Entered(e, raw).paused = e.paused
<1> DEFINE f == Sync(e, raw)
<1>1. Fits(f, T) /\ f.paused = e.paused
  BY Syncing
<1> HIDE DEF f
<1>2. Fits(Released(f, Expiring(f)), T) /\ Released(f, Expiring(f)).paused = f.paused
  BY <1>1, Releasing
<1>3. Entered(e, raw) = Released(f, Expiring(f))
  BY DEF Entered, f
<1> QED
  BY <1>1, <1>2, <1>3

LEMMA Detaching ==
    ASSUME NEW e, NEW T, Fits(e, T), NEW P
    PROVE  /\ Fits(Detached(e, P), T) /\ Detached(e, P).paused = e.paused
           /\ \A p \in Pid : p \in P => Detached(e, P).seat[p].ws = NoSocket
           /\ \A p \in Pid : p \notin P => Detached(e, P).seat[p] = e.seat[p]
<1> DEFINE seat == [p \in Pid |->
                       IF p \in P THEN [e.seat[p] EXCEPT !.ws = NoSocket, !.detached = TRUE, !.at = e.now]
                       ELSE e.seat[p]]
           f    == Detached(e, P)
<1>0. e \in Engine
  BY DEF Fits
<1>1. \A p \in Pid : e.seat[p] \in Seat /\ e.now \in Time
  BY <1>0, EngineFacts
<1>2. ASSUME NEW x \in Seat
      PROVE  [x EXCEPT !.ws = NoSocket, !.detached = TRUE, !.at = e.now] \in Seat
             /\ [x EXCEPT !.ws = NoSocket, !.detached = TRUE, !.at = e.now].ws = NoSocket
  BY <1>0, EngineFacts, <1>2 DEF Seat
<1>3. seat \in [Pid -> Seat] /\ \A p \in Pid : p \in P => seat[p].ws = NoSocket
  BY <1>1, <1>2
<1>4. \A p \in Pid : p \notin P => seat[p] = e.seat[p]
  OBVIOUS
<1>5. f = [e EXCEPT !.seat = seat]
  BY DEF Detached
<1> HIDE DEF seat, f
<1>6. f \in Engine /\ f.paused = e.paused /\ f.seat = seat
  BY <1>0, <1>3, <1>5 DEF Engine
<1>7. \A p \in Pid : \/ f.seat[p].ws = NoSocket
                     \/ f.seat[p].ws = e.seat[p].ws /\ f.seat[p].id = e.seat[p].id
  BY <1>3, <1>4, <1>6
<1> QED
  BY <1>3, <1>4, <1>6, <1>7, FewerSeats DEF f

LEMMA Playing ==
    ASSUME NEW e, NEW T, Fits(e, T), NEW s
    PROVE  Fits(Play(e, s), T) /\ Play(e, s).paused = e.paused
<1> DEFINE seat == [p \in Pid |-> IF p \in HolderOf(e, s) /\ ~e.paused
                                  THEN [e.seat[p] EXCEPT !.played = TRUE] ELSE e.seat[p]]
           f    == Play(e, s)
<1>0. e \in Engine
  BY DEF Fits
<1>1. \A p \in Pid : e.seat[p] \in Seat
  BY <1>0, EngineFacts
<1>2. ASSUME NEW x \in Seat
      PROVE  /\ [x EXCEPT !.played = TRUE] \in Seat
             /\ [x EXCEPT !.played = TRUE].ws = x.ws /\ [x EXCEPT !.played = TRUE].id = x.id
  BY <1>2 DEF Seat
<1>3. /\ seat \in [Pid -> Seat]
      /\ \A p \in Pid : seat[p].ws = e.seat[p].ws /\ seat[p].id = e.seat[p].id
  BY <1>1, <1>2
<1>4. f = [e EXCEPT !.seat = seat]
  BY DEF Play
<1> HIDE DEF seat, f
<1>5. f \in Engine /\ f.paused = e.paused /\ f.seat = seat
  BY <1>0, <1>3, <1>4 DEF Engine
<1>6. \A p \in Pid : \/ f.seat[p].ws = NoSocket
                     \/ f.seat[p].ws = e.seat[p].ws /\ f.seat[p].id = e.seat[p].id
  BY <1>3, <1>5
<1> QED
  BY <1>5, <1>6, FewerSeats DEF f

LEMMA Hiding ==
    ASSUME NEW e, NEW T, Fits(e, T), NEW P
    PROVE  Fits(ShownOffline(e, P), T) /\ ShownOffline(e, P).paused = e.paused
<1> DEFINE row == [id \in Identity |-> IF \E p \in P : e.live[p] = id THEN "offline" ELSE e.row[id]]
           f   == ShownOffline(e, P)
<1>0. e \in Engine
  BY DEF Fits
<1>1. row \in [Identity -> Rows]
  BY <1>0, EngineFacts DEF Rows
<1>2. f = [e EXCEPT !.row = row]
  BY DEF ShownOffline
<1> HIDE DEF row, f
<1>3. f \in Engine /\ f.paused = e.paused /\ f.seat = e.seat
  BY <1>0, <1>1, <1>2 DEF Engine, Rows
<1> QED
  BY <1>3, SameSeats DEF f

\* The socket that goes holds no seat any more.
LEMMA Disconnecting ==
    ASSUME NEW e, NEW T, Fits(e, T), NEW raw \in Time, NEW s
    PROVE  Fits(Disconnect(e, s, raw), T \ {s}) /\ Disconnect(e, s, raw).paused = e.paused
<1> DEFINE f == Entered(e, raw)
           g == Detached(f, HolderOf(f, s))
<1>1. Fits(f, T) /\ f.paused = e.paused
  BY Entering
<1> HIDE DEF f
<1>2. /\ Fits(g, T) /\ g.paused = f.paused
      /\ \A p \in Pid : p \in HolderOf(f, s) => g.seat[p].ws = NoSocket
      /\ \A p \in Pid : p \notin HolderOf(f, s) => g.seat[p] = f.seat[p]
  BY <1>1, Detaching
<1> HIDE DEF g
<1>3. ASSUME NEW p \in Pid, g.seat[p].ws # NoSocket
      PROVE  g.seat[p].ws # s
  <2>1. p \notin HolderOf(f, s) /\ g.seat[p] = f.seat[p]
    BY <1>2, <1>3
  <2>2. f.seat[p].id # NoOne
    BY <1>1, <1>3, <2>1 DEF Fits
  <2> QED
    BY <2>1, <2>2 DEF HolderOf
<1>4. Disconnect(e, s, raw) = g
  BY DEF Disconnect, f, g
<1> QED
  BY <1>1, <1>2, <1>3, <1>4 DEF Fits

\* A hello gives one seat to its socket.
LEMMA Seating ==
    ASSUME NEW e, NEW T, Fits(e, T), NEW p \in Pid, NEW id \in Identity, NEW s \in Socket
    PROVE  Fits(Seated(e, p, id, s), T \cup {s}) /\ Seated(e, p, id, s).paused = e.paused
<1> DEFINE x == [e.seat[p] EXCEPT !.id = id, !.ws = s, !.detached = FALSE, !.at = 0]
           f == [e EXCEPT !.seat[p] = x]
           g == Seated(e, p, id, s)
<1>0. e \in Engine
  BY DEF Fits
<1>1. e.seat[p] \in Seat /\ e.seat \in [Pid -> Seat]
  BY <1>0, EngineFacts
<1>2. x \in Seat /\ x.ws = s /\ x.id = id
  BY <1>1, WordFacts DEF Seat
<1>3. id # NoOne
  BY SeatAssumption
<1> HIDE DEF x
<1>4. /\ f \in Engine /\ f.paused = e.paused /\ f.seat[p] = x
      /\ \A q \in Pid : q # p => f.seat[q] = e.seat[q]
  BY <1>0, <1>1, <1>2 DEF Engine
<1>5. Seated(e, p, id, s) = Joined(f, p, id)
  BY DEF Seated, x
<1> HIDE DEF f, g
<1>6. /\ Joined(f, p, id) \in Engine /\ Joined(f, p, id).paused = f.paused
      /\ Joined(f, p, id).seat = f.seat
  <2> DEFINE listed == IF f.live[p] # NoOne THEN f.live[p]
                       ELSE IF f.row[id] = "online" THEN Nameless
                       ELSE id
             live   == [f.live EXCEPT ![p] = listed]
             row    == [i \in Identity |-> IF i = listed THEN "online" ELSE f.row[i]]
  <2>1. f.live \in [Pid -> Names] /\ f.row \in [Identity -> Rows]
    BY <1>4, EngineFacts
  <2>2. listed \in Names
    BY <2>1 DEF Names
  <2> HIDE DEF listed
  <2>3. live \in [Pid -> Names] /\ row \in [Identity -> Rows]
    BY <2>1, <2>2 DEF Rows
  <2>4. Joined(f, p, id) = [f EXCEPT !.live = live, !.row = row]
    BY <1>4 DEF Joined, listed, Engine
  <2> HIDE DEF live, row
  <2> QED
    BY <1>4, <2>3, <2>4 DEF Engine, Names, Rows
<1>7. g \in Engine /\ g.paused = e.paused /\ g.seat = f.seat
  BY <1>4, <1>5, <1>6 DEF g
<1>8. ASSUME NEW q \in Pid, g.seat[q].ws # NoSocket
      PROVE  g.seat[q].ws \in T \cup {s} /\ g.seat[q].id # NoOne
  <2>1. CASE q = p
    BY <1>2, <1>3, <1>4, <1>7, <2>1
  <2>2. CASE q # p
    <3>1. g.seat[q] = e.seat[q]
      BY <1>4, <1>7, <2>2
    <3> QED
      BY <1>8, <3>1 DEF Fits
  <2> QED
    BY <2>1, <2>2
<1> QED
  BY <1>7, <1>8 DEF Fits, g

\* The lowest of some pids is one of them.
LEMMA LowestFacts ==
    ASSUME NEW P \in SUBSET Pid, P # {}
    PROVE  Lowest(P) \in P
<1>1. P \subseteq Nat /\ P # {}
  BY SeatAssumption DEF Pid
<1>2. IsWellFoundedOn(OpToRel(<, Nat), Nat)
  BY NatLessThanWellFounded
<1>3. PICK p \in P : \A q \in P : <<q, p>> \notin OpToRel(<, Nat)
  BY <1>1, <1>2, WFMin
<1>4. \A q \in P : ~(q < p)
  BY <1>1, <1>3 DEF OpToRel
<1>5. \A q \in P : p <= q
  BY <1>1, <1>4
<1> QED
  BY <1>3, <1>5 DEF Lowest

LEMMA Greeting ==
    ASSUME NEW e, NEW T, Fits(e, T), NEW s \in Socket, NEW id \in Identity, NEW admitted
    PROVE  Fits(Hello(e, s, id, admitted), T \cup {s}) /\ Hello(e, s, id, admitted).paused = e.paused
<1> DEFINE P == HelloSeat(e, s, id, admitted)
<1>1. P \in SUBSET Pid
  <2>1. SeatOf(e, id) \subseteq Pid /\ HolderOf(e, s) \subseteq Pid /\ FreePids(e) \subseteq Pid
    BY DEF SeatOf, HolderOf, FreePids
  <2>2. FreePids(e) # {} => Lowest(FreePids(e)) \in Pid
    BY <2>1, LowestFacts
  <2> QED
    BY <2>1, <2>2 DEF HelloSeat
<1> HIDE DEF P
<1>2. CASE P = {}
  BY <1>2 DEF Hello, P, Fits
<1>3. CASE P # {}
  <2>1. Lowest(P) \in Pid
    BY <1>1, <1>3, LowestFacts
  <2>2. Hello(e, s, id, admitted) = Seated(e, Lowest(P), id, s)
    BY <1>3 DEF Hello, P
  <2>3. /\ Fits(Seated(e, Lowest(P), id, s), T \cup {s})
        /\ Seated(e, Lowest(P), id, s).paused = e.paused
    BY <2>1, Seating
  <2> QED
    BY <2>2, <2>3
<1> QED
  BY <1>2, <1>3

LEMMA Pausing ==
    ASSUME NEW e, NEW T, Fits(e, T), NEW raw \in Time
    PROVE  Fits(Paused(e, raw), T) /\ Paused(e, raw).paused = TRUE
<1> DEFINE f == Entered(e, raw)
           expected == {p \in Pid : Online(f, p)}
           g == [f EXCEPT !.paused = TRUE, !.expected = expected]
<1>1. Fits(f, T)
  BY Entering
<1>2. expected \in SUBSET Pid
  OBVIOUS
<1>3. Paused(e, raw) = g
  BY DEF Paused
<1> HIDE DEF f, expected
<1>4. f \in Engine
  BY <1>1 DEF Fits
<1>5. g \in Engine /\ g.paused = TRUE /\ g.seat = f.seat
  BY <1>2, <1>4 DEF Engine
<1> HIDE DEF g
<1> QED
  BY <1>1, <1>3, <1>5, SameSeats

\* No seat is left with a socket.
LEMMA Suspending ==
    ASSUME NEW e, NEW T, Fits(e, T), NEW raw \in Time
    PROVE  Fits(Suspended(e, raw), {}) /\ Suspended(e, raw).paused = e.paused
<1> DEFINE f == Sync(e, raw)
           P == {p \in Pid : Online(e, p)}
           g == Detached(f, P)
           live == [p \in Pid |-> NoOne]
           row  == [id \in Identity |-> IF g.row[id] = "online" THEN "offline" ELSE g.row[id]]
           h == [g EXCEPT !.live = live, !.row = row]
<1>0. e \in Engine
  BY DEF Fits
<1>1. Fits(f, T) /\ f.paused = e.paused /\ f.seat = e.seat
  <2>1. f.seat = e.seat
    BY <1>0 DEF Sync, Engine
  <2> QED
    BY <2>1, Syncing
<1>2. Suspended(e, raw) = h
  BY DEF Suspended
<1> HIDE DEF f
<1>3. /\ Fits(g, T) /\ g.paused = f.paused
      /\ \A p \in Pid : p \in P => g.seat[p].ws = NoSocket
      /\ \A p \in Pid : p \notin P => g.seat[p] = f.seat[p]
  BY <1>1, Detaching
<1>4. \A p \in Pid : g.seat[p].ws = NoSocket
  BY <1>1, <1>3 DEF Online
<1> HIDE DEF P, g
<1>5. g \in Engine
  BY <1>3 DEF Fits
<1>6. live \in [Pid -> Names] /\ row \in [Identity -> Rows]
  BY <1>5, EngineFacts DEF Names, Rows
<1> HIDE DEF live, row
<1>7. h \in Engine /\ h.paused = g.paused /\ h.seat = g.seat
  BY <1>5, <1>6 DEF Engine, Names, Rows
<1> QED
  BY <1>1, <1>2, <1>3, <1>4, <1>7 DEF Fits

LEMMA Resuming ==
    ASSUME NEW e, NEW T, Fits(e, T), NEW raw \in Time, NEW expireMissing \in BOOLEAN
    PROVE  Fits(Resumed(e, raw, expireMissing), T) /\ Resumed(e, raw, expireMissing).paused = FALSE
<1> DEFINE f == Sync(e, raw)
           g == IF expireMissing THEN ExpireMissing(f) ELSE f
           h == Detached(g, Missing(g))
           r == [h EXCEPT !.expected = {}, !.paused = FALSE]
<1>1. Fits(f, T)
  BY Syncing
<1>2. Resumed(e, raw, expireMissing) = r
  BY DEF Resumed
<1> HIDE DEF f
<1>3. Fits(ExpireMissing(f), T)
  BY <1>1, Releasing DEF ExpireMissing
<1>4. Fits(g, T)
  BY <1>1, <1>3
<1> HIDE DEF g
<1>5. Fits(h, T)
  BY <1>4, Detaching
<1> HIDE DEF h
<1>6. h \in Engine
  BY <1>5 DEF Fits
<1>7. r \in Engine /\ r.paused = FALSE /\ r.seat = h.seat
  BY <1>6 DEF Engine
<1> HIDE DEF r
<1> QED
  BY <1>2, <1>5, <1>7, SameSeats

LEMMA Resetting ==
    ASSUME NEW raw \in Time, NEW T, NEW rows \in [Identity -> Rows]
    PROVE  LET e == Reset(raw, rows) IN Fits(e, T) /\ e.paused = FALSE
<1> DEFINE e == Reset(raw, rows)
<1>1. /\ [p \in Pid |-> NoSeat] \in [Pid -> Seat]
      /\ [p \in Pid |-> NoOne] \in [Pid -> Names]
  BY NoSeatFacts DEF Names, Rows
<1>2. e \in Engine
  BY <1>1 DEF Reset, Engine, Names, Rows
<1>3. \A p \in Pid : e.seat[p].ws = NoSocket
  BY NoSeatFacts DEF Reset
<1>4. e.paused = FALSE
  BY DEF Reset
<1> QED
  BY <1>2, <1>3, <1>4 DEF Fits

-----------------------------------------------------------------------------
(* What each call leaves of the state it is given. *)

LEMMA SyncIs ==
    ASSUME NEW e \in Engine, NEW raw
    PROVE  LET f == Sync(e, raw) IN
           /\ f.src = raw /\ f.paused = e.paused /\ f.expected = e.expected
           /\ f.now = IF e.paused THEN e.now ELSE (e.now + Since(raw, e.src)) % Word
           /\ f.seat = e.seat /\ f.live = e.live /\ f.row = e.row
BY DEF Sync, Engine

LEMMA ReleasedIs ==
    ASSUME NEW e \in Engine, NEW P
    PROVE  LET f == Released(e, P) IN
           /\ f.src = e.src /\ f.now = e.now /\ f.paused = e.paused /\ f.expected = e.expected
           /\ f.seat = [p \in Pid |-> IF p \in P THEN NoSeat ELSE e.seat[p]]
           /\ f.live = [p \in Pid |-> IF p \in P THEN NoOne ELSE e.live[p]]
           /\ f.row  = [id \in Identity |->
                           IF \E p \in P : e.live[p] = id THEN "offline" ELSE e.row[id]]
<1> DEFINE seat == [p \in Pid |-> IF p \in P THEN NoSeat ELSE e.seat[p]]
           live == [p \in Pid |-> IF p \in P THEN NoOne ELSE e.live[p]]
           row  == [id \in Identity |-> IF \E p \in P : e.live[p] = id THEN "offline" ELSE e.row[id]]
<1>1. Released(e, P) = [e EXCEPT !.seat = seat, !.live = live, !.row = row]
  BY DEF Released
<1> HIDE DEF seat, live, row
<1>2. LET f == Released(e, P) IN
      /\ f.src = e.src /\ f.now = e.now /\ f.paused = e.paused /\ f.expected = e.expected
      /\ f.seat = seat /\ f.live = live /\ f.row = row
  BY <1>1 DEF Engine
<1> QED
  BY <1>2 DEF seat, live, row

\* Seat by seat.
LEMMA ReleasedSeats ==
    ASSUME NEW e \in Engine, NEW P
    PROVE  \A p \in Pid : Released(e, P).seat[p] = IF p \in P THEN NoSeat ELSE e.seat[p]
<1> DEFINE f == Released(e, P)
           seat == [p \in Pid |-> IF p \in P THEN NoSeat ELSE e.seat[p]]
           live == [p \in Pid |-> IF p \in P THEN NoOne ELSE e.live[p]]
           row  == [id \in Identity |-> IF \E p \in P : e.live[p] = id THEN "offline" ELSE e.row[id]]
<1>1. f = [e EXCEPT !.seat = seat, !.live = live, !.row = row]
  BY DEF Released
<1>2. \A p \in Pid : seat[p] = IF p \in P THEN NoSeat ELSE e.seat[p]
  OBVIOUS
<1> HIDE DEF f, seat, live, row
<1>3. \A p \in Pid : f.seat[p] = IF p \in P THEN NoSeat ELSE e.seat[p]
  BY <1>1, <1>2 DEF Engine
<1> QED
  BY <1>3 DEF f

LEMMA DetachedIs ==
    ASSUME NEW e \in Engine, NEW P
    PROVE  LET f == Detached(e, P) IN
           /\ f.src = e.src /\ f.now = e.now /\ f.paused = e.paused /\ f.expected = e.expected
           /\ f.live = e.live /\ f.row = e.row
           /\ \A p \in Pid :
                 /\ f.seat[p].id = e.seat[p].id /\ f.seat[p].played = e.seat[p].played
                 /\ p \in P => f.seat[p].ws = NoSocket /\ f.seat[p].detached /\ f.seat[p].at = e.now
                 /\ p \notin P => f.seat[p] = e.seat[p]
<1> DEFINE seat == [p \in Pid |->
                       IF p \in P THEN [e.seat[p] EXCEPT !.ws = NoSocket, !.detached = TRUE, !.at = e.now]
                       ELSE e.seat[p]]
<1>1. Detached(e, P) = [e EXCEPT !.seat = seat]
  BY DEF Detached
<1>2. ASSUME NEW x \in Seat
      PROVE  LET y == [x EXCEPT !.ws = NoSocket, !.detached = TRUE, !.at = e.now] IN
             y.id = x.id /\ y.played = x.played /\ y.ws = NoSocket /\ y.detached = TRUE /\ y.at = e.now
  BY <1>2 DEF Seat
<1>3. \A p \in Pid : e.seat[p] \in Seat
  BY EngineFacts
<1>4. \A p \in Pid : /\ seat[p].id = e.seat[p].id /\ seat[p].played = e.seat[p].played
                     /\ p \in P => seat[p].ws = NoSocket /\ seat[p].detached /\ seat[p].at = e.now
                     /\ p \notin P => seat[p] = e.seat[p]
  BY <1>2, <1>3
<1> HIDE DEF seat
<1>5. LET f == Detached(e, P) IN
      /\ f.src = e.src /\ f.now = e.now /\ f.paused = e.paused /\ f.expected = e.expected
      /\ f.live = e.live /\ f.row = e.row /\ f.seat = seat
  BY <1>1 DEF Engine
<1> QED
  BY <1>4, <1>5

LEMMA PlayIs ==
    ASSUME NEW e \in Engine, NEW s
    PROVE  LET f == Play(e, s) IN
           /\ f.src = e.src /\ f.now = e.now /\ f.paused = e.paused /\ f.expected = e.expected
           /\ f.live = e.live /\ f.row = e.row
           /\ \A p \in Pid : /\ f.seat[p].id = e.seat[p].id /\ f.seat[p].ws = e.seat[p].ws
                             /\ f.seat[p].detached = e.seat[p].detached /\ f.seat[p].at = e.seat[p].at
                             /\ p \notin HolderOf(e, s) => f.seat[p] = e.seat[p]
<1> DEFINE seat == [p \in Pid |-> IF p \in HolderOf(e, s) /\ ~e.paused
                                  THEN [e.seat[p] EXCEPT !.played = TRUE] ELSE e.seat[p]]
<1>1. Play(e, s) = [e EXCEPT !.seat = seat]
  BY DEF Play
<1>2. ASSUME NEW x \in Seat
      PROVE  LET y == [x EXCEPT !.played = TRUE] IN
             y.id = x.id /\ y.ws = x.ws /\ y.detached = x.detached /\ y.at = x.at
  BY <1>2 DEF Seat
<1>3. \A p \in Pid : e.seat[p] \in Seat
  BY EngineFacts
<1>4. \A p \in Pid : /\ seat[p].id = e.seat[p].id /\ seat[p].ws = e.seat[p].ws
                     /\ seat[p].detached = e.seat[p].detached /\ seat[p].at = e.seat[p].at
                     /\ p \notin HolderOf(e, s) => seat[p] = e.seat[p]
  BY <1>2, <1>3
<1> HIDE DEF seat
<1>5. LET f == Play(e, s) IN
      /\ f.src = e.src /\ f.now = e.now /\ f.paused = e.paused /\ f.expected = e.expected
      /\ f.live = e.live /\ f.row = e.row /\ f.seat = seat
  BY <1>1 DEF Engine
<1> QED
  BY <1>4, <1>5

\* The holder of the socket that goes leaves its seat, and is shown offline.
LEMMA HiddenIs ==
    ASSUME NEW e \in Engine, NEW P
    PROVE  LET f == ShownOffline(e, P) IN
           /\ f.src = e.src /\ f.now = e.now /\ f.paused = e.paused /\ f.expected = e.expected
           /\ f.seat = e.seat /\ f.live = e.live
           /\ \A id \in Identity :
                 f.row[id] = IF \E p \in P : e.live[p] = id THEN "offline" ELSE e.row[id]
<1> DEFINE row == [id \in Identity |-> IF \E p \in P : e.live[p] = id THEN "offline" ELSE e.row[id]]
<1>1. ShownOffline(e, P) = [e EXCEPT !.row = row]
  BY DEF ShownOffline
<1>2. \A id \in Identity : row[id] = IF \E p \in P : e.live[p] = id THEN "offline" ELSE e.row[id]
  OBVIOUS
<1> HIDE DEF row
<1>3. LET f == ShownOffline(e, P) IN
      /\ f.src = e.src /\ f.now = e.now /\ f.paused = e.paused /\ f.expected = e.expected
      /\ f.seat = e.seat /\ f.live = e.live /\ f.row = row
  BY <1>1 DEF Engine
<1> QED
  BY <1>2, <1>3

\* Which row a hello takes.
LEMMA SeatedIs ==
    ASSUME NEW e \in Engine, NEW p \in Pid, NEW id \in Identity, NEW s \in Socket,
           e.live[p] # NoOne => e.live[p] = id, e.live[p] = NoOne => e.row[id] # "online"
    PROVE  LET g == Seated(e, p, id, s) IN
           /\ g.src = e.src /\ g.now = e.now /\ g.paused = e.paused /\ g.expected = e.expected
           /\ g.seat[p].id = id /\ g.seat[p].ws = s /\ ~g.seat[p].detached
           /\ g.seat[p].played = e.seat[p].played
           /\ g.live[p] = id /\ g.row[id] = "online"
           /\ \A q \in Pid : q # p => g.seat[q] = e.seat[q] /\ g.live[q] = e.live[q]
           /\ \A i \in Identity : i # id => g.row[i] = e.row[i]
<1> DEFINE x == [e.seat[p] EXCEPT !.id = id, !.ws = s, !.detached = FALSE, !.at = 0]
           f == [e EXCEPT !.seat[p] = x]
           row == [i \in Identity |-> IF i = id THEN "online" ELSE e.row[i]]
<1>1. e.seat[p] \in Seat /\ e.seat \in [Pid -> Seat] /\ e.live \in [Pid -> Names]
  BY EngineFacts
<1>2. x.ws = s /\ x.id = id /\ ~x.detached /\ x.played = e.seat[p].played
  BY <1>1 DEF Seat
<1>3. row[id] = "online" /\ \A i \in Identity : i # id => row[i] = e.row[i]
  OBVIOUS
<1>4. Seated(e, p, id, s) = Joined(f, p, id)
  BY DEF Seated
<1> HIDE DEF x
<1>5. /\ f.src = e.src /\ f.now = e.now /\ f.paused = e.paused /\ f.expected = e.expected
      /\ f.live = e.live /\ f.row = e.row
      /\ f.seat = [e.seat EXCEPT ![p] = x] /\ f = [e EXCEPT !.seat = f.seat]
  BY <1>1 DEF Engine
<1> HIDE DEF f
<1>6. (IF f.live[p] # NoOne THEN f.live[p] ELSE IF f.row[id] = "online" THEN Nameless ELSE id) = id
  BY <1>5
<1>7. Joined(f, p, id) = [f EXCEPT !.live[p] = id, !.row = row]
  BY <1>5, <1>6 DEF Joined
<1> HIDE DEF row
<1>8. /\ Joined(f, p, id).src = f.src /\ Joined(f, p, id).now = f.now
      /\ Joined(f, p, id).paused = f.paused /\ Joined(f, p, id).expected = f.expected
      /\ Joined(f, p, id).seat = f.seat /\ Joined(f, p, id).row = row
      /\ Joined(f, p, id).live = [e.live EXCEPT ![p] = id]
  BY <1>5, <1>7 DEF Engine
<1> QED
  BY <1>1, <1>2, <1>3, <1>4, <1>5, <1>8

\* Whatever row it takes, a hello gives its seat to its socket and leaves the others alone.
LEMMA SeatedSeats ==
    ASSUME NEW e \in Engine, NEW p \in Pid, NEW id \in Identity, NEW s \in Socket
    PROVE  LET g == Seated(e, p, id, s) IN
           /\ g.src = e.src /\ g.now = e.now /\ g.paused = e.paused /\ g.expected = e.expected
           /\ g.seat[p].id = id /\ g.seat[p].ws = s /\ ~g.seat[p].detached
           /\ g.seat[p].played = e.seat[p].played
           /\ \A q \in Pid : q # p => g.seat[q] = e.seat[q]
<1> DEFINE x == [e.seat[p] EXCEPT !.id = id, !.ws = s, !.detached = FALSE, !.at = 0]
           f == [e EXCEPT !.seat[p] = x]
           listed == IF f.live[p] # NoOne THEN f.live[p]
                     ELSE IF f.row[id] = "online" THEN Nameless
                     ELSE id
           live == [f.live EXCEPT ![p] = listed]
           row  == [i \in Identity |-> IF i = listed THEN "online" ELSE f.row[i]]
<1>1. e.seat[p] \in Seat /\ e.seat \in [Pid -> Seat]
  BY EngineFacts
<1>2. x.ws = s /\ x.id = id /\ ~x.detached /\ x.played = e.seat[p].played /\ x \in Seat
  BY <1>1, WordFacts DEF Seat
<1> HIDE DEF x
<1>3. /\ f.src = e.src /\ f.now = e.now /\ f.paused = e.paused /\ f.expected = e.expected
      /\ f.seat = [e.seat EXCEPT ![p] = x] /\ f \in Engine
  BY <1>1, <1>2 DEF Engine
<1>4. Seated(e, p, id, s) = Joined(f, p, id)
  BY DEF Seated, x
<1> HIDE DEF f, listed
<1>5. Joined(f, p, id) = [f EXCEPT !.live = live, !.row = row]
  BY <1>3 DEF Joined, listed, Engine
<1> HIDE DEF live, row
<1>6. /\ Joined(f, p, id).src = f.src /\ Joined(f, p, id).now = f.now
      /\ Joined(f, p, id).paused = f.paused /\ Joined(f, p, id).expected = f.expected
      /\ Joined(f, p, id).seat = f.seat
  BY <1>3, <1>5 DEF Engine
<1> QED
  BY <1>1, <1>2, <1>3, <1>4, <1>6

\* A hello finds its own seat, or while nothing is paused a free one.
LEMMA HelloSeatFacts ==
    ASSUME NEW e, NEW s, NEW id, NEW admitted, NEW p \in HelloSeat(e, s, id, admitted)
    PROVE  /\ p \in Pid
           /\ \/ e.seat[p].id = id
              \/ e.seat[p].id = NoOne /\ ~e.paused /\ SeatOf(e, id) = {}
           /\ HolderOf(e, s) # {} => p \in HolderOf(e, s)
<1>0. HolderOf(e, s) # {} => p \in HolderOf(e, s)
  BY DEF HelloSeat
<1>1. CASE p \in SeatOf(e, id)
  BY <1>0, <1>1 DEF SeatOf
<1>2. CASE p \notin SeatOf(e, id)
  <2>1. /\ SeatOf(e, id) = {} /\ ~e.paused
        /\ FreePids(e) # {} /\ p = Lowest(FreePids(e))
    BY <1>2 DEF HelloSeat
  <2>2. FreePids(e) \in SUBSET Pid
    BY DEF FreePids
  <2>3. p \in FreePids(e)
    BY <2>1, <2>2, LowestFacts
  <2> QED
    BY <1>0, <2>1, <2>3 DEF FreePids
<1> QED
  BY <1>0, <1>1, <1>2
=============================================================================
