--------------------------- MODULE PresenceProofs ---------------------------
(***************************************************************************)
(* Who is present, for any number of phones, sockets and seats and any     *)
(* lags: seats, sockets and the ledger's rows agree, whatever comes in     *)
(* whatever order, and also when the disconnects of a transaction are      *)
(* replayed at its end.                                                    *)
(***************************************************************************)
EXTENDS Presence, SeatsProofs, FiniteSetTheorems

-----------------------------------------------------------------------------
(* A state of the engine in which identities, seats and sockets are one to *)
(* one, and the rows show the seats that are online, but for those of the  *)
(* sockets of Q, which have left already.                                  *)

Matched(e, Q) ==
    /\ Fits(e, Socket) /\ ~e.paused /\ e.now = e.src
    /\ \A p, q \in Pid : e.seat[p].id = e.seat[q].id /\ e.seat[p].id # NoOne => p = q
    /\ \A p, q \in Pid : e.seat[p].ws = e.seat[q].ws /\ e.seat[p].ws # NoSocket => p = q
    /\ \A p \in Pid : e.seat[p].detached => e.seat[p].ws = NoSocket
    /\ \A p \in Pid : e.live[p] = e.seat[p].id
    /\ \A id \in Identity : e.row[id] = "online" <=>
           \E p \in Pid : e.seat[p].id = id /\ e.seat[p].ws # NoSocket /\ e.seat[p].ws \notin Q

\* The seats of the sockets of S are left, and those of the others untouched.
Leaves(e, f, S) ==
    \A p \in Pid : IF e.seat[p].ws = NoSocket \/ e.seat[p].ws \in S
                   THEN f.seat[p].ws = NoSocket ELSE f.seat[p] = e.seat[p]

LEMMA MatchedSync ==
    ASSUME NEW e, NEW Q, Matched(e, Q), NEW raw \in Time
    PROVE  /\ Matched(Sync(e, raw), Q)
           /\ Sync(e, raw).seat = e.seat /\ Sync(e, raw).now = raw
<1> DEFINE f == Sync(e, raw)
<1>1. e \in Engine /\ Fits(e, Socket) /\ ~e.paused /\ e.now = e.src
  BY DEF Matched, Fits
<1>2. /\ f.src = raw /\ f.paused = e.paused
      /\ f.seat = e.seat /\ f.live = e.live /\ f.row = e.row
  BY <1>1, SyncIs
<1>3. f.now = raw
  <2>1. f.now = (e.src + Since(raw, e.src)) % Word
    BY <1>1 DEF Sync, Engine
  <2>2. e.src \in Time
    BY <1>1, EngineFacts
  <2>3. Since(raw, e.src) = IF raw >= e.src THEN raw - e.src ELSE raw - e.src + Word
    BY <2>2, SinceFacts
  <2>4. e.src + Since(raw, e.src) \in {raw, raw + Word} /\ raw \in 0 .. Word - 1
    BY <2>2, <2>3, WordFacts
  <2>5. raw % Word = raw /\ (raw + Word) % Word = raw
    BY <2>4, WordFacts
  <2> QED
    BY <2>1, <2>4, <2>5
<1>4. Fits(f, Socket)
  BY <1>1, Syncing
<1> HIDE DEF f
<1>5. Matched(f, Q)
  BY <1>1, <1>2, <1>3, <1>4 DEF Matched
<1> QED
  BY <1>2, <1>3, <1>5 DEF f

\* Seats without a socket are finalized.
LEMMA MatchedRelease ==
    ASSUME NEW e, NEW Q, Matched(e, Q), NEW P \in SUBSET Pid, \A p \in P : e.seat[p].ws = NoSocket
    PROVE  /\ Matched(Released(e, P), Q)
           /\ Released(e, P).now = e.now
           /\ \A p \in Pid : Released(e, P).seat[p] = IF p \in P THEN NoSeat ELSE e.seat[p]
<1> DEFINE f == Released(e, P)
<1>1. e \in Engine /\ Fits(e, Socket)
  BY DEF Matched, Fits
<1>2. /\ f.src = e.src /\ f.now = e.now /\ f.paused = e.paused
      /\ \A p \in Pid : f.seat[p] = IF p \in P THEN NoSeat ELSE e.seat[p]
      /\ \A p \in Pid : f.live[p] = IF p \in P THEN NoOne ELSE e.live[p]
      /\ \A id \in Identity : f.row[id] = IF \E p \in P : e.live[p] = id THEN "offline" ELSE e.row[id]
  <2>1. /\ f.src = e.src /\ f.now = e.now /\ f.paused = e.paused
        /\ f.seat = [p \in Pid |-> IF p \in P THEN NoSeat ELSE e.seat[p]]
        /\ f.live = [p \in Pid |-> IF p \in P THEN NoOne ELSE e.live[p]]
        /\ f.row  = [id \in Identity |->
                        IF \E p \in P : e.live[p] = id THEN "offline" ELSE e.row[id]]
    BY <1>1, ReleasedIs
  <2> HIDE DEF f
  <2> QED
    BY <2>1
<1>3. Fits(f, Socket)
  BY <1>1, Releasing
<1> HIDE DEF f
<1>4. NoSeat.id = NoOne /\ NoSeat.ws = NoSocket /\ NoSeat.detached = FALSE
  BY DEF NoSeat
<1>5. /\ \A p, q \in Pid : f.seat[p].id = f.seat[q].id /\ f.seat[p].id # NoOne => p = q
      /\ \A p, q \in Pid : f.seat[p].ws = f.seat[q].ws /\ f.seat[p].ws # NoSocket => p = q
      /\ \A p \in Pid : f.seat[p].detached => f.seat[p].ws = NoSocket
      /\ \A p \in Pid : f.live[p] = f.seat[p].id
  BY <1>2, <1>4 DEF Matched
<1>6. ASSUME NEW id \in Identity
      PROVE  f.row[id] = "online" <=>
             \E p \in Pid : f.seat[p].id = id /\ f.seat[p].ws # NoSocket /\ f.seat[p].ws \notin Q
  <2>1. id # NoOne
    BY SeatAssumption
  <2>2. ASSUME NEW p \in P, e.live[p] = id
        PROVE  \A q \in Pid : f.seat[q].id = id => f.seat[q].ws = NoSocket
    <3>1. e.seat[p].id = id /\ e.seat[p].ws = NoSocket
      BY <2>2 DEF Matched
    <3>2. \A q \in Pid : e.seat[q].id = id => q = p
      BY <2>1, <3>1 DEF Matched
    <3> QED
      BY <1>2, <1>4, <2>1, <2>2, <3>1, <3>2
  <2>3. CASE \E p \in P : e.live[p] = id
    BY <1>2, <2>2, <2>3
  <2>4. CASE ~ \E p \in P : e.live[p] = id
    <3>1. f.row[id] = e.row[id]
      BY <1>2, <2>4
    <3>2. \A p \in Pid : f.seat[p].id = id => f.seat[p] = e.seat[p]
      BY <1>2, <1>4, <2>1
    <3>3. \A p \in Pid : e.seat[p].id = id => f.seat[p] = e.seat[p]
      BY <1>2, <2>4 DEF Matched
    <3> QED
      BY <3>1, <3>2, <3>3 DEF Matched
  <2> QED
    BY <2>3, <2>4
<1>7. Matched(f, Q)
  BY <1>2, <1>3, <1>5, <1>6 DEF Matched
<1> QED
  BY <1>2, <1>7 DEF f

\* Every entry of the engine finalizes who was away for the grace, and nobody else.
LEMMA MatchedEnter ==
    ASSUME NEW e, NEW Q, Matched(e, Q), NEW raw \in Time
    PROVE  LET f == Entered(e, raw) IN
           /\ Matched(f, Q) /\ f.now = raw
           /\ Leaves(e, f, {})
           /\ \A p \in Pid : e.seat[p].detached /\ Since(raw, e.seat[p].at) >= Grace
                             => f.seat[p] = NoSeat
<1> DEFINE f == Sync(e, raw)
           X == Expiring(f)
           g == Released(f, X)
<1>1. Matched(f, Q) /\ f.seat = e.seat /\ f.now = raw
  BY MatchedSync
<1> HIDE DEF f
<1>2. X \in SUBSET Pid
      /\ \A p \in Pid : p \in X <=> e.seat[p].detached /\ Since(raw, e.seat[p].at) >= Grace
  BY <1>1 DEF Expiring
<1>3. \A p \in X : f.seat[p].ws = NoSocket
  BY <1>1, <1>2 DEF Matched
<1> HIDE DEF X
<1>4. /\ Matched(g, Q) /\ g.now = f.now
      /\ \A p \in Pid : g.seat[p] = IF p \in X THEN NoSeat ELSE f.seat[p]
  BY <1>1, <1>2, <1>3, MatchedRelease
<1> HIDE DEF g
<1>5. Leaves(e, g, {})
  <2>1. NoSeat.ws = NoSocket
    BY DEF NoSeat
  <2> QED
    BY <1>1, <1>3, <1>4, <2>1 DEF Leaves
<1>6. Entered(e, raw) = g
  BY DEF Entered, f, X, g
<1> QED
  BY <1>1, <1>2, <1>4, <1>5, <1>6

\* The holder of a socket is shown offline before its seat is left.
LEMMA MatchedHide ==
    ASSUME NEW e, NEW Q, Matched(e, Q), NEW s \in Socket
    PROVE  /\ Matched(ShownOffline(e, HolderOf(e, s)), Q \cup {s})
           /\ ShownOffline(e, HolderOf(e, s)).seat = e.seat
<1> DEFINE P == HolderOf(e, s)
           f == ShownOffline(e, P)
<1>1. e \in Engine /\ Fits(e, Socket)
  BY DEF Matched, Fits
<1>2. Fits(f, Socket)
  BY <1>1, Hiding
<1>3. P \subseteq Pid /\ \A p \in Pid : p \in P <=> e.seat[p].ws = s
  <2>1. s # NoSocket
    BY NoSeatFacts
  <2> QED
    BY <1>1, <2>1 DEF HolderOf, Fits
<1> HIDE DEF P
<1>4. /\ f.src = e.src /\ f.now = e.now /\ f.paused = e.paused
      /\ f.seat = e.seat /\ f.live = e.live
      /\ \A id \in Identity :
            f.row[id] = IF \E p \in P : e.live[p] = id THEN "offline" ELSE e.row[id]
  BY <1>1, HiddenIs
<1> HIDE DEF f
<1>5. ASSUME NEW id \in Identity
      PROVE  f.row[id] = "online" <=>
             \E p \in Pid : f.seat[p].id = id /\ f.seat[p].ws # NoSocket
                            /\ f.seat[p].ws \notin Q \cup {s}
  <2>1. id # NoOne
    BY SeatAssumption
  <2>2. CASE \E p \in P : e.live[p] = id
    <3>1. PICK p \in P : e.seat[p].id = id
      BY <1>3, <2>2 DEF Matched
    <3>2. \A q \in Pid : e.seat[q].id = id => q = p
      BY <1>3, <2>1, <3>1 DEF Matched
    <3> QED
      BY <1>3, <1>4, <2>2, <3>1, <3>2
  <2>3. CASE ~ \E p \in P : e.live[p] = id
    <3>1. f.row[id] = e.row[id]
      BY <1>4, <2>3
    <3>2. \A p \in Pid : e.seat[p].id = id => e.seat[p].ws # s
      BY <1>3, <2>3 DEF Matched
    <3> QED
      BY <1>4, <3>1, <3>2 DEF Matched
  <2> QED
    BY <2>2, <2>3
<1>6. Matched(f, Q \cup {s})
  BY <1>2, <1>4, <1>5 DEF Matched
<1> QED
  BY <1>4, <1>6 DEF f, P

\* A socket that is shown offline leaves its seat: its row is right as it is.
LEMMA MatchedDetach ==
    ASSUME NEW e, NEW Q, NEW R, NEW s \in Socket,
           Matched(e, Q), s \in Q, Q \ {s} \subseteq R, R \subseteq Q
    PROVE  LET f == Detached(e, HolderOf(e, s)) IN Matched(f, R) /\ Leaves(e, f, {s})
<1> DEFINE P == HolderOf(e, s)
           f == Detached(e, P)
<1>1. e \in Engine /\ Fits(e, Socket)
  BY DEF Matched, Fits
<1>2. Fits(f, Socket)
  BY <1>1, Detaching
<1>3. s # NoSocket /\ \A p \in Pid : p \in P <=> e.seat[p].ws = s
  <2>1. s # NoSocket
    BY NoSeatFacts
  <2> QED
    BY <1>1, <2>1 DEF HolderOf, Fits
<1> HIDE DEF P
<1>4. /\ f.src = e.src /\ f.now = e.now /\ f.paused = e.paused /\ f.live = e.live /\ f.row = e.row
      /\ \A p \in Pid :
            /\ f.seat[p].id = e.seat[p].id
            /\ p \in P => f.seat[p].ws = NoSocket /\ f.seat[p].detached
            /\ p \notin P => f.seat[p] = e.seat[p]
  BY <1>1, DetachedIs
<1> HIDE DEF f
<1>5. \A p \in Pid : f.seat[p].ws = IF e.seat[p].ws = s THEN NoSocket ELSE e.seat[p].ws
  BY <1>3, <1>4
<1>6. \A p \in Pid : f.seat[p].ws # NoSocket /\ f.seat[p].ws \notin R
                     <=> e.seat[p].ws # NoSocket /\ e.seat[p].ws \notin Q
  BY <1>3, <1>5
<1>7. /\ \A p, q \in Pid : f.seat[p].id = f.seat[q].id /\ f.seat[p].id # NoOne => p = q
      /\ \A p, q \in Pid : f.seat[p].ws = f.seat[q].ws /\ f.seat[p].ws # NoSocket => p = q
      /\ \A p \in Pid : f.seat[p].detached => f.seat[p].ws = NoSocket
      /\ \A p \in Pid : f.live[p] = f.seat[p].id
  <2>1. \A p, q \in Pid : f.seat[p].ws = f.seat[q].ws /\ f.seat[p].ws # NoSocket => p = q
    BY <1>5 DEF Matched
  <2>2. \A p \in Pid : f.seat[p].detached => f.seat[p].ws = NoSocket
    BY <1>4, <1>5 DEF Matched
  <2> QED
    BY <1>4, <2>1, <2>2 DEF Matched
<1>8. \A id \in Identity : f.row[id] = "online" <=>
         \E p \in Pid : f.seat[p].id = id /\ f.seat[p].ws # NoSocket /\ f.seat[p].ws \notin R
  BY <1>4, <1>6 DEF Matched
<1>9. Matched(f, R)
  BY <1>2, <1>4, <1>7, <1>8 DEF Matched
<1>10. Leaves(e, f, {s})
  BY <1>3, <1>4, <1>5 DEF Leaves
<1> QED
  BY <1>9, <1>10 DEF f, P

\* Who holds a socket is the same after a call that takes no seat from it.
LEMMA SameHolder ==
    ASSUME NEW e, NEW f, NEW S, Leaves(e, f, S), NEW s \in Socket, s \notin S
    PROVE  HolderOf(f, s) = HolderOf(e, s)
<1>1. s # NoSocket
  BY NoSeatFacts
<1> QED
  BY <1>1 DEF Leaves, HolderOf

LEMMA LeavesThenLeaves ==
    ASSUME NEW e, NEW f, NEW g, NEW S, NEW T, Leaves(e, f, S), Leaves(f, g, T)
    PROVE  Leaves(e, g, S \cup T)
BY DEF Leaves

\* A queued disconnect is replayed.
LEMMA MatchedReplayed ==
    ASSUME NEW e, NEW Q, NEW R, NEW s \in Socket, NEW raw \in Time,
           Matched(e, Q), s \in Q, Q \ {s} \subseteq R, R \subseteq Q
    PROVE  LET f == Disconnect(e, s, raw) IN Matched(f, R) /\ Leaves(e, f, {s})
<1> DEFINE f == Entered(e, raw)
           g == Detached(f, HolderOf(f, s))
<1>1. Matched(f, Q) /\ Leaves(e, f, {})
  BY MatchedEnter
<1> HIDE DEF f
<1>2. Matched(g, R) /\ Leaves(f, g, {s})
  BY <1>1, MatchedDetach
<1> HIDE DEF g
<1>3. Leaves(e, g, {} \cup {s})
  BY <1>1, <1>2, LeavesThenLeaves
<1>4. Disconnect(e, s, raw) = g
  BY DEF Disconnect, f, g
<1> QED
  BY <1>2, <1>3, <1>4

\* A socket goes while no transaction runs: its seat is left, and its row with it.
LEMMA MatchedGone ==
    ASSUME NEW e, Matched(e, {}), NEW s \in Socket, NEW raw \in Time
    PROVE  LET f == ShownOffline(Disconnect(e, s, raw), HolderOf(e, s)) IN
           Matched(f, {}) /\ Leaves(e, f, {s})
<1> DEFINE f == Entered(e, raw)
           P == HolderOf(f, s)
           g == ShownOffline(f, P)
           h == Detached(g, P)
<1>1. Matched(f, {}) /\ Leaves(e, f, {})
  BY MatchedEnter
<1> HIDE DEF f
<1>2. HolderOf(e, s) = P
  BY <1>1, SameHolder
<1>3. Matched(g, {s}) /\ g.seat = f.seat
  <2>1. Matched(g, {} \cup {s}) /\ g.seat = f.seat
    BY <1>1, MatchedHide
  <2> QED
    BY <2>1
<1>4. HolderOf(g, s) = P
  BY <1>3 DEF HolderOf
<1>5. ShownOffline(Detached(f, P), P) = h
  <2>1. f \in Engine
    BY <1>1 DEF Matched, Fits
  <2> HIDE DEF P
  <2> DEFINE seat == [p \in Pid |-> IF p \in P
                        THEN [f.seat[p] EXCEPT !.ws = NoSocket, !.detached = TRUE, !.at = f.now]
                        ELSE f.seat[p]]
             row == [id \in Identity |-> IF \E p \in P : f.live[p] = id THEN "offline" ELSE f.row[id]]
  <2>2. g = [f EXCEPT !.row = row] /\ g.seat = f.seat /\ g.now = f.now
    BY <2>1, HiddenIs DEF ShownOffline
  <2>3. Detached(f, P) = [f EXCEPT !.seat = seat]
    BY DEF Detached
  <2> DEFINE d == Detached(f, P)
  <2>4. d.live = f.live /\ d.row = f.row
    BY <2>1, DetachedIs
  <2>5. h = [g EXCEPT !.seat = seat]
    BY <2>2 DEF Detached
  <2>6. ShownOffline(d, P) = [d EXCEPT !.row = row]
    BY <2>4 DEF ShownOffline
  <2> HIDE DEF seat, row, g, h, d
  <2>7. d = [f EXCEPT !.seat = seat]
    BY <2>3 DEF d
  <2> QED
    BY <2>1, <2>2, <2>5, <2>6, <2>7 DEF Engine, d
<1> HIDE DEF P, g
<1>6. Matched(h, {}) /\ Leaves(g, h, {s})
  BY <1>3, <1>4, MatchedDetach
<1> HIDE DEF h
<1>7. Leaves(f, h, {s})
  BY <1>3, <1>6 DEF Leaves
<1>8. Leaves(e, h, {} \cup {s})
  BY <1>1, <1>7, LeavesThenLeaves
<1>9. Disconnect(e, s, raw) = Detached(f, P)
  BY DEF Disconnect, f, P
<1> QED
  BY <1>2, <1>5, <1>6, <1>8, <1>9

LEMMA MatchedPlay ==
    ASSUME NEW e, NEW Q, Matched(e, Q), NEW s
    PROVE  LET f == Play(e, s) IN
           /\ Matched(f, Q)
           /\ \A p \in Pid : f.seat[p].id = e.seat[p].id /\ f.seat[p].ws = e.seat[p].ws
<1> DEFINE f == Play(e, s)
<1>1. e \in Engine /\ Fits(e, Socket)
  BY DEF Matched, Fits
<1>2. /\ f.src = e.src /\ f.now = e.now /\ f.paused = e.paused /\ f.live = e.live /\ f.row = e.row
      /\ \A p \in Pid : /\ f.seat[p].id = e.seat[p].id /\ f.seat[p].ws = e.seat[p].ws
                        /\ f.seat[p].detached = e.seat[p].detached
  BY <1>1, PlayIs
<1>3. Fits(f, Socket)
  BY <1>1, Playing
<1> HIDE DEF f
<1>4. Matched(f, Q)
  BY <1>2, <1>3 DEF Matched
<1> QED
  BY <1>2, <1>4 DEF f

\* A seat is given to a socket that has none, or has this one.
LEMMA MatchedSeat ==
    ASSUME NEW e, Matched(e, {}), NEW p \in Pid, NEW id \in Identity, NEW s \in Socket,
           e.seat[p].id = id \/ (e.seat[p].id = NoOne /\ SeatOf(e, id) = {}),
           HolderOf(e, s) # {} => p \in HolderOf(e, s)
    PROVE  LET g == Seated(e, p, id, s) IN
           /\ Matched(g, {})
           /\ g.seat[p].id = id /\ g.seat[p].ws = s /\ g.seat[p].played = e.seat[p].played
           /\ \A q \in Pid : q # p => g.seat[q] = e.seat[q]
<1> DEFINE g == Seated(e, p, id, s)
<1>1. e \in Engine /\ Fits(e, Socket)
  BY DEF Matched, Fits
<1>2. Fits(g, Socket)
  <2>1. Fits(g, Socket \cup {s})
    BY <1>1, Seating
  <2> QED
    BY <2>1 DEF Fits
<1>3. id # NoOne /\ s # NoSocket
  BY SeatAssumption, NoSeatFacts
<1>4. \A q \in Pid : e.seat[q].id = id => q = p
  BY <1>3 DEF Matched, SeatOf
<1>5. \A q \in Pid : e.seat[q].ws = s => q = p
  <2>1. ASSUME NEW q \in Pid, e.seat[q].ws = s PROVE q \in HolderOf(e, s)
    BY <1>1, <1>3, <2>1 DEF HolderOf, Fits
  <2> QED
    BY <1>3, <2>1 DEF HolderOf, Matched
<1>6. e.live[p] # NoOne => e.live[p] = id
  BY DEF Matched
<1>7. ASSUME e.live[p] = NoOne PROVE e.row[id] # "online"
  BY <1>3, <1>4, <1>7 DEF Matched
<1>8. /\ g.src = e.src /\ g.now = e.now /\ g.paused = e.paused
      /\ g.seat[p].id = id /\ g.seat[p].ws = s /\ ~g.seat[p].detached
      /\ g.seat[p].played = e.seat[p].played
      /\ g.live[p] = id /\ g.row[id] = "online"
      /\ \A q \in Pid : q # p => g.seat[q] = e.seat[q] /\ g.live[q] = e.live[q]
      /\ \A i \in Identity : i # id => g.row[i] = e.row[i]
  BY <1>1, <1>6, <1>7, SeatedIs
<1> HIDE DEF g
<1>9. /\ \A q, r \in Pid : g.seat[q].id = g.seat[r].id /\ g.seat[q].id # NoOne => q = r
      /\ \A q, r \in Pid : g.seat[q].ws = g.seat[r].ws /\ g.seat[q].ws # NoSocket => q = r
  BY <1>4, <1>5, <1>8 DEF Matched
<1>10. /\ \A q \in Pid : g.seat[q].detached => g.seat[q].ws = NoSocket
       /\ \A q \in Pid : g.live[q] = g.seat[q].id
  BY <1>8 DEF Matched
<1>11. ASSUME NEW i \in Identity
       PROVE  g.row[i] = "online" <=>
              \E q \in Pid : g.seat[q].id = i /\ g.seat[q].ws # NoSocket /\ g.seat[q].ws \notin {}
  <2>1. CASE i = id
    BY <1>3, <1>8, <2>1
  <2>2. CASE i # id
    <3>1. \A q \in Pid : g.seat[q].id = i <=> e.seat[q].id = i /\ q # p
      BY <1>3, <1>8, <2>2, SeatAssumption
    <3>2. \A q \in Pid : e.seat[q].id = i => q # p
      BY <2>2, SeatAssumption
    <3> QED
      BY <1>8, <2>2, <3>1, <3>2 DEF Matched
  <2> QED
    BY <2>1, <2>2
<1>12. Matched(g, {})
  BY <1>2, <1>8, <1>9, <1>10, <1>11 DEF Matched
<1> QED
  BY <1>8, <1>12 DEF g

\* A hello changes at most one seat, of its phone, whose former socket is closed.
LEMMA MatchedHello ==
    ASSUME NEW e, Matched(e, {}), NEW id \in Identity, NEW s \in Socket, NEW admitted
    PROVE  LET f == Hello(e, s, id, admitted) IN
           /\ Matched(f, {})
           /\ \/ f = e
              \/ \E p \in Pid : /\ f.seat[p].id = id /\ f.seat[p].ws = s
                                /\ f.seat[p].played = e.seat[p].played
                                /\ \A q \in Pid : q # p => f.seat[q] = e.seat[q]
                                /\ e.seat[p].ws \in {s, NoSocket} \cup TakenOver(e, s, id, admitted)
<1> DEFINE P == HelloSeat(e, s, id, admitted)
           f == Hello(e, s, id, admitted)
<1>1. ASSUME NEW p \in P
      PROVE  /\ p \in Pid
             /\ e.seat[p].id = id \/ (e.seat[p].id = NoOne /\ SeatOf(e, id) = {})
             /\ HolderOf(e, s) # {} => p \in HolderOf(e, s)
  BY HelloSeatFacts
<1>2. CASE P = {}
  <2>1. f = e
    BY <1>2 DEF Hello
  <2> QED
    BY <2>1
<1>3. CASE P # {}
  <2>1. P \in SUBSET Pid
    BY <1>1
  <2> DEFINE p == Lowest(P)
  <2>2. p \in P
    BY <1>3, <2>1, LowestFacts
  <2>3. f = Seated(e, p, id, s)
    BY <1>3 DEF Hello
  <2>4. e.seat[p].ws \in {s, NoSocket} \cup TakenOver(e, s, id, admitted)
    BY <2>2 DEF TakenOver
  <2> HIDE DEF p, f, P
  <2>5. /\ Matched(f, {})
        /\ f.seat[p].id = id /\ f.seat[p].ws = s /\ f.seat[p].played = e.seat[p].played
        /\ \A q \in Pid : q # p => f.seat[q] = e.seat[q]
    BY <1>1, <2>2, <2>3, MatchedSeat
  <2> QED
    BY <1>1, <2>2, <2>4, <2>5 DEF f
<1> QED
  BY <1>2, <1>3

\* Another session: nobody has a seat.
LEMMA MatchedReset ==
    ASSUME NEW raw \in Time, NEW rows \in [Identity -> {"none", "offline"}]
    PROVE  LET e == Reset(raw, rows) IN Matched(e, {}) /\ \A p \in Pid : e.seat[p].ws = NoSocket
<1> DEFINE e == Reset(raw, rows)
<1>1. Fits(e, Socket) /\ e.paused = FALSE
  <2>1. rows \in [Identity -> Rows]
    BY DEF Rows
  <2> QED
    BY <2>1, Resetting
<1>2. /\ e.src = raw /\ e.now = raw /\ e.row = rows
      /\ \A p \in Pid : e.seat[p] = NoSeat /\ e.live[p] = NoOne
  BY DEF Reset
<1>3. NoSeat.id = NoOne /\ NoSeat.ws = NoSocket /\ NoSeat.detached = FALSE
  BY DEF NoSeat
<1> HIDE DEF e
<1>4. Matched(e, {})
  BY <1>1, <1>2, <1>3 DEF Matched
<1> QED
  BY <1>2, <1>3, <1>4 DEF e

-----------------------------------------------------------------------------
(* The replay of the queued disconnects. *)

\* The sockets of a part of the queue, and of all of it.
Part(a, b) == {queue[i].ws : i \in a .. b}
Waiting    == Part(1, Len(queue))

Entries == Len(queue) \in Nat /\ \A i \in 1 .. Len(queue) : queue[i] \in [ws : Socket, raw : Time]

\* Natural numbers are climbed one by one.
LEMMA Climbing ==
    ASSUME NEW N \in Nat, NEW S, 0 \in S, \A n \in 1 .. N : n - 1 \in S => n \in S
    PROVE  0 .. N \subseteq S
<1> DEFINE B == (0 .. N) \ S
<1>1. SUFFICES ASSUME B # {} PROVE FALSE
  OBVIOUS
<1>2. B \subseteq Nat
  OBVIOUS
<1>3. PICK m \in B : \A n \in B : <<n, m>> \notin OpToRel(<, Nat)
  BY <1>1, <1>2, NatLessThanWellFounded, WFMin
<1>4. m \in 0 .. N /\ m \notin S /\ \A n \in B : ~(n < m)
  BY <1>2, <1>3 DEF OpToRel
<1>5. m \in 1 .. N
  BY <1>4
<1>6. m - 1 \in 0 .. N /\ m - 1 < m
  BY <1>5
<1>7. m - 1 \in S
  BY <1>4, <1>6
<1> QED
  BY <1>4, <1>5, <1>7

\* One more of the states on the way.
Onwards(e, m, f) ==
    [n \in 0 .. m |-> IF n = 0 THEN e ELSE Disconnect(f[n - 1], queue[n].ws, queue[n].raw)]

LEMMA OnwardsExists ==
    ASSUME NEW e, Len(queue) \in Nat
    PROVE  \E f : f = Onwards(e, Len(queue), f)
<1> DEFINE S == {m \in 0 .. Len(queue) : \E f : f = Onwards(e, m, f)}
<1>1. 0 \in S
  <2> DEFINE f == [n \in 0 .. 0 |-> e]
  <2>1. \A n \in 0 .. 0 : n = 0
    OBVIOUS
  <2>2. f = Onwards(e, 0, f)
    BY <2>1 DEF Onwards
  <2> QED
    BY <2>2
<1>2. ASSUME NEW m \in 1 .. Len(queue), m - 1 \in S
      PROVE  m \in S
  <2>1. PICK g : g = Onwards(e, m - 1, g)
    BY <1>2
  <2> DEFINE step(x, n) == Disconnect(x, queue[n].ws, queue[n].raw)
             h == [n \in 0 .. m |-> IF n = m THEN step(g[m - 1], m) ELSE g[n]]
  <2>2. ASSUME NEW n \in 0 .. m
        PROVE  h[n] = IF n = 0 THEN e ELSE step(h[n - 1], n)
    <3>1. CASE n = m
      <4>1. n # 0 /\ n - 1 = m - 1 /\ m - 1 \in 0 .. m /\ m - 1 # m
        BY <3>1
      <4>2. h[n - 1] = g[m - 1]
        BY <4>1
      <4> QED
        BY <3>1, <4>1, <4>2
    <3>2. CASE n # m
      <4>1. n \in 0 .. m - 1
        BY <3>2
      <4>2. g[n] = IF n = 0 THEN e ELSE step(g[n - 1], n)
        BY <2>1, <4>1 DEF Onwards
      <4>3. n # 0 => n - 1 \in 0 .. m /\ n - 1 # m
        BY <4>1
      <4>4. n # 0 => h[n - 1] = g[n - 1]
        BY <4>3
      <4> QED
        BY <3>2, <4>2, <4>4
    <3> QED
      BY <3>1, <3>2
  <2>3. h = [n \in 0 .. m |-> IF n = 0 THEN e ELSE step(h[n - 1], n)]
    BY <2>2
  <2>4. h = Onwards(e, m, h)
    BY <2>3 DEF Onwards
  <2> HIDE DEF h
  <2>5. m \in 0 .. Len(queue)
    BY <1>2
  <2> QED
    BY <2>4, <2>5
<1> HIDE DEF S
<1>3. 0 .. Len(queue) \subseteq S
  BY <1>1, <1>2, Climbing
<1>4. Len(queue) \in S
  BY <1>3
<1> QED
  BY <1>4 DEF S

LEMMA ReplayIs ==
    ASSUME NEW e, Len(queue) \in Nat
    PROVE  \E f : f = Onwards(e, Len(queue), f) /\ Replay(e) = f[Len(queue)]
<1> DEFINE f == CHOOSE f : f = Onwards(e, Len(queue), f)
<1>1. f = Onwards(e, Len(queue), f)
  BY OnwardsExists
<1>2. Replay(e) = f[Len(queue)]
  BY DEF Replay, Onwards
<1> HIDE DEF f
<1> QED
  BY <1>1, <1>2

\* At its end nobody is in between: the seats of the queued sockets are left.
LEMMA Replaying ==
    ASSUME NEW e, Entries, Matched(e, Waiting)
    PROVE  Matched(Replay(e), {}) /\ Leaves(e, Replay(e), Waiting)
<1> DEFINE N == Len(queue)
<1>1. N \in Nat /\ \A n \in 1 .. N : queue[n].ws \in Socket /\ queue[n].raw \in Time
  BY DEF Entries
<1>2. PICK f : f = Onwards(e, N, f) /\ Replay(e) = f[N]
  BY <1>1, ReplayIs
<1>3. f[0] = e /\ \A n \in 1 .. N : f[n] = Disconnect(f[n - 1], queue[n].ws, queue[n].raw)
  <2>1. \A n \in 0 .. N : f[n] = IF n = 0 THEN e ELSE Disconnect(f[n - 1], queue[n].ws, queue[n].raw)
    BY <1>2 DEF Onwards
  <2>2. 0 \in 0 .. N /\ \A n \in 1 .. N : n \in 0 .. N /\ n # 0
    BY <1>1
  <2> QED
    BY <2>1, <2>2
<1> DEFINE S == {n \in 0 .. N : Matched(f[n], Part(n + 1, N)) /\ Leaves(e, f[n], Part(1, n))}
<1>4. 0 \in S
  <2>1. Part(1, 0) = {} /\ Part(0 + 1, N) = Waiting
    BY <1>1 DEF Part, Waiting
  <2>2. Leaves(e, e, {})
    BY DEF Leaves
  <2>3. Matched(f[0], Part(0 + 1, N))
    BY <1>3, <2>1
  <2>4. Leaves(e, f[0], Part(1, 0)) /\ 0 \in 0 .. N
    BY <1>1, <1>3, <2>1, <2>2
  <2> HIDE DEF N
  <2> QED
    BY <2>3, <2>4
<1>5. ASSUME NEW n \in 1 .. N, n - 1 \in S
      PROVE  n \in S
  <2> DEFINE s == queue[n].ws
  <2>1. Matched(f[n - 1], Part(n, N)) /\ Leaves(e, f[n - 1], Part(1, n - 1))
    BY <1>1, <1>5
  <2>2. s \in Part(n, N) /\ Part(n, N) \ {s} \subseteq Part(n + 1, N)
        /\ Part(n + 1, N) \subseteq Part(n, N)
    BY <1>1 DEF Part
  <2>3. Part(1, n - 1) \cup {s} = Part(1, n)
    BY <1>1 DEF Part
  <2>4. s \in Socket /\ queue[n].raw \in Time /\ f[n] = Disconnect(f[n - 1], s, queue[n].raw)
    BY <1>1, <1>3
  <2> HIDE DEF s
  <2>5. Matched(f[n], Part(n + 1, N)) /\ Leaves(f[n - 1], f[n], {s})
    BY <2>1, <2>2, <2>4, MatchedReplayed
  <2>6. Leaves(e, f[n], Part(1, n))
    BY <2>1, <2>3, <2>5, LeavesThenLeaves
  <2>7. n \in 0 .. N
    BY <1>1
  <2> QED
    BY <2>5, <2>6, <2>7
<1> HIDE DEF S, N
<1>6. 0 .. N \subseteq S
  BY <1>1, <1>4, <1>5, Climbing
<1>7. N \in S
  BY <1>1, <1>6
<1>8. Matched(f[N], Part(N + 1, N)) /\ Leaves(e, f[N], Part(1, N))
  BY <1>7 DEF S
<1>9. Part(N + 1, N) = {} /\ Part(1, N) = Waiting
  BY <1>1 DEF Part, Waiting, N
<1> QED
  BY <1>2, <1>8, <1>9

-----------------------------------------------------------------------------
(* The invariant. *)

\* The sockets that were let in and are not being closed.
LetIn(tab, links) == {s \in Socket : tab[s] = "authenticated" /\ links[s].state = "open"}

\* Who sits has a socket that is there, was let in, and is of its phone - but for the
\* sockets of Q; and who is let in sits.
Owns(e, Q, tab, links) ==
    /\ \A p \in Pid : e.seat[p].ws # NoSocket /\ e.seat[p].ws \notin Q
           => /\ links[e.seat[p].ws].state # "gone" /\ tab[e.seat[p].ws] = "authenticated"
              /\ links[e.seat[p].ws].id = e.seat[p].id
    /\ \A s \in LetIn(tab, links) : \E p \in Pid : e.seat[p].ws = s /\ e.seat[p].id = links[s].id

\* What is queued is of distinct sockets that are gone, each with its seat.
Departed(e, q, tab, links) ==
    /\ \A i \in 1 .. Len(q) : /\ links[q[i].ws] = Gone /\ tab[q[i].ws] = "none"
                              /\ \E p \in Pid : e.seat[p].ws = q[i].ws
    /\ \A i, j \in 1 .. Len(q) : q[i].ws = q[j].ws => i = j

\* While another session is restored nobody is in who could still play the old one.
Shut == loop.at \in {"closed", "restored"} => LetIn(table, link) = {}

\* A callback is about a client the library still has.
Called == callback.kind # "none" => callback.ws \in Socket /\ link[callback.ws].state # "gone"

PresenceInv ==
    /\ TypeOK
    /\ Matched(engine, Waiting)
    /\ Owns(engine, Waiting, table, link)
    /\ Departed(engine, queue, table, link)
    /\ ~Transaction => queue = <<>>
    /\ Shut /\ Called

LEMMA LinkFacts ==
    /\ Gone \in Link /\ Gone.state = "gone"
    /\ \A x \in Link : /\ x.state \in {"gone", "open", "closing"}
                       /\ x.state = "gone" => x = Gone
                       /\ x.state # "gone" => x.id \in Identity
BY DEF Gone, Link

LEMMA ClosedFacts ==
    ASSUME NEW links \in [Socket -> Link], NEW S
    PROVE  /\ Closed(links, S) \in [Socket -> Link]
           /\ \A s \in Socket :
                 /\ Closed(links, S)[s].id = links[s].id
                 /\ Closed(links, S)[s].state = IF s \in S /\ links[s].state = "open" THEN "closing"
                                                ELSE links[s].state
                 /\ links[s] = Gone => Closed(links, S)[s] = Gone
<1>1. ASSUME NEW x \in Link, x.state = "open"
      PROVE  LET y == [x EXCEPT !.state = "closing"] IN
             y \in Link /\ y.id = x.id /\ y.state = "closing"
  BY <1>1, LinkFacts DEF Link, Gone
<1>2. ASSUME NEW s \in Socket
      PROVE  /\ Closed(links, S)[s] \in Link
             /\ Closed(links, S)[s].id = links[s].id
             /\ Closed(links, S)[s].state = IF s \in S /\ links[s].state = "open" THEN "closing"
                                            ELSE links[s].state
             /\ links[s] = Gone => Closed(links, S)[s] = Gone
  <2>1. Closed(links, S)[s] = IF s \in S /\ links[s].state = "open"
                              THEN [links[s] EXCEPT !.state = "closing"] ELSE links[s]
    BY DEF Closed
  <2>2. links[s] \in Link
    OBVIOUS
  <2> QED
    BY <1>1, <2>1, <2>2, LinkFacts
<1>3. Closed(links, S) = [s \in Socket |-> Closed(links, S)[s]]
  BY DEF Closed
<1>4. Closed(links, S) \in [Socket -> Link]
  BY <1>2, <1>3
<1> QED
  BY <1>2, <1>4

\* The seats of S are left, and the others have the phones and sockets they had.
Carries(e, f, S) ==
    \A p \in Pid : IF e.seat[p].ws = NoSocket \/ e.seat[p].ws \in S
                   THEN f.seat[p].ws = NoSocket
                   ELSE f.seat[p].ws = e.seat[p].ws /\ f.seat[p].id = e.seat[p].id

LEMMA LeavesCarries == ASSUME NEW e, NEW f, NEW S, Leaves(e, f, S) PROVE Carries(e, f, S)
BY DEF Leaves, Carries

LEMMA OwnsFewer ==
    ASSUME NEW e, NEW f, NEW Q, NEW R, NEW S, NEW tab, NEW links, Owns(e, Q, tab, links),
           Carries(e, f, S), S \cap LetIn(tab, links) = {}, Q \subseteq R \cup S
    PROVE  Owns(f, R, tab, links)
<1>1. NoSocket \notin Socket
  BY NoSeatFacts
<1>2. ASSUME NEW p \in Pid, f.seat[p].ws # NoSocket, f.seat[p].ws \notin R
      PROVE  /\ links[f.seat[p].ws].state # "gone" /\ tab[f.seat[p].ws] = "authenticated"
             /\ links[f.seat[p].ws].id = f.seat[p].id
  BY <1>2 DEF Owns, Carries
<1>3. ASSUME NEW s \in LetIn(tab, links)
      PROVE  \E p \in Pid : f.seat[p].ws = s /\ f.seat[p].id = links[s].id
  <2>1. PICK p \in Pid : e.seat[p].ws = s /\ e.seat[p].id = links[s].id
    BY <1>3 DEF Owns
  <2>2. s \in Socket /\ s \notin S
    BY <1>3 DEF LetIn
  <2> QED
    BY <1>1, <2>1, <2>2 DEF Carries
<1> QED
  BY <1>2, <1>3 DEF Owns

LEMMA OwnsClosed ==
    ASSUME NEW e, Fits(e, Socket), NEW Q, NEW tab, NEW links \in [Socket -> Link], NEW S,
           Owns(e, Q, tab, links)
    PROVE  Owns(e, Q, tab, Closed(links, S)) /\ LetIn(tab, Closed(links, S)) \subseteq LetIn(tab, links)
<1> DEFINE new == Closed(links, S)
<1>1. /\ \A s \in Socket : new[s].id = links[s].id /\ (new[s].state = "open" => links[s].state = "open")
      /\ \A s \in Socket : links[s].state # "gone" => new[s].state # "gone"
  BY ClosedFacts
<1> HIDE DEF new
<1>2. LetIn(tab, new) \subseteq LetIn(tab, links)
  BY <1>1 DEF LetIn
<1>3. \A p \in Pid : e.seat[p].ws # NoSocket => e.seat[p].ws \in Socket
  BY DEF Fits
<1>4. \A s \in LetIn(tab, new) : new[s].id = links[s].id
  BY <1>1 DEF LetIn
<1>5. Owns(e, Q, tab, new)
  BY <1>1, <1>2, <1>3, <1>4 DEF Owns
<1> QED
  BY <1>2, <1>5 DEF new

\* A socket goes: its seat is the only one that may lack one.
LEMMA OwnsGone ==
    ASSUME NEW e, Fits(e, Socket), NEW Q, NEW s \in Socket, NEW tab, NEW links, NEW t, NEW l,
           Owns(e, Q, tab, links), t[s] = "none",
           \A r \in Socket : r # s => t[r] = tab[r] /\ l[r] = links[r]
    PROVE  Owns(e, Q \cup {s}, t, l)
<1>1. LetIn(t, l) = LetIn(tab, links) \ {s}
  BY DEF LetIn
<1>2. \A p \in Pid : e.seat[p].ws # NoSocket => e.seat[p].ws \in Socket
  BY DEF Fits
<1>3. \A r \in LetIn(t, l) : r \in LetIn(tab, links) /\ l[r] = links[r]
  BY <1>1 DEF LetIn
<1> QED
  BY <1>2, <1>3 DEF Owns

-----------------------------------------------------------------------------
(* The steps. *)

LEMMA SeqFacts ==
    ASSUME NEW S, NEW q \in Seq(S)
    PROVE  Len(q) \in Nat /\ \A i \in 1 .. Len(q) : q[i] \in S
OBVIOUS

LEMMA QueueFacts ==
    ASSUME queue \in Seq([ws : Socket, raw : Time])
    PROVE  /\ Entries
           /\ queue = <<>> => Len(queue) = 0 /\ Waiting = {}
           /\ Waiting \subseteq Socket
<1>1. Len(queue) \in Nat /\ \A i \in 1 .. Len(queue) : queue[i] \in [ws : Socket, raw : Time]
  BY SeqFacts
<1>2. queue = <<>> => Len(queue) = 0
  OBVIOUS
<1>3. Len(queue) = 0 => Waiting = {}
  BY DEF Waiting, Part
<1>4. \A i \in 1 .. Len(queue) : queue[i].ws \in Socket
  BY <1>1
<1> QED
  BY <1>1, <1>2, <1>3, <1>4 DEF Entries, Waiting, Part

LEMMA NoneDeparted == ASSUME NEW e, NEW tab, NEW links PROVE Departed(e, <<>>, tab, links)
BY DEF Departed

\* Who waits is gone, and so was not let in.
LEMMA WaitingFacts ==
    ASSUME NEW e, NEW tab, NEW links, Departed(e, queue, tab, links), TypeOK
    PROVE  /\ Waiting \cap LetIn(tab, links) = {}
           /\ \A s \in Waiting : links[s].state = "gone"
<1>1. \A s \in Waiting : links[s] = Gone
  BY DEF Departed, Waiting, Part
<1> QED
  BY <1>1, LinkFacts DEF LetIn

LEMMA Begins == ASSUME Init PROVE PresenceInv
<1>1. engine = Reset(0, [id \in Identity |-> "none"]) /\ queue = <<>> /\ clock = 0
      /\ table = [s \in Socket |-> "none"] /\ link = [s \in Socket |-> Gone]
      /\ callback = Idle /\ loop = [at |-> "top", now |-> 0]
  BY DEF Init
<1>2. 0 \in Time /\ [id \in Identity |-> "none"] \in [Identity -> {"none", "offline"}]
  BY WordFacts
<1>3. Matched(engine, {}) /\ \A p \in Pid : engine.seat[p].ws = NoSocket
  BY <1>1, <1>2, MatchedReset
<1>4. queue \in Seq([ws : Socket, raw : Time]) /\ Len(queue) = 0 /\ Waiting = {}
  <2>1. queue \in Seq([ws : Socket, raw : Time])
    BY <1>1
  <2> QED
    BY <1>1, <2>1, QueueFacts
<1>5. TypeOK
  <2>1. engine \in Engine
    BY <1>3 DEF Matched, Fits
  <2>2. callback \in Callback /\ loop \in [at : Stages, now : Time]
    BY <1>1, <1>2 DEF Idle, Callback, Stages
  <2>3. table \in [Socket -> {"none", "pending", "authenticated"}] /\ link \in [Socket -> Link]
    BY <1>1, LinkFacts
  <2>4. Len(queue) <= MaxPlayers
    BY <1>4, SeatAssumption
  <2> QED
    BY <1>1, <1>2, <1>4, <2>1, <2>2, <2>3, <2>4 DEF TypeOK
<1>6. LetIn(table, link) = {}
  BY <1>1 DEF LetIn
<1>7. Owns(engine, Waiting, table, link)
  BY <1>3, <1>6 DEF Owns
<1>8. Shut /\ Called
  BY <1>1, <1>6 DEF Shut, Called, Idle
<1>9. Departed(engine, queue, table, link)
  BY <1>1, NoneDeparted
<1> QED
  BY <1>1, <1>3, <1>4, <1>5, <1>7, <1>8, <1>9 DEF PresenceInv

LEMMA StageFacts ==
    ASSUME NEW from, NEW to \in Stages, loop \in [at : Stages, now : Time], LoopAt(from, to)
    PROVE  loop.at = from /\ loop'.at = to /\ loop'.now = loop.now /\ loop' \in [at : Stages, now : Time]
BY DEF LoopAt

\* A step that leaves seats, sockets and the queue alone.
LEMMA Unmoved ==
    ASSUME PresenceInv, UNCHANGED <<engine, table, link, queue>>,
           clock' \in Time, callback' \in Callback, loop' \in [at : Stages, now : Time],
           Transaction => Transaction', Shut', Called'
    PROVE  PresenceInv'
<1>1. Waiting' = Waiting
  BY DEF Waiting, Part
<1>2. TypeOK'
  BY DEF PresenceInv, TypeOK
<1>3. Matched(engine', Waiting') /\ Owns(engine', Waiting', table', link')
      /\ Departed(engine', queue', table', link')
  BY <1>1 DEF PresenceInv
<1> QED
  BY <1>2, <1>3 DEF PresenceInv

LEMMA Elapsing == ASSUME PresenceInv, Elapse PROVE PresenceInv'
<1>1. clock' = (clock + 1) % Word /\ UNCHANGED <<engine, table, link, callback, loop, queue>>
  BY DEF Elapse
<1>2. clock' \in Time
  <2>1. clock + 1 \in Int
    BY WordFacts DEF PresenceInv, TypeOK
  <2> QED
    BY <1>1, <2>1, ModFacts, WordFacts
<1>3. Shut' /\ Called'
  BY <1>1 DEF PresenceInv, Shut, Called
<1> QED
  BY <1>1, <1>2, <1>3, Unmoved DEF PresenceInv, TypeOK, Transaction

LEMMA Arriving ==
    ASSUME PresenceInv, NEW s \in Socket, NEW kind \in {"hello", "input", "disconnect"},
           Arrives(s, kind)
    PROVE  PresenceInv'
<1>1. /\ link[s].state # "gone"
      /\ callback' = [kind |-> kind, ws |-> s, raw |-> clock]
      /\ UNCHANGED <<clock, engine, table, link, loop, queue>>
  BY DEF Arrives
<1>2. callback' \in Callback
  BY <1>1 DEF Callback, PresenceInv, TypeOK
<1>3. Shut' /\ Called'
  BY <1>1 DEF PresenceInv, Shut, Called
<1> QED
  BY <1>1, <1>2, <1>3, Unmoved DEF PresenceInv, TypeOK, Transaction

LEMMA IdleFacts == Idle \in Callback /\ Idle.kind = "none"
BY WordFacts DEF Idle, Callback

LEMMA Ignoring == ASSUME PresenceInv, Ignored PROVE PresenceInv'
<1>1. callback' = Idle /\ UNCHANGED <<clock, engine, table, link, loop, queue>>
  BY DEF Ignored
<1>2. Shut' /\ Called'
  BY <1>1, IdleFacts DEF PresenceInv, Shut, Called
<1> QED
  BY <1>1, <1>2, IdleFacts, Unmoved DEF PresenceInv, TypeOK, Transaction

LEMMA PassBegins == ASSUME PresenceInv, LoopBegins PROVE PresenceInv'
<1>1. /\ loop.at = "top" /\ loop' = [at |-> "keys", now |-> clock]
      /\ UNCHANGED <<clock, engine, table, link, callback, queue>>
  BY DEF LoopBegins
<1>2. loop' \in [at : Stages, now : Time] /\ loop'.at = "keys"
  BY <1>1 DEF PresenceInv, TypeOK, Stages
<1>3. Shut' /\ Called'
  BY <1>1, <1>2 DEF PresenceInv, Shut, Called
<1> QED
  BY <1>1, <1>2, <1>3, Unmoved DEF PresenceInv, TypeOK, Transaction

LEMMA Keying == ASSUME PresenceInv, Keys PROVE PresenceInv'
<1>1. /\ loop.at = "keys" /\ loop'.at \in {"sockets", "transaction"}
      /\ loop' \in [at : Stages, now : Time]
  <2>1. loop \in [at : Stages, now : Time] /\ {"sockets", "transaction"} \subseteq Stages
    BY DEF PresenceInv, TypeOK, Stages
  <2>2. LoopAt("keys", "sockets") \/ LoopAt("keys", "transaction")
    BY DEF Keys
  <2> QED
    BY <2>1, <2>2, StageFacts
<1>2. queue = <<>>
  BY <1>1 DEF PresenceInv, Transaction
<1>3. UNCHANGED <<clock, engine, table, link, callback, queue>>
  BY <1>2 DEF Keys
<1>4. Shut' /\ Called'
  BY <1>1, <1>3 DEF PresenceInv, Shut, Called
<1> QED
  BY <1>1, <1>3, <1>4, Unmoved DEF PresenceInv, TypeOK, Transaction

\* A step that moves sockets but neither seats nor the queue.
LEMMA SocketsMove ==
    ASSUME PresenceInv, UNCHANGED <<clock, engine, callback, queue>>,
           loop' \in [at : Stages, now : Time], Transaction <=> Transaction',
           table' \in [Socket -> {"none", "pending", "authenticated"}], link' \in [Socket -> Link],
           Owns(engine, Waiting, table', link'),
           \A s \in Waiting : link'[s] = Gone /\ table'[s] = "none", Shut', Called'
    PROVE  PresenceInv'
<1>1. Waiting' = Waiting
  BY DEF Waiting, Part
<1>2. TypeOK'
  BY DEF PresenceInv, TypeOK
<1>3. Departed(engine, queue, table', link')
  <2>1. \A i \in 1 .. Len(queue) : queue[i].ws \in Waiting
    BY DEF Waiting, Part
  <2> QED
    BY <2>1 DEF PresenceInv, Departed
<1>4. Matched(engine', Waiting') /\ Owns(engine', Waiting', table', link')
      /\ Departed(engine', queue', table', link')
  BY <1>1, <1>3 DEF PresenceInv
<1> QED
  BY <1>2, <1>4 DEF PresenceInv

LEMMA WaitingGone ==
    ASSUME PresenceInv
    PROVE  /\ \A s \in Waiting : s \in Socket /\ link[s] = Gone /\ table[s] = "none"
           /\ Entries /\ (queue = <<>> => Waiting = {})
           /\ Waiting \cap LetIn(table, link) = {}
<1>1. Waiting \subseteq Socket /\ Entries /\ (queue = <<>> => Waiting = {})
  BY QueueFacts DEF PresenceInv, TypeOK
<1>2. \A s \in Waiting : link[s] = Gone /\ table[s] = "none"
  BY DEF PresenceInv, Departed, Waiting, Part
<1> QED
  BY <1>1, <1>2 DEF LetIn

\* A client connects, with an id that nothing refers to.
LEMMA Connecting ==
    ASSUME PresenceInv, NEW s \in Socket, NEW id \in Identity, Connect(s, id)
    PROVE  PresenceInv'
<1> DEFINE pending == Cardinality({t \in Socket : table[t] = "pending"}) < MaxPending
           new == IF pending THEN "open" ELSE "closing"
<1>1. /\ callback.kind = "none" /\ Unused(s)
      /\ table' = IF pending THEN [table EXCEPT ![s] = "pending"] ELSE table
      /\ link' = [link EXCEPT ![s] = [state |-> new, id |-> id]]
      /\ UNCHANGED <<clock, engine, callback, loop, queue>>
  BY DEF Connect
<1>2. new \in {"open", "closing"}
  OBVIOUS
<1> HIDE DEF pending, new
<1>3. /\ table \in [Socket -> {"none", "pending", "authenticated"}] /\ link \in [Socket -> Link]
      /\ Fits(engine, Socket) /\ Owns(engine, Waiting, table, link)
  BY DEF PresenceInv, TypeOK, Matched
<1>4. /\ link[s].state = "gone" /\ table[s] = "none"
      /\ \A p \in Pid : engine.seat[p].ws # s
  <2>1. HolderOf(engine, s) = {} /\ s # NoSocket
    BY <1>1, NoSeatFacts DEF Unused
  <2> QED
    BY <1>1, <1>3, <2>1 DEF Unused, HolderOf, Fits
<1>5. s \notin Waiting
  <2>1. Len(queue) \in Nat /\ queue \in Seq([ws : Socket, raw : Time])
    BY QueueFacts DEF PresenceInv, TypeOK, Entries
  <2>2. DOMAIN queue = 1 .. Len(queue)
    BY <2>1
  <2> QED
    BY <1>1, <2>2 DEF Unused, Waiting, Part
<1>6. /\ table' \in [Socket -> {"none", "pending", "authenticated"}]
      /\ table'[s] \in {"none", "pending"}
      /\ \A t \in Socket : t # s => table'[t] = table[t]
  BY <1>1, <1>3, <1>4
<1>7. /\ link' \in [Socket -> Link] /\ \A t \in Socket : t # s => link'[t] = link[t]
  <2>1. [state |-> new, id |-> id] \in Link
    BY <1>2 DEF Link
  <2> QED
    BY <1>1, <1>3, <2>1
<1>8. LetIn(table', link') = LetIn(table, link) /\ s \notin LetIn(table, link)
  BY <1>4, <1>6, <1>7 DEF LetIn
<1>9. Owns(engine, Waiting, table', link')
  <2>1. \A p \in Pid : engine.seat[p].ws # NoSocket => engine.seat[p].ws \in Socket
    BY <1>3 DEF Fits
  <2>2. \A t \in LetIn(table, link) : t \in Socket /\ t # s
    BY <1>8 DEF LetIn
  <2> QED
    BY <1>3, <1>4, <1>6, <1>7, <1>8, <2>1, <2>2 DEF Owns
<1>10. \A t \in Waiting : link'[t] = Gone /\ table'[t] = "none"
  BY <1>5, <1>6, <1>7, WaitingGone
<1>11. Shut' /\ Called'
  BY <1>1, <1>8 DEF PresenceInv, Shut, Called
<1> QED
  BY <1>1, <1>6, <1>7, <1>9, <1>10, <1>11, SocketsMove DEF PresenceInv, TypeOK, Transaction

\* Clients are closed; nobody is let in by that.
LEMMA Closing ==
    ASSUME PresenceInv, NEW S, link' = Closed(link, S), UNCHANGED <<clock, engine, table, callback, queue>>,
           loop' \in [at : Stages, now : Time], Transaction <=> Transaction',
           loop'.at \in {"closed", "restored"} => loop.at = loop'.at \/ S = Socket
    PROVE  PresenceInv'
<1>1. /\ table \in [Socket -> {"none", "pending", "authenticated"}] /\ link \in [Socket -> Link]
      /\ Fits(engine, Socket) /\ Owns(engine, Waiting, table, link)
  BY DEF PresenceInv, TypeOK, Matched
<1>2. /\ link' \in [Socket -> Link]
      /\ \A s \in Socket : /\ link[s] = Gone => link'[s] = Gone
                           /\ link[s].state # "gone" => link'[s].state # "gone"
                           /\ S = Socket => link'[s].state # "open"
  BY <1>1, ClosedFacts
<1>3. Owns(engine, Waiting, table, link') /\ LetIn(table, link') \subseteq LetIn(table, link)
  BY <1>1, OwnsClosed
<1>4. \A s \in Waiting : link'[s] = Gone /\ table'[s] = "none"
  BY <1>2, WaitingGone
<1>5. Shut'
  <2>1. CASE S = Socket
    BY <1>2, <2>1 DEF Shut, LetIn
  <2>2. CASE S # Socket
    BY <1>3, <2>2 DEF Shut, PresenceInv
  <2> QED
    BY <2>1, <2>2
<1>6. Called'
  BY <1>2 DEF Called, PresenceInv
<1> QED
  BY <1>1, <1>2, <1>3, <1>4, <1>5, <1>6, SocketsMove

LEMMA Overloading ==
    ASSUME PresenceInv, NEW s \in Socket, CloseOverloaded(s)
    PROVE  PresenceInv'
<1>1. link' = Closed(link, {s}) /\ UNCHANGED <<clock, engine, table, callback, loop, queue>>
  BY DEF CloseOverloaded
<1>2. loop' \in [at : Stages, now : Time] /\ (Transaction <=> Transaction')
  BY <1>1 DEF PresenceInv, TypeOK, Transaction
<1> QED
  BY <1>1, <1>2, Closing

LEMMA ClosingAll == ASSUME PresenceInv, CloseAll PROVE PresenceInv'
<1>1. /\ LoopAt("transaction", "closed") /\ link' = Closed(link, Socket)
      /\ UNCHANGED <<clock, engine, table, callback, queue>>
  BY DEF CloseAll
<1>2. /\ loop.at = "transaction" /\ loop'.at = "closed" /\ loop' \in [at : Stages, now : Time]
  BY <1>1, StageFacts DEF PresenceInv, TypeOK, Stages
<1> QED
  BY <1>1, <1>2, Closing DEF Transaction

\* The late are closed and forgotten; they were pending and had no seat.
LEMMA SocketTicks == ASSUME PresenceInv, SocketTick PROVE PresenceInv'
<1>1. /\ LoopAt("sockets", "tick") /\ UNCHANGED <<clock, engine, callback, queue>>
      /\ \E late \in SUBSET {s \in Socket : table[s] = "pending"} :
            /\ table' = [s \in Socket |-> IF s \in late THEN "none" ELSE table[s]]
            /\ link' = Closed(link, late)
  BY DEF SocketTick
<1>2. PICK late \in SUBSET {s \in Socket : table[s] = "pending"} :
            /\ table' = [s \in Socket |-> IF s \in late THEN "none" ELSE table[s]]
            /\ link' = Closed(link, late)
  BY <1>1
<1>3. /\ loop.at = "sockets" /\ loop'.at = "tick" /\ loop' \in [at : Stages, now : Time]
  BY <1>1, StageFacts DEF PresenceInv, TypeOK, Stages
<1>4. /\ table \in [Socket -> {"none", "pending", "authenticated"}] /\ link \in [Socket -> Link]
      /\ Fits(engine, Socket) /\ Owns(engine, Waiting, table, link)
  BY DEF PresenceInv, TypeOK, Matched
<1>5. /\ link' \in [Socket -> Link]
      /\ \A s \in Socket : /\ link[s] = Gone => link'[s] = Gone
                           /\ link[s].state # "gone" => link'[s].state # "gone"
  BY <1>2, <1>4, ClosedFacts
<1>6. Owns(engine, Waiting, table, link') /\ LetIn(table, link') \subseteq LetIn(table, link)
  BY <1>2, <1>4, OwnsClosed
<1>7. /\ table' \in [Socket -> {"none", "pending", "authenticated"}]
      /\ \A s \in Socket : /\ table'[s] = "authenticated" <=> table[s] = "authenticated"
                           /\ table[s] = "none" => table'[s] = "none"
  BY <1>2, <1>4
<1>8. LetIn(table', link') = LetIn(table, link')
  BY <1>7 DEF LetIn
<1>9. Owns(engine, Waiting, table', link')
  <2>1. \A p \in Pid : engine.seat[p].ws # NoSocket => engine.seat[p].ws \in Socket
    BY <1>4 DEF Fits
  <2> QED
    BY <1>6, <1>7, <1>8, <2>1 DEF Owns
<1>10. \A s \in Waiting : link'[s] = Gone /\ table'[s] = "none"
  BY <1>5, <1>7, WaitingGone
<1>11. Shut' /\ Called'
  BY <1>1, <1>3, <1>5 DEF PresenceInv, Shut, Called
<1> QED
  BY <1>1, <1>3, <1>5, <1>7, <1>9, <1>10, <1>11, SocketsMove DEF Transaction

\* A step after which nobody waits, and which moves no socket but its seats.
LEMMA SeatsMove ==
    ASSUME PresenceInv, UNCHANGED <<clock, table, link>>, callback' \in {callback, Idle},
           loop' \in [at : Stages, now : Time], queue' = <<>>,
           Matched(engine', {}), Owns(engine', {}, table, link), Shut'
    PROVE  PresenceInv'
<1>1. queue' \in Seq([ws : Socket, raw : Time]) /\ Len(queue') = 0 /\ Waiting' = {}
  BY DEF Waiting, Part
<1>2. TypeOK'
  <2>1. engine' \in Engine
    BY DEF Matched, Fits
  <2> QED
    BY <1>1, <2>1, IdleFacts, SeatAssumption DEF PresenceInv, TypeOK
<1>3. Called'
  BY IdleFacts DEF PresenceInv, Called
<1>4. Departed(engine', queue', table', link')
  BY NoneDeparted
<1> QED
  BY <1>1, <1>2, <1>3, <1>4 DEF PresenceInv

\* While no transaction runs nobody waits.
LEMMA Outside ==
    ASSUME PresenceInv, ~Transaction
    PROVE  /\ queue = <<>> /\ Matched(engine, {}) /\ Owns(engine, {}, table, link)
           /\ loop.at \notin {"closed", "restored"}
<1>1. queue = <<>> /\ Waiting = {}
  BY WaitingGone DEF PresenceInv
<1> QED
  BY <1>1 DEF PresenceInv, Transaction

LEMMA EngineTicks == ASSUME PresenceInv, EngineTick PROVE PresenceInv'
<1>1. /\ LoopAt("tick", "top") /\ engine' = Entered(engine, loop.now)
      /\ UNCHANGED <<clock, table, link, callback, queue>>
  BY DEF EngineTick
<1>2. /\ loop.at = "tick" /\ loop'.at = "top" /\ loop' \in [at : Stages, now : Time]
      /\ loop.now \in Time
  BY <1>1, StageFacts DEF PresenceInv, TypeOK, Stages
<1>3. queue = <<>> /\ Matched(engine, {}) /\ Owns(engine, {}, table, link)
  BY <1>2, Outside DEF Transaction
<1>4. Matched(engine', {}) /\ Leaves(engine, engine', {})
  BY <1>1, <1>2, <1>3, MatchedEnter
<1>5. Owns(engine', {}, table, link)
  <2>1. Carries(engine, engine', {})
    BY <1>4, LeavesCarries
  <2> QED
    BY <1>3, <2>1, OwnsFewer
<1>6. Shut'
  BY <1>2 DEF Shut
<1> QED
  BY <1>1, <1>2, <1>3, <1>4, <1>5, <1>6, SeatsMove

LEMMA CallFacts ==
    ASSUME PresenceInv, callback.kind # "none"
    PROVE  callback.ws \in Socket /\ callback.raw \in Time /\ link[callback.ws].state # "gone"
BY DEF PresenceInv, TypeOK, Callback, Called

LEMMA Inputs == ASSUME PresenceInv, Input PROVE PresenceInv'
<1> DEFINE e == Entered(engine, callback.raw)
<1>1. /\ callback.kind = "input" /\ ~Transaction /\ engine' = Play(e, callback.ws)
      /\ callback' = Idle /\ UNCHANGED <<clock, table, link, loop, queue>>
  BY DEF Input, Taken
<1>2. queue = <<>> /\ Matched(engine, {}) /\ Owns(engine, {}, table, link)
      /\ loop.at \notin {"closed", "restored"}
  BY <1>1, Outside
<1>3. callback.raw \in Time
  BY <1>1, CallFacts
<1>4. Matched(e, {}) /\ Leaves(engine, e, {})
  BY <1>2, <1>3, MatchedEnter
<1> HIDE DEF e
<1>5. /\ Matched(engine', {})
      /\ \A p \in Pid : engine'.seat[p].id = e.seat[p].id /\ engine'.seat[p].ws = e.seat[p].ws
  BY <1>1, <1>4, MatchedPlay
<1>6. Carries(engine, engine', {})
  BY <1>4, <1>5 DEF Leaves, Carries
<1>7. Owns(engine', {}, table, link)
  BY <1>2, <1>6, OwnsFewer
<1>8. Shut'
  BY <1>1, <1>2 DEF Shut
<1>9. loop' \in [at : Stages, now : Time]
  BY <1>1 DEF PresenceInv, TypeOK
<1> QED
  BY <1>1, <1>2, <1>5, <1>7, <1>8, <1>9, SeatsMove

\* The engine forgets everyone; nobody is in who could come back without a hello.
LEMMA Restoring == ASSUME PresenceInv, Restore PROVE PresenceInv'
<1>1. /\ LoopAt("closed", "restored") /\ queue' = <<>>
      /\ UNCHANGED <<clock, table, link, callback>>
  BY DEF Restore
<1>2. PICK rows \in [Identity -> {"none", "offline"}] : engine' = Reset(clock, rows)
  BY DEF Restore
<1>3. /\ loop.at = "closed" /\ loop'.at = "restored" /\ loop' \in [at : Stages, now : Time]
      /\ clock \in Time
  BY <1>1, StageFacts DEF PresenceInv, TypeOK, Stages
<1>4. Matched(engine', {}) /\ \A p \in Pid : engine'.seat[p].ws = NoSocket
  BY <1>2, <1>3, MatchedReset
<1>5. LetIn(table, link) = {}
  BY <1>3 DEF PresenceInv, Shut
<1>6. Owns(engine', {}, table, link)
  BY <1>4, <1>5 DEF Owns
<1>7. Shut'
  BY <1>1, <1>5 DEF Shut
<1> QED
  BY <1>1, <1>3, <1>4, <1>6, <1>7, SeatsMove

LEMMA Ending == ASSUME PresenceInv, EndTransaction PROVE PresenceInv'
<1>1. /\ LoopAt("transaction", "sockets") \/ LoopAt("restored", "sockets")
      /\ engine' = Replay(engine) /\ queue' = <<>>
      /\ UNCHANGED <<clock, table, link, callback>>
  BY DEF EndTransaction
<1>2. loop'.at = "sockets" /\ loop' \in [at : Stages, now : Time]
  BY <1>1, StageFacts DEF PresenceInv, TypeOK, Stages
<1>3. Entries /\ Waiting \cap LetIn(table, link) = {}
  BY WaitingGone
<1>4. Matched(engine', {}) /\ Leaves(engine, engine', Waiting)
  BY <1>1, <1>3, Replaying DEF PresenceInv
<1>5. Owns(engine', {}, table, link)
  <2>1. Carries(engine, engine', Waiting)
    BY <1>4, LeavesCarries
  <2> QED
    BY <1>3, <2>1, OwnsFewer DEF PresenceInv
<1>6. Shut'
  BY <1>2 DEF Shut
<1> QED
  BY <1>1, <1>2, <1>4, <1>5, <1>6, SeatsMove

\* A phone greets: its seat goes over to this socket, and the former one is closed.
LEMMA Greets == ASSUME PresenceInv, Greeted PROVE PresenceInv'
<1> DEFINE s == callback.ws
           id == link[s].id
           e == Entered(engine, callback.raw)
<1>1. /\ callback.kind = "hello" /\ ~Transaction
      /\ callback' = Idle /\ UNCHANGED <<clock, loop, queue>>
  BY DEF Greeted, Taken
<1>2. PICK admitted \in BOOLEAN :
        /\ engine' = Hello(e, s, id, admitted)
        /\ link' = Closed(link, TakenOver(e, s, id, admitted))
        /\ table' = IF HolderOf(engine', s) = {} THEN table
                    ELSE [table EXCEPT ![s] = "authenticated"]
  BY DEF Greeted
<1> DEFINE T == TakenOver(e, s, id, admitted)
<1>3. queue = <<>> /\ Matched(engine, {}) /\ Owns(engine, {}, table, link)
      /\ loop.at \notin {"closed", "restored"}
  BY <1>1, Outside
<1>4. /\ s \in Socket /\ callback.raw \in Time /\ link[s].state # "gone"
      /\ table \in [Socket -> {"none", "pending", "authenticated"}] /\ link \in [Socket -> Link]
      /\ loop \in [at : Stages, now : Time] /\ clock \in Time
  BY <1>1, CallFacts DEF PresenceInv, TypeOK
<1>5. id \in Identity
  BY <1>4, LinkFacts
<1>6. Matched(e, {}) /\ Leaves(engine, e, {})
  BY <1>3, <1>4, MatchedEnter
<1>7. Owns(e, {}, table, link)
  <2>1. Carries(engine, e, {})
    BY <1>6, LeavesCarries
  <2> HIDE DEF e
  <2> QED
    BY <1>3, <2>1, OwnsFewer
<1> HIDE DEF s, id, e
<1>8. /\ Matched(engine', {})
      /\ \/ engine' = e
         \/ \E p \in Pid : /\ engine'.seat[p].id = id /\ engine'.seat[p].ws = s
                           /\ engine'.seat[p].played = e.seat[p].played
                           /\ \A q \in Pid : q # p => engine'.seat[q] = e.seat[q]
                           /\ e.seat[p].ws \in {s, NoSocket} \cup T
  BY <1>2, <1>4, <1>5, <1>6, MatchedHello
<1>9. /\ link' \in [Socket -> Link]
      /\ \A t \in Socket : /\ link'[t].id = link[t].id
                           /\ link[t].state # "gone" => link'[t].state # "gone"
                           /\ link'[t].state = "open" => link[t].state = "open" /\ t \notin T
  BY <1>2, <1>4, ClosedFacts
<1> HIDE DEF T
<1>10. /\ table' \in [Socket -> {"none", "pending", "authenticated"}]
       /\ \A t \in Socket : t # s => table'[t] = table[t]
       /\ HolderOf(engine', s) # {} => table'[s] = "authenticated"
       /\ HolderOf(engine', s) = {} => table' = table
       /\ table[s] = "authenticated" => table'[s] = "authenticated"
  BY <1>2, <1>4
<1>11. Fits(e, Socket) /\ Fits(engine', Socket) /\ s # NoSocket
  BY <1>4, <1>6, <1>8, NoSeatFacts DEF Matched
<1>12. \A p \in Pid : e.seat[p].ws # NoSocket => e.seat[p].ws \in Socket
  BY <1>11 DEF Fits
<1>13. Owns(engine', {}, table', link')
  <2>1. CASE engine' = e
    <3>1. ASSUME NEW t \in LetIn(table', link')
          PROVE  t \in LetIn(table, link)
      <4>1. CASE t # s
        BY <1>9, <1>10, <3>1, <4>1 DEF LetIn
      <4>2. CASE t = s
        <5>1. CASE HolderOf(e, s) = {}
          BY <1>9, <1>10, <2>1, <3>1, <5>1 DEF LetIn
        <5>2. CASE HolderOf(e, s) # {}
          <6>1. table[s] = "authenticated"
            BY <1>7, <1>11, <5>2 DEF HolderOf, Owns
          <6> QED
            BY <1>9, <3>1, <4>2, <6>1 DEF LetIn
        <5> QED
          BY <5>1, <5>2
      <4> QED
        BY <4>1, <4>2
    <3>2. \A t \in LetIn(table', link') : t \in Socket
      BY DEF LetIn
    <3> QED
      BY <1>7, <1>9, <1>10, <1>12, <2>1, <3>1, <3>2 DEF Owns
  <2>2. CASE engine' # e
    <3>1. PICK p \in Pid : /\ engine'.seat[p].id = id /\ engine'.seat[p].ws = s
                           /\ \A q \in Pid : q # p => engine'.seat[q] = e.seat[q]
                           /\ e.seat[p].ws \in {s, NoSocket} \cup T
      BY <1>8, <2>2
    <3>2. table'[s] = "authenticated" /\ link'[s].id = id
      <4>1. p \in HolderOf(engine', s)
        BY <1>11, <3>1 DEF HolderOf, Fits
      <4> QED
        BY <1>4, <1>9, <1>10, <4>1 DEF id
    <3>3. ASSUME NEW q \in Pid, engine'.seat[q].ws # NoSocket
          PROVE  /\ link'[engine'.seat[q].ws].state # "gone"
                 /\ table'[engine'.seat[q].ws] = "authenticated"
                 /\ link'[engine'.seat[q].ws].id = engine'.seat[q].id
      <4>1. CASE q = p
        BY <1>4, <1>9, <3>1, <3>2, <4>1
      <4>2. CASE q # p
        <5>1. engine'.seat[q] = e.seat[q] /\ e.seat[q].ws \in Socket
          BY <1>12, <3>1, <3>3, <4>2
        <5> QED
          BY <1>7, <1>9, <1>10, <3>2, <3>3, <5>1 DEF Owns
      <4> QED
        BY <4>1, <4>2
    <3>4. ASSUME NEW t \in LetIn(table', link')
          PROVE  \E q \in Pid : engine'.seat[q].ws = t /\ engine'.seat[q].id = link'[t].id
      <4>1. CASE t = s
        BY <3>1, <3>2, <4>1
      <4>2. CASE t # s
        <5>1. t \in Socket /\ t \in LetIn(table, link) /\ t \notin T
          BY <1>9, <1>10, <3>4, <4>2 DEF LetIn
        <5>2. PICK q \in Pid : e.seat[q].ws = t /\ e.seat[q].id = link[t].id
          BY <1>7, <5>1 DEF Owns
        <5>3. q # p
          BY <3>1, <4>2, <5>1, <5>2, NoSeatFacts
        <5> QED
          BY <1>9, <3>1, <5>1, <5>2, <5>3
      <4> QED
        BY <4>1, <4>2
    <3> QED
      BY <3>3, <3>4 DEF Owns
  <2> QED
    BY <2>1, <2>2
<1>14. TypeOK' /\ Waiting' = {}
  <2>1. engine' \in Engine
    BY <1>11 DEF Fits
  <2>2. Waiting' = Waiting /\ Waiting = {}
    BY <1>1, <1>3, WaitingGone DEF Waiting, Part
  <2> QED
    BY <1>1, <1>9, <1>10, <2>1, <2>2, IdleFacts DEF PresenceInv, TypeOK
<1>15. Shut' /\ Called' /\ (~Transaction' => queue' = <<>>)
  BY <1>1, <1>3, IdleFacts DEF Shut, Called
<1>16. Departed(engine', queue', table', link')
  BY <1>1, <1>3, NoneDeparted
<1> QED
  BY <1>8, <1>13, <1>14, <1>15, <1>16 DEF PresenceInv

LEMMA SameQueue ==
    ASSUME NEW e, NEW Q, NEW R, Matched(e, Q),
           \A p \in Pid : e.seat[p].ws # NoSocket => (e.seat[p].ws \in Q <=> e.seat[p].ws \in R)
    PROVE  Matched(e, R)
BY DEF Matched

\* The queue of disconnects has no more entries than there are seats.
LEMMA ShortQueue ==
    ASSUME NEW q, Len(q) \in Nat, NEW e, NEW tab, NEW links, Departed(e, q, tab, links)
    PROVE  Len(q) <= MaxPlayers
<1> DEFINE I == 1 .. Len(q)
           f == [i \in I |-> CHOOSE p \in Pid : e.seat[p].ws = q[i].ws]
<1>1. \A i \in I : f[i] \in Pid /\ e.seat[f[i]].ws = q[i].ws
  BY DEF Departed
<1>2. \A i, j \in I : q[i].ws = q[j].ws => i = j
  BY DEF Departed
<1>3. f \in [I -> Pid]
  BY <1>1
<1> HIDE DEF f
<1>4. \A i, j \in I : f[i] = f[j] => i = j
  BY <1>1, <1>2
<1>5. f \in Injection(I, Pid)
  BY <1>3, <1>4 DEF Injection, IsInjective
<1>6. /\ Cardinality(I) = Len(q) /\ IsFiniteSet(Pid) /\ Cardinality(Pid) = MaxPlayers
  <2>1. Cardinality(1 .. Len(q)) = IF 1 > Len(q) THEN 0 ELSE Len(q) - 1 + 1
    BY FS_Interval
  <2>2. MaxPlayers \in Nat \ {0}
    BY SeatAssumption
  <2>3. /\ IsFiniteSet(1 .. MaxPlayers)
        /\ Cardinality(1 .. MaxPlayers) = IF 1 > MaxPlayers THEN 0 ELSE MaxPlayers - 1 + 1
    BY <2>2, FS_Interval
  <2> QED
    BY <2>1, <2>2, <2>3 DEF Pid
<1>7. Cardinality(I) <= Cardinality(Pid)
  BY <1>5, <1>6, FS_Injection
<1> QED
  BY <1>6, <1>7

LEMMA AppendFacts ==
    ASSUME NEW S, NEW q \in Seq(S), NEW x \in S
    PROVE  /\ Append(q, x) \in Seq(S) /\ Len(Append(q, x)) = Len(q) + 1
           /\ \A i \in 1 .. Len(q) : Append(q, x)[i] = q[i]
           /\ Append(q, x)[Len(q) + 1] = x
OBVIOUS

\* A client goes during a transaction: what is left to do for its seat is queued.
LEMMA GoesQueued ==
    ASSUME PresenceInv, Disconnected, Transaction
    PROVE  PresenceInv'
<1> DEFINE s == callback.ws
           P == HolderOf(engine, s)
           entry == [ws |-> s, raw |-> callback.raw]
<1>1. /\ callback.kind = "disconnect"
      /\ engine' = ShownOffline(engine, P)
      /\ queue' = IF P # {} THEN Queued(s, callback.raw) ELSE queue
      /\ table' = [table EXCEPT ![s] = "none"]
      /\ link' = [link EXCEPT ![s] = Gone]
      /\ callback' = Idle /\ UNCHANGED <<clock, loop>>
  BY DEF Disconnected
<1>2. /\ s \in Socket /\ callback.raw \in Time /\ link[s].state # "gone"
      /\ table \in [Socket -> {"none", "pending", "authenticated"}] /\ link \in [Socket -> Link]
      /\ loop \in [at : Stages, now : Time] /\ clock \in Time
      /\ queue \in Seq([ws : Socket, raw : Time]) /\ Len(queue) \in Nat
  BY <1>1, CallFacts, SeqFacts DEF PresenceInv, TypeOK
<1>3. s \notin Waiting /\ s # NoSocket
  BY <1>2, WaitingGone, LinkFacts, NoSeatFacts
<1>4. Matched(engine, Waiting) /\ Owns(engine, Waiting, table, link)
      /\ Departed(engine, queue, table, link) /\ Fits(engine, Socket)
  BY DEF PresenceInv, Matched
<1>5. \A p \in Pid : p \in P <=> engine.seat[p].ws = s
  BY <1>3, <1>4 DEF HolderOf, Fits
<1>6. Matched(engine', Waiting \cup {s}) /\ engine'.seat = engine.seat
  BY <1>1, <1>2, <1>4, MatchedHide
<1>7. /\ table' \in [Socket -> {"none", "pending", "authenticated"}] /\ link' \in [Socket -> Link]
      /\ table'[s] = "none" /\ link'[s] = Gone
      /\ \A t \in Socket : t # s => table'[t] = table[t] /\ link'[t] = link[t]
  BY <1>1, <1>2, LinkFacts
<1>8. /\ Owns(engine, Waiting \cup {s}, table', link')
      /\ LetIn(table', link') = LetIn(table, link) \ {s}
  <2>1. Owns(engine, Waiting \cup {s}, table', link')
    BY <1>2, <1>4, <1>7, OwnsGone
  <2>2. LetIn(table', link') = LetIn(table, link) \ {s}
    BY <1>7 DEF LetIn
  <2> QED
    BY <2>1, <2>2
<1>9. Owns(engine', Waiting \cup {s}, table', link')
  BY <1>6, <1>8 DEF Owns
<1>10. entry \in [ws : Socket, raw : Time] /\ entry.ws = s
  BY <1>2
<1>11. P # {} => queue' = Append(queue, entry)
  <2>1. \A i \in DOMAIN queue : queue[i].ws # s
    <3>1. DOMAIN queue = 1 .. Len(queue)
      BY <1>2
    <3> QED
      BY <1>3, <3>1 DEF Waiting, Part
  <2> QED
    BY <1>1, <2>1 DEF Queued
<1> HIDE DEF s, P, entry
<1>12. \A i \in 1 .. Len(queue) : queue[i].ws \in Waiting /\ queue[i].ws \in Socket
  BY WaitingGone DEF Waiting, Part
<1>13. /\ queue' \in Seq([ws : Socket, raw : Time]) /\ Departed(engine', queue', table', link')
       /\ Matched(engine', Waiting') /\ Owns(engine', Waiting', table', link')
  <2>1. CASE P = {}
    <3>1. queue' = queue /\ Waiting' = Waiting
      BY <1>1, <2>1 DEF Waiting, Part
    <3>2. \A p \in Pid : engine'.seat[p].ws # s
      BY <1>5, <1>6, <2>1
    <3>3. Matched(engine', Waiting)
      BY <1>6, <3>2, SameQueue
    <3>4. Owns(engine', Waiting, table', link')
      BY <1>9, <3>2 DEF Owns
    <3>5. Departed(engine', queue, table', link')
      BY <1>3, <1>4, <1>6, <1>7, <1>12 DEF Departed
    <3> QED
      BY <1>2, <3>1, <3>3, <3>4, <3>5
  <2>2. CASE P # {}
    <3>1. /\ queue' \in Seq([ws : Socket, raw : Time]) /\ Len(queue') = Len(queue) + 1
          /\ \A i \in 1 .. Len(queue) : queue'[i] = queue[i]
          /\ queue'[Len(queue) + 1] = entry
      <4>1. queue' = Append(queue, entry)
        BY <1>11, <2>2
      <4> DEFINE E == [ws : Socket, raw : Time]
      <4>2. queue \in Seq(E) /\ entry \in E
        BY <1>2, <1>10
      <4> HIDE DEF E
      <4>3. /\ queue' \in Seq(E) /\ Len(queue') = Len(queue) + 1
            /\ \A i \in 1 .. Len(queue) : queue'[i] = queue[i]
            /\ queue'[Len(queue) + 1] = entry
        BY <4>1, <4>2, AppendFacts
      <4> QED
        BY <4>3 DEF E
    <3>2. \A i \in 1 .. Len(queue') : i \in 1 .. Len(queue) \/ i = Len(queue) + 1
      BY <1>2, <3>1
    <3>3. Waiting' = Waiting \cup {s}
      <4>1. Waiting' = {queue'[i].ws : i \in 1 .. Len(queue')}
        BY DEF Waiting, Part
      <4>2. 1 .. Len(queue') = (1 .. Len(queue)) \cup {Len(queue) + 1}
        BY <1>2, <3>1
      <4> QED
        BY <1>10, <3>1, <4>1, <4>2 DEF Waiting, Part
    <3>4. PICK p \in Pid : engine'.seat[p].ws = s
      <4>1. P \subseteq Pid
        BY DEF P, HolderOf
      <4> QED
        BY <1>5, <1>6, <2>2, <4>1
    <3>5. Departed(engine', queue', table', link')
      <4>1. ASSUME NEW i \in 1 .. Len(queue')
            PROVE  /\ link'[queue'[i].ws] = Gone /\ table'[queue'[i].ws] = "none"
                   /\ \E q \in Pid : engine'.seat[q].ws = queue'[i].ws
        <5>1. CASE i \in 1 .. Len(queue)
          BY <1>3, <1>4, <1>6, <1>7, <1>12, <3>1, <5>1 DEF Departed
        <5>2. CASE i = Len(queue) + 1
          BY <1>7, <1>10, <3>1, <3>4, <5>2
        <5> QED
          BY <3>2, <5>1, <5>2
      <4>2. ASSUME NEW i \in 1 .. Len(queue'), NEW j \in 1 .. Len(queue'),
                   queue'[i].ws = queue'[j].ws
            PROVE  i = j
        <5>1. \A k \in 1 .. Len(queue) : queue'[k].ws # s
          BY <1>3, <1>12, <3>1
        <5>2. queue'[Len(queue) + 1].ws = s
          BY <1>10, <3>1
        <5>3. CASE i \in 1 .. Len(queue) /\ j \in 1 .. Len(queue)
          BY <1>4, <3>1, <4>2, <5>3 DEF Departed
        <5>4. CASE i = Len(queue) + 1 \/ j = Len(queue) + 1
          BY <3>2, <4>2, <5>1, <5>2, <5>4
        <5> QED
          BY <3>2, <5>3, <5>4
      <4> QED
        BY <4>1, <4>2 DEF Departed
    <3> QED
      BY <1>6, <1>9, <3>1, <3>3, <3>5
  <2> QED
    BY <2>1, <2>2
<1>14. TypeOK'
  <2>1. engine' \in Engine
    BY <1>6 DEF Matched, Fits
  <2>2. Len(queue') \in Nat
    BY <1>13, SeqFacts
  <2>3. Len(queue') <= MaxPlayers
    BY <1>13, <2>2, ShortQueue
  <2> QED
    BY <1>1, <1>2, <1>7, <1>13, <2>1, <2>3, IdleFacts DEF TypeOK
<1>15. Shut' /\ Called' /\ Transaction'
  BY <1>1, <1>8, IdleFacts DEF Shut, Called, Transaction, PresenceInv
<1> QED
  BY <1>13, <1>14, <1>15 DEF PresenceInv

\* A client goes while none runs: its seat is left at once.
LEMMA GoesAtOnce ==
    ASSUME PresenceInv, Disconnected, ~Transaction
    PROVE  PresenceInv'
<1> DEFINE s == callback.ws
           P == HolderOf(engine, s)
<1>1. /\ callback.kind = "disconnect"
      /\ engine' = ShownOffline(Disconnect(engine, s, callback.raw), P)
      /\ queue' = queue
      /\ table' = [table EXCEPT ![s] = "none"]
      /\ link' = [link EXCEPT ![s] = Gone]
      /\ callback' = Idle /\ UNCHANGED <<clock, loop>>
  BY DEF Disconnected
<1>2. /\ s \in Socket /\ callback.raw \in Time
      /\ table \in [Socket -> {"none", "pending", "authenticated"}] /\ link \in [Socket -> Link]
      /\ loop \in [at : Stages, now : Time] /\ clock \in Time
      /\ queue \in Seq([ws : Socket, raw : Time])
  BY <1>1, CallFacts DEF PresenceInv, TypeOK
<1>3. /\ queue = <<>> /\ Matched(engine, {}) /\ Owns(engine, {}, table, link)
      /\ loop.at \notin {"closed", "restored"} /\ Fits(engine, Socket)
  BY Outside DEF Matched
<1>4. Matched(engine', {}) /\ Leaves(engine, engine', {s})
  BY <1>1, <1>2, <1>3, MatchedGone
<1>5. /\ Owns(engine, {s}, table', link')
      /\ LetIn(table', link') = LetIn(table, link) \ {s}
  <2>1. table'[s] = "none" /\ \A t \in Socket : t # s => table'[t] = table[t] /\ link'[t] = link[t]
    BY <1>1, <1>2
  <2> DEFINE Q == {}
  <2>2. s \in Socket /\ Fits(engine, Socket) /\ Owns(engine, Q, table, link) /\ Q \cup {s} = {s}
    BY <1>2, <1>3
  <2> HIDE DEF Q, s
  <2>3. Owns(engine, Q \cup {s}, table', link')
    BY <2>1, <2>2, OwnsGone
  <2>4. LetIn(table', link') = LetIn(table, link) \ {s}
    BY <2>1 DEF LetIn
  <2> QED
    BY <2>2, <2>4, <2>3
<1>6. Owns(engine', {}, table', link')
  <2>1. Carries(engine, engine', {s})
    BY <1>4, LeavesCarries
  <2> HIDE DEF s
  <2> QED
    BY <1>5, <2>1, OwnsFewer
<1>7. /\ table' \in [Socket -> {"none", "pending", "authenticated"}] /\ link' \in [Socket -> Link]
  BY <1>1, <1>2, LinkFacts
<1>8. Waiting' = {}
  <2>1. Waiting' = Waiting /\ Waiting = {}
    BY <1>1, <1>3, WaitingGone DEF Waiting, Part
  <2> QED
    BY <2>1
<1>9. TypeOK'
  <2>1. engine' \in Engine
    BY <1>4 DEF Matched, Fits
  <2> QED
    BY <1>1, <1>2, <1>7, <2>1, IdleFacts DEF PresenceInv, TypeOK
<1>10. Shut' /\ Called' /\ (~Transaction' => queue' = <<>>)
  BY <1>1, <1>3, IdleFacts DEF Shut, Called
<1>11. Departed(engine', queue', table', link')
  BY <1>1, <1>3, NoneDeparted
<1> QED
  BY <1>4, <1>6, <1>8, <1>9, <1>10, <1>11 DEF PresenceInv

-----------------------------------------------------------------------------
(* The theorems. *)

LEMMA PresenceSteps == ASSUME PresenceInv, [Next]_vars PROVE PresenceInv'
<1>1. CASE Elapse
  BY <1>1, Elapsing
<1>2. CASE \E s \in Socket, id \in Identity : Connect(s, id)
  BY <1>2, Connecting
<1>3. CASE \E s \in Socket, kind \in {"hello", "input", "disconnect"} : Arrives(s, kind)
  BY <1>3, Arriving
<1>4. CASE Callbacks
  <2>1. CASE Ignored
    BY <2>1, Ignoring
  <2>2. CASE Input
    BY <2>2, Inputs
  <2>3. CASE Greeted
    BY <2>3, Greets
  <2>4. CASE Disconnected
    BY <2>4, GoesQueued, GoesAtOnce
  <2> QED
    BY <1>4, <2>1, <2>2, <2>3, <2>4 DEF Callbacks
<1>5. CASE \E s \in Socket : CloseOverloaded(s)
  BY <1>5, Overloading
<1>6. CASE Loop
  BY <1>6, PassBegins, Keying, ClosingAll, Restoring, Ending, SocketTicks, EngineTicks DEF Loop
<1>7. CASE UNCHANGED vars
  <2>1. UNCHANGED <<clock, engine, table, link, callback, loop, queue>>
    BY <1>7 DEF vars
  <2>2. Shut' /\ Called'
    BY <2>1 DEF PresenceInv, Shut, Called
  <2> QED
    BY <2>1, <2>2, Unmoved DEF PresenceInv, TypeOK, Transaction
<1> QED
  BY <1>1, <1>2, <1>3, <1>4, <1>5, <1>6, <1>7 DEF Next

\* Seats, sockets, rows and queued disconnects agree after every callback and every stage
\* of the loop (Engine, haHost and haSockets, under the mutex).
THEOREM PresenceInvariant == Spec => []PresenceInv
<1> QED
  BY Begins, PresenceSteps, PTL DEF Spec

\* The queue never holds more disconnects than there are seats (HA_MAX_PLAYERS slots of
\* haPersistencePendingDisconnects), and every variable keeps its type.
THEOREM TypeCorrect == Spec => []TypeOK
<1>1. PresenceInv => TypeOK
  BY DEF PresenceInv
<1> QED
  BY <1>1, PresenceInvariant, PTL

LEMMA AtMostOne ==
    ASSUME NEW S, \A x, y \in S : x = y
    PROVE  Cardinality(S) <= 1
<1>1. CASE S = {}
  BY <1>1, FS_EmptySet
<1>2. CASE S # {}
  <2>1. PICK x \in S : S = {x}
    BY <1>2
  <2>2. Cardinality({x}) = 1
    BY FS_Singleton
  <2> QED
    BY <2>1, <2>2
<1> QED
  BY <1>1, <1>2

\* Seats and sockets are one to one: an identity has one seat, a socket holds one, a seat
\* that is online has a socket that was let in, and a socket that was let in and is not being
\* closed holds its phone's seat (Engine::onHello, onWsDisconnect, haHandleWsEvent).
THEOREM SeatsAndSockets == Spec => []SeatsMatchSockets
<1>1. PresenceInv => SeatsMatchSockets
  <2> SUFFICES ASSUME PresenceInv PROVE SeatsMatchSockets
    OBVIOUS
  <2>1. OneSeat
    <3>1. \A id \in Identity : \A p, q \in SeatOf(engine, id) : p = q
      BY SeatAssumption DEF PresenceInv, Matched, SeatOf
    <3>2. \A s \in Socket : \A p, q \in HolderOf(engine, s) : p = q
      BY NoSeatFacts DEF PresenceInv, Matched, HolderOf
    <3> QED
      BY <3>1, <3>2, AtMostOne DEF OneSeat
  <2>2. NoGhost
    <3>1. Len(queue) \in Nat /\ DOMAIN queue = 1 .. Len(queue)
      BY DEF PresenceInv, TypeOK
    <3>2. \A s \in Waiting : \E i \in DOMAIN queue : queue[i].ws = s
      BY <3>1 DEF Waiting, Part
    <3> QED
      BY <3>2 DEF NoGhost, PresenceInv, Owns
  <2>3. LetInIsSeated
    <3>1. ASSUME NEW s \in Socket, table[s] = "authenticated", link[s].state = "open"
          PROVE  \E p \in HolderOf(engine, s) : engine.seat[p].id = link[s].id
      <4>1. PICK p \in Pid : engine.seat[p].ws = s /\ engine.seat[p].id = link[s].id
        BY <3>1 DEF PresenceInv, Owns, LetIn
      <4>2. link[s].id # NoOne
        <5>1. link[s] \in Link
          BY DEF PresenceInv, TypeOK
        <5> QED
          BY <3>1, <5>1, LinkFacts, SeatAssumption
      <4> QED
        BY <4>1, <4>2 DEF HolderOf
    <3> QED
      BY <3>1 DEF LetInIsSeated
  <2> QED
    BY <2>1, <2>2, <2>3 DEF SeatsMatchSockets
<1> QED
  BY <1>1, PresenceInvariant, PTL

\* The ledger shows as connected exactly the identities whose seat is online, but for those
\* whose disconnect is queued (haHostJoinStable, haHostLeave, haHostSetOnline).
THEOREM LedgerIsTrue == Spec => []LedgerAgrees
<1>1. PresenceInv => LedgerAgrees
  <2> SUFFICES ASSUME PresenceInv, NEW id \in Identity
               PROVE  engine.row[id] = "online" <=>
                      \E p \in SeatOf(engine, id) :
                          Online(engine, p)
                          /\ \A i \in DOMAIN queue : queue[i].ws # engine.seat[p].ws
    BY DEF LedgerAgrees
  <2>1. Len(queue) \in Nat /\ DOMAIN queue = 1 .. Len(queue)
    BY DEF PresenceInv, TypeOK
  <2>2. \A s : s \notin Waiting <=> \A i \in DOMAIN queue : queue[i].ws # s
    BY <2>1 DEF Waiting, Part
  <2>3. engine.row[id] = "online" <=>
        \E p \in Pid : engine.seat[p].id = id /\ engine.seat[p].ws # NoSocket
                       /\ engine.seat[p].ws \notin Waiting
    BY DEF PresenceInv, Matched
  <2> QED
    BY <2>2, <2>3 DEF SeatOf, Online
<1> QED
  BY <1>1, PresenceInvariant, PTL

\* A hello of whoever was away for the grace finds no seat with a part in a game: what was
\* left is finalized first (Engine::onHello, with expireDetached).
LEMMA GreetsAfresh ==
    ASSUME PresenceInv, Greeted, NEW p \in Pid, engine.seat[p].detached,
           Since(callback.raw, engine.seat[p].at) >= Grace
    PROVE  ~engine'.seat[p].played
<1> DEFINE s == callback.ws
           id == link[s].id
           e == Entered(engine, callback.raw)
<1>1. callback.kind = "hello" /\ ~Transaction
  BY DEF Greeted, Taken
<1>2. PICK admitted \in BOOLEAN : engine' = Hello(e, s, id, admitted)
  BY DEF Greeted
<1>3. s \in Socket /\ callback.raw \in Time /\ link[s].state # "gone" /\ link[s] \in Link
  BY <1>1, CallFacts DEF PresenceInv, TypeOK
<1>4. id \in Identity
  BY <1>3, LinkFacts
<1>5. Matched(engine, {})
  BY <1>1, Outside
<1>6. Matched(e, {}) /\ e.seat[p] = NoSeat
  BY <1>3, <1>5, MatchedEnter
<1>7. ~e.seat[p].played
  BY <1>6 DEF NoSeat
<1> HIDE DEF s, id, e
<1>8. \/ engine' = e
      \/ \E q \in Pid : /\ engine'.seat[q].played = e.seat[q].played
                        /\ \A r \in Pid : r # q => engine'.seat[r] = e.seat[r]
  BY <1>2, <1>3, <1>4, <1>6, MatchedHello
<1> QED
  BY <1>7, <1>8

LEMMA OnlyGreeted ==
    ASSUME Next, callback.kind = "hello", callback'.kind = "none", engine' # engine
    PROVE  Greeted
<1>1. Elapse \/ (\E s \in Socket : CloseOverloaded(s)) => UNCHANGED engine
  BY DEF Elapse, CloseOverloaded
<1>2. ~ \E s \in Socket, id \in Identity : Connect(s, id)
  BY DEF Connect
<1>3. ~ \E s \in Socket, kind \in {"hello", "input", "disconnect"} : Arrives(s, kind)
  BY DEF Arrives
<1>4. ~Ignored /\ ~Input /\ ~Disconnected
  BY DEF Ignored, Input, Disconnected
<1>5. Loop => UNCHANGED callback
  BY DEF Loop, LoopBegins, Keys, CloseAll, Restore, EndTransaction, SocketTick, EngineTick
<1>6. ~Loop
  BY <1>5
<1> QED
  BY <1>1, <1>2, <1>3, <1>4, <1>6 DEF Next, Callbacks

\* A credential of longer ago than the grace revives no match: a hello that finds such a seat
\* leaves it without its part in a game (Engine::onHello).
THEOREM NoneRevived == Spec => NotRevived
<1>1. PresenceInv /\ [Next]_vars
      => [ \A p \in Pid :
              LET old == engine.seat[p] IN
              /\ callback.kind = "hello" /\ callback'.kind = "none"
              /\ old.detached /\ Since(callback.raw, old.at) >= Grace
              /\ engine' # engine
              => ~engine'.seat[p].played ]_vars
  BY OnlyGreeted, GreetsAfresh
<1> QED
  BY <1>1, PresenceInvariant, PTL DEF Spec, NotRevived

=============================================================================
