# Hotspot Arcade for Cardputer: verification project

TLA+ models of the firmware in `src/hotspot-arcade-cardputer/` and of the parts of the pinned
engine (`src/vendor/engine/ha_games.h`) that it drives, the TLC runs that check them on small
instances, and TLAPS proofs of what matters most for every instance.

## 1. Inventory

The firmware is one ESP32 program with two actors: the **loop task** (buttons, screen, persistence,
engine ticks, portal control) and the **AsyncTCP task** (WebSocket callbacks).  They share the engine,
the host ledger, the socket table and the authorization counters under `ENGINE_LOCK`; persistence (SD
and NVS) belongs to the loop task alone. Power may go at any instruction, the SD card may be pulled at
any time.

How the parts interact:

```
 keys --> screens --> host actions --> SSID transaction --> configuration store --> card, NVS
              |          |    |              |
              |          |    |              +--> access-point life cycle --> engine pause / resume
              |          |    +--> New Session, Restore --+
              |          v                                v
              |   250 ms tick ---------> persistence coordinator --> SD history    --> card
              |                                     |            \--> NVS fallback  --> NVS
              v                                     v (snapshot under the lock)
   content transaction --> engine's bank        host ledger <--> engine seats
                                                    ^               ^
 AsyncTCP callbacks --> socket tables --> rate limit --> join authorization
                                                                    |
                                        sounds <-- sound queue <----+
                                                                    v
                                                             outbound flow --> queue of each client
```

What makes this hard: a durable operation is several writes, on two media that fail independently, with
a reset possible between any two; the loop task and the AsyncTCP task read the clock before they take
the lock and act after it; the library's queue drains behind the firmware's back; disconnect callbacks
arrive long after the socket was given up; a planned stop of the access point has to freeze two clocks,
outlive both tasks' views of it and end exactly once; a 32-bit clock wraps after 49.7 days; and several
keys of one pass each start something that may fail after the others took effect.

| Part | State | Operations | What makes it correct |
|---|---|---|---|
| Active-session NVS fallback (`ha_active_nvs.h`) | two slots of CRC-covered blobs, rate limit | read newest, checkpoint without SD, mirror of SD, erase | an acknowledged record survives any reset; generations only grow |
| Configuration store (`ha_config.h`) | SD slots A/B, one NVS blob, value and dirty flags in RAM | boot selection, commit, save, repair of mirrors | a committed setting is what the next boot loads, in whatever media remain |
| SD history (`ha_history.h`) | active slots A/B, archive files, index, session counter | checkpoint, archive, start, restore, boot recovery, catalogue | an archived session is never active again; numbers are unique |
| Persistence coordinator (`.ino` 1189-1820) | which medium is in use, generation, dirty, transaction gate | boot arbitration, checkpoint with fallback, new session, restore | the state a boot chooses is the last one acknowledged on the media present |
| Host ledger (`ha_host.h`) | roster by pid, session ledger by identity | join, leave, online, score, import, suspend | whoever plays has a row; a row shown online has a seat |
| Engine presence and transport (`ha_games.h` 1033-1345, 2325-2365) | seats, sockets, grace, logical clocks, pause | hello, takeover, disconnect, pause, resume, expiry | a seat is held for exactly its grace; a stale socket never detaches its successor |
| Access-point life cycle (`.ino` 829-1006, 1122-1139, `ha_ap_reconnect.h`) | AP, portal, reconnect deadline, required players | stop, restart, reconnect wait, expiry, early resume | the state tells the truth; the wait ends, and not before its window |
| SSID transaction (`ha_ssid_transaction.h`, `.ino` 1052-1120) | name in RAM, in force, on the air and told to phones | rename on and off the air, rollback, fallback | a boot selects the name that is on the air |
| Socket admission and rate limits (`.ino` 236-261, 700-825, `ha_network_policy.h`) | socket table, flow slots, hello deadlines, token buckets | connect, hello, disconnect, expiry, stop, message | slots come back, silent sockets go, a bucket gives its rate and no more |
| Join authorization (`.ino` 467-590) | counters per client and overall, lock-outs | identity and code asked, accepted, refused | guesses are bounded, a wait that was told is enough |
| Outbound flow (`.ino` 236-465, `ha_ws_flow_policy.h`) | per-client queue estimate, dirty snapshots | send, coalesce, drop, close, flush | a client ends with the newest snapshot; only control overload closes it |
| Sound queue (`ha_async_queue.h`) | bounded ring | push, pop | FIFO, bounded, drops counted |
| Content transaction (`ha_games.h` 1033-1055, 1339-1480, `ha_content.h`) | live and staged bank | begin, pack, item, commit, abort | the live bank changes whole or not at all |
| Device screens (`ha_ui.h`) | view, cursor, where to go back, page of the history | every key | a cursor stays on what is shown; game, language and bank agree |
| Games (`ha_games.h`) | one game's runtime state | per-game handlers | not modelled |
| Text, event formatting, boards, tools (`ha_event_format.h`, `ha_utf8.h`, `ha_device.h`, `tools/`) | presentation, or none at run time | | not modelled |

## 2. Plan

In the order of what a failure would cost the players; each module was written so that it can be proved
about as well as checked.

1. `StableRecord`, `ActiveNvs`: the NVS fallback refines one stable record. *Done, proved.*
2. `HistoryStore`: the card's slots, archives, index and counter. *Done but for the legacy import; proved.*
3. `Persistence`, composing `HistoryStore` with one NVS record (what `ActiveNvs` is shown to implement). *Done, proved.*
4. `WsFlow`: outbound flow of one client. *Done, proved.*
5. `ConfigStore`: the settings on two media. *Done, proved.*
6. `Seats`, and over it `Presence` (tasks against each other) and `ApLifecycle` (planned stops). *Done, proved.*
7. `SsidChange`, composing `ConfigStore` with the rename transaction. *Done, proved.*
8. `Millis`, `TokenBucket`, `Authorization`, `Admission`, `AsyncQueue` over the abstract `BoundedFifo`: a
   phone's way in. *Done, proved.*
9. `Content`, and over it `Console`: the bank of questions and the host's keys. *Done, proved.*

What would come next: the adoption of legacy rows by nickname and the scores of the ledger; the legacy
import of the card; and the games, one module each
over a common deadline and roster interface, the ones with votes and deadlines first.

## 3. Modules

Every module names the source's functions at its definitions; `PROJECT.json` gives the lines. A
definition `X_Y` preceded by "Fault:" is a plausible bug of `X`, used to show that a property can fail;
no specification reaches it. `MC*.tla` give the constants their values.

| Module | State, and what it stands for | Actions |
|---|---|---|
| `StableRecord` | one durable record, a goal, a mode: the abstract specification of the NVS fallback | put whole or not at all; replace may lose |
| `ActiveNvs` | `nvs`: two slots of blobs; `job`: the call in progress; `due`: the rate limit | each `putBytes`, its failure, the read-back, the erase of a mirror, reset |
| `HistoryStore` | `slot`, `archive`, `index`, `counter` on the media; `active`, `at`, `maxNum` in RAM; `call` | one action per durable write of begin, checkpoint, archive, start and restore, each with its failures; `Crash` between any two |
| `Persistence` | the store's, `nvs`, `p` (`haPersistence`), `dirty`, `host`, `co` (the coordinator's call) | boot arbitration, checkpoint with fallback, adoption, New Session, Restore, rollback, the tick, ledger changes at any time |
| `WsFlow` | `queue` of the library, `tracker`, `cache`, `job` | each class of send in its steps, drain by acknowledgement between any two, flush, reconnect |
| `ConfigStore` | `slot`, `nvs`, `legacy`, `imported`; `value` and dirty marks in RAM; `job` | boot, commit, save, repair, the rename of version 1's file with its failures and its two names, one action per durable write; version 1 run again; power off |
| `Seats` | operators only: the engine's seats, clock and pause, the ledger's presence | hello, takeover, disconnect, expiry, pause, suspend, resume, one operator per call under the lock |
| `Presence` | `engine`, sockets, callback in flight, loop position, queued disconnects | connect, callback arrival and execution, loop pass, transaction with its queue |
| `ApLifecycle` | `engine`, portal, gate, `haApState`, required roster, loop position | pause, checkpoint outcome, suspend, stop, start, wait, evaluate, resume, restore, callbacks |
| `SsidChange` | `apName`, `air`, `state`, `told`, `step` over `ConfigStore` | rename, switch, each step of the transaction, settings save, restore |
| `Millis` | `clock`: `millis()` modulo `Word`; unsigned difference, signed time left | a tick |
| `TokenBucket` | `bucket`: one `HaTokenBucket` in fractions of a message | a message of the class, whenever it comes |
| `Authorization` | `clients`, `overall`: the counters of `haAuthClients`, `haAuthGlobal`; `rows`, `seated` | a known identity, a throttled one, one that finds no room, a right or a wrong code; leave; restore |
| `Admission` | `slot`, `since`: `haSockets`; `flows`: `haWsFlow`; `tick`: the loop's reading and list | connect, hello, disconnect callback, reading, expiry, closing of the list, suspension, stop, start |
| `AsyncQueue`, `BoundedFifo` | the ring with its two ends; the abstract queue it implements | push, pop |
| `Content` | `live`, `stage`, `sheets`, `play`, `loader`: the two banks and the load in progress | begin, each pack, commit, abort, each with its failures |
| `Console` | `ui`, `hist`, `lang`, `dirty`, `pass`: the host's views and a pass of the loop, over `Content` | every key, the archive, discard and restore they start, the reload of the chosen language |

**Reading a call.** The loop task runs a storage operation to its end, but the power may fail inside it.
So a storage module takes one step per durable write and keeps its progress in `job`, `call`, `co` or
`step`; code between two writes belongs to the step before or after. The callbacks of the AsyncTCP task
are single steps where they hold `ENGINE_LOCK` throughout; the reading of `millis()` before the lock is
a step of its own in `Presence`, `ApLifecycle` and `Admission`. `WsFlow` lets the library's queue shrink
between any two steps, which is where the code reads a depth and then uses it.

**Data.** A record is its generation or sequence and what tells two contents apart; the CRC makes it
readable whole or not at all. A session is its standings; in `ConfigStore` a setting is one value, in
`SsidChange` the name. A bank is the game, the language, where its packs come from and how many were
loaded. Clock readings are taken modulo `Word`, so a difference wraps as `uint32_t` does, and a signed
one splits the range in half. Generations and session numbers saturate at their greatest value, as the
code does at `UINT32_MAX`.

## 4. Runs

| Run | Question | Bounds |
|---|---|---|
| `storage` | either medium by itself. NVS: does a reset or failed blob ever lose an acknowledged record; is it a `StableRecord`? The card: does it keep what it acknowledged and finish what it archived? | NVS: 2 blobs a slot (every partition of a torn envelope into old and new), 2 contents, generations to 3, the last one standing for `UINT32_MAX`. Card: 3 session numbers (one archived, one active, one more), sequences to 6, 2 played contents and the empty one; failed writes may stay readable |
| `persistence` | does the medium a boot chooses hold what was last acknowledged; does an archive ever take a living session's place; is a change saved in the end? | 2 numbers, generations to 4, 2 failures or resets in a behaviour, 3 kinds of standings |
| `persistence_archive` | is a session ever deleted after its archiving failed? It is (section 7) | 3 numbers, generations to 6, 2 failures |
| `ssid_change` | does a boot select what is on the air; and beneath it, do settings survive, are mirrors exact and repaired, are the originals of version 1 kept? | 3 names, generations to 4 (so that the counter can also run out inside a rename), 3 failures or resets |
| `presence` | one seat a socket, no ghost, ledger and seats agree, nobody comes back after the grace | 2 phones, 2 sockets, 2 seats, a clock of 6 values, grace 2, loop and callback readings up to 1 ms old |
| `presence_grace` | is a seat ever taken before its 120 seconds? It is (section 7) | as `presence`, a clock of 5 values |
| `ap_lifecycle` | the state machine, the barrier, the end of the wait, and who keeps a seat across planned stops | 2 phones, 2 sockets, window 2 and grace 1, a clock of 6 values, loop and callback readings up to 1 ms old |
| `ap_window` | is a wait ever ended before its ten minutes? It is (section 7) | 1 phone, window 3 and grace 2, a clock of 6 values |
| `door` | rate, guesses, lock-outs, room, slots, deadlines and the queue on a phone's way in; order, loss, overload and delivery of the snapshots on the way out | see below |
| `door_uptime` | is an unknown phone refused by a lock-out that never was? It is (section 7) | as `door` |
| `console` | bank, game, language, cursor and session under every key | 3 games (the lobby, one with both languages, one that falls back), 2 languages, pages of 2 of 3 archives, 2 keys in a pass, any step of a load may fail |
| `console_discard` | does a key confirm what it was not pressed for? It does (section 7) | as `console` |

`door` composes five parts that share no state but the clock, and `storage` the two stores, which share
none: a behaviour is one of any of them, chosen by `part` in the initial state. A product would show
nothing more. The clock of `door`
has 12 values. The bucket holds 2 messages at 2 in 3 ms with 4 fractions each, so that divisions leave
every remainder; 2 clients share one bucket (so that the least recently seen one is displaced), lock
after 2 failures of their own or 3 of all, in a window and a lock-out of 3; 2 guests compete for one row
and 2 seats; 3 sockets compete for 2 pending places, with a deadline of 2, a loop period of 2 and a lag of 1; the
ring holds 3 of 3 kinds of requests. Of the outbound flow depths 2 and 4, 2 controls and capacity 8 stand
for 4, 8, 16 and 32: each threshold can be met, passed and left again; 3 versions of each of 2 kinds.

Two bounds are tight: with generations to 4 in `persistence` a New Session with players on a card, or a
Restore, hardly comes to its end, so the second half of `ArchivesKeepSessions` rests mostly on the
theorem `SessionsKept`; and in `presence` a socket greets with one identity only.

Why the bounds are enough. Storage properties are about which of two writes came first, so two
contents, two or three generations beyond the first and as many failures as a call has media reach every
order of "old, new, torn"; the counter's end is inside the bound. The clocks are counted modulo a `Word`
just larger than the longest interval that is measured plus the lags, so a wrap happens in nearly every
behaviour; `door` takes one larger than twice its lock-out, so that the sign of a difference means what it
does in the code. Phones are symmetric, and the conflicts of two (a takeover, a seat reused) need no third.
`SYMMETRY` is used with invariants and action properties only. So is the `VIEW` of `presence` and
`ap_lifecycle`: every guard and every property uses a clock reading only in a difference modulo `Word`,
so states that differ by a shift of all raw readings, or of all readings of the session clock, have the
same behaviours up to that shift; the view keeps one of them, and of a reading nobody will use (the time
of a seat that is not detached, the start of a wait that is over) nothing. Their `CONSTRAINT` cuts nothing:
`AllEvaluated` is true of every state and makes TLC evaluate the functions in a state that the view alone
would leave unevaluated. The `VIEW` of `console` leaves out a cursor, a way back and a fate that no key of
the view on show reads: they are set again before one does.

**Deadlock** is checked in every run: each state has a successor.

**Fairness.** Three runs need it.
- `persistence`, for `DirtyEndsSaved`: the loop task keeps running (a boot and a call go on, the tick
  comes), and a write to NVS that keeps being tried succeeds at times (strong fairness of `SavedInNvs`:
  the 30-second deferral ends and flash does not fail for ever). Nothing is asked of the card.
- `door`, for `NewestDelivered`: the client acknowledges what is queued or is gone, the loop flushes in
  each pass, and memory that was short comes back (strong fairness of `FlushEnqueued`).
- `ssid_change`, for `MirrorsEndClean`: a transaction, a boot and a call go on, and the repair of
  `haPersistenceTick`, which comes every five seconds, gets its turn between two key actions (strong
  fairness: the host does not press keys for ever without a pause of one pass). Failures are bounded by
  `MaxFaults`, which is the same as asking that they end.

**Assumptions about the environment**, each a named constant or operator:
- `Readable`: whether a write the code saw fail may still be readable. TRUE for the card's history.
  FALSE in `Persistence`, `ConfigStore` and `SsidChange`: with TRUE the disagreements of section 7 come
  first.
- `TickFirst`: the 250 ms tick runs between two host actions. Without it `FallbackOutranksSlot` fails.
- `MayLeave` (`ConfigStore`): the card is not taken out while it alone holds the settings in force.
- `LoopLag`, `CallbackLag`, `Period`, `TickLag`, `TickPeriod`: how old a clock reading may be when used
  and how long a pass may take. Every run that has them takes a lag of both tasks.
- `KeptUnlessStale` speaks of readings that are not older than what they are compared with: who was left
  and who is missing keep the seat unless a task judges by a reading from before the leave, or from before
  the start of the wait. What such a reading does is shown by `presence_grace` and `ap_window`. The wait is
  the harder case. `startPortalTransport` always spends 100 ms between the reading of a pass and the start
  of the wait, so in the code as it stands the pass that starts a wait also ends it. The model lets these
  100 ms be a step of its clock or less than one; in the behaviours where they are less, `RequiredAgrees`,
  `WaitEnds` and `KeptUnlessStale` show what the wait does once the ticks of a pass no longer precede its
  keys in time.
- `RetryIsEnough` speaks of a clock that has not run half its range since the boot; what happens after is
  the disagreement `door_uptime` shows. `FailuresBounded` leaves out a lock-out whose deadline falls
  exactly on zero, which the code takes for none, and a client whose counter was displaced meanwhile.
- `MaxChord`: how many keys reach one pass of the loop. With three `ContentAgrees` fails (section 7).

## 5. Properties

Each is stated in words at its definition. The ones that took most finding:
- `AckedSurvives`, `CleanMeansSaved` (`Persistence`): what a boot would choose, computed from media
  alone, is what was last acknowledged, or exactly the live standings while nothing is dirty.
- `ArchivesKeepSessions` (`Persistence`): players leave the ledger only when an archive holds them or the
  host said so, and a session that comes back from NVS gets a number no archive has.
- `ResumedNotArchived` (`HistoryStore`): no boot makes a session active that an archive has finished,
  wherever the power went in between.
- `QueuesAgree` (`WsFlow`): the tracker, which only sees depths, stays aligned with a queue that drains
  behind it.
- `RequiredAgrees` (`ApLifecycle`): the barrier kept by identities in the firmware and the one kept by
  seats in the engine open together.
- `KeptUnlessStale` (`ApLifecycle`): the milliseconds that really passed, counted beside the code, decide
  who may be finalized, whatever was paused, renamed and resumed in between and whichever task judges.
- `LegacyPreserved` (`ConfigStore`): version 1's original is moved by a rename that may fail or stop
  half-way, may find another original in its place, and may come back when version 1 runs again.
- `OneNameEverywhere` (`SsidChange`): at every step inside a rename, whatever is on the air is the
  name a boot would select.
- `FailuresBounded` (`Authorization`): any interval as long as a window holds at most twice the limit of
  wrong codes less two, because a counter's window starts at the first failure and not at each.
- `SlotsReturn`, `DeadlineKept` (`Admission`): three paths give a slot back (callback, deadline, stop)
  and each may come first or twice; and only the silent are expired.
- `PaceHeard` (`TokenBucket`): the fractions that a division drops never cost a message that keeps to
  the rate.
- `FailureChangesNothing`, `ContentAgrees` (`Content`, `Console`): a load that fails leaves bank, round and
  points as they were, and what the host's screen says is played is what the engine's bank holds.

`PROJECT.json` lists the hazards, each at its line with the properties that cover it, and for each
property a mutation of the modelled code that breaks it.

## 6. Proofs

For every value of the constants, under the named assumptions of the modules:

| Module | Invariant | Theorems |
|---|---|---|
| `ActiveNvsProofs` | a call past its checks writes only the slot a boot does *not* read, and that slot is older, or torn, or already all of its envelope | `Invariant`, `TypeCorrect`, `Durability`, `Unambiguous`, `NoRegress`, `Implementation` (refinement of `StableRecord`) |
| `StorageProofs`, of `HistoryStore` | the active record is on the card; the other slot is empty, older, or an attempt newer than it; finished numbers are below the active one; inside a call the record to be written outranks both. For what a boot resumes also (`ResumeInv`): no archive's number is above the active record's, and the record a begin writes has a number above it | `Invariant`, `BootDurable`, `FinishedForGood`, `StoreTypeCorrect`, `BootResumesUnfinished` |
| `StorageProofs`, of `Persistence` | of the card (`SInv`, every generation of which is kept by the store's own lemmas where the step is one of the store's): the active record is there, the other slot is older, the record to be written outranks both, no archive has a number above the newest. Of the coordinator: at each step of a save, a New Session, a restoration and a boot, how the generations in RAM, in NVS and on the card compare, and where the acknowledged standings are | `PersistenceInvariant`, `AckedForGood`, `CleanIsSaved`, `MediaAgreement`, `SessionsKept` |
| `SettingsProofs` | of the store: the record in force outranks or equals every record on every medium, and a mirror that is not marked holds it; between the two writes of a commit the new record does. Of the rename over it: for each step of the transaction which name is in RAM, in force and being saved | `ConfigInvariant`, `SettingsSurvive`, `MirrorsExact`, `OriginalPreserved`; `NamingInvariant`, `UsesTheStore`, `OneName`, `BootFollowsTheAir`, `NamesFollow` |
| `TransportProofs`, of `WsFlow` | past the drop depth a queue holds controls only, so their limit bounds it; versions are ranked from taken over queued to cached, and a retry sends what is cached | `TrackerFollows`, `OverloadedWhenClosed`, `SnapshotsInOrder` |
| `TransportProofs`, of a phone's way in | of the queues: what the bucket holds and what was let through is at most the burst and what was earned (`Spends`), and at least that while it was never full (`Saves`); the ring's mapping to a sequence. Of admission: the list of a tick has room for every pending socket, and who was not late at the last tick is late by at most the time since; a client owns one counter, a counter in force is younger than its window, and a wait that was told reaches its lock-out. Of the wrong codes of the last window (`GuessInv`): at most the limit less two while none is counted, as many more as are counted while some are, and in a lock-out none that outlasts it | `BucketInvariant`, `RateIsKept`, `PaceIsHeard`, `QueueIsFifo` (refinement of `BoundedFifo`); `AdmissionInvariant`, `SlotsComeBack`, `DeadlinesAreKept`, `RowsSuffice`, `AuthInvariant`, `RetrySuffices`, `GuessInvariant`, `GuessesBounded` |
| `SeatsProofs` | none: what every call of the engine and the ledger keeps and changes, as lemmas for the two modules below | |
| `PresenceProofs` | identities, seats and sockets are one to one; a row is online exactly when its identity's seat has a socket that is not queued (`Matched`); a seated socket is there, was let in and is of the seat's phone, and who was let in sits (`Owns`); what is queued is of distinct sockets that are gone and still have a seat (`Departed`); while another session is restored nobody is let in who could still play the old one (`Shut`) | `PresenceInvariant`, `TypeCorrect`, `SeatsAndSockets`, `LedgerIsTrue`, `NoneRevived` |
| `ApLifecycleProofs` | what portal, gate and pause are at each stage of a stop, a start and a restore; a seat's socket is in the table and the table's sockets are of this life; the loop's reading is no older than a pass, and the last pass saw the window open; a row is online exactly when its identity's one seat has a socket, and while paused an identity is required exactly when its seat is expected or gone. Of who keeps a seat (`KeptInv`): who was left has no socket, who is missing was left in this pause (`Away`); a wait is as old as its count (`WaitInv`), and the loop is about to expire the missing at the end of their window only (`Timed`) | `ApInvariant`, `StateIsTrue`, `SeatsAreLive`, `WaitsEnd`, `BarriersAgree`, `SeatsAreKept` |
| `ConsoleProofs` | of a load: what is staged is, up to the pack it has come to, the bank it is to end with, and nothing else has changed (`ContentInv`). Of the screens: every way to another view sets the cursor or keeps the rows it points into (`ScreenInv`). Of both: the bank is that of the host's game in the language *last loaded*, and a language chosen but not loaded yet was chosen by the last key that may come in the pass, or the settings are still on show, so no other load comes before its own (`HostInv`) | `ConsoleInvariant`, `BankIsWhole`, `FailedLoadIsNone`, `CursorStays`, `QuestionsFollowTheHost` |

`AuthAssumption` asks that a lock-out is no shorter than the window its failures are counted in: the code
has 60 s for both, and with a shorter one the history would hold more than the counters admit.

`WaitsEnd` and `SeatsAreKept` ask a little more of the constants than the model does: a pass of the loop
and the pause to the next must fit the clock's range twice beside the window; `SeatsAreKept` also asks for
a grace above zero.

Why a strengthening is needed each time: the property speaks of what a boot reads, of a bound on a
queue, of the end of a wait, and whether the next step can spoil it depends on state the property does
not mention: which slot the call in progress is going to write, which classes wait past a depth, how old
the loop's reading is. The invariants tie the two together. The configuration proofs assume `~Readable`;
the persistence proofs assume `~Readable` and `TickFirst`, the constants of
the run `persistence`: without either TLC finds an acknowledged change lost (section 7), so the theorems
are as strong as the code allows. `QuestionsFollowTheHost` assumes `MaxChord <= 2`, at most two keys in a
pass of the loop, for the same reason (`MCConsoleChord.cfg`). Nothing else is assumed beyond the modules'
own assumptions. Each preservation proof has a lemma per action, and the
composition `SsidChange` reuses the store's `StepOk`: its own lemmas show only that each of its steps is a
step or a stutter of the store (`Kept`) and keeps the naming part.

In `Presence` a transaction ends by replaying its queue, a recursion over the queue's length. `Replaying`
follows it entry by entry: it proves that an entry's disconnect takes `Matched` from the sockets that are
still queued to those without this one (`MatchedReplayed`), and that the entries it holds after climb from
0 to the length (`Climbing`, by the least one it would fail for). That the recursive function exists at all
is proved the same way (`OnwardsExists`).

`SeatsAreKept` is shown call by call and for every lag: each operator of `Seats` keeps `Away`, advances
the session's time by what its reading says (`SessionTime`) and finalizes only who is past the grace at
that time; `Spared` puts the calls of a step together, where the second use of a reading adds nothing
(`SameReading`). A reading from after the leave is as old on the session's clock as on `millis()`
(`Alike`), so who is within the grace by the time that really passed is within it by the reading
(`ReadInGrace`). The only way to a seat of the missing (`Expires`) is the deadline, `Timed` ties it to the
reading it was seen with, and the count of the milliseconds waited (`WaitInv`) to the one that passed.

`OriginalPreserved`: no step but version 1's own takes an original from both names (`Originals`), the
rename's half-way state is one with both, and a boot that finds nothing else imports before it hides.

`RowsSuffice` promises a row to whoever has a seat, not a seat to whoever is let in. `GuessesBounded` and
`DeadlinesAreKept` have the exceptions of their properties: a counter that was displaced, a lock-out that
ends at zero; a socket that connected after the loop's reading.

Only model-checked: every liveness property, since the prover does not reason about fairness and
`ENABLED`. No module uses recursive operators where a theorem stands.

## 7. Where the code and its documentation disagree

Runs that TLC finds violated, as expected:
- `persistence_archive`, `NotDeleted`: an archive that was installed by a call that then failed makes,
  if the session goes on in NVS, the next boot with the card start an empty session that outranks the
  live one.
- `door_uptime`, `RefusedOnlyLocked`: the time left to a lock-out is asked of a counter that has none;
  24.9 days after the boot every unknown phone is told to wait.
- `presence_grace`, `GraceKept`: `loop()` reads the clock once and ticks the engine with that reading after
  its keys and the callbacks have used later ones; an unsigned difference wraps and a seat left in the same
  pass is expired at once, not after 120 seconds.
- `ap_window`, `WindowKept`: the same stale reading ends the reconnect window in the pass that began it and
  finalizes everyone who was waited for. The 100 ms of `startPortalTransport` always lie between the two.
- `console_discard`, `DiscardPressedAgain`: a Y that is held down since the first confirmation confirms the
  second one as soon as any other key moves.

`FailuresBounded` is also less than the documentation says, by design of the code: "five per minute" is
counted in windows that begin with a failure, so a minute that lies across two of them may hold eight, and
a client whose counter is displaced by others, or whose lock-out ends at a reading of zero, starts afresh.

Configurations kept for running by hand, each violated too:
- `MCHistoryRetry.cfg`, `RetryIsProvable`: the archive of a failed call can be retried only until the
  next checkpoint; after it, archiving that session is refused for good.
- `MCDoorHello.cfg`, `FiveSeconds`: the same stale reading closes a socket that connected after it, at once.
- `MCConsoleChord.cfg`, `ContentAgrees`: three keys in one pass (language, game, and one that fails) leave
  the screen with a game whose bank is another's.
- `MCPersistenceTie.cfg`, `MCConfigTie.cfg`: a write to the card that failed its read-back but is
  complete ties with a later record of the same generation in NVS, and the older one wins.
- `MCPersistenceRollback.cfg`, `RollbackOutranks`: the rollback in NVS does not outrank a replacement
  record that failed but stayed readable.
- `MCPersistenceTick.cfg`, `FallbackOutranksSlot`: two host actions without a tick between them.
- `MCSsidTold.cfg`, `ToldWhatRuns`: after a rename that ended offline and another made while off, the
  switch starts the access point with the first name still in the pause phones are told about.

## 8. Not modelled

Listed with reasons under `components` in `PROJECT.json`: the rounds of the games (the largest part of
the engine; their banks, their end and their seats are modelled, their rules are games of their own);
formatting and parsing (pure conversions of strings); boards and diagnostics (names and counters that are
only shown); network libraries, web client, packs and tools (external).

In modelled parts: the ledger's legacy nicknames, scores, play counts and event log; the history's legacy
import and the contents of its index (the catalogue is a number of archives and a page of it); audio and
language settings, one value with the name in the stores; the drawing of screens, the editor's text and
scrolling; whether a code is right (a free choice); heap thresholds (memory is short or not at any step
of a load); the contents of messages and the sizes of buffers. A commit of `Content` leaves out that
`contentCommit` also synchronises the engine's clocks and finalizes who is past the grace: that is
`Entered` in `Seats`, where every call under the lock does it.
