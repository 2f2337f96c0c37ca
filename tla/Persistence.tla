----------------------------- MODULE Persistence -----------------------------
(***************************************************************************)
(* The persistence coordinator (hotspot-arcade-cardputer.ino, 1189-1820):  *)
(* it keeps the live host ledger on the SD card while there is one and in  *)
(* NVS otherwise, arbitrates between the two at boot, and runs New Session *)
(* and Restore as transactions with a rollback.                            *)
(*                                                                         *)
(* It drives HistoryStore, whose steps are taken while a call of its is in *)
(* progress.  The NVS fallback is one record here: ActiveNvs shows that a  *)
(* write leaves the old record or the new one, and that only the mirror of *)
(* an equal generation, which erases first, may leave none.  Boot compares *)
(* NVS generations with SD sequences, so nvs is a Record whose seq is its  *)
(* generation.  HaHost is abstracted to its standings, and a change of its *)
(* revision to a change of them.  Once booted, haSdOk equals usingSd.      *)
(***************************************************************************)
EXTENDS HistoryStore

CONSTANTS Zero,           \* the standings of known players, every score at zero
          MaxFaults,      \* bound: failed writes and resets in a behaviour
          TickFirst       \* TRUE: the 250 ms tick runs between two host actions

ASSUME ZeroAssumption == Zero \in Standings \ {Empty}
ASSUME MaxFaultsAssumption == MaxFaults \in Nat
ASSUME TickFirstAssumption == TickFirst \in BOOLEAN

VARIABLES
    nvs,        \* what haActiveNvsRead would return
    p,          \* haPersistence: medium, session number, generation, provenance
    pending,    \* haPersistence.nvsMirrorPending
    dirty,      \* haPersistence.dirty
    host,       \* haHost, the live standings
    co,         \* the coordinator's call in progress
    owe,        \* history: the standings last acknowledged, and attempts since
    faults      \* failed writes and resets so far

own   == <<nvs, p, pending, dirty, host, co, owe, faults>>
pvars == <<vars, own>>

Meta == [usingSd : BOOLEAN, num : 0 .. MaxNum, gen : 0 .. MaxSeq, from : 0 .. MaxNum]
Off  == [usingSd |-> FALSE, num |-> 0, gen |-> 0, from |-> 0]

\* snap: the host when the call began; goal: what it is saving; source: the archive
\* a restore copies; was: the metadata a rollback returns to; undo: the goal is the
\* unchanged snapshot.
Task == [op : {"none", "boot", "checkpoint", "new", "restore"},
         pc : {"off", "begin", "choose", "adopting", "halt", "idle", "archiving",
               "starting", "saving", "fallback", "undoing", "rolling"},
         snap : Standings, goal : Standings, source : 0 .. MaxNum, was : Meta,
         force : BOOLEAN, discard : BOOLEAN, undo : BOOLEAN]
At(pc) == [op |-> "none", pc |-> pc, snap |-> Empty, goal |-> Empty, source |-> 0,
           was |-> Off, force |-> FALSE, discard |-> FALSE, undo |-> FALSE]

PInit ==
    /\ Init
    /\ nvs = NoRecord /\ p = Off /\ pending = FALSE /\ dirty = FALSE /\ host = Empty
    /\ co = At("off")
    /\ owe = {} /\ faults = 0

Idle      == co.pc = "idle"
Fault     == faults < MaxFaults /\ faults' = faults + 1
NoFault   == faults' = faults
NoHistory == UNCHANGED vars

\* haPersistenceZeroSessionScores
Zeroed(h) == IF h = Empty THEN Empty ELSE Zero

-----------------------------------------------------------------------------
(* Metadata, the NVS mirror and the fallback. *)

\* Fault: the generation is not refreshed.
UseHistoryMetadata_OldGeneration ==
    p' = [usingSd |-> TRUE, num |-> active.num, gen |-> Larger(p.gen, 1), from |-> active.from]

\* haPersistenceUseHistoryMetadata
UseHistoryMetadata ==
    p' = [usingSd |-> TRUE, num |-> active.num, gen |-> active.seq, from |-> active.from]
MirrorDue == pending \/ ~p.usingSd \/ p.gen # active.seq

\* haPersistenceMirrorActiveNvs and haActiveNvsCheckpointSdMirror: the verified SD
\* record replaces an NVS record that is not newer; without force it may have to wait.
\* An interrupted erase leaves nothing that could outrank the card.
MirrorActiveNvs(due, force) ==
    \/ /\ ~due \/ ~force \/ nvs.seq > active.seq
       /\ nvs' = nvs /\ pending' = due /\ NoFault
    \/ /\ due /\ nvs.seq <= active.seq
       /\ \/ nvs' = active /\ pending' = FALSE /\ NoFault
          \/ /\ nvs' \in {nvs, active, IF nvs.seq = active.seq THEN NoRecord ELSE nvs}
             /\ pending' = TRUE /\ Fault

\* Fault: the first fallback record shares the generation of the card.
FallBack_Level(advance) ==
    /\ advance <= MaxSeq - p.gen
    /\ p' = [p EXCEPT !.usingSd = FALSE]
    /\ pending' = FALSE

\* haPersistenceActivateNvsFallback
FallBack(advance) ==
    /\ advance <= MaxSeq - p.gen
    /\ p' = [p EXCEPT !.usingSd = FALSE, !.gen = p.gen + advance]
    /\ pending' = FALSE

\* haPersistenceReserveSessionNumber; 0 stands for failure.
ReserveNumber(next, floor) ==
    LET n == Larger(counter, floor) + 1 IN
    \/ n <= MaxNum /\ next = n /\ counter' = n /\ NoFault
    \/ n > MaxNum /\ next = 0 /\ counter' = counter /\ NoFault
    \/ n <= MaxNum /\ next = 0 /\ counter' \in {counter, n} /\ Fault

-----------------------------------------------------------------------------
(* Boot: setup(), 1868-1916. *)

\* haSdBegin, with or without a card
PowerOn(card) ==
    /\ co.pc = "off"
    /\ co' = [At(IF card THEN "begin" ELSE "choose") EXCEPT !.op = "boot"]
    /\ NoHistory /\ UNCHANGED <<nvs, p, pending, dirty, host, owe, faults>>

BootBegin ==
    /\ co.pc = "begin"
    /\ \/ (BeginLoads \/ BeginBlank) /\ NoFault
       \/ BeginFails /\ Fault
    /\ co' = [co EXCEPT !.pc = "choose"]
    /\ owe' = IF call'.op = "begin" THEN owe \cup {Empty} ELSE owe
    /\ UNCHANGED <<nvs, p, pending, dirty, host>>

Choosing == co.pc = "choose" /\ Ready

\* Assumption: a card that is out or unusable at boot, though its record would win, is
\* put right by another power cycle before the device is used.
Stale == ~begun /\ Newest # NoRecord /\ Newest.seq >= nvs.seq /\ Newest # nvs

\* haActiveNvsChooseSource, of the two media a boot could read
SdWins  == begun /\ active.seq >= nvs.seq
NvsWins == ~SdWins /\ nvs # NoRecord

FromNvs == [usingSd |-> FALSE, num |-> nvs.num, gen |-> nvs.seq, from |-> nvs.from]
Resume(h) ==
    /\ host' = h /\ dirty' = FALSE
    /\ owe' = {h}
    /\ co' = At("idle")

BootFromSd ==
    /\ Choosing /\ SdWins
    /\ UseHistoryMetadata
    /\ MirrorActiveNvs(TRUE, TRUE)
    /\ Resume(active.st)
    /\ NoHistory

BootFromNvs ==
    /\ Choosing /\ NvsWins /\ ~begun /\ ~Stale
    /\ p' = FromNvs
    /\ Resume(nvs.st)
    /\ NoHistory /\ UNCHANGED <<nvs, pending, faults>>

\* Fault: the number is kept although an archive has it.
BootAdopts_SameNumber ==
    /\ Choosing /\ NvsWins /\ begun
    /\ call' = [op |-> "start", pc |-> "write", rec |-> nvs, host |-> Empty]
    /\ co' = [co EXCEPT !.pc = "adopting"]
    /\ UNCHANGED <<store, ram, ghost, nvs, p, pending, dirty, host, owe, faults>>

\* haPersistenceAdoptNvsToSd: the NVS winner goes to the card at its own generation,
\* under a new number when its own already has an archive.
BootAdopts ==
    /\ Choosing /\ NvsWins /\ begun
    /\ call' = [op |-> "start", pc |-> IF Exists(nvs.num) THEN "reserve" ELSE "write",
                rec |-> nvs, host |-> Empty]
    /\ co' = [co EXCEPT !.pc = "adopting"]
    /\ UNCHANGED <<store, ram, ghost, nvs, p, pending, dirty, host, owe, faults>>

Adopted ==
    /\ co.pc = "adopting" /\ call.pc = "ok"
    /\ UseHistoryMetadata
    /\ MirrorActiveNvs(active.num # nvs.num, TRUE)
    /\ Resume(nvs.st)
    /\ NoHistory

NotAdopted ==
    /\ co.pc = "adopting" /\ call.pc = "failed"
    /\ p' = FromNvs
    /\ Resume(nvs.st)
    /\ NoHistory /\ UNCHANGED <<nvs, pending, faults>>

\* Neither medium holds a session: an empty one at generation 2, above the first
\* record of a fresh card, checkpointed before the portal may start.
BootAfresh ==
    /\ Choosing /\ ~SdWins /\ ~NvsWins /\ ~Stale
    /\ \E next \in 0 .. MaxNum :
         /\ ReserveNumber(next, 0)
         /\ p' = [Off EXCEPT !.num = next, !.gen = 2]
         /\ co' = IF next = 0 THEN At("halt")
                  ELSE [At("fallback") EXCEPT !.op = "boot", !.force = TRUE]
    /\ host' = Empty /\ dirty' = TRUE
    /\ owe' = owe \cup {Empty}
    /\ UNCHANGED <<slot, archive, index, indexValid, ram, call, ghost, nvs, pending>>

-----------------------------------------------------------------------------
(* Saving one snapshot: haPersistenceCheckpointSnapshot. *)

\* The medium in use is tried first.
Save(task) ==
    /\ IF p.usingSd
       THEN Checkpoint(task.goal, task.force, active.from) /\ co' = [task EXCEPT !.pc = "saving"]
       ELSE NoHistory /\ co' = [task EXCEPT !.pc = "fallback"]
    /\ owe' = owe \cup {task.goal}

\* Fault: what changed while the snapshot was being written is forgotten.
Succeeds_Clean ==
    /\ dirty' = FALSE
    /\ host' = IF co.op = "new" /\ ~co.undo THEN co.goal ELSE host
    /\ owe' = {co.goal}
    /\ co' = At("idle")

\* haPersistenceRecordSuccess; New Session then resets the scores of the live host.
Succeeds ==
    /\ dirty' = (co.op = "checkpoint" /\ host # co.snap)
    /\ host' = IF co.op = "new" /\ ~co.undo THEN co.goal ELSE host
    /\ owe' = {co.goal}
    /\ co' = At("idle")

\* haPersistenceRecordFailure; New Session goes on to its rollback.
Fails ==
    /\ dirty' = TRUE
    /\ co' = IF co.op = "boot" THEN At("halt")
             ELSE IF co.op = "new" /\ ~co.undo THEN [co EXCEPT !.pc = "undoing"]
             ELSE At("idle")
    /\ UNCHANGED <<host, owe>>

SavedOnSd ==
    /\ co.pc = "saving" /\ call.pc = "ok"
    /\ UseHistoryMetadata
    /\ MirrorActiveNvs(MirrorDue, co.force)
    /\ Succeeds
    /\ NoHistory

\* The card failed: NVS takes over, above the last generation the coordinator knows.
SdSaveFails ==
    /\ co.pc = "saving" /\ call.pc = "failed"
    /\ FallBack(1)
    /\ co' = [co EXCEPT !.pc = "fallback", !.force = TRUE]
    /\ NoHistory /\ UNCHANGED <<nvs, dirty, host, owe, faults>>

NoGenerationLeft ==
    /\ co.pc = "saving" /\ call.pc = "failed"
    /\ p.gen = MaxSeq
    /\ Fails
    /\ NoHistory /\ UNCHANGED <<nvs, p, pending, faults>>

\* haActiveNvsCheckpointNoSd: at least one above what NVS holds.
NextGeneration == IF p.gen > nvs.seq THEN p.gen ELSE nvs.seq + 1
NvsRecord == [num |-> p.num, seq |-> NextGeneration, from |-> p.from, st |-> co.goal]

SavedInNvs ==
    /\ co.pc = "fallback"
    /\ NextGeneration <= MaxSeq
    /\ nvs' = NvsRecord
    /\ p' = [p EXCEPT !.gen = NextGeneration]
    /\ pending' = FALSE
    /\ Succeeds
    /\ NoHistory /\ NoFault

\* The write failed, yet may be complete; without force it may not be due.
NvsSaveFails ==
    /\ co.pc = "fallback"
    /\ \/ NextGeneration <= MaxSeq /\ nvs' \in {nvs, NvsRecord} /\ Fault
       \/ (NextGeneration > MaxSeq \/ ~co.force) /\ nvs' = nvs /\ NoFault
    /\ Fails
    /\ NoHistory /\ UNCHANGED <<p, pending>>

-----------------------------------------------------------------------------
(* The host changes, and the calls that save it. *)

\* The AsyncTCP task may change the ledger at any time but within a transaction.
HostChanges(h) ==
    /\ Idle \/ co.op = "checkpoint"
    /\ h # host
    /\ host' = h /\ dirty' = TRUE
    /\ NoHistory /\ UNCHANGED <<nvs, p, pending, co, owe, faults>>

\* A key press; the loop's tick has refreshed the metadata since the last one.
HostMayAct == Idle /\ (TickFirst /\ p.usingSd => p.gen = active.seq)

\* haHostCheckpoint, haPortalPauseAndStop
ForcedCheckpoint ==
    /\ HostMayAct
    /\ Save([At("idle") EXCEPT !.op = "checkpoint", !.snap = host, !.goal = host, !.force = TRUE])
    /\ UNCHANGED <<nvs, p, pending, dirty, host, faults>>

\* haPersistenceTick on a card: metadata, then a due mirror.
TickMirrors ==
    /\ Idle /\ p.usingSd
    /\ UseHistoryMetadata
    /\ MirrorActiveNvs(MirrorDue, FALSE)
    /\ NoHistory /\ UNCHANGED <<dirty, host, co, owe>>

\* Fault: only a card is tried again.
TickSaves_CardOnly ==
    /\ Idle /\ dirty /\ p.usingSd
    /\ UseHistoryMetadata /\ pending' = MirrorDue
    /\ Save([At("idle") EXCEPT !.op = "checkpoint", !.snap = host, !.goal = host])
    /\ UNCHANGED <<nvs, dirty, host, faults>>

\* haPersistenceTick: a dirty ledger is checkpointed, unforced.
TickSaves ==
    /\ Idle /\ dirty
    /\ IF p.usingSd THEN UseHistoryMetadata /\ pending' = MirrorDue
       ELSE UNCHANGED <<p, pending>>
    /\ Save([At("idle") EXCEPT !.op = "checkpoint", !.snap = host, !.goal = host])
    /\ UNCHANGED <<nvs, dirty, host, faults>>

-----------------------------------------------------------------------------
(* New Session and Restore. *)

NewTask(discard) ==
    [At("idle") EXCEPT !.op = "new", !.snap = host, !.goal = Zeroed(host), !.was = p,
                       !.force = TRUE, !.discard = discard]
RestoreTask(n) ==
    [At("idle") EXCEPT !.op = "restore", !.snap = host, !.goal = archive[n].st,
                       !.source = n, !.was = p, !.force = TRUE]

\* haPersistenceStartNewSession and haPersistenceRestoreHistory: players first go to
\* an archive.
ArchiveFirst(task) ==
    /\ p.usingSd /\ host # Empty
    /\ Archive(host) \/ ArchiveRetry(host)
    /\ co' = [task EXCEPT !.pc = "archiving"]
    /\ owe' = owe \cup {host, Empty}
    /\ UNCHANGED <<nvs, p, pending, dirty, host, faults>>

NewSession(discard) ==
    /\ HostMayAct
    /\ \/ ArchiveFirst(NewTask(discard))
       \/ /\ p.usingSd /\ host = Empty
          /\ Save(NewTask(discard))
          /\ UNCHANGED <<nvs, p, pending, dirty, host, faults>>

\* Fault: players are dropped without a card and without a warning.
NewSessionNoSd_Silent(discard) ==
    /\ HostMayAct /\ ~p.usingSd
    /\ nvs.seq < MaxSeq
    /\ \E next \in 0 .. MaxNum :
         /\ ReserveNumber(next, p.num)
         /\ IF next = 0 THEN UNCHANGED <<p, co, owe>>
            ELSE /\ p' = [p EXCEPT !.num = next, !.from = 0]
                 /\ co' = [NewTask(discard) EXCEPT !.pc = "fallback"]
                 /\ owe' = owe \cup {Zeroed(host)}
    /\ UNCHANGED <<slot, archive, index, indexValid, ram, call, ghost>>
    /\ UNCHANGED <<nvs, pending, dirty, host>>

\* Without a card players are dropped only after the second warning.
NewSessionNoSd(discard) ==
    /\ HostMayAct /\ ~p.usingSd
    /\ host = Empty \/ discard
    /\ nvs.seq < MaxSeq
    /\ \E next \in 0 .. MaxNum :
         /\ ReserveNumber(next, p.num)
         /\ IF next = 0 THEN UNCHANGED <<p, co, owe>>
            ELSE /\ p' = [p EXCEPT !.num = next, !.from = 0]
                 /\ co' = [NewTask(discard) EXCEPT !.pc = "fallback"]
                 /\ owe' = owe \cup {Zeroed(host)}
    /\ UNCHANGED <<slot, archive, index, indexValid, ram, call, ghost>>
    /\ UNCHANGED <<nvs, pending, dirty, host>>

Restore(n) ==
    /\ HostMayAct
    /\ \/ ArchiveFirst(RestoreTask(n))
       \/ /\ p.usingSd /\ host = Empty
          /\ StartActive(archive[n].st, n)
          /\ co' = [RestoreTask(n) EXCEPT !.pc = "starting"]
          /\ owe' = owe \cup {archive[n].st}
          /\ UNCHANGED <<nvs, p, pending, dirty, host, faults>>

ArchiveDone ==
    /\ co.pc = "archiving" /\ call.pc = "ok"
    /\ UseHistoryMetadata /\ pending' = MirrorDue
    /\ \/ co.op = "new" /\ Save(co)
       \/ /\ co.op = "restore"
          /\ StartActive(co.goal, co.source)
          /\ co' = [co EXCEPT !.pc = "starting"]
          /\ owe' = owe \cup {co.goal}
    /\ UNCHANGED <<nvs, dirty, host, faults>>

\* The host may discard the players; otherwise the session stays as it is.
ArchiveFails ==
    /\ co.pc = "archiving" /\ call.pc = "failed"
    /\ IF co.discard
       THEN /\ StartActive(co.goal, 0)
            /\ co' = [co EXCEPT !.pc = "starting"]
            /\ owe' = owe \cup {co.goal}
            /\ dirty' = dirty
       ELSE /\ NoHistory
            /\ co' = At("idle")
            /\ dirty' = (dirty \/ co.op = "new")
            /\ owe' = owe
    /\ UNCHANGED <<nvs, p, pending, host, faults>>

\* The new active session is on the card and becomes the live one; a restored game
\* whose bank does not load stays dirty.
Started ==
    /\ co.pc = "starting" /\ call.pc = "ok"
    /\ UseHistoryMetadata
    /\ MirrorActiveNvs(MirrorDue, TRUE)
    /\ host' = co.goal
    /\ dirty' \in IF co.op = "new" THEN {FALSE} ELSE BOOLEAN
    /\ owe' = {co.goal}
    /\ co' = At("idle")
    /\ NoHistory

\* Rollback: the unchanged snapshot supersedes whatever the failed writes left.
RollBack ==
    /\ Checkpoint(co.snap, TRUE, co.was.from)
    /\ co' = [co EXCEPT !.pc = "rolling", !.goal = co.snap, !.undo = TRUE]
    /\ owe' = owe \cup {co.snap}
    /\ UNCHANGED <<nvs, p, pending, dirty, host, faults>>

StartFails == co.pc = "starting" /\ call.pc = "failed" /\ RollBack

Undo ==
    /\ co.pc = "undoing"
    /\ IF co.was.usingSd THEN RollBack
       ELSE /\ p' = [p EXCEPT !.num = co.was.num, !.from = co.was.from]
            /\ co' = [co EXCEPT !.pc = "fallback", !.goal = co.snap, !.undo = TRUE]
            /\ owe' = owe \cup {co.snap}
            /\ NoHistory /\ UNCHANGED <<nvs, pending, dirty, host, faults>>

RolledBack ==
    /\ co.pc = "rolling" /\ call.pc = "ok"
    /\ UseHistoryMetadata
    /\ MirrorActiveNvs(MirrorDue, TRUE)
    /\ Succeeds
    /\ NoHistory

\* The card cannot protect the snapshot: NVS, two above the generation known, or one
\* above a fallback already made.
RollbackFails ==
    /\ co.pc = "rolling" /\ call.pc = "failed"
    /\ LET from == IF co.op = "new" THEN co.was.from ELSE p.from IN
       IF p.usingSd
       THEN /\ p.gen + 2 <= MaxSeq
            /\ p' = [p EXCEPT !.usingSd = FALSE, !.gen = p.gen + 2, !.from = from]
            /\ pending' = FALSE
       ELSE /\ p.gen < MaxSeq
            /\ p' = [p EXCEPT !.gen = p.gen + 1, !.from = from]
            /\ pending' = pending
    /\ co' = [co EXCEPT !.pc = "fallback"]
    /\ NoHistory /\ UNCHANGED <<nvs, dirty, host, owe, faults>>

NotProtected ==
    /\ co.pc = "rolling" /\ call.pc = "failed"
    /\ p.gen + (IF p.usingSd THEN 2 ELSE 1) > MaxSeq
    /\ p' = [p EXCEPT !.from = IF co.op = "new" THEN co.was.from ELSE @]
    /\ Fails
    /\ NoHistory /\ UNCHANGED <<nvs, pending, faults>>

-----------------------------------------------------------------------------
(* The specification. *)

\* A step of the history call in progress; a number that does not exist is no fault.
HistoryStep ==
    /\ ~Ready
    /\ \/ GoodSteps /\ NoFault
       \/ BadSteps /\ Fault
       \/ /\ ReserveFails /\ NoFault
          /\ call.rec.seq > MaxSeq \/ Larger(Known, counter) = MaxNum
    /\ UNCHANGED <<nvs, p, pending, dirty, host, co, owe>>

\* Power goes; a device that has saved all, halted or came up without its card is switched
\* off, which is no fault.
PowerOff ==
    /\ co.pc # "off"
    /\ Crash
    /\ p' = Off /\ pending' = FALSE /\ dirty' = FALSE /\ host' = Empty
    /\ co' = At("off")
    /\ IF (Idle /\ ~dirty) \/ co.pc = "halt" \/ (Choosing /\ Stale) THEN NoFault ELSE Fault
    /\ UNCHANGED <<nvs, owe>>

BootSteps ==
    \/ \E card \in BOOLEAN : PowerOn(card)
    \/ BootBegin \/ BootFromSd \/ BootFromNvs \/ BootAdopts \/ Adopted \/ NotAdopted
    \/ BootAfresh

CallSteps ==
    \/ SavedOnSd \/ SdSaveFails \/ NoGenerationLeft \/ SavedInNvs \/ NvsSaveFails
    \/ ArchiveDone \/ ArchiveFails \/ Started \/ StartFails
    \/ Undo \/ RolledBack \/ RollbackFails \/ NotProtected

HostSteps ==
    \/ \E h \in Standings \ {Empty} : HostChanges(h)
    \/ ForcedCheckpoint
    \/ \E discard \in BOOLEAN : NewSession(discard) \/ NewSessionNoSd(discard)
    \/ \E n \in Archived : p.usingSd /\ Restore(n)

PNext ==
    \/ BootSteps
    \/ CallSteps
    \/ HostSteps
    \/ TickMirrors
    \/ TickSaves
    \/ HistoryStep
    \/ PowerOff

PSpec == PInit /\ [][PNext]_pvars

\* The loop task keeps running; an NVS write that had to wait is due 30 s later.
Fairness ==
    /\ WF_pvars(BootSteps) /\ WF_pvars(CallSteps) /\ WF_pvars(HistoryStep)
    /\ WF_pvars(TickSaves) /\ SF_pvars(SavedInNvs)

FairSpec == PSpec /\ Fairness

-----------------------------------------------------------------------------
(* Properties. *)

PTypeOK ==
    /\ nvs \in Record \cup {NoRecord}
    /\ p \in Meta /\ pending \in BOOLEAN /\ dirty \in BOOLEAN
    /\ host \in Standings
    /\ co \in Task
    /\ owe \in SUBSET Standings
    /\ faults \in 0 .. MaxFaults

\* What a boot with the card in place resumes.  A record that its archive finished is
\* replaced by an empty one two generations up.
Done(r)   == r # NoRecord /\ Exists(r.num) /\ CommitsActive(archive[r.num], r)
BootSeq   == IF Done(Newest) THEN Newest.seq + 2 ELSE Newest.seq
BootTakes == IF BootSeq >= nvs.seq THEN Newest ELSE nvs

\* An archive that a failed call left finishes the card's record, and NVS is newer.
Overruled == Done(Newest) /\ Newest.seq < nvs.seq

\* Whatever fails and whenever power goes, the standings a boot resumes, or finds
\* already archived, are the last acknowledged ones or an attempt made since.
AckedSurvives == BootTakes # NoRecord /\ ~Overruled => BootTakes.st \in owe

\* haPersistenceRecordSuccess, haPersistenceRecordFailure: while nothing is dirty, the
\* next boot gets exactly the live standings, and without a card in use also when no
\* card is found.
CleanMeansSaved ==
    Idle /\ ~dirty /\ ~Overruled =>
        /\ BootTakes.st = host
        /\ ~p.usingSd => nvs.st = host

\* haPersistence.usingSd between calls: the medium in use is the one a boot chooses.
UsedMediumWins == Idle /\ p.usingSd => BootTakes = Newest

\* haPersistenceActivateNvsFallback: the first record saved in NVS outranks the last
\* verified record of the card that failed.
FallbackOutranksSlot == Idle /\ ~p.usingSd /\ ~dirty /\ begun => nvs.seq > active.seq

\* The metadata in RAM agrees with the media: the three above and the ranges of all of it.
MediaAgree == PTypeOK /\ UsedMediumWins /\ FallbackOutranksSlot

\* haPersistenceAdoptNvsToSd: a session taken over from NVS gets a number it can later be
\* archived under; haPersistenceStartNewSession, haPersistenceRestoreHistory: unless the
\* host confirmed the discard, players leave the live ledger only once an archive holds them.
ArchivesKeepSessions ==
    [][ /\ (co.pc = "adopting" /\ p'.usingSd => ~Exists(active.num))
        /\ (host # Empty /\ Idle' /\ ~co.discard /\ co.op \in {"new", "restore"} /\ host' # host
            => \E n \in Archived : archive[n].st = host) ]_pvars

\* No generation is left, or the boot was refused.
Spent == MaxSeq \in {p.gen, nvs.seq, active.seq} \/ co.pc = "halt"

\* haPersistenceTick: when the ledger no longer changes, it ends up saved.
DirtyEndsSaved ==
    (<>[][~HostSteps]_pvars) => []<>(~dirty \/ Spent)

\* README.md:167: the device "never silently deletes a nonempty active session when
\* archiving fails".
NotDeleted == BootTakes # NoRecord => BootTakes.st \in owe

\* Comment at hotspot-arcade-cardputer.ino:1641-1643: the rollback in NVS "wins over
\* every ambiguous on-card outcome".
RollbackOutranks ==
    [][ co.undo /\ co.was.usingSd /\ co.pc = "fallback" /\ ~dirty' =>
            \A s \in Slot : nvs'.seq > slot[s].seq ]_pvars
=============================================================================
