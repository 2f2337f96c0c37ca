---------------------------- MODULE HistoryStore ----------------------------
(***************************************************************************)
(* The SD history (hotspot-arcade-cardputer/ha_history.h): the active      *)
(* session in two alternating slots, immutable archives, the catalogue     *)
(* index and the session counter in NVS.                                   *)
(*                                                                         *)
(* Only the loop task runs this code.  A call is a sequence of steps, one  *)
(* per durable write; each write may fail, and power may go before each.   *)
(* A record is abstracted to its number, sequence, provenance and          *)
(* standings; its CRC makes it readable whole or not at all.               *)
(***************************************************************************)
EXTENDS Naturals

CONSTANTS Standings,      \* contents of a session: players, scores, games played
          Empty,          \* the standings of a session without players
          MaxNum,         \* UINT32_MAX, of session numbers
          MaxSeq,         \* UINT32_MAX, of sequence numbers
          Readable        \* TRUE when a write that failed may still be readable

ASSUME EmptyAssumption  == Empty \in Standings
ASSUME MaxNumAssumption == MaxNum \in Nat /\ MaxNum > 0
ASSUME MaxSeqAssumption == MaxSeq \in Nat /\ MaxSeq > 3
ASSUME ReadableAssumption == Readable \in BOOLEAN

Num    == 1 .. MaxNum
Seq    == 1 .. MaxSeq
Slot   == {0, 1}
NoSlot == 2
Record == [num : Num, seq : Seq, from : 0 .. MaxNum, st : Standings]
NoRecord == [num |-> 0, seq |-> 0, from |-> 0, st |-> Empty]

VARIABLES
    slot,       \* active.a and active.b
    archive,    \* history/S%08u.ha by number
    index,      \* the numbers index.bin lists
    indexValid, \* index.bin is present and its CRC matches
    counter,    \* NVS "ha_hist"/"n", the last number reserved
    begun,      \* haHistRt.begun
    active,     \* haHistActive
    at,         \* haHistRt.activeSlot, NoSlot for -1
    maxNum,     \* haHist.maxNum
    call,       \* the call in progress, [op, pc, rec, host]
    may,        \* history: the last record verified, and attempts since that are in a slot
    finished    \* history: the sessions whose archiving was acknowledged

store == <<slot, archive, index, indexValid, counter>>
ram   == <<begun, active, at, maxNum>>
ghost == <<may, finished>>
vars  == <<store, ram, call, ghost>>

Op == {"none", "begin", "checkpoint", "archive", "start"}
Pc == {"ok", "failed", "checkpoint", "install", "index", "reserve", "write"}

Draft == [num : 0 .. MaxNum, seq : Nat, from : 0 .. MaxNum, st : Standings]
Call  == [op : Op, pc : Pc, rec : Draft, host : Standings]

\* Between calls "pc" keeps the result of the last one.
Returned(result) == [op |-> "none", pc |-> result, rec |-> NoRecord, host |-> Empty]
Ready == call.pc \in {"ok", "failed"}

Init ==
    /\ slot = [s \in Slot |-> NoRecord]
    /\ archive = [n \in Num |-> NoRecord]
    /\ index = {} /\ indexValid = FALSE
    /\ counter = 0
    /\ begun = FALSE /\ active = NoRecord /\ at = NoSlot /\ maxNum = 0
    /\ call = Returned("failed")
    /\ may = {} /\ finished = {}

-----------------------------------------------------------------------------
(* Helpers. *)

Exists(n) == archive[n] # NoRecord
Archived  == {n \in Num : Exists(n)}

\* The slot a boot takes: B only if A is unreadable or B strictly newer.
NewestIsB == slot[1] # NoRecord /\ (slot[0] = NoRecord \/ slot[1].seq > slot[0].seq)
Newest    == IF NewestIsB THEN slot[1] ELSE slot[0]

SameState(a, b) == a.from = b.from /\ a.st = b.st

\* haHistArchiveCommitsActive: the archive that finishes exactly this record.
CommitsActive(a, r) ==
    /\ r.seq # MaxSeq
    /\ a.num = r.num /\ a.seq = r.seq + 1
    /\ SameState(a, r)

Larger(a, b) == IF a > b THEN a ELSE b

\* haHistRefreshStats: the highest number the index lists, 0 when it is empty.
StatsRefreshed == maxNum' \in {n \in {0} \cup index' : \A m \in index' : m <= n}

\* haHistWriteActive's target: never the slot that holds the active record.
Target == IF at = 0 THEN 1 ELSE 0

\* haHistWriteActive, the record read back equal.
WriteVerified(r) ==
    /\ slot' = [slot EXCEPT ![Target] = r]
    /\ active' = r
    /\ at' = Target
    /\ may' = {r}

\* Fault: a failed write takes the active record with it.
WriteUnverified_InPlace(r) ==
    /\ slot' = [slot EXCEPT ![IF at = NoSlot THEN 0 ELSE at] = NoRecord]
    /\ may' = (may \cup {r}) \cap {slot'[0], slot'[1]}
    /\ UNCHANGED <<active, at>>

\* haHistWriteActive returning false: the file is as it was (the card is gone),
\* removed, torn, or complete although it could not be read back.
WriteUnverified(r) ==
    /\ \E left \in {slot[Target], NoRecord, IF Readable THEN r ELSE NoRecord} :
           slot' = [slot EXCEPT ![Target] = left]
    /\ may' = (may \cup {r}) \cap {slot'[0], slot'[1]}
    /\ UNCHANGED <<active, at>>

\* haHistIndexRebuild: a failure keeps the old index or leaves none.
RebuildOk   == index' = Archived /\ indexValid' = TRUE
RebuildFails == index' = index /\ indexValid' \in {indexValid, FALSE}

-----------------------------------------------------------------------------
(* haHistBegin. *)

Begin == ~begun /\ Ready

\* haHistRefreshStats cannot load or rebuild the index.
BeginFails ==
    /\ Begin
    /\ RebuildFails
    /\ maxNum' = 0
    /\ call' = Returned("failed")
    /\ UNCHANGED <<slot, archive, counter, begun, active, at, ghost>>

\* Fault: an archive that already finished the active record is not looked for.
BeginLoads_NoSuppression ==
    /\ Begin
    /\ IF indexValid THEN UNCHANGED <<index, indexValid>> ELSE RebuildOk
    /\ StatsRefreshed
    /\ Newest # NoRecord
    /\ active' = Newest /\ at' = IF NewestIsB THEN 1 ELSE 0
    /\ begun' = TRUE
    /\ call' = Returned("ok")
    /\ UNCHANGED <<slot, archive, counter, ghost>>

\* Both slots are read; a record its own archive already finished is not resumed.
BeginLoads ==
    /\ Begin
    /\ IF indexValid THEN UNCHANGED <<index, indexValid>> ELSE RebuildOk
    /\ StatsRefreshed
    /\ Newest # NoRecord
    /\ active' = Newest /\ at' = IF NewestIsB THEN 1 ELSE 0
    /\ LET done == Exists(Newest.num) /\ CommitsActive(archive[Newest.num], Newest) IN
       /\ begun' = ~done
       /\ call' = IF done THEN [op |-> "begin", pc |-> "index", host |-> Empty,
                                rec |-> [NoRecord EXCEPT !.seq = Newest.seq + 2]]
                  ELSE Returned("ok")
    /\ UNCHANGED <<slot, archive, counter, ghost>>

\* A card without a readable active record gets its first empty one.
BeginBlank ==
    /\ Begin
    /\ IF indexValid THEN UNCHANGED <<index, indexValid>> ELSE RebuildOk
    /\ StatsRefreshed
    /\ Newest = NoRecord
    /\ call' = [op |-> "begin", pc |-> "reserve", host |-> Empty,
                rec |-> [NoRecord EXCEPT !.seq = 1]]
    /\ UNCHANGED <<slot, archive, counter, begun, active, at, ghost>>

-----------------------------------------------------------------------------
(* The first step of each call on a begun store. *)

\* haHistCheckpointPrepared: without force, a state that is already active is not
\* written again.
Checkpoint(h, force, from) ==
    /\ begun /\ Ready
    /\ call' = IF ~force /\ active.st = h /\ active.from = from THEN Returned("ok")
               ELSE IF active.seq = MaxSeq THEN Returned("failed")
               ELSE [op |-> "checkpoint", pc |-> "write", host |-> Empty,
                     rec |-> [num |-> active.num, seq |-> active.seq + 1,
                              from |-> from, st |-> h]]
    /\ UNCHANGED <<store, ram, ghost>>

\* haHistStartNewActive (from = 0) and haHistStartRestoredActive
StartActive(h, from) ==
    /\ begun /\ Ready
    /\ call' = IF active.seq = MaxSeq THEN Returned("failed")
               ELSE [op |-> "start", pc |-> "reserve", host |-> Empty,
                     rec |-> [num |-> 0, seq |-> active.seq + 1, from |-> from, st |-> h]]
    /\ UNCHANGED <<store, ram, ghost>>

\* haHistArchive while three more generations are left: a number without an archive
\* is first checkpointed.
Archive(h) ==
    /\ begun /\ Ready
    /\ ~Exists(active.num)
    /\ call' = IF active.seq + 3 > MaxSeq THEN Returned("failed")
               ELSE [op |-> "archive", pc |-> "checkpoint", host |-> h,
                     rec |-> [num |-> active.num, seq |-> active.seq + 1,
                              from |-> active.from, st |-> h]]
    /\ UNCHANGED <<store, ram, ghost>>

FinishWith(h) == [op |-> "archive", pc |-> "index", host |-> h,
                  rec |-> [NoRecord EXCEPT !.seq = active.seq + 2]]

\* Fault: any archive of the number is taken for the one this call would write.
ArchiveRetry_NoComparison(h) ==
    /\ begun /\ Ready
    /\ Exists(active.num)
    /\ call' = IF active.seq + 3 > MaxSeq THEN Returned("failed") ELSE FinishWith(h)
    /\ UNCHANGED <<store, ram, ghost>>

\* haHistArchive after an earlier call installed the archive: it must be the very
\* record this call would write.
ArchiveRetry(h) ==
    /\ begun /\ Ready
    /\ Exists(active.num)
    /\ call' = IF /\ active.seq + 3 <= MaxSeq
                  /\ archive[active.num] = [num |-> active.num, seq |-> active.seq + 1,
                                         from |-> active.from, st |-> h]
               THEN FinishWith(h) ELSE Returned("failed")
    /\ UNCHANGED <<store, ram, ghost>>

-----------------------------------------------------------------------------
(* The later steps. *)

ArchiveCheckpointed ==
    /\ call.pc = "checkpoint"
    /\ WriteVerified(call.rec)
    /\ call' = [call EXCEPT !.pc = "install"]
    /\ UNCHANGED <<archive, index, indexValid, counter, begun, maxNum, finished>>

\* haHistWriteArchive: a verified temporary file renamed to a name not in use.
Installed ==
    /\ call.pc = "install"
    /\ ~Exists(active.num)
    /\ archive' = [archive EXCEPT ![active.num] =
                     [num |-> active.num, seq |-> active.seq + 1,
                      from |-> active.from, st |-> call.host]]
    /\ UNCHANGED <<slot, index, indexValid, counter, ram, ghost>>

InstallArchive == Installed /\ call' = FinishWith(call.host)

\* The rename is done but reported as failed.
InstallUnreported == Readable /\ Installed /\ call' = Returned("failed")

InstallFails ==
    /\ call.pc = "install"
    /\ call' = Returned("failed")
    /\ UNCHANGED <<store, ram, ghost>>

\* haHistIndexRebuild, then haHistRefreshStats
IndexRebuilt ==
    /\ call.pc = "index"
    /\ RebuildOk
    /\ StatsRefreshed
    /\ call' = [call EXCEPT !.pc = "reserve"]
    /\ UNCHANGED <<slot, archive, counter, begun, active, at, ghost>>

\* Fault: the call goes on without the index.
IndexFails_Ignored ==
    /\ call.pc = "index"
    /\ RebuildFails
    /\ call' = [call EXCEPT !.pc = "reserve"]
    /\ UNCHANGED <<slot, archive, counter, ram, ghost>>

IndexFails ==
    /\ call.pc = "index"
    /\ \/ RebuildFails /\ maxNum' = maxNum
       \/ RebuildOk /\ maxNum' = 0
    /\ call' = Returned("failed")
    /\ UNCHANGED <<slot, archive, counter, begun, active, at, ghost>>

\* haHistReserveNum: the number above every one known to RAM and to the counter.
Known == Larger(maxNum, active.num)

\* Fault: the last number in use is handed out again.
ReserveStored_Reused ==
    /\ call.pc = "reserve"
    /\ call.rec.seq <= MaxSeq
    /\ LET next == Larger(1, Larger(Known, counter)) IN
       /\ next <= MaxNum
       /\ counter' = next
       /\ call' = [call EXCEPT !.pc = "write", !.rec.num = next]
    /\ UNCHANGED <<slot, archive, index, indexValid, ram, ghost>>

ReserveStored ==
    /\ call.pc = "reserve"
    /\ call.rec.seq <= MaxSeq
    /\ LET next == Larger(Known, counter) + 1 IN
       /\ next <= MaxNum
       /\ counter' = next
       /\ call' = [call EXCEPT !.pc = "write", !.rec.num = next]
    /\ UNCHANGED <<slot, archive, index, indexValid, ram, ghost>>

\* Preferences cannot be opened: the number is not recorded.
ReserveUnstored ==
    /\ call.pc = "reserve"
    /\ call.rec.seq <= MaxSeq
    /\ Known < MaxNum
    /\ call' = [call EXCEPT !.pc = "write", !.rec.num = Known + 1]
    /\ UNCHANGED <<store, ram, ghost>>

\* putUInt fails, or no number or sequence is left.
ReserveFails ==
    /\ call.pc = "reserve"
    /\ counter' \in {counter} \cup ({Larger(Known, counter) + 1} \cap Num)
    /\ call' = Returned("failed")
    /\ UNCHANGED <<slot, archive, index, indexValid, ram, ghost>>

\* The record a call ends with is on the card: the call returns true.
Written ==
    /\ call.pc = "write"
    /\ WriteVerified(call.rec)
    /\ begun' = TRUE
    /\ finished' = IF call.op = "archive"
                   THEN finished \cup {[num |-> active.num, st |-> call.host]}
                   ELSE finished
    /\ call' = Returned("ok")
    /\ UNCHANGED <<archive, index, indexValid, counter, maxNum>>

NotWritten ==
    /\ call.pc \in {"checkpoint", "write"}
    /\ WriteUnverified(call.rec)
    /\ call' = Returned("failed")
    /\ UNCHANGED <<archive, index, indexValid, counter, begun, maxNum, finished>>

\* Power goes; the next boot starts from the card and the counter.
Crash ==
    /\ begun' = FALSE /\ active' = NoRecord /\ at' = NoSlot /\ maxNum' = 0
    /\ call' = Returned("failed")
    /\ UNCHANGED <<store, ghost>>

GoodSteps ==
    \/ BeginLoads \/ BeginBlank
    \/ ArchiveCheckpointed \/ InstallArchive \/ IndexRebuilt \/ ReserveStored \/ Written

BadSteps ==
    \/ BeginFails
    \/ InstallUnreported \/ InstallFails \/ IndexFails
    \/ ReserveUnstored \/ ReserveFails \/ NotWritten

Next ==
    \/ \E h \in Standings, force \in BOOLEAN : Checkpoint(h, force, active.from)
    \/ \E h \in Standings : StartActive(h, 0)
    \/ \E n \in Archived : StartActive(archive[n].st, n)
    \/ \E h \in Standings \ {Empty} : Archive(h) \/ ArchiveRetry(h)
    \/ GoodSteps \/ BadSteps
    \/ Crash

Spec == Init /\ [][Next]_vars

-----------------------------------------------------------------------------
(* Properties. *)

TypeOK ==
    /\ slot \in [Slot -> Record \cup {NoRecord}]
    /\ archive \in [Num -> Record \cup {NoRecord}]
    /\ index \in SUBSET Num /\ indexValid \in BOOLEAN
    /\ counter \in 0 .. MaxNum
    /\ begun \in BOOLEAN /\ active \in Record \cup {NoRecord}
    /\ at \in Slot \cup {NoSlot} /\ maxNum \in 0 .. MaxNum
    /\ call \in Call
    /\ may \in SUBSET Record
    /\ finished \in SUBSET [num : Num, st : Standings]

\* Whatever writes failed and whenever power went, the record a boot takes from the
\* two slots is the last one haHistWriteActive verified or one attempted since.
BootReadsLastWrite == Newest # NoRecord => Newest \in may

\* Once archiving was acknowledged, neither RAM nor the slots a boot reads make that
\* session active again, and its number is not reused (haHistBegin, haHistReserveNum) ...
FinishedNotActive ==
    \A f \in finished : Newest.num # f.num /\ (at # NoSlot => active.num # f.num)

\* ... its archive holds the standings that very call was given, also when an earlier
\* call had installed it ...
FinishedIsArchived ==
    \A f \in finished : Exists(f.num) /\ archive[f.num].st = f.st

\* ... and any index that validates has it, so that the catalogue lists it.
FinishedIsListed == indexValid => \A f \in finished : f.num \in index

\* haHistArchive: an acknowledged session is finished, faithfully archived and listed,
\* whatever fails before or after and whenever power goes.
FinishedStays == FinishedNotActive /\ FinishedIsArchived /\ FinishedIsListed

\* haHistBegin gives a boot's caller a session the archives do not already hold with
\* the same standings: a call cut off after the rename is not resumed.
ResumedNotArchived ==
    [][ ~begun /\ begun' =>
            ~(active'.num \in Archived /\ CommitsActive(archive[active'.num], active')) ]_vars

\* The active record is on the card; the other slot is empty, older, or an attempt.
ActiveOnCard ==
    /\ at = NoSlot => active = NoRecord
    /\ at # NoSlot =>
         /\ active \in may /\ slot[at] = active /\ active # NoRecord
         /\ \A f \in finished : f.num < active.num
         /\ slot[1 - at] # NoRecord =>
              \/ slot[1 - at].seq < active.seq
              \/ /\ slot[1 - at].seq > active.seq /\ slot[1 - at] \in may
                 /\ slot[1 - at].num >= active.num

\* A boot finds a session later than every finished one, and no two equal sequences.
BootIsDecided ==
    /\ BootReadsLastWrite
    /\ \A f \in finished : f.num < Newest.num
    /\ slot[0] # NoRecord /\ slot[1] # NoRecord => slot[0].seq # slot[1].seq

\* What each step of a call may rely on.
CallInv ==
    /\ begun => at # NoSlot
    /\ call.op = "archive" => begun
    /\ ~Ready /\ at = NoSlot => call.op = "begin" /\ call.pc # "index" /\ Newest = NoRecord
    /\ call.pc \in {"checkpoint", "install"} => call.op = "archive"
    /\ call.pc \in {"checkpoint", "reserve", "write", "index"} => call.rec.seq > active.seq
    /\ call.pc = "checkpoint" => call.rec.seq < MaxSeq
    /\ call.pc = "install" => active.seq < MaxSeq
    /\ call.pc \in {"checkpoint", "write"} =>
         call.rec \in Record /\ call.rec.num >= active.num
    /\ call.op = "archive" /\ call.pc \in {"index", "reserve", "write"} =>
         Exists(active.num) /\ archive[active.num].st = call.host
    /\ call.op = "archive" /\ call.pc \in {"reserve", "write"} =>
         active.num \in index
    /\ call.op = "archive" /\ call.pc = "write" => call.rec.num > active.num

\* The inductive invariant.
IInv ==
    /\ TypeOK
    /\ ActiveOnCard
    /\ BootIsDecided
    /\ CallInv
    /\ FinishedIsArchived
    /\ FinishedIsListed

\* Comment at ha_history.h:1295-1297, on a call that installed the archive and then
\* failed: no other active generation is created, and equality "proves the retry".
RetryIsProvable ==
    begun /\ Ready /\ Exists(active.num) => archive[active.num].seq = active.seq + 1
=============================================================================
