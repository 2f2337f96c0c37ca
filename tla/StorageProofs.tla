---------------------------- MODULE StorageProofs ----------------------------
(***************************************************************************)
(* Proofs about the storage of a session: HistoryStore, and Persistence    *)
(* above it, for any standings and any bounds.                             *)
(*                                                                         *)
(* HistoryStore. The argument is the inductive invariant IInv: RAM's       *)
(* active record is always on the card, the other slot holds nothing newer *)
(* than it except a record some later write attempted, and a write only    *)
(* touches that other slot. Hence a boot reads the last verified record or *)
(* a later attempt, and its number is above that of every finished         *)
(* session.                                                                *)
(*                                                                         *)
(* Persistence, where a failed write of the card leaves no readable record *)
(* and the 250 ms tick runs between two host actions. The invariant has    *)
(* two halves. SInv is what the card keeps whatever the coordinator asks   *)
(* of it: the active record is on the card, the other slot is older, and   *)
(* the record a call is going to write outranks both. The other half says, *)
(* for each step of the coordinator's own calls, how the generations of    *)
(* RAM, NVS and card compare and which standings are where; from that      *)
(* follows which medium a boot takes and what it finds.                    *)
(***************************************************************************)
EXTENDS Persistence, TLAPS

LEMMA NoRecordNotRecord == NoRecord \notin Record
  BY DEF NoRecord, Record, Num, Seq

\* Every return leaves a call record of the right shape, with nothing to rely on.
LEMMA ReturnedType ==
  ASSUME NEW result \in {"ok", "failed"}
  PROVE  /\ Returned(result) \in Call /\ Returned(result).op = "none"
         /\ Returned(result).pc = result
  <1>1. NoRecord \in Draft
    BY EmptyAssumption, MaxNumAssumption DEF NoRecord, Draft
  <1> QED  BY <1>1, EmptyAssumption DEF Call, Op, Pc, Returned

LEMMA ReturnedInv ==
  ASSUME NEW result \in {"ok", "failed"}, call' = Returned(result), begun' => at' # NoSlot
  PROVE  CallInv'
  BY ReturnedType DEF CallInv, Ready

LEMMA InitOk == Init => IInv
  <1> SUFFICES ASSUME Init PROVE IInv
    OBVIOUS
  <1>2. call \in Call
    BY ReturnedType DEF Init
  <1>3. TypeOK
    <2>1. slot \in [Slot -> Record \cup {NoRecord}] /\ archive \in [Num -> Record \cup {NoRecord}]
      BY DEF Init
    <2>2. index \in SUBSET Num /\ indexValid \in BOOLEAN /\ begun \in BOOLEAN
      BY DEF Init
    <2>3. counter \in 0 .. MaxNum /\ maxNum \in 0 .. MaxNum
      BY MaxNumAssumption DEF Init
    <2> QED  BY <1>2, <2>1, <2>2, <2>3 DEF Init, TypeOK
  <1>4. Newest = NoRecord
    BY DEF Init, Newest, NewestIsB, Slot
  <1>5. ActiveOnCard /\ BootIsDecided
    BY <1>4 DEF Init, ActiveOnCard, BootIsDecided, BootReadsLastWrite, Slot
  <1>6. CallInv /\ FinishedIsArchived /\ FinishedIsListed
    BY DEF Init, CallInv, FinishedIsArchived, FinishedIsListed, Ready, Returned
  <1> QED  BY <1>3, <1>5, <1>6 DEF IInv

\* While RAM knows the active record, what it knows decides what a boot would read.
BootFollows == TypeOK /\ ActiveOnCard /\ at # NoSlot => BootIsDecided

LEMMA BootFollowsRam == BootFollows
  <1> SUFFICES ASSUME TypeOK, ActiveOnCard, at # NoSlot PROVE BootIsDecided
    BY DEF BootFollows
  <1>1. at \in {0, 1} /\ slot[at] = active /\ active \in Record /\ active \in may
    BY DEF TypeOK, ActiveOnCard, Slot, NoSlot
  <1>2. slot[1 - at] # NoRecord => slot[1 - at] \in Record /\ slot[1 - at].seq # active.seq
    BY <1>1 DEF TypeOK, ActiveOnCard, Slot, Record, Seq
  <1>3. \A f \in finished : f.num < active.num /\ f.num \in Nat /\ active.num \in Nat
    BY <1>1 DEF TypeOK, ActiveOnCard, Record, Num
  <1>4. \/ Newest = active
        \/ /\ Newest = slot[1 - at] /\ slot[1 - at] # NoRecord
           /\ slot[1 - at].seq > active.seq
    <2>1. CASE at = 0
      BY <1>1, <1>2, <2>1 DEF Newest, NewestIsB, Record, Seq, ActiveOnCard
    <2>2. CASE at = 1
      BY <1>1, <1>2, <2>2 DEF Newest, NewestIsB, Record, Seq, ActiveOnCard
    <2> QED  BY <1>1, <2>1, <2>2
  <1>5. slot[1 - at] # NoRecord /\ slot[1 - at].seq > active.seq
        => slot[1 - at] \in may /\ slot[1 - at].num >= active.num /\ slot[1 - at].num \in Nat
    BY <1>1, <1>2 DEF ActiveOnCard, Record, Seq, Num
  <1>6. BootReadsLastWrite
    BY <1>1, <1>4, <1>5 DEF BootReadsLastWrite
  <1>7. \A f \in finished : f.num < Newest.num
    BY <1>3, <1>4, <1>5
  <1>8. slot[0] # NoRecord /\ slot[1] # NoRecord => slot[0].seq # slot[1].seq
    BY <1>1, <1>2
  <1> QED  BY <1>6, <1>7, <1>8 DEF BootIsDecided

LEMMA BootFollowsRamNext == BootFollows'
  BY BootFollowsRam, PTL

\* Steps that leave the slots, RAM's active record and the history alone.
LEMMA QuietSlots ==
  ASSUME ActiveOnCard, BootIsDecided,
         slot' = slot, active' = active, at' = at, may' = may, finished' = finished
  PROVE  ActiveOnCard' /\ BootIsDecided'
  BY DEF ActiveOnCard, BootIsDecided, BootReadsLastWrite, Newest, NewestIsB

\* Installed archives stay, and the index keeps every finished session.
LEMMA QuietArchive ==
  ASSUME TypeOK, FinishedIsArchived, FinishedIsListed, finished' = finished,
         archive' = archive,
         \/ index' = index /\ indexValid' \in {indexValid, FALSE}
         \/ index' = Archived
  PROVE  FinishedIsArchived' /\ FinishedIsListed'
  <1>1. FinishedIsArchived'
    BY DEF FinishedIsArchived, Exists
  <1>2. \A f \in finished : f.num \in Archived
    BY DEF TypeOK, FinishedIsArchived, Archived
  <1>3. FinishedIsListed'
    BY <1>2 DEF FinishedIsListed
  <1> QED  BY <1>1, <1>3

\* A verified write becomes the one record a boot can take.
LEMMA VerifiedOk ==
  ASSUME TypeOK, ActiveOnCard, TypeOK', NEW r \in Record, WriteVerified(r),
         r.seq > active.seq, at = NoSlot => Newest = NoRecord,
         \A f \in finished' : f.num < r.num
  PROVE  ActiveOnCard' /\ BootIsDecided'
  <1>1. Target \in {0, 1} /\ at' = Target /\ slot'[Target] = r
        /\ slot'[1 - Target] = slot[1 - Target] /\ active' = r /\ may' = {r}
    BY DEF WriteVerified, Target, TypeOK, Slot
  <1>2. slot[1 - Target] # NoRecord => slot[1 - Target].seq < r.seq
    <2>1. CASE at = NoSlot
      BY <2>1 DEF Newest, NewestIsB, Target, NoSlot
    <2>2. CASE at # NoSlot
      BY <2>2 DEF ActiveOnCard, Target, TypeOK, Slot, NoSlot
    <2> QED  BY <2>1, <2>2
  <1>3. ActiveOnCard'
    BY <1>1, <1>2, NoRecordNotRecord DEF ActiveOnCard, NoSlot
  <1>4. BootIsDecided'
    BY <1>1, <1>3, BootFollowsRamNext DEF BootFollows, NoSlot
  <1> QED  BY <1>3, <1>4

\* A failed write leaves the last verified record for a boot, or what it attempted.
LEMMA UnverifiedOk ==
  ASSUME TypeOK, ActiveOnCard, BootIsDecided, TypeOK',
         NEW r \in Record, WriteUnverified(r),
         r.seq > active.seq, r.num >= active.num, finished' = finished,
         at = NoSlot => Newest = NoRecord
  PROVE  ActiveOnCard' /\ BootIsDecided'
  <1>1. at' = at /\ active' = active /\ may' = (may \cup {r}) \cap {slot'[0], slot'[1]}
    BY DEF WriteUnverified
  <1>2. CASE at # NoSlot
    <2>1. /\ at \in {0, 1} /\ slot'[at] = active
          /\ slot'[1 - at] \in {slot[1 - at], NoRecord, r}
      BY <1>2 DEF WriteUnverified, Target, TypeOK, Slot, NoSlot, ActiveOnCard
    <2>2. ActiveOnCard'
      <3>1. active' \in may' /\ slot'[at'] = active' /\ active' # NoRecord
        BY <1>1, <1>2, <2>1 DEF ActiveOnCard
      <3>2. slot'[1 - at] # NoRecord =>
              \/ slot'[1 - at].seq < active.seq
              \/ /\ slot'[1 - at].seq > active.seq /\ slot'[1 - at] \in may'
                 /\ slot'[1 - at].num >= active.num
        BY <1>1, <1>2, <2>1 DEF ActiveOnCard
      <3> QED  BY <1>1, <1>2, <3>1, <3>2 DEF ActiveOnCard
    <2> QED  BY <1>1, <1>2, <2>2, BootFollowsRamNext DEF BootFollows
  <1>3. CASE at = NoSlot
    <2>1. slot[0] = NoRecord /\ slot[1] = NoRecord
      BY <1>3 DEF Newest, NewestIsB
    <2>2. slot'[0] \in {NoRecord, r} /\ slot'[1] = NoRecord
      BY <1>3, <2>1 DEF WriteUnverified, Target, TypeOK, Slot, NoSlot
    <2>3. Newest' = slot'[0]
      BY <2>2 DEF Newest, NewestIsB
    <2>4. finished = {}
      BY <1>3 DEF BootIsDecided, NoRecord, TypeOK, Num
    <2>5. ActiveOnCard'
      BY <1>1, <1>3 DEF ActiveOnCard
    <2>6. BootReadsLastWrite'
      BY <1>1, <2>2, <2>3 DEF BootReadsLastWrite
    <2> QED  BY <2>2, <2>4, <2>5, <2>6 DEF BootIsDecided
  <1> QED  BY <1>2, <1>3

-----------------------------------------------------------------------------
(* One lemma per action. *)

LEMMA BeginFailsOk == IInv /\ BeginFails => IInv'
  <1> SUFFICES ASSUME IInv, BeginFails PROVE IInv'
    OBVIOUS
  <1> USE DEF IInv
  <1>1. TypeOK'
    <2>1. index' \in SUBSET Num /\ indexValid' \in BOOLEAN
      BY DEF BeginFails, RebuildFails, TypeOK
    <2>2. maxNum' \in 0 .. MaxNum /\ call' \in Call
      BY ReturnedType, MaxNumAssumption DEF BeginFails
    <2> QED  BY <2>1, <2>2 DEF BeginFails, TypeOK, ghost
  <1>2. CallInv'
    BY ReturnedInv DEF BeginFails, Begin
  <1>3. ActiveOnCard' /\ BootIsDecided'
    BY QuietSlots DEF BeginFails, ghost
  <1>4. FinishedIsArchived' /\ FinishedIsListed'
    BY QuietArchive DEF BeginFails, RebuildFails, ghost
  <1> QED  BY <1>1, <1>2, <1>3, <1>4

LEMMA StatsType ==
  ASSUME StatsRefreshed, index' \in SUBSET Num
  PROVE  maxNum' \in 0 .. MaxNum
  BY MaxNumAssumption DEF StatsRefreshed, Num

\* The index a call of haHistBegin goes on with.
LEMMA BeginIndex ==
  ASSUME IInv, UNCHANGED <<archive, finished>>,
         IF indexValid THEN UNCHANGED <<index, indexValid>> ELSE RebuildOk
  PROVE  /\ index' \in SUBSET Num /\ indexValid' \in BOOLEAN
         /\ FinishedIsArchived' /\ FinishedIsListed'
  <1> USE DEF IInv
  <1>1. index' \in SUBSET Num /\ indexValid' \in BOOLEAN
    BY DEF RebuildOk, Archived, TypeOK
  <1>2. FinishedIsArchived' /\ FinishedIsListed'
    BY QuietArchive DEF RebuildOk, TypeOK
  <1> QED  BY <1>1, <1>2

LEMMA BeginLoadsOk == IInv /\ BeginLoads => IInv'
  <1> SUFFICES ASSUME IInv, BeginLoads PROVE IInv'
    OBVIOUS
  <1> USE DEF IInv
  <1>1. /\ at' \in {0, 1} /\ slot[at'] = Newest /\ Newest \in Record
        /\ active' = Newest /\ slot' = slot /\ may' = may /\ finished' = finished
        /\ Newest # NoRecord
    <2>1. Newest \in Record
      BY DEF BeginLoads, Newest, TypeOK, Slot
    <2>2. at' = IF NewestIsB THEN 1 ELSE 0
      BY DEF BeginLoads
    <2>3. slot[at'] = Newest
      BY <2>2 DEF Newest
    <2> QED  BY <2>1, <2>2, <2>3 DEF BeginLoads, ghost
  <1>2. ActiveOnCard'
    <2>1. active' \in may /\ \A f \in finished : f.num < active'.num
      BY <1>1 DEF BootIsDecided, BootReadsLastWrite
    <2>2. slot[1 - at'] # NoRecord => slot[1 - at'].seq < active'.seq
      BY <1>1 DEF BeginLoads, BootIsDecided, Newest, NewestIsB, TypeOK, Slot, Record, Seq
    <2> QED  BY <1>1, <2>1, <2>2 DEF ActiveOnCard, NoSlot
  <1>3. BootIsDecided'
    BY <1>1 DEF BootIsDecided, BootReadsLastWrite, Newest, NewestIsB
  <1>4. /\ index' \in SUBSET Num /\ indexValid' \in BOOLEAN
        /\ FinishedIsArchived' /\ FinishedIsListed'
    BY BeginIndex DEF BeginLoads, ghost
  <1>5. \/ call' = Returned("ok")
        \/ /\ begun' = FALSE
           /\ call' = [op |-> "begin", pc |-> "index", host |-> Empty,
                       rec |-> [num |-> 0, seq |-> Newest.seq + 2, from |-> 0, st |-> Empty]]
    BY DEF BeginLoads, NoRecord
  <1>6. CallInv' /\ call' \in Call
    <2>1. CASE call' = Returned("ok")
      BY <1>1, <2>1, ReturnedInv, ReturnedType DEF NoSlot
    <2>2. CASE call' # Returned("ok")
      <3>1. call'.op = "begin" /\ call'.pc = "index" /\ call'.rec.seq = Newest.seq + 2
        BY <1>5, <2>2
      <3>2. call' \in Call
        BY <1>1, <1>5, <2>2, EmptyAssumption, MaxNumAssumption
        DEF Call, Op, Pc, Draft, Record, Seq
      <3>3. CallInv'
        BY <1>1, <1>5, <2>2, <3>1 DEF CallInv, Ready, NoSlot, Record, Seq
      <3> QED  BY <3>2, <3>3
    <2> QED  BY <2>1, <2>2
  <1>7. TypeOK'
    BY <1>1, <1>4, <1>6, StatsType DEF BeginLoads, TypeOK, Slot, ghost
  <1> QED  BY <1>2, <1>3, <1>4, <1>6, <1>7

LEMMA BeginBlankOk == IInv /\ BeginBlank => IInv'
  <1> SUFFICES ASSUME IInv, BeginBlank PROVE IInv'
    OBVIOUS
  <1> USE DEF IInv
  <1>1. ActiveOnCard' /\ BootIsDecided'
    BY QuietSlots DEF BeginBlank, ghost
  <1>2. /\ index' \in SUBSET Num /\ indexValid' \in BOOLEAN
        /\ FinishedIsArchived' /\ FinishedIsListed'
    BY BeginIndex DEF BeginBlank, ghost
  <1>3. at = NoSlot
    BY DEF BeginBlank, ActiveOnCard, Newest, NewestIsB, TypeOK, Slot
  <1>4. call' = [op |-> "begin", pc |-> "reserve", host |-> Empty,
                 rec |-> [num |-> 0, seq |-> 1, from |-> 0, st |-> Empty]]
    BY DEF BeginBlank, NoRecord
  <1>5. call' \in Call
    BY <1>4, EmptyAssumption, MaxNumAssumption DEF Call, Op, Pc, Draft
  <1>6. CallInv'
    BY <1>3, <1>4 DEF CallInv, Ready, BeginBlank, Begin, ActiveOnCard, NoRecord,
                      Newest, NewestIsB
  <1>7. TypeOK'
    BY <1>2, <1>5, StatsType DEF BeginBlank, TypeOK, ghost
  <1> QED  BY <1>1, <1>2, <1>6, <1>7

\* Calls begin by deciding, and touch nothing yet.
LEMMA OpeningOk ==
  ASSUME IInv, UNCHANGED <<store, ram, ghost>>, call' \in Call, CallInv'
  PROVE  IInv'
  <1> USE DEF IInv
  <1>1. TypeOK'
    BY DEF TypeOK, store, ram, ghost
  <1>2. ActiveOnCard' /\ BootIsDecided'
    BY QuietSlots DEF store, ram, ghost
  <1>3. FinishedIsArchived' /\ FinishedIsListed'
    BY QuietArchive DEF store, ghost
  <1> QED  BY <1>1, <1>2, <1>3

\* A call that returns at once, having touched nothing.
LEMMA RefusalOk ==
  ASSUME IInv, UNCHANGED <<store, ram, ghost>>,
         NEW result \in {"ok", "failed"}, call' = Returned(result)
  PROVE  IInv'
  <1>1. call' \in Call /\ CallInv'
    BY ReturnedType, ReturnedInv DEF IInv, CallInv, ram
  <1> QED  BY <1>1, OpeningOk

LEMMA CheckpointOk ==
  ASSUME IInv, NEW h \in Standings, NEW force \in BOOLEAN, NEW from \in 0 .. MaxNum,
         Checkpoint(h, force, from)
  PROVE  IInv'
  <1> USE DEF IInv
  <1>1. UNCHANGED <<store, ram, ghost>>
    BY DEF Checkpoint
  <1>2. at # NoSlot /\ active \in Record
    BY DEF Checkpoint, CallInv, ActiveOnCard, TypeOK
  <1>3. CASE call' \in {Returned("ok"), Returned("failed")}
    BY <1>1, <1>3, RefusalOk
  <1>4. CASE call' \notin {Returned("ok"), Returned("failed")}
    <2>1. /\ active.seq # MaxSeq
          /\ call' = [op |-> "checkpoint", pc |-> "write", host |-> Empty,
                      rec |-> [num |-> active.num, seq |-> active.seq + 1,
                               from |-> from, st |-> h]]
      BY <1>4 DEF Checkpoint
    <2>2. call'.rec \in Record
      BY <1>2, <2>1, MaxSeqAssumption DEF Record, Seq
    <2>3. call' \in Call
      BY <1>2, <2>1, EmptyAssumption, MaxNumAssumption DEF Call, Op, Pc, Draft, Record, Num, Seq
    <2>4. CallInv'
      BY <1>1, <1>2, <2>1, <2>2 DEF CallInv, Ready, ram, Record, Num, Seq
    <2> QED  BY <1>1, <2>3, <2>4, OpeningOk
  <1> QED  BY <1>3, <1>4

LEMMA StartActiveOk ==
  ASSUME IInv, NEW h \in Standings, NEW from \in 0 .. MaxNum, StartActive(h, from)
  PROVE  IInv'
  <1> USE DEF IInv
  <1>1. UNCHANGED <<store, ram, ghost>>
    BY DEF StartActive
  <1>2. at # NoSlot /\ active \in Record
    BY DEF StartActive, CallInv, ActiveOnCard, TypeOK
  <1>3. CASE call' = Returned("failed")
    BY <1>1, <1>3, RefusalOk
  <1>4. CASE call' # Returned("failed")
    <2>1. call' = [op |-> "start", pc |-> "reserve", host |-> Empty,
                   rec |-> [num |-> 0, seq |-> active.seq + 1, from |-> from, st |-> h]]
      BY <1>4 DEF StartActive
    <2>2. call' \in Call
      BY <1>2, <2>1, EmptyAssumption, MaxNumAssumption DEF Call, Op, Pc, Draft, Record, Seq
    <2>3. CallInv'
      BY <1>1, <1>2, <2>1 DEF CallInv, Ready, ram, Record, Seq
    <2> QED  BY <1>1, <2>2, <2>3, OpeningOk
  <1> QED  BY <1>3, <1>4

LEMMA ArchiveOk ==
  ASSUME IInv, NEW h \in Standings, Archive(h)
  PROVE  IInv'
  <1> USE DEF IInv
  <1>1. UNCHANGED <<store, ram, ghost>>
    BY DEF Archive
  <1>2. at # NoSlot /\ active \in Record /\ begun
    BY DEF Archive, CallInv, ActiveOnCard, TypeOK
  <1>3. CASE call' = Returned("failed")
    BY <1>1, <1>3, RefusalOk
  <1>4. CASE call' # Returned("failed")
    <2>1. /\ ~(active.seq + 3 > MaxSeq)
          /\ call' = [op |-> "archive", pc |-> "checkpoint", host |-> h,
                      rec |-> [num |-> active.num, seq |-> active.seq + 1,
                               from |-> active.from, st |-> h]]
      BY <1>4 DEF Archive
    <2>2. call'.rec \in Record /\ call'.rec.seq < MaxSeq
      BY <1>2, <2>1, MaxSeqAssumption DEF Record, Seq
    <2>3. call' \in Call
      BY <1>2, <2>1, MaxNumAssumption DEF Call, Op, Pc, Draft, Record, Num, Seq
    <2>4. CallInv'
      BY <1>1, <1>2, <2>1, <2>2 DEF CallInv, Ready, ram, Record, Num, Seq
    <2> QED  BY <1>1, <2>3, <2>4, OpeningOk
  <1> QED  BY <1>3, <1>4

LEMMA FinishShape ==
  ASSUME active \in Record, NEW h \in Standings
  PROVE  FinishWith(h) = [op |-> "archive", pc |-> "index", host |-> h,
           rec |-> [num |-> 0, seq |-> active.seq + 2, from |-> 0, st |-> Empty]]
         /\ FinishWith(h) \in Call
  <1>1. FinishWith(h) = [op |-> "archive", pc |-> "index", host |-> h,
           rec |-> [num |-> 0, seq |-> active.seq + 2, from |-> 0, st |-> Empty]]
    BY DEF FinishWith, NoRecord
  <1> QED
    BY <1>1, EmptyAssumption, MaxNumAssumption DEF Call, Op, Pc, Draft, Record, Seq

LEMMA ArchiveRetryOk ==
  ASSUME IInv, NEW h \in Standings, ArchiveRetry(h)
  PROVE  IInv'
  <1> USE DEF IInv
  <1>1. UNCHANGED <<store, ram, ghost>>
    BY DEF ArchiveRetry
  <1>2. at # NoSlot /\ active \in Record /\ begun
    BY DEF ArchiveRetry, CallInv, ActiveOnCard, TypeOK
  <1>3. CASE call' = Returned("failed")
    BY <1>1, <1>3, RefusalOk
  <1>4. CASE call' # Returned("failed")
    <2>1. call' = FinishWith(h) /\ Exists(active.num) /\ archive[active.num].st = h
      BY <1>4 DEF ArchiveRetry
    <2>2. call'.op = "archive" /\ call'.pc = "index" /\ call'.host = h
          /\ call'.rec.seq = active.seq + 2 /\ call' \in Call
      BY <1>2, <2>1, FinishShape
    <2>3. CallInv'
      BY <1>1, <1>2, <2>1, <2>2 DEF CallInv, Ready, Exists, store, ram, Record, Seq
    <2> QED  BY <1>1, <2>2, <2>3, OpeningOk
  <1> QED  BY <1>3, <1>4

LEMMA VerifiedType ==
  ASSUME TypeOK, NEW r \in Record, WriteVerified(r)
  PROVE  /\ slot' \in [Slot -> Record \cup {NoRecord}] /\ active' \in Record \cup {NoRecord}
         /\ at' \in Slot /\ may' \in SUBSET Record /\ active' = r
  BY DEF WriteVerified, TypeOK, Target, Slot

LEMMA UnverifiedType ==
  ASSUME TypeOK, NEW r \in Record, WriteUnverified(r)
  PROVE  /\ slot' \in [Slot -> Record \cup {NoRecord}]
         /\ at' = at /\ active' = active /\ may' \in SUBSET Record
  <1>1. Target \in Slot
    BY DEF Target, Slot
  <1>2. PICK left \in {slot[Target], NoRecord, r} : slot' = [slot EXCEPT ![Target] = left]
    BY DEF WriteUnverified
  <1>3. left \in Record \cup {NoRecord}
    BY <1>1 DEF TypeOK
  <1> QED  BY <1>1, <1>2, <1>3 DEF WriteUnverified, TypeOK

LEMMA ArchiveCheckpointedOk == IInv /\ ArchiveCheckpointed => IInv'
  <1> SUFFICES ASSUME IInv, ArchiveCheckpointed PROVE IInv'
    OBVIOUS
  <1> USE DEF IInv
  <1> DEFINE r == call.rec
  <1>1. /\ call.pc = "checkpoint" /\ call.op = "archive" /\ begun /\ at # NoSlot
        /\ r \in Record /\ r.seq > active.seq /\ r.num >= active.num /\ r.seq < MaxSeq
        /\ WriteVerified(r)
        /\ finished' = finished /\ call' = [call EXCEPT !.pc = "install"]
        /\ UNCHANGED <<archive, index, indexValid, counter, begun, maxNum>>
    BY DEF ArchiveCheckpointed, CallInv
  <1> HIDE DEF r
  <1>2. call' \in Call /\ call'.pc = "install" /\ call'.op = "archive"
    BY <1>1 DEF TypeOK, Call, Pc, Op
  <1>3. TypeOK'
    BY <1>1, <1>2, VerifiedType DEF TypeOK
  <1>4. \A f \in finished' : f.num < r.num
    BY <1>1 DEF ActiveOnCard, TypeOK, Record, Num
  <1>5. ActiveOnCard' /\ BootIsDecided'
    BY <1>1, <1>3, <1>4, VerifiedOk
  <1>6. CallInv'
    BY <1>1, <1>2, VerifiedType DEF CallInv, Ready, Slot, NoSlot
  <1>7. FinishedIsArchived' /\ FinishedIsListed'
    BY <1>1, QuietArchive
  <1> QED  BY <1>3, <1>5, <1>6, <1>7

LEMMA InstalledOk ==
  ASSUME IInv, Installed, call' \in {FinishWith(call.host), Returned("failed")}
  PROVE  IInv'
  <1> USE DEF IInv
  <1> DEFINE n == active.num
             a == [num |-> n, seq |-> active.seq + 1, from |-> active.from, st |-> call.host]
  <1>1. /\ call.pc = "install" /\ call.op = "archive" /\ begun /\ at # NoSlot
        /\ active \in Record /\ active.seq < MaxSeq /\ ~Exists(n)
        /\ archive' = [archive EXCEPT ![n] = a]
        /\ UNCHANGED <<slot, index, indexValid, counter, ram, ghost>>
    BY DEF Installed, CallInv, ActiveOnCard, TypeOK
  <1>2. n \in Num /\ n # 0 /\ call.host \in Standings
    BY <1>1 DEF Record, Num, TypeOK, Call
  <1>3. a \in Record
    BY <1>1, <1>2, MaxSeqAssumption DEF Record, Seq, Num
  <1>4. archive'[n] = a /\ a # NoRecord /\ \A m \in Num : m # n => archive'[m] = archive[m]
    BY <1>1, <1>2 DEF TypeOK, NoRecord
  <1>5. call' \in Call /\ CallInv'
    <2>1. CASE call' = Returned("failed")
      BY <1>1, <2>1, ReturnedType, ReturnedInv DEF ram
    <2>2. CASE call' = FinishWith(call.host)
      <3>1. call'.op = "archive" /\ call'.pc = "index" /\ call'.host = call.host
            /\ call'.rec.seq = active.seq + 2 /\ call' \in Call
        BY <1>1, <1>2, <2>2, FinishShape
      <3>2. CallInv'
        BY <1>1, <1>4, <3>1 DEF CallInv, Ready, Exists, ram, Record, Seq
      <3> QED  BY <3>1, <3>2
    <2> QED  BY <2>1, <2>2
  <1>6. TypeOK'
    BY <1>1, <1>2, <1>3, <1>5 DEF TypeOK, ram, ghost
  <1>7. FinishedIsArchived' /\ FinishedIsListed'
    BY <1>1, <1>4 DEF FinishedIsArchived, FinishedIsListed, Exists, ghost, TypeOK
  <1>8. ActiveOnCard' /\ BootIsDecided'
    BY <1>1, QuietSlots DEF ram, ghost
  <1> QED  BY <1>5, <1>6, <1>7, <1>8

LEMMA InstallOk == IInv /\ (InstallArchive \/ InstallUnreported \/ InstallFails) => IInv'
  <1> SUFFICES ASSUME IInv, InstallArchive \/ InstallUnreported \/ InstallFails PROVE IInv'
    OBVIOUS
  <1>1. CASE InstallArchive \/ InstallUnreported
    BY <1>1, InstalledOk DEF InstallArchive, InstallUnreported
  <1>2. CASE InstallFails
    BY <1>2, RefusalOk DEF InstallFails
  <1> QED  BY <1>1, <1>2

LEMMA IndexRebuiltOk == IInv /\ IndexRebuilt => IInv'
  <1> SUFFICES ASSUME IInv, IndexRebuilt PROVE IInv'
    OBVIOUS
  <1> USE DEF IInv
  <1>1. /\ call.pc = "index" /\ call' = [call EXCEPT !.pc = "reserve"]
        /\ index' = Archived /\ indexValid' = TRUE
        /\ UNCHANGED <<slot, archive, counter, begun, active, at, ghost>>
    BY DEF IndexRebuilt, RebuildOk
  <1>2. index' \in SUBSET Num
    BY <1>1 DEF Archived
  <1>3. call' \in Call /\ call'.pc = "reserve" /\ call'.op = call.op
        /\ call'.rec = call.rec /\ call'.host = call.host
    BY <1>1 DEF TypeOK, Call, Pc
  <1>4. TypeOK'
    BY <1>1, <1>2, <1>3, StatsType DEF IndexRebuilt, TypeOK, ghost
  <1>5. CallInv'
    <2>1. call.op = "archive" => active.num \in index'
      BY <1>1 DEF CallInv, Archived, ActiveOnCard, TypeOK, Record, Exists
    <2>2. Newest' = Newest
      BY <1>1 DEF Newest, NewestIsB
    <2> QED  BY <1>1, <1>3, <2>1, <2>2 DEF CallInv, Ready, Exists
  <1>6. ActiveOnCard' /\ BootIsDecided'
    BY <1>1, QuietSlots DEF ghost
  <1>7. FinishedIsArchived' /\ FinishedIsListed'
    BY <1>1, QuietArchive DEF ghost
  <1> QED  BY <1>4, <1>5, <1>6, <1>7

LEMMA IndexFailsOk == IInv /\ IndexFails => IInv'
  <1> SUFFICES ASSUME IInv, IndexFails PROVE IInv'
    OBVIOUS
  <1> USE DEF IInv
  <1>1. /\ call' = Returned("failed")
        /\ UNCHANGED <<slot, archive, counter, begun, active, at, ghost>>
        /\ maxNum' \in {maxNum, 0}
    BY DEF IndexFails
  <1>2. \/ index' = index /\ indexValid' \in {indexValid, FALSE}
        \/ index' = Archived
    BY DEF IndexFails, RebuildFails, RebuildOk
  <1>3. index' \in SUBSET Num
    BY <1>2 DEF Archived, TypeOK
  <1>4. indexValid' \in BOOLEAN
    BY DEF IndexFails, RebuildFails, RebuildOk, TypeOK
  <1>5. TypeOK'
    BY <1>1, <1>3, <1>4, ReturnedType, MaxNumAssumption DEF TypeOK, ghost
  <1>6. CallInv'
    BY <1>1, ReturnedInv DEF CallInv
  <1>7. ActiveOnCard' /\ BootIsDecided'
    BY <1>1, QuietSlots DEF ghost
  <1>8. FinishedIsArchived' /\ FinishedIsListed'
    BY <1>1, <1>2, QuietArchive DEF ghost
  <1> QED  BY <1>5, <1>6, <1>7, <1>8

\* Both ways of getting a number give one above the active record's.
LEMMA ReservedOk ==
  ASSUME IInv, call.pc = "reserve", call.rec.seq <= MaxSeq,
         NEW n \in Num, n > active.num,
         call' = [call EXCEPT !.pc = "write", !.rec.num = n],
         counter' \in 0 .. MaxNum,
         UNCHANGED <<slot, archive, index, indexValid, ram, ghost>>
  PROVE  IInv'
  <1> USE DEF IInv
  <1>1. /\ call'.rec = [num |-> n, seq |-> call.rec.seq, from |-> call.rec.from,
                        st |-> call.rec.st]
        /\ call'.pc = "write" /\ call'.op = call.op /\ call'.host = call.host
    BY DEF TypeOK, Call, Draft
  <1>2. call.rec.seq \in Nat /\ call.rec.seq > active.seq /\ active.seq \in Nat
    BY DEF CallInv, TypeOK, Call, Draft, Record, Seq, NoRecord
  <1>3. call'.rec \in Record
    BY <1>1, <1>2, MaxSeqAssumption DEF TypeOK, Call, Draft, Record, Seq
  <1>4. call' \in Call
    <2>1. call'.rec \in Draft
      BY <1>1, <1>2 DEF TypeOK, Call, Draft, Num
    <2> QED  BY <2>1 DEF TypeOK, Call, Pc
  <1>5. active.num \in Nat
    BY DEF TypeOK, Record, Num, NoRecord
  <1>6. Newest' = Newest
    BY DEF Newest, NewestIsB
  <1>7. CallInv'
    BY <1>1, <1>2, <1>3, <1>5, <1>6 DEF CallInv, Ready, Exists, ram, Num
  <1>8. TypeOK'
    BY <1>4 DEF TypeOK, ram, ghost
  <1>9. ActiveOnCard' /\ BootIsDecided'
    BY QuietSlots DEF ram, ghost
  <1>10. FinishedIsArchived' /\ FinishedIsListed'
    BY QuietArchive DEF ghost
  <1> QED  BY <1>7, <1>8, <1>9, <1>10

LEMMA KnownType == TypeOK => Known \in 0 .. MaxNum /\ Known >= active.num
  BY MaxNumAssumption DEF TypeOK, Known, Larger, Record, Num, NoRecord

LEMMA ReserveStoredOk == IInv /\ ReserveStored => IInv'
  <1> SUFFICES ASSUME IInv, ReserveStored PROVE IInv'
    OBVIOUS
  <1> DEFINE n == Larger(Known, counter) + 1
  <1>1. n \in Num /\ n > active.num
    BY KnownType DEF IInv, TypeOK, Larger, Num, ReserveStored, Record, NoRecord
  <1>2. counter' \in 0 .. MaxNum
    BY <1>1 DEF ReserveStored, Num
  <1> QED  BY <1>1, <1>2, ReservedOk DEF ReserveStored

LEMMA ReserveUnstoredOk == IInv /\ ReserveUnstored => IInv'
  <1> SUFFICES ASSUME IInv, ReserveUnstored PROVE IInv'
    OBVIOUS
  <1> DEFINE n == Known + 1
  <1>1. n \in Num /\ n > active.num
    BY KnownType, MaxNumAssumption DEF IInv, TypeOK, Num, ReserveUnstored, Record, NoRecord
  <1>2. counter' \in 0 .. MaxNum
    BY DEF ReserveUnstored, store, IInv, TypeOK
  <1> QED  BY <1>1, <1>2, ReservedOk DEF ReserveUnstored, store

LEMMA ReserveFailsOk == IInv /\ ReserveFails => IInv'
  <1> SUFFICES ASSUME IInv, ReserveFails PROVE IInv'
    OBVIOUS
  <1> USE DEF IInv
  <1>1. /\ call' = Returned("failed")
        /\ UNCHANGED <<slot, archive, index, indexValid, ram, ghost>>
    BY DEF ReserveFails
  <1>2. counter' \in 0 .. MaxNum
    BY DEF ReserveFails, TypeOK, Num
  <1>3. TypeOK'
    BY <1>1, <1>2, ReturnedType DEF TypeOK, ram, ghost
  <1>4. CallInv'
    BY <1>1, ReturnedInv DEF CallInv, ram
  <1>5. ActiveOnCard' /\ BootIsDecided'
    BY <1>1, QuietSlots DEF ram, ghost
  <1>6. FinishedIsArchived' /\ FinishedIsListed'
    BY <1>1, QuietArchive DEF ghost
  <1> QED  BY <1>3, <1>4, <1>5, <1>6

LEMMA WrittenOk == IInv /\ Written => IInv'
  <1> SUFFICES ASSUME IInv, Written PROVE IInv'
    OBVIOUS
  <1> USE DEF IInv
  <1> DEFINE r == call.rec
  <1>1. /\ call.pc = "write" /\ r \in Record /\ r.seq > active.seq /\ r.num >= active.num
        /\ WriteVerified(r) /\ begun' = TRUE /\ call' = Returned("ok")
        /\ UNCHANGED <<archive, index, indexValid, counter, maxNum>>
        /\ at = NoSlot => Newest = NoRecord
    BY DEF Written, CallInv, Ready
  <1> HIDE DEF r
  <1>2. at' \in Slot /\ at' # NoSlot
    BY <1>1, VerifiedType DEF Slot, NoSlot
  <1>3. CASE call.op = "archive"
    <2> DEFINE g == [num |-> active.num, st |-> call.host]
    <2>1. finished' = finished \cup {g} /\ g.num = active.num /\ g.st = call.host
      BY <1>3 DEF Written
    <2>2. at # NoSlot /\ active \in Record
      BY <1>3 DEF CallInv, ActiveOnCard, TypeOK
    <2>3. g \in [num : Num, st : Standings]
      BY <2>2 DEF Record, TypeOK, Call
    <2>4. r.num > active.num /\ Exists(active.num) /\ archive[active.num].st = call.host
          /\ active.num \in index
      BY <1>1, <1>3 DEF CallInv, r
    <2>5. TypeOK'
      BY <1>1, <1>2, <2>1, <2>3, VerifiedType, ReturnedType DEF TypeOK
    <2>6. \A f \in finished' : f.num < r.num
      BY <1>1, <2>1, <2>2, <2>4 DEF ActiveOnCard, TypeOK, Record, Num
    <2>7. ActiveOnCard' /\ BootIsDecided'
      BY <1>1, <2>5, <2>6, VerifiedOk
    <2>8. FinishedIsArchived' /\ FinishedIsListed'
      BY <1>1, <2>1, <2>4 DEF FinishedIsArchived, FinishedIsListed, Exists
    <2> QED  BY <1>1, <1>2, <2>5, <2>7, <2>8, ReturnedInv
  <1>4. CASE call.op # "archive"
    <2>1. finished' = finished
      BY <1>4 DEF Written
    <2>2. TypeOK'
      BY <1>1, <1>2, <2>1, VerifiedType, ReturnedType DEF TypeOK
    <2>3. \A f \in finished' : f.num < r.num
      <3>1. CASE at = NoSlot
        BY <1>1, <2>1, <3>1 DEF BootIsDecided, NoRecord, TypeOK, Num
      <3>2. CASE at # NoSlot
        BY <1>1, <2>1, <3>2 DEF ActiveOnCard, TypeOK, Record, Num
      <3> QED  BY <3>1, <3>2
    <2>4. ActiveOnCard' /\ BootIsDecided'
      BY <1>1, <2>2, <2>3, VerifiedOk
    <2>5. FinishedIsArchived' /\ FinishedIsListed'
      BY <1>1, <2>1, QuietArchive
    <2> QED  BY <1>1, <1>2, <2>2, <2>4, <2>5, ReturnedInv
  <1> QED  BY <1>3, <1>4

LEMMA NotWrittenOk == IInv /\ NotWritten => IInv'
  <1> SUFFICES ASSUME IInv, NotWritten PROVE IInv'
    OBVIOUS
  <1> USE DEF IInv
  <1> DEFINE r == call.rec
  <1>1. /\ r \in Record /\ r.seq > active.seq /\ r.num >= active.num /\ WriteUnverified(r)
        /\ call' = Returned("failed") /\ finished' = finished
        /\ UNCHANGED <<archive, index, indexValid, counter, begun, maxNum>>
        /\ at = NoSlot => Newest = NoRecord
    BY DEF NotWritten, CallInv, Ready
  <1> HIDE DEF r
  <1>2. TypeOK'
    BY <1>1, UnverifiedType, ReturnedType DEF TypeOK
  <1>3. ActiveOnCard' /\ BootIsDecided'
    BY <1>1, <1>2, UnverifiedOk
  <1>4. CallInv'
    BY <1>1, UnverifiedType, ReturnedInv DEF CallInv
  <1>5. FinishedIsArchived' /\ FinishedIsListed'
    BY <1>1, QuietArchive
  <1> QED  BY <1>2, <1>3, <1>4, <1>5

LEMMA CrashOk == IInv /\ Crash => IInv'
  <1> SUFFICES ASSUME IInv, Crash PROVE IInv'
    OBVIOUS
  <1> USE DEF IInv
  <1>1. /\ begun' = FALSE /\ active' = NoRecord /\ at' = NoSlot /\ maxNum' = 0
        /\ call' = Returned("failed")
        /\ UNCHANGED <<slot, archive, index, indexValid, counter, may, finished>>
    BY DEF Crash, store, ghost
  <1>2. TypeOK'
    <2>1. maxNum' \in 0 .. MaxNum
      BY <1>1, MaxNumAssumption
    <2>2. begun' \in BOOLEAN
      BY <1>1
    <2>3. call' \in Call
      BY <1>1, ReturnedType
    <2> QED  BY <1>1, <2>1, <2>2, <2>3 DEF TypeOK
  <1>3. ActiveOnCard'
    BY <1>1 DEF ActiveOnCard
  <1>4. BootIsDecided'
    BY <1>1 DEF BootIsDecided, BootReadsLastWrite, Newest, NewestIsB
  <1>5. CallInv'
    BY <1>1, ReturnedInv
  <1>6. FinishedIsArchived' /\ FinishedIsListed'
    BY <1>1, QuietArchive
  <1> QED  BY <1>2, <1>3, <1>4, <1>5, <1>6

LEMMA StutterOk == IInv /\ UNCHANGED vars => IInv'
  BY DEF IInv, TypeOK, ActiveOnCard, BootIsDecided, BootReadsLastWrite, CallInv, Newest,
         NewestIsB, Ready, FinishedIsArchived, FinishedIsListed, Exists,
         vars, store, ram, ghost

LEMMA StepOk == IInv /\ [Next]_vars => IInv'
  <1> SUFFICES ASSUME IInv, [Next]_vars PROVE IInv'
    OBVIOUS
  <1>2. CASE \E h \in Standings, force \in BOOLEAN : Checkpoint(h, force, active.from)
    <2>1. active.from \in 0 .. MaxNum
      BY MaxNumAssumption DEF IInv, TypeOK, Record, NoRecord
    <2> QED  BY <1>2, <2>1, CheckpointOk
  <1>3. CASE \E h \in Standings : StartActive(h, 0)
    BY <1>3, StartActiveOk, MaxNumAssumption
  <1>4. CASE \E n \in Archived : StartActive(archive[n].st, n)
    <2>1. PICK n \in Archived : StartActive(archive[n].st, n)
      BY <1>4
    <2>2. n \in 0 .. MaxNum /\ archive[n].st \in Standings
      BY EmptyAssumption DEF Archived, IInv, TypeOK, Record, NoRecord, Num
    <2> QED  BY <2>1, <2>2, StartActiveOk
  <1>5. CASE \E h \in Standings \ {Empty} : Archive(h) \/ ArchiveRetry(h)
    BY <1>5, ArchiveOk, ArchiveRetryOk
  <1>6. CASE GoodSteps \/ BadSteps
    BY <1>6, BeginFailsOk, BeginLoadsOk, BeginBlankOk, ArchiveCheckpointedOk, InstallOk,
       IndexRebuiltOk, IndexFailsOk, ReserveStoredOk, ReserveUnstoredOk, ReserveFailsOk,
       WrittenOk, NotWrittenOk DEF GoodSteps, BadSteps
  <1>7. CASE Crash
    BY <1>7, CrashOk
  <1>8. CASE UNCHANGED vars
    BY <1>8, StutterOk
  <1> QED  BY <1>2, <1>3, <1>4, <1>5, <1>6, <1>7, <1>8 DEF Next

-----------------------------------------------------------------------------
\* The write discipline of active.a and active.b is an invariant of the store.
THEOREM Invariant == Spec => []IInv
  BY InitOk, StepOk, PTL DEF Spec

\* A boot reads the last record haHistWriteActive verified, or one attempted since,
\* whatever failed and whenever power went.
THEOREM BootDurable == Spec => []BootReadsLastWrite
  <1>1. IInv => BootReadsLastWrite
    BY DEF IInv, BootIsDecided
  <1> QED  BY <1>1, Invariant, PTL

\* A session whose archiving haHistArchive acknowledged is never active again, and its
\* archive holds the standings the call was given and is in every index that validates.
THEOREM FinishedForGood == Spec => []FinishedStays
  <1>1. IInv => FinishedNotActive
    <2> SUFFICES ASSUME IInv, NEW f \in finished
                 PROVE  Newest.num # f.num /\ (at # NoSlot => active.num # f.num)
      BY DEF FinishedNotActive
    <2>1. f.num \in Nat
      BY DEF IInv, TypeOK, Num
    <2> QED  BY <2>1 DEF IInv, BootIsDecided, ActiveOnCard
  <1>2. IInv => FinishedStays
    BY <1>1 DEF IInv, FinishedStays
  <1> QED  BY <1>2, Invariant, PTL

\* No call passes UINT32_MAX with a session or sequence number.
THEOREM StoreTypeCorrect == Spec => []TypeOK
  <1>1. IInv => TypeOK
    BY DEF IInv
  <1> QED  BY <1>1, Invariant, PTL

-----------------------------------------------------------------------------
(* What a boot hands to its caller.                                        *)

\* haHistBegin looks for an archive of the record it loads, but not of the one it writes
\* when there is none to load or the one it loaded is finished. That record's number has
\* no archive: none is above the active record, and a begin's record is.
ArchivesBehind == \A n \in Archived : n <= (IF at = NoSlot THEN Newest.num ELSE active.num)
OnlyBegins     == ~begun /\ ~Ready => call.op = "begin"
FreshNumber    == call.op = "begin" /\ call.pc = "write" => call.rec.num > active.num
ResumeInv      == IInv /\ ArchivesBehind /\ OnlyBegins /\ FreshNumber

LEMMA NewestNotBehind ==
  ASSUME TypeOK, ActiveOnCard, at # NoSlot
  PROVE  Newest.num >= active.num
  <1>1. at \in {0, 1} /\ slot[at] = active /\ active \in Record /\ active # NoRecord
    BY DEF TypeOK, ActiveOnCard, Slot, NoSlot
  <1>2. active.num \in Nat /\ active.seq \in Nat
    BY <1>1 DEF Record, Num, Seq
  <1>3. slot[1 - at] # NoRecord => slot[1 - at].seq \in Nat
    BY <1>1 DEF TypeOK, Slot, Record, Seq
  <1>4. CASE Newest = active
    BY <1>2, <1>4
  <1>5. CASE Newest # active
    <2>1. Newest = slot[1 - at] /\ slot[1 - at] # NoRecord /\ ~(slot[1 - at].seq < active.seq)
      BY <1>1, <1>2, <1>3, <1>5 DEF Newest, NewestIsB
    <2> QED  BY <1>1, <2>1 DEF ActiveOnCard
  <1> QED  BY <1>4, <1>5

LEMMA BlankHasNoArchives ==
  ASSUME ArchivesBehind, at = NoSlot, Newest = NoRecord
  PROVE  Archived = {}
  BY DEF ArchivesBehind, NoRecord, Archived, Num

\* The archives stay and RAM's record, or a boot's where there is none, does not fall back.
LEMMA BehindKept ==
  ASSUME IInv, ArchivesBehind, archive' = archive,
         \/ UNCHANGED <<slot, active, at>>
         \/ at # NoSlot /\ UNCHANGED <<active, at>>
         \/ at = NoSlot /\ Newest = NoRecord
  PROVE  ArchivesBehind'
  <1>1. Archived' = Archived
    BY DEF Archived, Exists
  <1>2. CASE UNCHANGED <<slot, active, at>>
    BY <1>1, <1>2 DEF ArchivesBehind, Newest, NewestIsB
  <1>3. CASE at # NoSlot /\ UNCHANGED <<active, at>>
    BY <1>1, <1>3 DEF ArchivesBehind
  <1>4. CASE at = NoSlot /\ Newest = NoRecord
    BY <1>1, <1>4, BlankHasNoArchives DEF ArchivesBehind
  <1> QED  BY <1>2, <1>3, <1>4

LEMMA BehindLoads == IInv /\ ArchivesBehind /\ BeginLoads => ArchivesBehind'
  <1> SUFFICES ASSUME IInv, ArchivesBehind, BeginLoads, NEW n \in Archived'
               PROVE  at' # NoSlot /\ n <= active'.num
    BY DEF ArchivesBehind
  <1>1. at' # NoSlot /\ active' = Newest /\ n \in Archived
    BY DEF BeginLoads, NoSlot, Archived, Exists
  <1>2. n \in Nat /\ Newest.num \in Nat /\ active.num \in Nat
    BY DEF Archived, Num, BeginLoads, IInv, TypeOK, Newest, Slot, Record, NoRecord
  <1> QED  BY <1>1, <1>2, NewestNotBehind DEF ArchivesBehind, IInv

LEMMA BehindVerified ==
  ASSUME IInv, ArchivesBehind, NEW r \in Record, WriteVerified(r), r.num >= active.num,
         archive' = archive, at = NoSlot => Newest = NoRecord
  PROVE  ArchivesBehind'
  <1> SUFFICES ASSUME NEW n \in Archived'
               PROVE  at' # NoSlot /\ n <= active'.num
    BY DEF ArchivesBehind
  <1>1. at' # NoSlot /\ active' = r
    BY DEF WriteVerified, Target, NoSlot
  <1>2. n \in Archived
    BY DEF Archived, Exists
  <1>3. at # NoSlot /\ n <= active.num
    BY <1>2, BlankHasNoArchives DEF ArchivesBehind
  <1>4. n \in Nat /\ active.num \in Nat /\ r.num \in Nat
    BY <1>2 DEF Archived, Num, IInv, TypeOK, Record, NoRecord
  <1> QED  BY <1>1, <1>3, <1>4

LEMMA BehindInstalled == IInv /\ ArchivesBehind /\ Installed => ArchivesBehind'
  <1> SUFFICES ASSUME IInv, ArchivesBehind, Installed, NEW n \in Archived'
               PROVE  at' # NoSlot /\ n <= active'.num
    BY DEF ArchivesBehind
  <1>1. at # NoSlot /\ UNCHANGED <<at, active>>
    BY DEF Installed, IInv, CallInv, ram
  <1>2. n \in Num /\ active.num \in Nat
    BY DEF Archived, IInv, TypeOK, Record, Num, NoRecord
  <1>3. n = active.num \/ n \in Archived
    BY <1>2 DEF Installed, Archived, Exists, IInv, TypeOK
  <1> QED  BY <1>1, <1>2, <1>3 DEF ArchivesBehind

LEMMA BehindCrash == IInv /\ ArchivesBehind /\ Crash => ArchivesBehind'
  <1> SUFFICES ASSUME IInv, ArchivesBehind, Crash, NEW n \in Archived'
               PROVE  at' = NoSlot /\ n <= Newest'.num
    BY DEF ArchivesBehind
  <1>1. n \in Archived /\ Newest' = Newest /\ at' = NoSlot
    BY DEF Crash, store, Archived, Exists, Newest, NewestIsB
  <1>2. n \in Nat /\ Newest.num \in Nat /\ active.num \in Nat
    BY <1>1 DEF Archived, Num, IInv, TypeOK, Newest, Slot, Record, NoRecord
  <1> QED  BY <1>1, <1>2, NewestNotBehind DEF ArchivesBehind, IInv

LEMMA BehindOk == IInv /\ ArchivesBehind /\ [Next]_vars => ArchivesBehind'
  <1> SUFFICES ASSUME IInv, ArchivesBehind, [Next]_vars PROVE ArchivesBehind'
    OBVIOUS
  <1>1. CASE UNCHANGED <<archive, slot, active, at>>
    BY <1>1, BehindKept
  <1>2. CASE BeginLoads
    BY <1>2, BehindLoads
  <1>3. CASE Installed
    BY <1>3, BehindInstalled
  <1>4. CASE Crash
    BY <1>4, BehindCrash
  <1>5. CASE ArchiveCheckpointed \/ Written
    <2>1. /\ call.rec \in Record /\ call.rec.num >= active.num /\ WriteVerified(call.rec)
          /\ archive' = archive /\ (at = NoSlot => Newest = NoRecord)
      BY <1>5 DEF ArchiveCheckpointed, Written, IInv, CallInv, Ready
    <2> QED  BY <2>1, BehindVerified
  <1>6. CASE NotWritten
    <2>1. archive' = archive /\ UNCHANGED <<active, at>> /\ (at = NoSlot => Newest = NoRecord)
      BY <1>6 DEF NotWritten, WriteUnverified, IInv, CallInv, Ready
    <2> QED  BY <2>1, BehindKept
  <1>7. ASSUME Next PROVE \/ UNCHANGED <<archive, slot, active, at>>
                          \/ BeginLoads \/ Installed \/ Crash
                          \/ ArchiveCheckpointed \/ Written \/ NotWritten
    BY <1>7 DEF Next, GoodSteps, BadSteps, Checkpoint, StartActive, Archive, ArchiveRetry,
                BeginFails, BeginBlank, InstallArchive, InstallUnreported, InstallFails,
                IndexRebuilt, IndexFails, ReserveStored, ReserveUnstored, ReserveFails,
                store, ram, ghost
  <1>8. CASE UNCHANGED vars
    BY <1>1, <1>8 DEF vars, store, ram
  <1> QED  BY <1>1, <1>2, <1>3, <1>4, <1>5, <1>6, <1>7, <1>8

\* The calls of a store that is not begun, and the number they end with.
LEMMA BeginsOk == ResumeInv /\ [Next]_vars => OnlyBegins' /\ FreshNumber'
  <1> SUFFICES ASSUME ResumeInv, [Next]_vars PROVE OnlyBegins' /\ FreshNumber'
    OBVIOUS
  <1> USE DEF ResumeInv
  <1>1. CASE call'.pc \in {"ok", "failed"}
    BY <1>1 DEF OnlyBegins, FreshNumber, Ready
  <1>2. CASE begun' /\ call'.op # "begin"
    BY <1>2 DEF OnlyBegins, FreshNumber
  <1>3. CASE call'.op = "begin" /\ call'.pc # "write"
    BY <1>3 DEF OnlyBegins, FreshNumber
  <1>4. \A result \in {"ok", "failed"} : Returned(result).pc = result
    BY ReturnedType
  <1>5. CASE ReserveStored \/ ReserveUnstored
    <2>1. PICK n \in Num : n > active.num /\ call' = [call EXCEPT !.pc = "write", !.rec.num = n]
      <3>1. CASE ReserveStored
        <4> DEFINE m == Larger(Known, counter) + 1
        <4>1. m \in Num /\ m > active.num
          BY <3>1, KnownType DEF IInv, TypeOK, Larger, Num, ReserveStored, Record, NoRecord
        <4>2. call' = [call EXCEPT !.pc = "write", !.rec.num = m]
          BY <3>1 DEF ReserveStored
        <4> QED  BY <4>1, <4>2
      <3>2. CASE ReserveUnstored
        <4>1. Known + 1 \in Num /\ Known + 1 > active.num
          BY <3>2, KnownType, MaxNumAssumption
          DEF IInv, TypeOK, Num, ReserveUnstored, Record, NoRecord
        <4> QED  BY <3>2, <4>1 DEF ReserveUnstored
      <3> QED  BY <1>5, <3>1, <3>2
    <2>2. call'.op = call.op /\ call'.rec.num = n /\ begun' = begun /\ active' = active
      BY <1>5, <2>1 DEF IInv, TypeOK, Call, Draft, ReserveStored, ReserveUnstored, ram
    <2>3. ~Ready
      BY <1>5 DEF ReserveStored, ReserveUnstored, Ready
    <2> QED  BY <2>1, <2>2, <2>3 DEF OnlyBegins, FreshNumber
  <1>6. CASE IndexRebuilt
    <2>1. call'.op = call.op /\ call'.pc = "reserve" /\ begun' = begun /\ ~Ready
      BY <1>6 DEF IndexRebuilt, IInv, TypeOK, Call, Ready
    <2> QED  BY <2>1 DEF OnlyBegins, FreshNumber
  <1>7. CASE UNCHANGED vars
    BY <1>7 DEF vars, ram, OnlyBegins, FreshNumber, Ready
  <1>8. CASE ArchiveCheckpointed
    <2>1. call'.op = "archive" /\ begun' = begun /\ begun
      BY <1>8 DEF ArchiveCheckpointed, IInv, CallInv, TypeOK, Call
    <2> QED  BY <2>1 DEF OnlyBegins, FreshNumber
  <1>9. CASE InstallArchive
    <2>1. call'.op = "archive" /\ begun' = begun /\ begun
      BY <1>9 DEF InstallArchive, Installed, FinishWith, IInv, CallInv, ram
    <2> QED  BY <2>1 DEF OnlyBegins, FreshNumber
  <1>10. CASE BeginLoads \/ BeginBlank
    <2>1. call' = Returned("ok") \/ (call'.op = "begin" /\ call'.pc # "write")
      BY <1>10 DEF BeginLoads, BeginBlank
    <2> QED  BY <1>1, <1>3, <1>4, <2>1
  <1>11. CASE \/ \E h \in Standings, force \in BOOLEAN : Checkpoint(h, force, active.from)
              \/ \E h \in Standings : StartActive(h, 0)
              \/ \E n \in Archived : StartActive(archive[n].st, n)
              \/ \E h \in Standings \ {Empty} : Archive(h) \/ ArchiveRetry(h)
    <2>1. begun /\ begun' = begun
      BY <1>11 DEF Checkpoint, StartActive, Archive, ArchiveRetry, ram
    <2> DEFINE Opened == \/ call' \in {Returned("ok"), Returned("failed")}
                         \/ call'.op \in {"checkpoint", "start", "archive"}
    <2>2. Opened
      <3>1. ASSUME NEW h, NEW force, NEW from, Checkpoint(h, force, from) PROVE Opened
        BY <3>1 DEF Checkpoint
      <3>2. ASSUME NEW h, NEW from, StartActive(h, from) PROVE Opened
        BY <3>2 DEF StartActive
      <3>3. ASSUME NEW h, Archive(h) \/ ArchiveRetry(h) PROVE Opened
        BY <3>3 DEF Archive, ArchiveRetry, FinishWith
      <3> QED  BY <1>11, <3>1, <3>2, <3>3
    <2>3. call'.op # "begin" \/ call'.pc \in {"ok", "failed"}
      BY <1>4, <2>2
    <2> QED  BY <1>1, <1>2, <2>1, <2>3
  <1>12. CASE Crash \/ Written \/ NotWritten \/ BeginFails \/ InstallUnreported \/ InstallFails
              \/ IndexFails \/ ReserveFails
    BY <1>1, <1>4, <1>12 DEF Crash, Written, NotWritten, BeginFails, InstallUnreported,
                             InstallFails, IndexFails, ReserveFails
  <1> QED  BY <1>5, <1>6, <1>7, <1>8, <1>9, <1>10, <1>11, <1>12 DEF Next, GoodSteps, BadSteps

LEMMA ResumeInit == Init => ResumeInv
  <1> SUFFICES ASSUME Init PROVE ResumeInv
    OBVIOUS
  <1>1. ArchivesBehind
    BY DEF Init, ArchivesBehind, Archived, Exists
  <1>2. OnlyBegins /\ FreshNumber
    BY ReturnedType DEF Init, OnlyBegins, FreshNumber, Ready
  <1> QED  BY <1>1, <1>2, InitOk DEF ResumeInv

LEMMA ResumeStep == ResumeInv /\ [Next]_vars => ResumeInv'
  BY StepOk, BehindOk, BeginsOk DEF ResumeInv

\* The step by which the store becomes ready for calls, and what it must not resume.
ResumesArchived ==
    /\ ~begun /\ begun'
    /\ active'.num \in Archived /\ CommitsActive(archive[active'.num], active')

LEMMA NeverResumesArchived == ResumeInv /\ [Next]_vars => ~ResumesArchived
  <1> SUFFICES ASSUME ResumeInv, [Next]_vars, ~begun, begun'
               PROVE  ~(active'.num \in Archived /\ CommitsActive(archive[active'.num], active'))
    BY DEF ResumesArchived
  <1> USE DEF ResumeInv
  <1>1. BeginLoads \/ Written
    <2>1. begun' # begun
      OBVIOUS
    <2> QED
      BY <2>1 DEF Next, GoodSteps, BadSteps, Checkpoint, StartActive, Archive, ArchiveRetry,
                  BeginFails, BeginBlank, ArchiveCheckpointed, InstallArchive, Installed,
                  InstallUnreported, InstallFails, IndexRebuilt, IndexFails, ReserveStored,
                  ReserveUnstored, ReserveFails, NotWritten, Crash, vars, ram
  <1>2. CASE BeginLoads
    BY <1>2 DEF BeginLoads, Archived
  <1>3. CASE Written
    <2>1. call.op = "begin" /\ call.rec.num > active.num /\ active' = call.rec
      BY <1>3 DEF Written, WriteVerified, OnlyBegins, FreshNumber, Ready
    <2>2. call.rec.num \in Nat /\ active.num \in Nat
      BY <1>3 DEF Written, IInv, CallInv, TypeOK, Record, Num, NoRecord
    <2>3. at = NoSlot => Newest = NoRecord
      BY <1>3 DEF Written, IInv, CallInv, Ready
    <2>4. \A n \in Archived : n <= active.num /\ n \in Nat
      BY <2>3, BlankHasNoArchives DEF ArchivesBehind, Archived, Num
    <2> QED  BY <2>1, <2>2, <2>4
  <1> QED  BY <1>1, <1>2, <1>3

\* haHistBegin never hands its caller a session that an archive already holds with the
\* same standings, wherever a call was cut off and whichever attempt a slot still holds.
THEOREM BootResumesUnfinished == Spec => ResumedNotArchived
  <1>1. ResumeInv /\ [Next]_vars
        => [~begun /\ begun' =>
              ~(active'.num \in Archived /\ CommitsActive(archive[active'.num], active'))]_vars
    BY NeverResumesArchived DEF ResumesArchived
  <1>2. Spec => []ResumeInv
    BY ResumeInit, ResumeStep, PTL DEF Spec
  <1> QED  BY <1>1, <1>2, PTL DEF Spec, ResumedNotArchived

-----------------------------------------------------------------------------
(* What the card keeps. *)

CardInv ==
    /\ at = NoSlot => active = NoRecord
    /\ at # NoSlot =>
         /\ slot[at] = active /\ active # NoRecord
         /\ slot[1 - at] # NoRecord => slot[1 - at].seq < active.seq
    /\ slot[0] # NoRecord /\ slot[1] # NoRecord => slot[0].seq # slot[1].seq

StepInv ==
    /\ begun => at # NoSlot
    /\ ~Ready /\ at = NoSlot => call.op = "begin" /\ call.pc # "index" /\ Newest = NoRecord
    /\ call.pc \in {"checkpoint", "install"} => call.op = "archive"
    /\ call.op = "archive" => begun
    /\ call.pc \in {"checkpoint", "reserve", "write", "index"} => call.rec.seq > active.seq
    /\ call.pc = "checkpoint" => call.rec.seq < MaxSeq
    /\ call.pc = "install" => active.seq < MaxSeq
    /\ call.pc \in {"checkpoint", "write"} => call.rec \in Record

\* No archive has a higher number than the card's record, so a number above it is new.
Above(n) == \A m \in Archived : m <= n
NumInv ==
    /\ Above(Newest.num)
    /\ call.pc \in {"checkpoint", "write"} => Above(call.rec.num)

SInv == TypeOK /\ CardInv /\ StepInv /\ NumInv

LEMMA RecordFacts ==
  /\ \A r \in Record : r.num \in Num /\ r.seq \in Seq /\ r.from \in 0 .. MaxNum
                       /\ r.st \in Standings /\ r.num \in Nat /\ r.seq \in Nat
                       /\ r.num > 0 /\ r.seq > 0 /\ r.seq <= MaxSeq /\ r # NoRecord
  /\ NoRecord.num = 0 /\ NoRecord.seq = 0 /\ NoRecord.from = 0 /\ NoRecord.st = Empty
  /\ Num \subseteq Nat /\ MaxNum \in Nat /\ MaxSeq \in Nat /\ MaxSeq > 3 /\ Empty \in Standings
  BY EmptyAssumption, MaxNumAssumption, MaxSeqAssumption DEF Record, NoRecord, Num, Seq

\* The slots a boot reads, and what RAM knows of them.
LEMMA NewestIs ==
  ASSUME TypeOK, CardInv
  PROVE  /\ Newest \in Record \cup {NoRecord} /\ Newest \in {slot[0], slot[1]}
         /\ Newest.seq \in Nat /\ Newest.num \in Nat /\ Newest.st \in Standings
         /\ at # NoSlot => Newest = active /\ active \in Record /\ at \in {0, 1}
         /\ Newest = NoRecord => slot[0] = NoRecord /\ slot[1] = NoRecord
         /\ slot[0].seq <= Newest.seq /\ slot[1].seq <= Newest.seq
         /\ active.seq \in Nat /\ active.num \in Nat /\ active.seq <= MaxSeq
  <1>1. /\ slot[0] \in Record \cup {NoRecord} /\ slot[1] \in Record \cup {NoRecord}
        /\ slot[0].seq \in Nat /\ slot[1].seq \in Nat
        /\ active \in Record \cup {NoRecord} /\ at \in {0, 1, 2}
    BY RecordFacts DEF TypeOK, Slot, NoSlot
  <1>2. Newest \in {slot[0], slot[1]} /\ Newest \in Record \cup {NoRecord}
    BY <1>1 DEF Newest
  <1>3. Newest = NoRecord => slot[0] = NoRecord /\ slot[1] = NoRecord
    BY <1>1, RecordFacts DEF Newest, NewestIsB
  <1>4. slot[0].seq <= Newest.seq /\ slot[1].seq <= Newest.seq
    BY <1>1, RecordFacts DEF Newest, NewestIsB
  <1>5. at # NoSlot => Newest = active /\ active \in Record /\ at \in {0, 1}
    <2>1. CASE at = 0
      BY <1>1, <2>1, RecordFacts DEF Newest, NewestIsB, CardInv, NoSlot
    <2>2. CASE at = 1
      BY <1>1, <2>2, RecordFacts DEF Newest, NewestIsB, CardInv, NoSlot
    <2> QED  BY <1>1, <2>1, <2>2 DEF NoSlot
  <1> QED  BY <1>1, <1>2, <1>3, <1>4, <1>5, RecordFacts

\* Nothing is archived of a card that has no record.
LEMMA NoneArchived ==
  ASSUME TypeOK, Above(Newest.num), Newest = NoRecord, NEW n \in Nat
  PROVE  Above(n)
  BY RecordFacts DEF Above, Archived, Num

\* What a step leaves alone when neither the readable record nor an archive changes.
SameCard == /\ Newest' = Newest /\ archive' = archive
            /\ active' = active /\ at' = at /\ begun' = begun

LEMMA SameNewest == slot' = slot => Newest' = Newest
  BY DEF Newest, NewestIsB

LEMMA SameAbove ==
  ASSUME archive' = archive
  PROVE  /\ Archived' = Archived
         /\ \A n : Exists(n)' <=> Exists(n)
         /\ \A n : Above(n)' <=> Above(n)
  <1>1. \A n : Exists(n)' <=> Exists(n)
    BY DEF Exists
  <1>2. Archived' = Archived
    BY <1>1 DEF Archived
  <1> QED  BY <1>1, <1>2 DEF Above

\* A call that returned binds nothing.
LEMMA AfterReturn ==
  ASSUME NEW result \in {"ok", "failed"}, call' = Returned(result), begun' => at' # NoSlot,
         Above(Newest.num)'
  PROVE  StepInv' /\ NumInv' /\ call' \in Call /\ Ready' /\ call'.pc = result
         /\ call'.op = "none"
  BY ReturnedType DEF StepInv, NumInv, Ready

-----------------------------------------------------------------------------
(* The steps of a history call, by their effect. *)

GoesOn ==
    /\ SameCard /\ call.pc \in {"index", "reserve"} /\ call'.pc \in {"reserve", "write"}
    /\ call'.op = call.op /\ call'.host = call.host
    /\ call'.rec.seq = call.rec.seq /\ call'.rec.st = call.rec.st
    /\ call'.pc = "write" => call'.rec.num > active.num /\ ~Exists(call'.rec.num)

GivesUp == SameCard /\ call' = Returned("failed")

Checkpointed ==
    /\ call.pc = "checkpoint" /\ archive' = archive
    /\ Newest' = call.rec /\ active' = call.rec /\ at' # NoSlot /\ begun' = begun
    /\ call' = [call EXCEPT !.pc = "install"]

Installs ==
    /\ call.pc = "install" /\ begun
    /\ Newest' = Newest /\ active' = active /\ at' = at /\ begun' = begun
    /\ ~Exists(active.num) /\ active.num \in Num
    /\ archive' = [archive EXCEPT ![active.num] =
                     [num |-> active.num, seq |-> active.seq + 1,
                      from |-> active.from, st |-> call.host]]
    /\ call'.op = "archive" /\ call'.pc = "index" /\ call'.host = call.host
    /\ call'.rec.seq = active.seq + 2 /\ call'.rec.st = Empty

Writes ==
    /\ call.pc = "write" /\ archive' = archive
    /\ Newest' = call.rec /\ active' = call.rec /\ at' # NoSlot /\ begun' = TRUE
    /\ call' = Returned("ok")

\* A verified write is what a boot takes next.
LEMMA VerifiedWrite ==
  ASSUME TypeOK, CardInv, NEW r \in Record, WriteVerified(r), r.seq > active.seq,
         at = NoSlot => Newest = NoRecord, TypeOK'
  PROVE  CardInv' /\ Newest' = r /\ active' = r /\ at' # NoSlot
  <1>1. Target \in {0, 1} /\ at' = Target /\ slot'[Target] = r
        /\ slot'[1 - Target] = slot[1 - Target] /\ active' = r
    BY DEF WriteVerified, Target, TypeOK, Slot
  <1>2. slot[1 - Target] # NoRecord => slot[1 - Target].seq < r.seq
    <2>1. CASE at = NoSlot
      BY <2>1, NewestIs DEF Target, NoSlot
    <2>2. CASE at # NoSlot
      BY <2>2, NewestIs DEF CardInv, Target, NoSlot
    <2> QED  BY <2>1, <2>2
  <1>3. CardInv'
    BY <1>1, <1>2, RecordFacts DEF CardInv, NoSlot
  <1>4. Newest' = r
    <2>1. slot[1 - Target] \in Record \cup {NoRecord} /\ r # NoRecord
      BY <1>1, RecordFacts DEF TypeOK, Slot
    <2>2. CASE Target = 0
      BY <1>1, <1>2, <2>1, <2>2, RecordFacts DEF Newest, NewestIsB
    <2>3. CASE Target = 1
      BY <1>1, <1>2, <2>1, <2>3, RecordFacts DEF Newest, NewestIsB
    <2> QED  BY <1>1, <2>2, <2>3
  <1> QED  BY <1>1, <1>3, <1>4 DEF NoSlot

\* A failed write, unreadable, leaves what a boot took before.
LEMMA UnverifiedWrite ==
  ASSUME TypeOK, CardInv, ~Readable, NEW r \in Record, WriteUnverified(r),
         at = NoSlot => Newest = NoRecord
  PROVE  CardInv' /\ Newest' = Newest /\ active' = active /\ at' = at
  <1>1. at' = at /\ active' = active
    BY DEF WriteUnverified
  <1>2. /\ Target \in {0, 1}
        /\ slot'[Target] \in {slot[Target], NoRecord}
        /\ slot'[1 - Target] = slot[1 - Target]
    BY DEF WriteUnverified, Target, TypeOK, Slot
  <1>3. CASE at = NoSlot
    <2>1. slot[0] = NoRecord /\ slot[1] = NoRecord
      BY <1>3, NewestIs
    <2>2. slot'[0] = NoRecord /\ slot'[1] = NoRecord
      BY <1>2, <2>1
    <2> QED  BY <1>1, <1>3, <2>1, <2>2 DEF CardInv, Newest, NewestIsB
  <1>4. CASE at # NoSlot
    <2>1. at \in {0, 1} /\ Target = 1 - at /\ slot'[at] = slot[at]
          /\ slot'[1 - at] \in {slot[1 - at], NoRecord}
      BY <1>2, <1>4, NewestIs DEF Target
    <2>2. CardInv'
      BY <1>1, <1>4, <2>1, NewestIs DEF CardInv
    <2>3. Newest' = active
      <3>1. active \in Record /\ slot'[at] = active
            /\ (slot'[1 - at] # NoRecord => slot'[1 - at].seq < active.seq)
            /\ slot[1 - at] \in Record \cup {NoRecord}
        BY <1>4, <2>1, NewestIs DEF CardInv, TypeOK, Slot
      <3>2. CASE at = 0
        BY <3>1, <3>2, <2>1, RecordFacts DEF Newest, NewestIsB
      <3>3. CASE at = 1
        BY <3>1, <3>3, <2>1, RecordFacts DEF Newest, NewestIsB
      <3> QED  BY <2>1, <3>2, <3>3
    <2> QED  BY <1>1, <1>4, <2>2, <2>3, NewestIs
  <1> QED  BY <1>3, <1>4

LEMMA IndexRebuiltIs ==
  ASSUME SInv, IndexRebuilt
  PROVE  SInv' /\ GoesOn
  <1> USE DEF SInv
  <1>1. SameCard /\ slot' = slot /\ may' = may /\ finished' = finished /\ counter' = counter
    BY SameNewest DEF IndexRebuilt, SameCard, ghost
  <1>2. call.pc = "index" /\ call' = [call EXCEPT !.pc = "reserve"]
    BY DEF IndexRebuilt
  <1>3. call' \in Call /\ call'.pc = "reserve" /\ call'.op = call.op /\ call'.rec = call.rec
        /\ call'.host = call.host
    BY <1>2 DEF TypeOK, Call, Pc
  <1>4. TypeOK'
    <2>1. index' \in SUBSET Num /\ indexValid' \in BOOLEAN
      BY DEF IndexRebuilt, RebuildOk, Archived
    <2>2. maxNum' \in 0 .. MaxNum
      BY <2>1, StatsType DEF IndexRebuilt
    <2> QED  BY <1>1, <1>3, <2>1, <2>2 DEF TypeOK, SameCard
  <1>5. CardInv'
    BY <1>1 DEF CardInv, SameCard
  <1>6. StepInv'
    BY <1>1, <1>2, <1>3 DEF StepInv, SameCard, Ready
  <1>7. NumInv'
    BY <1>1, <1>3, SameAbove DEF NumInv, SameCard
  <1> QED  BY <1>1, <1>2, <1>3, <1>4, <1>5, <1>6, <1>7 DEF GoesOn

\* A number has been handed out for the record the call is going to write.
LEMMA Reserved ==
  ASSUME SInv, call.pc = "reserve", call.rec.seq <= MaxSeq,
         NEW n \in Num, n > Known, counter' \in 0 .. MaxNum,
         call' = [op |-> call.op, pc |-> "write", host |-> call.host,
                  rec |-> [num |-> n, seq |-> call.rec.seq,
                           from |-> call.rec.from, st |-> call.rec.st]],
         UNCHANGED <<slot, archive, index, indexValid, ram, ghost>>
  PROVE  SInv' /\ GoesOn
  <1> USE DEF SInv
  <1>1. SameCard /\ slot' = slot /\ may' = may /\ finished' = finished /\ maxNum' = maxNum
        /\ index' = index /\ indexValid' = indexValid
    BY SameNewest DEF SameCard, ghost, ram
  <1> DEFINE r == [num |-> n, seq |-> call.rec.seq, from |-> call.rec.from, st |-> call.rec.st]
  <1>2. call' = [op |-> call.op, pc |-> "write", rec |-> r, host |-> call.host]
    OBVIOUS
  <1>3. call.rec \in Draft /\ call.op \in Op /\ call.host \in Standings
        /\ call.rec.seq > active.seq /\ active.seq \in Nat /\ active.num \in Nat
    BY NewestIs DEF TypeOK, Call, StepInv
  <1>4. r \in Record /\ r \in Draft
    BY <1>3, RecordFacts DEF Record, Draft, Seq, Num
  <1>5. call' \in Call
    BY <1>2, <1>3, <1>4 DEF Call, Pc
  <1>6. n > active.num /\ n \in Nat
    BY <1>3, RecordFacts DEF Known, Larger, TypeOK
  <1>7. Above(n) /\ ~Exists(n)
    <2>1. CASE at = NoSlot
      <3>1. Newest = NoRecord
        BY <2>1 DEF StepInv, Ready
      <3>2. Above(0)
        BY <3>1, NoneArchived DEF NumInv
      <3> QED  BY <3>2, RecordFacts DEF Above, Archived, Num
    <2>2. CASE at # NoSlot
      <3>1. Above(active.num)
        BY <2>2, NewestIs DEF NumInv
      <3> QED  BY <1>3, <1>6, <3>1, RecordFacts DEF Above, Archived, Num
    <2> QED  BY <2>1, <2>2
  <1>8. TypeOK'
    BY <1>1, <1>5 DEF TypeOK, SameCard
  <1>9. CardInv'
    BY <1>1 DEF CardInv, SameCard
  <1>13. r.num = n /\ r.seq = call.rec.seq /\ r.st = call.rec.st
    OBVIOUS
  <1> HIDE DEF r
  <1>10. call'.pc = "write" /\ call'.op = call.op /\ call'.rec = r /\ call'.host = call.host
    BY <1>2
  <1>11. StepInv'
    BY <1>1, <1>3, <1>4, <1>10, <1>13 DEF StepInv, SameCard, Ready
  <1>12. NumInv'
    BY <1>1, <1>7, <1>10, <1>13, SameAbove DEF NumInv, SameCard
  <1> QED  BY <1>1, <1>6, <1>7, <1>8, <1>9, <1>10, <1>11, <1>12, <1>13 DEF GoesOn

LEMMA ReserveStoredIs ==
  ASSUME SInv, ReserveStored
  PROVE  SInv' /\ GoesOn
  <1> DEFINE n == Larger(Known, counter) + 1
  <1>1. call.pc = "reserve" /\ call.rec.seq <= MaxSeq /\ n <= MaxNum /\ counter' = n
        /\ call' = [call EXCEPT !.pc = "write", !.rec.num = n]
        /\ UNCHANGED <<slot, archive, index, indexValid, ram, ghost>>
    BY DEF ReserveStored
  <1>2. Known \in Nat /\ counter \in Nat
    BY NewestIs DEF SInv, TypeOK, Known, Larger
  <1>3. n \in Num /\ n > Known /\ n \in 0 .. MaxNum
    BY <1>1, <1>2, RecordFacts DEF Num, Larger
  <1> HIDE DEF n
  <1>4. call' = [op |-> call.op, pc |-> "write", host |-> call.host,
                 rec |-> [num |-> n, seq |-> call.rec.seq,
                          from |-> call.rec.from, st |-> call.rec.st]]
    BY <1>1 DEF SInv, TypeOK, Call, Draft
  <1> QED  BY <1>4, <1>1, <1>3, Reserved

LEMMA ReserveUnstoredIs ==
  ASSUME SInv, ReserveUnstored
  PROVE  SInv' /\ GoesOn
  <1> DEFINE n == Known + 1
  <1>1. call.pc = "reserve" /\ call.rec.seq <= MaxSeq /\ Known < MaxNum /\ counter' = counter
        /\ call' = [call EXCEPT !.pc = "write", !.rec.num = n]
        /\ UNCHANGED <<slot, archive, index, indexValid, ram, ghost>>
    BY DEF ReserveUnstored, store
  <1>2. Known \in Nat /\ counter \in 0 .. MaxNum
    BY NewestIs DEF SInv, TypeOK, Known, Larger
  <1>3. n \in Num /\ n > Known
    BY <1>1, <1>2, RecordFacts DEF Num
  <1> HIDE DEF n
  <1>4. call' = [op |-> call.op, pc |-> "write", host |-> call.host,
                 rec |-> [num |-> n, seq |-> call.rec.seq,
                          from |-> call.rec.from, st |-> call.rec.st]]
    BY <1>1 DEF SInv, TypeOK, Call, Draft
  <1> QED  BY <1>4, <1>1, <1>2, <1>3, Reserved

\* A call that fails before it writes.
LEMMA Refuses ==
  ASSUME SInv, call' = Returned("failed"), index' \in SUBSET Num, indexValid' \in BOOLEAN,
         counter' \in 0 .. MaxNum, maxNum' \in 0 .. MaxNum,
         UNCHANGED <<slot, archive, begun, active, at, ghost>>
  PROVE  SInv' /\ GivesUp
  <1> USE DEF SInv
  <1>1. SameCard /\ slot' = slot /\ may' = may /\ finished' = finished
    BY SameNewest DEF SameCard, ghost
  <1>2. Above(Newest.num)'
    BY <1>1, SameAbove DEF NumInv, SameCard
  <1>3. begun' => at' # NoSlot
    BY <1>1 DEF StepInv, SameCard
  <1>4. StepInv' /\ NumInv' /\ call' \in Call
    BY <1>2, <1>3, AfterReturn
  <1>5. TypeOK'
    BY <1>1, <1>4 DEF TypeOK, SameCard
  <1>6. CardInv'
    BY <1>1 DEF CardInv, SameCard
  <1> QED  BY <1>1, <1>4, <1>5, <1>6 DEF GivesUp

LEMMA StepRefused ==
  ASSUME SInv, InstallFails \/ IndexFails \/ ReserveFails
  PROVE  SInv' /\ GivesUp
  <1>1. /\ index \in SUBSET Num /\ indexValid \in BOOLEAN
        /\ counter \in 0 .. MaxNum /\ maxNum \in 0 .. MaxNum
    BY DEF SInv, TypeOK
  <1>2. CASE InstallFails
    BY <1>1, <1>2, Refuses DEF InstallFails, store, ram
  <1>3. CASE IndexFails
    <2>1. index' \in SUBSET Num
      BY <1>1, <1>3 DEF IndexFails, RebuildFails, RebuildOk, Archived
    <2>2. indexValid' \in BOOLEAN
      BY <1>1, <1>3 DEF IndexFails, RebuildFails, RebuildOk
    <2>3. maxNum' \in 0 .. MaxNum
      BY <1>1, <1>3, RecordFacts DEF IndexFails
    <2> QED  BY <1>1, <1>3, <2>1, <2>2, <2>3, Refuses DEF IndexFails
  <1>4. CASE ReserveFails
    <2>1. counter' \in 0 .. MaxNum
      BY <1>1, <1>4, RecordFacts DEF ReserveFails, Num
    <2> QED  BY <1>1, <1>4, <2>1, Refuses DEF ReserveFails, ram
  <1> QED  BY <1>2, <1>3, <1>4

LEMMA ArchiveCheckpointedIs ==
  ASSUME SInv, ArchiveCheckpointed
  PROVE  SInv' /\ Checkpointed
  <1> USE DEF SInv
  <1> DEFINE r == call.rec
  <1>1. /\ call.pc = "checkpoint" /\ WriteVerified(r) /\ call' = [call EXCEPT !.pc = "install"]
        /\ UNCHANGED <<archive, index, indexValid, counter, begun, maxNum, finished>>
    BY DEF ArchiveCheckpointed
  <1>2. /\ r \in Record /\ r.seq > active.seq /\ r.seq < MaxSeq /\ Above(r.num)
        /\ call.op = "archive" /\ begun
        /\ at = NoSlot => Newest = NoRecord
    BY <1>1 DEF StepInv, NumInv, Ready
  <1> HIDE DEF r
  <1>3. call' \in Call /\ call'.pc = "install" /\ call'.op = call.op
    BY <1>1 DEF TypeOK, Call, Pc
  <1>4. TypeOK'
    BY <1>1, <1>2, <1>3, VerifiedType DEF TypeOK
  <1>5. CardInv' /\ Newest' = r /\ active' = r /\ at' # NoSlot
    BY <1>1, <1>2, <1>4, VerifiedWrite
  <1>6. StepInv'
    BY <1>1, <1>2, <1>3, <1>5 DEF StepInv, Ready
  <1>7. NumInv'
    BY <1>1, <1>2, <1>3, <1>5, SameAbove DEF NumInv
  <1>8. r = call.rec
    BY DEF r
  <1> QED  BY <1>1, <1>4, <1>5, <1>6, <1>7, <1>8 DEF Checkpointed

LEMMA InstallIs ==
  ASSUME SInv, InstallArchive
  PROVE  SInv' /\ Installs
  <1> USE DEF SInv
  <1> DEFINE a == [num |-> active.num, seq |-> active.seq + 1,
                   from |-> active.from, st |-> call.host]
  <1>1. /\ call.pc = "install" /\ ~Exists(active.num) /\ call' = FinishWith(call.host)
        /\ archive' = [archive EXCEPT ![active.num] = a]
        /\ UNCHANGED <<slot, index, indexValid, counter, begun, active, at, maxNum, may, finished>>
    BY DEF InstallArchive, Installed, ram, ghost
  <1>2. begun /\ at # NoSlot /\ active \in Record /\ Newest = active /\ active.seq < MaxSeq
        /\ call.host \in Standings
    BY <1>1, NewestIs DEF StepInv, TypeOK, Call
  <1>3. a \in Record
    BY <1>2, RecordFacts DEF Record, Num, Seq
  <1> HIDE DEF a
  <1>4. Newest' = Newest
    BY <1>1, SameNewest
  <1>5. /\ call'.op = "archive" /\ call'.pc = "index" /\ call'.host = call.host
        /\ call'.rec.seq = active.seq + 2 /\ call'.rec.st = Empty /\ call' \in Call
    BY <1>1, <1>2, FinishShape
  <1>6. TypeOK'
    BY <1>1, <1>2, <1>3, <1>5 DEF TypeOK, Record
  <1>7. CardInv'
    BY <1>1 DEF CardInv
  <1>8. StepInv'
    BY <1>1, <1>2, <1>5, RecordFacts DEF StepInv, Ready
  <1>9. NumInv'
    <2>1. Archived' \subseteq Archived \cup {active.num}
      BY <1>1, <1>2 DEF Archived, Exists, TypeOK
    <2>2. Above(active.num)'
      BY <1>1, <1>2, <2>1, RecordFacts DEF NumInv, Above
    <2> QED  BY <1>1, <1>2, <1>4, <1>5, <2>2 DEF NumInv
  <1>10. archive' = [archive EXCEPT ![active.num] =
                     [num |-> active.num, seq |-> active.seq + 1,
                      from |-> active.from, st |-> call.host]]
    BY <1>1 DEF a
  <1> QED  BY <1>1, <1>2, <1>4, <1>5, <1>6, <1>7, <1>8, <1>9, <1>10, RecordFacts DEF Installs

LEMMA WrittenIs ==
  ASSUME SInv, Written
  PROVE  SInv' /\ Writes
  <1> USE DEF SInv
  <1> DEFINE r == call.rec
  <1>1. /\ call.pc = "write" /\ WriteVerified(r) /\ call' = Returned("ok") /\ begun' = TRUE
        /\ finished' = IF call.op = "archive"
                       THEN finished \cup {[num |-> active.num, st |-> call.host]} ELSE finished
        /\ UNCHANGED <<archive, index, indexValid, counter, maxNum>>
    BY DEF Written
  <1>2. /\ r \in Record /\ r.seq > active.seq /\ Above(r.num)
        /\ at = NoSlot => Newest = NoRecord
    BY <1>1 DEF StepInv, NumInv, Ready
  <1> HIDE DEF r
  <1>3. finished' \in SUBSET [num : Num, st : Standings]
    <2>1. CASE call.op = "archive"
      <3>1. active.num \in Num /\ call.host \in Standings
        BY <2>1, NewestIs, RecordFacts DEF StepInv, TypeOK, Call
      <3> QED  BY <1>1, <2>1, <3>1 DEF TypeOK
    <2>2. CASE call.op # "archive"
      BY <1>1, <2>2 DEF TypeOK
    <2> QED  BY <2>1, <2>2
  <1>4. TypeOK'
    BY <1>1, <1>2, <1>3, VerifiedType, ReturnedType DEF TypeOK
  <1>5. CardInv' /\ Newest' = r /\ active' = r /\ at' # NoSlot
    BY <1>1, <1>2, <1>4, VerifiedWrite
  <1>6. Above(Newest.num)'
    BY <1>1, <1>2, <1>5, SameAbove
  <1>7. StepInv' /\ NumInv'
    BY <1>1, <1>5, <1>6, AfterReturn
  <1>8. r = call.rec
    BY DEF r
  <1> QED  BY <1>1, <1>4, <1>5, <1>7, <1>8 DEF Writes

LEMMA NotWrittenIs ==
  ASSUME SInv, ~Readable, NotWritten
  PROVE  SInv' /\ GivesUp
  <1> USE DEF SInv
  <1> DEFINE r == call.rec
  <1>1. /\ call.pc \in {"checkpoint", "write"} /\ WriteUnverified(r) /\ call' = Returned("failed")
        /\ UNCHANGED <<archive, index, indexValid, counter, begun, maxNum, finished>>
    BY DEF NotWritten
  <1>2. r \in Record /\ (at = NoSlot => Newest = NoRecord)
    BY <1>1 DEF StepInv, Ready
  <1> HIDE DEF r
  <1>3. TypeOK'
    BY <1>1, <1>2, UnverifiedType, ReturnedType DEF TypeOK
  <1>4. CardInv' /\ Newest' = Newest /\ active' = active /\ at' = at
    BY <1>1, <1>2, UnverifiedWrite
  <1>5. Above(Newest.num)'
    BY <1>1, <1>4, SameAbove DEF NumInv
  <1>6. StepInv' /\ NumInv'
    BY <1>1, <1>4, <1>5, AfterReturn DEF StepInv
  <1> QED  BY <1>1, <1>3, <1>4, <1>6 DEF GivesUp, SameCard

\* Every step of a history call keeps the card's half and has one of five effects.
LEMMA HistoryStepIs ==
  ASSUME SInv, ~Readable, HistoryStep
  PROVE  /\ SInv' /\ (GoesOn \/ GivesUp \/ Checkpointed \/ Installs \/ Writes)
         /\ UNCHANGED <<nvs, p, pending, dirty, host, co, owe>> /\ ~Ready
         /\ \/ faults' = faults
            \/ faults < MaxFaults /\ faults' = faults + 1
  <1>1. ~BeginLoads /\ ~BeginBlank /\ ~BeginFails
    BY DEF HistoryStep, BeginLoads, BeginBlank, BeginFails, Begin
  <1>2. \/ ArchiveCheckpointed \/ InstallArchive \/ IndexRebuilt \/ ReserveStored \/ Written
        \/ InstallFails \/ IndexFails \/ ReserveUnstored \/ ReserveFails \/ NotWritten
    BY <1>1 DEF HistoryStep, GoodSteps, BadSteps, InstallUnreported
  <1>3. SInv' /\ (GoesOn \/ GivesUp \/ Checkpointed \/ Installs \/ Writes)
    BY <1>2, ArchiveCheckpointedIs, InstallIs, IndexRebuiltIs, ReserveStoredIs, WrittenIs,
       StepRefused, ReserveUnstoredIs, NotWrittenIs
  <1> QED  BY <1>3 DEF HistoryStep, NoFault, Fault

-----------------------------------------------------------------------------
(* How the coordinator opens a history call, boots and loses power. *)

LEMMA Opens ==
  ASSUME SInv, UNCHANGED <<store, ram, ghost>>, call' \in Call, StepInv',
         call'.pc \in {"checkpoint", "write"} => Above(call'.rec.num)
  PROVE  SInv' /\ SameCard
  <1> USE DEF SInv
  <1>1. SameCard /\ slot' = slot
    BY SameNewest DEF SameCard, store, ram
  <1>2. TypeOK'
    BY DEF TypeOK, store, ram, ghost
  <1>3. CardInv'
    BY <1>1 DEF CardInv, SameCard
  <1>4. NumInv'
    BY <1>1, SameAbove DEF NumInv, SameCard
  <1> QED  BY <1>1, <1>2, <1>3, <1>4

LEMMA OpensReturned ==
  ASSUME SInv, UNCHANGED <<store, ram, ghost>>,
         NEW result \in {"ok", "failed"}, call' = Returned(result)
  PROVE  SInv' /\ SameCard /\ Ready' /\ call'.pc = result
  <1>1. SameCard
    BY SameNewest DEF SameCard, store, ram
  <1>2. Above(Newest.num)'
    BY <1>1, SameAbove DEF SInv, NumInv, SameCard
  <1>3. StepInv' /\ call' \in Call /\ Ready' /\ call'.pc = result
    BY <1>1, <1>2, AfterReturn DEF SInv, StepInv, SameCard
  <1> QED  BY <1>3, Opens

LEMMA CheckpointIs ==
  ASSUME SInv, NEW h \in Standings, NEW force \in BOOLEAN, NEW from \in 0 .. MaxNum,
         Checkpoint(h, force, from)
  PROVE  /\ SInv' /\ SameCard /\ begun
         /\ \/ Ready' /\ call'.pc = "ok" /\ ~force /\ active.st = h
            \/ Ready' /\ call'.pc = "failed"
            \/ call'.op = "checkpoint" /\ call'.pc = "write" /\ call'.rec.st = h
  <1> USE DEF SInv
  <1>1. begun /\ UNCHANGED <<store, ram, ghost>>
    BY DEF Checkpoint
  <1>2. at # NoSlot /\ active \in Record /\ Newest = active /\ Above(active.num)
    BY <1>1, NewestIs DEF StepInv, NumInv
  <1>3. CASE call' = Returned("ok") /\ ~force /\ active.st = h
    BY <1>1, <1>3, OpensReturned
  <1>4. CASE call' = Returned("failed")
    BY <1>1, <1>4, OpensReturned
  <1>5. CASE ~(call' = Returned("ok") /\ ~force /\ active.st = h) /\ call' # Returned("failed")
    <2> DEFINE r == [num |-> active.num, seq |-> active.seq + 1, from |-> from, st |-> h]
    <2>1. active.seq # MaxSeq
          /\ call' = [op |-> "checkpoint", pc |-> "write", host |-> Empty, rec |-> r]
      BY <1>5 DEF Checkpoint
    <2>2. r \in Record /\ r \in Draft /\ r.seq > active.seq /\ r.num = active.num /\ r.st = h
      BY <1>2, <2>1, RecordFacts DEF Record, Draft, Num, Seq
    <2> HIDE DEF r
    <2>3. call' \in Call
      BY <2>1, <2>2, RecordFacts DEF Call, Op, Pc
    <2>4. call'.op = "checkpoint" /\ call'.pc = "write" /\ call'.rec = r
      BY <2>1
    <2>5. StepInv'
      BY <1>1, <1>2, <2>2, <2>4 DEF StepInv, Ready, ram
    <2>6. SInv' /\ SameCard
      BY <1>1, <1>2, <2>2, <2>3, <2>4, <2>5, Opens
    <2> QED  BY <1>1, <2>2, <2>4, <2>6
  <1> QED  BY <1>3, <1>4, <1>5

LEMMA StartIs ==
  ASSUME SInv, NEW h \in Standings, NEW from \in 0 .. MaxNum, StartActive(h, from)
  PROVE  /\ SInv' /\ SameCard /\ begun
         /\ \/ Ready' /\ call'.pc = "failed"
            \/ call'.op = "start" /\ call'.pc = "reserve" /\ call'.rec.st = h
  <1> USE DEF SInv
  <1>1. begun /\ UNCHANGED <<store, ram, ghost>>
    BY DEF StartActive
  <1>2. at # NoSlot /\ active \in Record
    BY <1>1, NewestIs DEF StepInv
  <1>3. CASE call' = Returned("failed")
    BY <1>1, <1>3, OpensReturned
  <1>4. CASE call' # Returned("failed")
    <2> DEFINE r == [num |-> 0, seq |-> active.seq + 1, from |-> from, st |-> h]
    <2>1. call' = [op |-> "start", pc |-> "reserve", host |-> Empty, rec |-> r]
      BY <1>4 DEF StartActive
    <2>2. r \in Draft /\ r.seq > active.seq /\ r.st = h
      BY <1>2, <2>1, RecordFacts DEF Draft, Num, Seq
    <2> HIDE DEF r
    <2>3. call' \in Call
      BY <2>1, <2>2, RecordFacts DEF Call, Op, Pc
    <2>4. call'.op = "start" /\ call'.pc = "reserve" /\ call'.rec = r
      BY <2>1
    <2>5. StepInv'
      BY <1>1, <1>2, <2>2, <2>4 DEF StepInv, Ready, ram
    <2>6. SInv' /\ SameCard
      BY <1>1, <1>2, <2>2, <2>3, <2>4, <2>5, Opens
    <2> QED  BY <1>1, <2>2, <2>4, <2>6
  <1> QED  BY <1>3, <1>4

LEMMA ArchiveIs ==
  ASSUME SInv, NEW h \in Standings, Archive(h) \/ ArchiveRetry(h)
  PROVE  /\ SInv' /\ SameCard /\ begun
         /\ \/ Ready' /\ call'.pc = "failed"
            \/ /\ call'.op = "archive" /\ call'.host = h
               /\ \/ /\ call'.pc = "checkpoint" /\ call'.rec.st = h
                     /\ call'.rec.num = active.num /\ call'.rec.seq = active.seq + 1
                  \/ /\ call'.pc = "index" /\ call'.rec.st = Empty
                     /\ active.num \in Archived /\ archive[active.num].st = h
  <1> USE DEF SInv
  <1>1. begun /\ UNCHANGED <<store, ram, ghost>>
    BY DEF Archive, ArchiveRetry
  <1>2. at # NoSlot /\ active \in Record /\ Newest = active /\ Above(active.num)
    BY <1>1, NewestIs DEF StepInv, NumInv
  <1>3. CASE call' = Returned("failed")
    BY <1>1, <1>3, OpensReturned
  <1>4. CASE Archive(h) /\ call' # Returned("failed")
    <2> DEFINE r == [num |-> active.num, seq |-> active.seq + 1, from |-> active.from, st |-> h]
    <2>1. active.seq + 3 <= MaxSeq
          /\ call' = [op |-> "archive", pc |-> "checkpoint", host |-> h, rec |-> r]
      BY <1>2, <1>4, RecordFacts DEF Archive
    <2>2. r \in Record /\ r \in Draft /\ r.seq > active.seq /\ r.seq < MaxSeq
          /\ r.num = active.num /\ r.st = h /\ r.seq = active.seq + 1
      BY <1>2, <2>1, RecordFacts DEF Record, Draft, Num, Seq
    <2> HIDE DEF r
    <2>3. call' \in Call
      BY <2>1, <2>2, RecordFacts DEF Call, Op, Pc
    <2>4. call'.op = "archive" /\ call'.pc = "checkpoint" /\ call'.rec = r /\ call'.host = h
      BY <2>1
    <2>5. StepInv'
      BY <1>1, <1>2, <2>2, <2>4 DEF StepInv, Ready, ram
    <2>6. SInv' /\ SameCard
      BY <1>1, <1>2, <2>2, <2>3, <2>4, <2>5, Opens
    <2> QED  BY <1>1, <2>2, <2>4, <2>6
  <1>5. CASE ArchiveRetry(h) /\ call' # Returned("failed")
    <2>1. call' = FinishWith(h) /\ Exists(active.num) /\ archive[active.num].st = h
      BY <1>5 DEF ArchiveRetry
    <2>2. /\ call'.op = "archive" /\ call'.pc = "index" /\ call'.host = h
          /\ call'.rec.seq = active.seq + 2 /\ call'.rec.st = Empty /\ call' \in Call
      BY <1>2, <2>1, FinishShape
    <2>3. StepInv'
      BY <1>1, <1>2, <2>2, RecordFacts DEF StepInv, Ready, ram
    <2>4. SInv' /\ SameCard
      BY <1>1, <2>2, <2>3, Opens
    <2>5. active.num \in Archived
      BY <1>2, <2>1, RecordFacts DEF Archived
    <2> QED  BY <1>1, <2>1, <2>2, <2>4, <2>5
  <1> QED  BY <1>3, <1>4, <1>5

\* Steps of the coordinator that leave the history to itself.
LEMMA QuietIs ==
  ASSUME SInv, NoHistory
  PROVE  SInv' /\ SameCard /\ call' = call /\ (Ready' <=> Ready)
  <1>1. /\ UNCHANGED <<store, ram, ghost>> /\ call' = call
        /\ UNCHANGED <<slot, archive, index, indexValid, counter, begun, active, at, maxNum,
                       may, finished>>
    BY DEF NoHistory, vars, store, ram, ghost
  <1>2. SameCard
    BY <1>1, SameNewest DEF SameCard
  <1>3. StepInv' /\ (Ready' <=> Ready)
    BY <1>1, <1>2 DEF SInv, StepInv, Ready, SameCard
  <1> QED  BY <1>1, <1>2, <1>3, Opens DEF SInv, TypeOK, NumInv

LEMMA ReserveIs ==
  ASSUME SInv, NEW next \in 0 .. MaxNum, NEW floor \in 0 .. MaxNum, ReserveNumber(next, floor),
         UNCHANGED <<slot, archive, index, indexValid, ram, call, ghost>>
  PROVE  /\ SInv' /\ SameCard /\ call' = call /\ (Ready' <=> Ready)
         /\ next # 0 => next \in Num /\ next > floor
         /\ faults' = faults \/ (faults < MaxFaults /\ faults' = faults + 1)
  <1> USE DEF SInv
  <1>1. counter \in 0 .. MaxNum
    BY DEF TypeOK
  <1> DEFINE n == Larger(counter, floor) + 1
  <1>2. n \in Nat /\ n > 0 /\ n > floor
    BY <1>1, RecordFacts DEF Larger
  <1>3. \/ n <= MaxNum /\ next = n /\ counter' = n /\ NoFault
        \/ n > MaxNum /\ next = 0 /\ counter' = counter /\ NoFault
        \/ n <= MaxNum /\ next = 0 /\ counter' \in {counter, n} /\ Fault
    BY DEF ReserveNumber
  <1> HIDE DEF n
  <1>4. counter' \in 0 .. MaxNum /\ (next # 0 => next \in Num /\ next > floor)
    BY <1>1, <1>2, <1>3, RecordFacts DEF Num
  <1>5. /\ slot' = slot /\ SameCard /\ may' = may /\ finished' = finished /\ maxNum' = maxNum
        /\ index' = index /\ indexValid' = indexValid
    BY SameNewest DEF SameCard, ghost, ram
  <1>6. TypeOK'
    BY <1>4, <1>5 DEF TypeOK, SameCard
  <1>7. CardInv' /\ StepInv' /\ (Ready' <=> Ready)
    BY <1>5 DEF CardInv, StepInv, SameCard, Ready
  <1>8. NumInv'
    BY <1>5, SameAbove DEF NumInv, SameCard
  <1> QED  BY <1>3, <1>4, <1>5, <1>6, <1>7, <1>8 DEF Fault, NoFault

\* RAM forgets, the card does not.
LEMMA CrashIs ==
  ASSUME SInv, Crash
  PROVE  /\ SInv' /\ Newest' = Newest /\ archive' = archive /\ Ready'
         /\ at' = NoSlot /\ begun' = FALSE
  <1> USE DEF SInv
  <1>1. /\ begun' = FALSE /\ active' = NoRecord /\ at' = NoSlot /\ maxNum' = 0
        /\ call' = Returned("failed")
        /\ UNCHANGED <<slot, archive, index, indexValid, counter, may, finished>>
    BY DEF Crash, store, ghost
  <1>2. Newest' = Newest
    BY <1>1, SameNewest
  <1>3. Above(Newest.num)'
    BY <1>1, <1>2, SameAbove DEF NumInv
  <1>4. StepInv' /\ NumInv' /\ call' \in Call /\ Ready'
    BY <1>1, <1>3, AfterReturn
  <1>5. TypeOK'
    <2>1. maxNum' \in 0 .. MaxNum /\ active' \in Record \cup {NoRecord}
      BY <1>1, RecordFacts
    <2>2. begun' \in BOOLEAN
      BY <1>1
    <2> QED  BY <1>1, <1>4, <2>1, <2>2 DEF TypeOK
  <1>6. CardInv'
    BY <1>1 DEF CardInv
  <1> QED  BY <1>1, <1>2, <1>4, <1>5, <1>6

\* haHistBegin reads the card; what it still has to write is an empty session.
LEMMA BeginOpens ==
  ASSUME SInv, Begin, index' \in SUBSET Num, indexValid' \in BOOLEAN, maxNum' \in 0 .. MaxNum,
         UNCHANGED <<slot, archive, counter, ghost>>,
         NEW n \in Nat, active.seq < n, active'.seq < n, begun' \in BOOLEAN,
         active' \in Record \cup {NoRecord}, at' \in {0, 1, 2}, CardInv', begun' => at' # NoSlot,
         \/ call' = Returned("ok") \/ call' = Returned("failed")
         \/ /\ call'.op = "begin" /\ call'.pc \in {"index", "reserve"} /\ call'.rec.st = Empty
            /\ call'.rec.seq = n /\ call' \in Call
            /\ at' = NoSlot => call'.pc = "reserve" /\ Newest = NoRecord
  PROVE  /\ SInv' /\ Newest' = Newest /\ archive' = archive
         /\ ~Ready' => call'.op = "begin" /\ call'.rec.st = Empty
         /\ call'.pc \in {"checkpoint", "index", "reserve", "write"} => ~Ready'
  <1> USE DEF SInv
  <1>1. Newest' = Newest
    BY SameNewest
  <1>2. Above(Newest.num)'
    BY <1>1, SameAbove DEF NumInv
  <1>3. CASE call' \in {Returned("ok"), Returned("failed")}
    <2>1. StepInv' /\ NumInv' /\ call' \in Call /\ Ready'
      BY <1>2, <1>3, AfterReturn
    <2>2. TypeOK'
      BY <2>1 DEF TypeOK, ghost, Slot, NoSlot
    <2> QED  BY <1>1, <2>1, <2>2 DEF Ready
  <1>4. CASE call' \notin {Returned("ok"), Returned("failed")}
    <2>1. TypeOK'
      BY <1>4 DEF TypeOK, ghost, Slot, NoSlot
    <2>2. StepInv'
      BY <1>1, <1>4 DEF StepInv, Ready
    <2>3. NumInv'
      BY <1>2, <1>4 DEF NumInv
    <2> QED  BY <1>1, <1>4, <2>1, <2>2, <2>3 DEF Ready
  <1> QED  BY <1>3, <1>4

LEMMA BootBeginIs ==
  ASSUME SInv, at = NoSlot, BootBegin
  PROVE  /\ SInv' /\ Newest' = Newest /\ archive' = archive
         /\ ~Ready' => call'.op = "begin" /\ call'.rec.st = Empty
         /\ call'.pc \in {"checkpoint", "index", "reserve", "write"} => ~Ready'
         /\ \/ faults' = faults
            \/ faults < MaxFaults /\ faults' = faults + 1
  <1> USE DEF SInv
  <1>1. faults' = faults \/ (faults < MaxFaults /\ faults' = faults + 1)
    BY DEF BootBegin, Fault, NoFault
  <1>2. active = NoRecord /\ ~begun
    BY DEF CardInv, StepInv
  <1>3. ASSUME IF indexValid THEN UNCHANGED <<index, indexValid>> ELSE RebuildOk, StatsRefreshed
        PROVE  index' \in SUBSET Num /\ indexValid' \in BOOLEAN /\ maxNum' \in 0 .. MaxNum
    <2>1. index' \in SUBSET Num
      BY <1>3 DEF RebuildOk, Archived, TypeOK
    <2>2. indexValid' \in BOOLEAN
      BY <1>3 DEF RebuildOk, TypeOK
    <2> QED  BY <1>3, <2>1, <2>2, StatsType
  <1>4. CASE BeginFails
    <2>1. index' \in SUBSET Num
      BY <1>4 DEF BeginFails, RebuildFails, TypeOK
    <2>2. indexValid' \in BOOLEAN
      BY <1>4 DEF BeginFails, RebuildFails, TypeOK
    <2>3. /\ maxNum' \in 0 .. MaxNum /\ active' = active /\ at' = at /\ begun' = begun
          /\ slot' = slot /\ call' = Returned("failed") /\ Begin
          /\ UNCHANGED <<slot, archive, counter, ghost>>
      BY <1>4, RecordFacts DEF BeginFails
    <2>4. CardInv'
      BY <2>3 DEF CardInv
    <2>5. active' \in Record \cup {NoRecord} /\ at' \in {0, 1, 2} /\ begun' \in BOOLEAN
          /\ active.seq < 1 /\ active'.seq < 1 /\ 1 \in Nat
      BY <1>2, <2>3, RecordFacts DEF TypeOK, NoSlot
    <2>6. begun' => at' # NoSlot
      BY <1>2, <2>3
    <2> QED  BY <1>1, <2>1, <2>2, <2>3, <2>4, <2>5, <2>6, BeginOpens
  <1>5. CASE BeginBlank
    <2>1. Newest = NoRecord /\ Begin /\ UNCHANGED <<slot, archive, counter, begun, active, at, ghost>>
      BY <1>5 DEF BeginBlank
    <2>2. call' = [op |-> "begin", pc |-> "reserve", host |-> Empty,
                   rec |-> [num |-> 0, seq |-> 1, from |-> 0, st |-> Empty]]
      BY <1>5 DEF BeginBlank, NoRecord
    <2>3. [num |-> 0, seq |-> 1, from |-> 0, st |-> Empty] \in Draft
      BY RecordFacts DEF Draft
    <2>4. call' \in Call
      BY <2>2, <2>3, RecordFacts DEF Call, Op, Pc
    <2>5. /\ call'.op = "begin" /\ call'.pc = "reserve" /\ call'.rec.st = Empty
          /\ call'.rec.seq = 1
      BY <2>2
    <2>6. CardInv'
      BY <2>1 DEF CardInv
    <2>7. active' \in Record \cup {NoRecord} /\ at' \in {0, 1, 2} /\ begun' \in BOOLEAN
          /\ active.seq < 1 /\ active'.seq < 1 /\ 1 \in Nat
      BY <1>2, <2>1, RecordFacts DEF TypeOK, NoSlot
    <2>8. index' \in SUBSET Num /\ indexValid' \in BOOLEAN /\ maxNum' \in 0 .. MaxNum
      BY <1>3, <1>5 DEF BeginBlank
    <2>9. begun' => at' # NoSlot
      BY <1>2, <2>1
    <2> QED  BY <1>1, <2>1, <2>4, <2>5, <2>6, <2>7, <2>8, <2>9, BeginOpens
  <1>6. CASE BeginLoads
    <2>1. /\ Newest # NoRecord /\ Begin /\ UNCHANGED <<slot, archive, counter, ghost>>
          /\ active' = Newest /\ at' = IF NewestIsB THEN 1 ELSE 0
      BY <1>6 DEF BeginLoads
    <2>2. PICK done \in BOOLEAN :
            /\ begun' = ~done
            /\ call' = IF done THEN [op |-> "begin", pc |-> "index", host |-> Empty,
                                     rec |-> [num |-> 0, seq |-> Newest.seq + 2, from |-> 0,
                                              st |-> Empty]]
                       ELSE Returned("ok")
      <3> DEFINE d == Exists(Newest.num) /\ CommitsActive(archive[Newest.num], Newest)
      <3>1. begun' = ~d /\ call' = IF d THEN [op |-> "begin", pc |-> "index", host |-> Empty,
                                              rec |-> [NoRecord EXCEPT !.seq = Newest.seq + 2]]
                                   ELSE Returned("ok")
        BY <1>6 DEF BeginLoads
      <3>2. [NoRecord EXCEPT !.seq = Newest.seq + 2]
              = [num |-> 0, seq |-> Newest.seq + 2, from |-> 0, st |-> Empty]
        BY DEF NoRecord
      <3>3. d \in BOOLEAN
        OBVIOUS
      <3> HIDE DEF d
      <3> QED  BY <3>1, <3>2, <3>3
    <2>3. Newest \in Record /\ at' \in {0, 1} /\ slot[at'] = Newest
      BY <2>1, NewestIs DEF Newest
    <2>4. CardInv'
      <3>1. slot[1 - at'] # NoRecord => slot[1 - at'].seq < Newest.seq
        BY <2>1, <2>3, NewestIs, RecordFacts DEF CardInv, TypeOK, Slot
      <3> QED  BY <2>1, <2>3, <3>1 DEF CardInv, NoSlot
    <2>5. active' \in Record \cup {NoRecord} /\ at' \in {0, 1, 2} /\ at' # NoSlot
          /\ active.seq < Newest.seq + 2 /\ active'.seq < Newest.seq + 2 /\ Newest.seq + 2 \in Nat
      BY <1>2, <2>1, <2>3, RecordFacts DEF NoSlot
    <2>6. begun' \in BOOLEAN
      BY <2>2
    <2>7. CASE done
      <3>1. [num |-> 0, seq |-> Newest.seq + 2, from |-> 0, st |-> Empty] \in Draft
        BY <2>5, RecordFacts DEF Draft
      <3>2. call' = [op |-> "begin", pc |-> "index", host |-> Empty,
                     rec |-> [num |-> 0, seq |-> Newest.seq + 2, from |-> 0, st |-> Empty]]
        BY <2>2, <2>7
      <3>3. call' \in Call
        BY <3>1, <3>2, RecordFacts DEF Call, Op, Pc
      <3>4. /\ call'.op = "begin" /\ call'.pc = "index" /\ call'.rec.st = Empty
            /\ call'.rec.seq = Newest.seq + 2
        BY <3>2
      <3>5. index' \in SUBSET Num /\ indexValid' \in BOOLEAN /\ maxNum' \in 0 .. MaxNum
        BY <1>3, <1>6 DEF BeginLoads
      <3> QED  BY <1>1, <2>1, <2>4, <2>5, <2>6, <3>3, <3>4, <3>5, BeginOpens
    <2>8. CASE ~done
      <3>1. call' = Returned("ok")
        BY <2>2, <2>8
      <3>2. index' \in SUBSET Num /\ indexValid' \in BOOLEAN /\ maxNum' \in 0 .. MaxNum
        BY <1>3, <1>6 DEF BeginLoads
      <3> QED  BY <1>1, <2>1, <2>4, <2>5, <2>6, <3>1, <3>2, BeginOpens
    <2> QED  BY <2>7, <2>8
  <1> QED  BY <1>4, <1>5, <1>6 DEF BootBegin

-----------------------------------------------------------------------------
(* What the coordinator knows at each step of its calls. *)

\* What a boot with the card in place takes, an archive that finishes it apart.
Winner == IF Newest.seq >= nvs.seq THEN Newest ELSE nvs

MediaInv ==
    /\ Winner # NoRecord => Winner.st \in owe
    /\ nvs.seq > Newest.seq => Above(nvs.num)
    /\ call.pc \in {"checkpoint", "index", "reserve", "write"} => call.rec.st \in owe

\* The next record saved in NVS will outrank the card.
Leads == p.gen > Newest.seq \/ nvs.seq >= Newest.seq

\* An archive holds the players, or there are none, or the host lets them go.
Kept(task) == ~task.discard /\ host # Empty => \E n \in Archived : archive[n].st = host

Booting == co.op \in {"none", "boot"}

AtOff == Ready /\ at = NoSlot /\ ~p.usingSd /\ Booting
AtChoose == ~p.usingSd /\ Booting /\ (~Ready => call.op = "begin")
AtAdopting ==
    /\ ~p.usingSd /\ Booting /\ begun /\ nvs # NoRecord
    /\ ~Ready => call.op = "start" /\ call.rec.seq = nvs.seq /\ call.rec.st = nvs.st
    /\ call.pc = "write" => ~Exists(call.rec.num)
    /\ call.pc # "ok" => nvs.seq > active.seq
    /\ call.pc = "ok" => active.seq = nvs.seq /\ active.st = nvs.st /\ ~Exists(active.num)
AtIdle ==
    /\ Ready /\ co.op = "none" /\ p.num \in Num
    /\ p.usingSd => /\ begun /\ nvs.seq <= active.seq /\ p.num = active.num
                    /\ ~dirty => active.st = host
    /\ ~p.usingSd => /\ Leads /\ Above(p.num)
                     /\ ~dirty => nvs.st = host
                                  /\ (Newest.seq < nvs.seq \/ (Newest = nvs /\ ~begun))
AtArchiving ==
    /\ begun /\ p.usingSd /\ ~co.undo /\ co.op \in {"new", "restore"}
    /\ co.snap = host /\ co.was.usingSd /\ host \in owe /\ Empty \in owe
    /\ nvs.seq <= active.seq
    /\ ~Ready => call.op = "archive" /\ call.host = host
    /\ call.pc = "checkpoint" =>
         /\ call.rec.st = host /\ call.rec.num = active.num /\ call.rec.seq = active.seq + 1
         /\ p.gen >= active.seq
    /\ call.pc # "ok" => /\ p.num = active.num /\ p.gen + 1 >= active.seq
                         /\ ~dirty => active.st = host
    /\ call.pc \in {"index", "reserve", "write", "ok"} => \E n \in Archived : archive[n].st = host
AtStarting ==
    /\ begun /\ p.usingSd /\ ~co.undo /\ co.op \in {"new", "restore"}
    /\ co.snap = host /\ co.was.usingSd /\ co.goal \in owe /\ Kept(co)
    /\ nvs.seq <= active.seq
    /\ ~Ready => call.op = "start" /\ call.rec.st = co.goal
    /\ call.pc # "ok" => p.num = active.num /\ p.gen + 1 >= active.seq
    /\ call.pc = "ok" => active.st = co.goal
AtSaving ==
    /\ begun /\ p.usingSd /\ ~co.undo /\ co.op \in {"checkpoint", "new"} /\ co.goal \in owe
    /\ co.op = "checkpoint" => co.goal = co.snap
    /\ co.op = "new" => co.snap = host /\ co.was.usingSd /\ Kept(co)
    /\ nvs.seq <= active.seq
    /\ ~Ready => call.op = "checkpoint" /\ call.rec.st = co.goal
    /\ call.pc # "ok" => p.num = active.num /\ p.gen = active.seq
    /\ call.pc = "ok" => active.st = co.goal
AtFallback ==
    /\ Ready /\ ~p.usingSd /\ co.goal \in owe /\ Leads /\ p.num \in Num /\ Above(p.num)
    /\ co.op # "none" /\ (co.op = "restore" => co.undo)
    /\ co.op \in {"boot", "checkpoint"} => ~co.undo
    /\ co.op = "boot" => /\ Newest = NoRecord /\ nvs = NoRecord /\ ~begun
                         /\ host = Empty /\ co.goal = Empty
    /\ co.op = "checkpoint" => co.goal = co.snap
    /\ co.op \in {"new", "restore"} => co.snap = host
    /\ co.undo => co.goal = co.snap
    /\ co.op = "new" /\ ~co.undo =>
         /\ Kept(co)
         /\ co.was.usingSd => begun /\ p.gen = active.seq + 1 /\ nvs.seq <= active.seq
         /\ ~co.was.usingSd => co.was.num \in Num /\ Above(co.was.num)
AtUndoing ==
    /\ Ready /\ co.op = "new" /\ ~co.undo /\ co.snap = host
    /\ p.num \in Num /\ Above(p.num)
    /\ co.was.usingSd =>
         /\ begun
         /\ p.usingSd => nvs.seq <= active.seq /\ p.gen + 1 >= active.seq /\ p.num = active.num
         /\ ~p.usingSd => nvs.seq <= active.seq + 1 /\ p.gen > active.seq
    /\ ~co.was.usingSd => /\ ~p.usingSd /\ Leads
                          /\ co.was.num \in Num /\ Above(co.was.num)
AtRolling ==
    /\ begun /\ co.op \in {"new", "restore"} /\ co.snap = host /\ co.undo /\ co.goal = host
    /\ host \in owe /\ p.num \in Num /\ Above(p.num)
    /\ ~Ready => call.op = "checkpoint" /\ call.rec.st = co.goal
    /\ call.pc # "ok" =>
         /\ p.usingSd => nvs.seq <= active.seq /\ p.gen + 1 >= active.seq /\ p.num = active.num
         /\ ~p.usingSd => nvs.seq <= active.seq + 1 /\ p.gen > active.seq
    /\ call.pc = "ok" => active.st = co.goal /\ nvs.seq <= active.seq

StageInv ==
    /\ co.pc \in {"off", "begin"} => AtOff
    /\ co.pc = "choose"    => AtChoose
    /\ co.pc = "adopting"  => AtAdopting
    /\ co.pc = "halt"      => Ready
    /\ co.pc = "idle"      => AtIdle
    /\ co.pc = "archiving" => AtArchiving
    /\ co.pc = "starting"  => AtStarting
    /\ co.pc = "saving"    => AtSaving
    /\ co.pc = "fallback"  => AtFallback
    /\ co.pc = "undoing"   => AtUndoing
    /\ co.pc = "rolling"   => AtRolling

\* The inductive invariant.
PInv == SInv /\ PTypeOK /\ MediaInv /\ StageInv

LEMMA InitHolds == PInit => PInv
  <1> SUFFICES ASSUME PInit PROVE PInv
    OBVIOUS
  <1>1. TypeOK
    BY InitOk DEF PInit, IInv
  <1>2. slot[0] = NoRecord /\ slot[1] = NoRecord /\ Newest = NoRecord /\ Archived = {}
    BY DEF PInit, Init, Newest, NewestIsB, Slot, Archived, Exists
  <1>3. at = NoSlot /\ active = NoRecord /\ ~begun /\ call = Returned("failed")
    BY DEF PInit, Init
  <1>4. Ready /\ call.pc = "failed" /\ call.op = "none"
    BY <1>3, ReturnedType DEF Ready
  <1>5. CardInv /\ StepInv /\ NumInv
    BY <1>2, <1>3, <1>4 DEF CardInv, StepInv, NumInv, Above
  <1>6. PTypeOK
    <2>1. p \in Meta
      BY RecordFacts DEF PInit, Off, Meta
    <2>2. co \in Task
      BY <2>1, RecordFacts DEF PInit, At, Task, Off
    <2>3. faults \in 0 .. MaxFaults
      BY MaxFaultsAssumption DEF PInit
    <2>4. pending \in BOOLEAN /\ dirty \in BOOLEAN
      BY DEF PInit
    <2> QED  BY <2>1, <2>2, <2>3, <2>4, RecordFacts DEF PInit, PTypeOK
  <1>7. MediaInv
    BY <1>2, <1>4, RecordFacts DEF PInit, MediaInv, Winner
  <1>8. StageInv
    BY <1>3, <1>4 DEF PInit, At, Off, StageInv, AtOff, Booting
  <1> QED  BY <1>1, <1>5, <1>6, <1>7, <1>8 DEF PInv, SInv

-----------------------------------------------------------------------------
(* A step of the history call in progress. *)

\* Whatever is written next outranks what a boot takes from the card now.
LEMMA RecordIsNewer ==
  ASSUME SInv, ~Ready, call.pc \in {"checkpoint", "reserve", "write", "index"}
  PROVE  call.rec.seq > Newest.seq /\ call.rec.seq \in Nat
  <1>1. call.rec.seq > active.seq /\ call.rec.seq \in Nat
    BY DEF SInv, StepInv, TypeOK, Call, Draft
  <1>2. at = NoSlot => Newest.seq = active.seq
    BY DEF SInv, StepInv, CardInv
  <1> QED  BY <1>1, <1>2, NewestIs DEF SInv

LEMMA PTypes ==
  ASSUME PTypeOK
  PROVE  /\ nvs \in Record \cup {NoRecord} /\ nvs.seq \in Nat /\ nvs.num \in Nat
         /\ nvs.seq <= MaxSeq /\ nvs.st \in Standings
         /\ p.gen \in 0 .. MaxSeq /\ p.gen \in Nat /\ p.num \in 0 .. MaxNum /\ p.num \in Nat
         /\ p.from \in 0 .. MaxNum /\ p.usingSd \in BOOLEAN
         /\ co.pc \in {"off", "begin", "choose", "adopting", "halt", "idle", "archiving",
                       "starting", "saving", "fallback", "undoing", "rolling"}
         /\ co.op \in {"none", "boot", "checkpoint", "new", "restore"}
  BY RecordFacts DEF PTypeOK, Meta, Task

\* The faults of a step are counted within their bound.
LEMMA FaultCounted ==
  ASSUME PTypeOK, \/ faults' = faults
                  \/ faults < MaxFaults /\ faults' = faults + 1
  PROVE  faults' \in 0 .. MaxFaults
  BY MaxFaultsAssumption DEF PTypeOK

LEMMA OwnTypes ==
  ASSUME PTypeOK, UNCHANGED <<nvs, p, pending, dirty, host, co, owe>>,
         \/ faults' = faults
         \/ faults < MaxFaults /\ faults' = faults + 1
  PROVE  PTypeOK'
  BY FaultCounted DEF PTypeOK

LEMMA HistoryMedia ==
  ASSUME PInv, SInv', ~Ready, UNCHANGED <<nvs, p, pending, dirty, host, co, owe>>,
         GoesOn \/ GivesUp \/ Checkpointed \/ Writes
  PROVE  MediaInv'
  <1> USE DEF PInv
  <1>1. nvs.seq \in Nat /\ Newest.seq \in Nat
    BY PTypes, NewestIs DEF SInv
  <1>2. CASE GoesOn
    <2>1. Newest' = Newest /\ archive' = archive /\ call'.rec.st = call.rec.st
          /\ call.rec.st \in owe
      BY <1>2 DEF GoesOn, SameCard, MediaInv
    <2> QED  BY <2>1, SameAbove DEF MediaInv, Winner
  <1>3. CASE GivesUp
    <2>1. Newest' = Newest /\ archive' = archive /\ call'.pc = "failed"
      BY <1>3, ReturnedType DEF GivesUp, SameCard
    <2> QED  BY <2>1, SameAbove DEF MediaInv, Winner
  <1>4. CASE Checkpointed \/ Writes
    <2>1. call.pc \in {"checkpoint", "write"} /\ Newest' = call.rec /\ archive' = archive
      BY <1>4 DEF Checkpointed, Writes
    <2>2. call'.pc \in {"install", "ok"}
      BY <1>4, ReturnedType DEF Checkpointed, Writes, SInv, TypeOK, Call
    <2>3. call.rec.seq > Newest.seq /\ call.rec.seq \in Nat /\ call.rec.st \in owe
      BY <2>1, RecordIsNewer DEF MediaInv
    <2> QED  BY <1>1, <2>1, <2>2, <2>3, SameAbove DEF MediaInv, Winner
  <1> QED  BY <1>2, <1>3, <1>4

LEMMA HistoryInChoose ==
  ASSUME PInv, SInv', ~Ready, UNCHANGED <<nvs, p, pending, dirty, host, co, owe>>,
         GoesOn \/ GivesUp \/ Checkpointed \/ Installs \/ Writes, co.pc = "choose"
  PROVE  StageInv' /\ MediaInv'
  <1> USE DEF PInv
  <1>1. ~p.usingSd /\ call.op = "begin"
    BY DEF StageInv, AtChoose
  <1>2. ~Checkpointed /\ ~Installs
    BY <1>1 DEF Checkpointed, Installs, SInv, StepInv
  <1>3. ~Ready' => call'.op = "begin"
    BY <1>1, <1>2, ReturnedType DEF GoesOn, GivesUp, Writes, Ready
  <1> QED  BY <1>1, <1>2, <1>3, HistoryMedia DEF StageInv, AtChoose, Booting

LEMMA HistoryInAdopting ==
  ASSUME PInv, SInv', ~Ready, UNCHANGED <<nvs, p, pending, dirty, host, co, owe>>,
         GoesOn \/ GivesUp \/ Checkpointed \/ Installs \/ Writes, co.pc = "adopting"
  PROVE  StageInv' /\ MediaInv'
  <1> USE DEF PInv
  <1>1. AtAdopting
    BY DEF StageInv
  <1>2. ~Checkpointed /\ ~Installs
    BY <1>1 DEF AtAdopting, Checkpointed, Installs, SInv, StepInv
  <1>3. MediaInv'
    BY <1>2, HistoryMedia
  <1>4. AtAdopting'
    <2>1. CASE GoesOn
      BY <1>1, <2>1, SameAbove DEF AtAdopting, Booting, GoesOn, SameCard, Ready
    <2>2. CASE GivesUp
      BY <1>1, <2>2, ReturnedType DEF AtAdopting, Booting, GivesUp, SameCard, Ready
    <2>3. CASE Writes
      <3>1. call'.pc = "ok" /\ Ready'
        BY <2>3, ReturnedType DEF Writes, Ready
      <3> QED  BY <1>1, <2>3, <3>1, SameAbove DEF AtAdopting, Booting, Writes
    <2> QED  BY <1>2, <2>1, <2>2, <2>3
  <1> QED  BY <1>3, <1>4 DEF StageInv

LEMMA HistoryInStarting ==
  ASSUME PInv, SInv', ~Ready, UNCHANGED <<nvs, p, pending, dirty, host, co, owe>>,
         GoesOn \/ GivesUp \/ Checkpointed \/ Installs \/ Writes, co.pc = "starting"
  PROVE  StageInv' /\ MediaInv'
  <1> USE DEF PInv
  <1>1. AtStarting
    BY DEF StageInv
  <1>2. ~Checkpointed /\ ~Installs
    BY <1>1 DEF AtStarting, Checkpointed, Installs, SInv, StepInv
  <1>3. MediaInv'
    BY <1>2, HistoryMedia
  <1>4. archive' = archive /\ Kept(co)'
    BY <1>1, <1>2, SameAbove DEF AtStarting, GoesOn, GivesUp, Writes, SameCard, Kept
  <1>5. nvs.seq <= active'.seq /\ begun'
    <2>1. CASE Writes
      <3>1. call.rec.seq > active.seq /\ active'.seq = call.rec.seq /\ call.rec.seq \in Nat
            /\ active.seq \in Nat
        BY <2>1, NewestIs DEF Writes, SInv, StepInv, TypeOK, Call, Draft
      <3> QED  BY <1>1, <2>1, <3>1, PTypes DEF AtStarting, Writes
    <2> QED  BY <1>1, <1>2, <2>1 DEF AtStarting, GoesOn, GivesUp, SameCard
  <1>6. AtStarting'
    <2>1. CASE GoesOn
      BY <1>1, <1>4, <1>5, <2>1 DEF AtStarting, GoesOn, SameCard, Ready
    <2>2. CASE GivesUp
      BY <1>1, <1>4, <1>5, <2>2, ReturnedType DEF AtStarting, GivesUp, SameCard, Ready
    <2>3. CASE Writes
      <3>1. call'.pc = "ok" /\ Ready'
        BY <2>3, ReturnedType DEF Writes, Ready
      <3> QED  BY <1>1, <1>4, <1>5, <2>3, <3>1 DEF AtStarting, Writes
    <2> QED  BY <1>2, <2>1, <2>2, <2>3
  <1> QED  BY <1>3, <1>6 DEF StageInv

LEMMA HistoryInSaving ==
  ASSUME PInv, SInv', ~Ready, UNCHANGED <<nvs, p, pending, dirty, host, co, owe>>,
         GoesOn \/ GivesUp \/ Checkpointed \/ Installs \/ Writes, co.pc = "saving"
  PROVE  StageInv' /\ MediaInv'
  <1> USE DEF PInv
  <1>1. AtSaving
    BY DEF StageInv
  <1>2. ~Checkpointed /\ ~Installs
    BY <1>1 DEF AtSaving, Checkpointed, Installs, SInv, StepInv
  <1>3. MediaInv'
    BY <1>2, HistoryMedia
  <1>4. archive' = archive /\ Kept(co)' = Kept(co)
    BY <1>2, SameAbove DEF GoesOn, GivesUp, Writes, SameCard, Kept
  <1>5. nvs.seq <= active'.seq /\ begun'
    <2>1. CASE Writes
      <3>1. call.rec.seq > active.seq /\ active'.seq = call.rec.seq /\ call.rec.seq \in Nat
            /\ active.seq \in Nat
        BY <2>1, NewestIs DEF Writes, SInv, StepInv, TypeOK, Call, Draft
      <3> QED  BY <1>1, <2>1, <3>1, PTypes DEF AtSaving, Writes
    <2> QED  BY <1>1, <1>2, <2>1 DEF AtSaving, GoesOn, GivesUp, SameCard
  <1>6. AtSaving'
    <2>1. CASE GoesOn
      BY <1>1, <1>4, <1>5, <2>1 DEF AtSaving, GoesOn, SameCard, Ready
    <2>2. CASE GivesUp
      BY <1>1, <1>4, <1>5, <2>2, ReturnedType DEF AtSaving, GivesUp, SameCard, Ready
    <2>3. CASE Writes
      <3>1. call'.pc = "ok" /\ Ready'
        BY <2>3, ReturnedType DEF Writes, Ready
      <3> QED  BY <1>1, <1>4, <1>5, <2>3, <3>1 DEF AtSaving, Writes
    <2> QED  BY <1>2, <2>1, <2>2, <2>3
  <1> QED  BY <1>3, <1>6 DEF StageInv

LEMMA HistoryInRolling ==
  ASSUME PInv, SInv', ~Ready, UNCHANGED <<nvs, p, pending, dirty, host, co, owe>>,
         GoesOn \/ GivesUp \/ Checkpointed \/ Installs \/ Writes, co.pc = "rolling"
  PROVE  StageInv' /\ MediaInv'
  <1> USE DEF PInv
  <1>1. AtRolling
    BY DEF StageInv
  <1>2. ~Checkpointed /\ ~Installs
    BY <1>1 DEF AtRolling, Checkpointed, Installs, SInv, StepInv
  <1>3. MediaInv'
    BY <1>2, HistoryMedia
  <1>4. archive' = archive /\ (Above(p.num)' <=> Above(p.num))
    BY <1>2, SameAbove DEF GoesOn, GivesUp, Writes, SameCard
  <1>5. AtRolling'
    <2>1. CASE GoesOn
      BY <1>1, <1>4, <2>1 DEF AtRolling, GoesOn, SameCard, Ready
    <2>2. CASE GivesUp
      BY <1>1, <1>4, <2>2, ReturnedType DEF AtRolling, GivesUp, SameCard, Ready
    <2>3. CASE Writes
      <3>1. call'.pc = "ok" /\ Ready'
        BY <2>3, ReturnedType DEF Writes, Ready
      <3>2. call.rec.seq > active.seq /\ active'.seq = call.rec.seq /\ call.rec.seq \in Nat
            /\ active.seq \in Nat
        BY <2>3, NewestIs DEF Writes, SInv, StepInv, TypeOK, Call, Draft
      <3>3. nvs.seq <= active'.seq
        BY <1>1, <2>3, <3>2, PTypes DEF AtRolling, Writes
      <3> QED  BY <1>1, <1>4, <2>3, <3>1, <3>3 DEF AtRolling, Writes
    <2> QED  BY <1>2, <2>1, <2>2, <2>3
  <1> QED  BY <1>3, <1>5 DEF StageInv

LEMMA HistoryInArchiving ==
  ASSUME PInv, SInv', ~Ready, UNCHANGED <<nvs, p, pending, dirty, host, co, owe>>,
         GoesOn \/ GivesUp \/ Checkpointed \/ Installs \/ Writes, co.pc = "archiving"
  PROVE  StageInv' /\ MediaInv'
  <1> USE DEF PInv
  <1>1. AtArchiving
    BY DEF StageInv
  <1>2. begun /\ at # NoSlot /\ Newest = active /\ active \in Record /\ active.seq \in Nat
        /\ call.op = "archive" /\ call.host = host
    BY <1>1, NewestIs DEF AtArchiving, SInv, StepInv
  <1>3. CASE GoesOn
    BY <1>1, <1>3, HistoryMedia, SameAbove DEF StageInv, AtArchiving, GoesOn, SameCard, Ready
  <1>4. CASE GivesUp
    BY <1>1, <1>4, HistoryMedia, ReturnedType
    DEF StageInv, AtArchiving, GivesUp, SameCard, Ready
  <1>5. CASE Checkpointed
    <2>1. /\ call.pc = "checkpoint" /\ active' = call.rec /\ begun' = begun
          /\ call'.pc = "install" /\ call'.op = call.op /\ call'.host = call.host
      BY <1>5 DEF Checkpointed, SInv, TypeOK, Call
    <2>2. active'.seq = active.seq + 1 /\ active'.num = active.num /\ active'.st = host
      BY <1>1, <2>1 DEF AtArchiving
    <2> QED  BY <1>1, <1>2, <1>5, <2>1, <2>2, HistoryMedia, PTypes
             DEF StageInv, AtArchiving, Ready
  <1>6. CASE Installs
    <2>1. /\ active' = active /\ begun' = begun /\ Newest' = Newest
          /\ call'.pc = "index" /\ call'.op = "archive" /\ call'.host = host /\ ~Ready'
          /\ call'.rec.st = Empty
      BY <1>2, <1>6 DEF Installs, Ready
    <2>2. \E n \in Archived' : archive'[n].st = host
      <3>1. archive'[active.num] = [num |-> active.num, seq |-> active.seq + 1,
                                    from |-> active.from, st |-> call.host]
            /\ active.num \in Num
        BY <1>6 DEF Installs, SInv, TypeOK
      <3>2. archive'[active.num].seq # NoRecord.seq
        BY <1>2, <3>1, RecordFacts
      <3>3. active.num \in Archived'
        BY <3>1, <3>2 DEF Archived, Exists
      <3> QED  BY <1>2, <3>1, <3>3
    <2>3. MediaInv'
      BY <1>1, <1>2, <2>1, PTypes DEF MediaInv, Winner, AtArchiving
    <2>4. AtArchiving'
      BY <1>1, <1>6, <2>1, <2>2 DEF AtArchiving, Installs
    <2> QED  BY <2>3, <2>4 DEF StageInv
  <1>7. CASE Writes
    <2>1. /\ call'.pc = "ok" /\ Ready' /\ begun' /\ archive' = archive
          /\ active'.seq > active.seq /\ active'.seq \in Nat
      BY <1>2, <1>7, ReturnedType, NewestIs DEF Writes, Ready, SInv, StepInv, TypeOK, Call, Draft
    <2> QED  BY <1>1, <1>2, <1>7, <2>1, HistoryMedia, SameAbove, PTypes
             DEF StageInv, AtArchiving, Writes
  <1> QED  BY <1>3, <1>4, <1>5, <1>6, <1>7

LEMMA HistoryOk ==
  ASSUME PInv, ~Readable, HistoryStep
  PROVE  PInv'
  <1>1. /\ SInv' /\ (GoesOn \/ GivesUp \/ Checkpointed \/ Installs \/ Writes)
        /\ UNCHANGED <<nvs, p, pending, dirty, host, co, owe>> /\ ~Ready
        /\ \/ faults' = faults
           \/ faults < MaxFaults /\ faults' = faults + 1
    BY HistoryStepIs DEF PInv
  <1>2. PTypeOK'
    BY <1>1, OwnTypes DEF PInv
  <1>3. co.pc \in {"choose", "adopting", "archiving", "starting", "saving", "rolling"}
    BY <1>1, PTypes DEF PInv, StageInv, AtOff, AtIdle, AtFallback, AtUndoing
  <1>4. StageInv' /\ MediaInv'
    BY <1>1, <1>3, HistoryInChoose, HistoryInAdopting, HistoryInArchiving, HistoryInStarting,
       HistoryInSaving, HistoryInRolling
  <1> QED  BY <1>1, <1>2, <1>4 DEF PInv

-----------------------------------------------------------------------------
(* What the coordinator's steps are built from. *)

LEMMA AtTyped ==
  ASSUME NEW pc \in {"off", "begin", "choose", "adopting", "halt", "idle", "archiving",
                    "starting", "saving", "fallback", "undoing", "rolling"}
  PROVE  At(pc) \in Task /\ At(pc).pc = pc /\ At(pc).op = "none" /\ At(pc).undo = FALSE
         /\ At(pc).discard = FALSE
  <1>1. Off \in Meta
    BY RecordFacts DEF Off, Meta
  <1> QED  BY <1>1, RecordFacts DEF At, Task

\* A task that goes on to its next step.
Moved(next, task, pc) ==
    /\ next \in Task /\ next.pc = pc /\ next.op = task.op
    /\ next.snap = task.snap /\ next.goal = task.goal /\ next.source = task.source
    /\ next.was = task.was /\ next.discard = task.discard /\ next.undo = task.undo

LEMMA MovedTo ==
  ASSUME NEW task \in Task,
         NEW pc \in {"off", "begin", "choose", "adopting", "halt", "idle", "archiving",
                    "starting", "saving", "fallback", "undoing", "rolling"}
  PROVE  /\ Moved([task EXCEPT !.pc = pc], task, pc)
         /\ Moved([task EXCEPT !.pc = pc, !.force = TRUE], task, pc)
  BY DEF Moved, Task

\* What a step that leaves both media as they are keeps of them.
LEMMA MediaKept ==
  ASSUME MediaInv, Newest' = Newest, archive' = archive, nvs' = nvs, owe \subseteq owe',
         call'.pc \in {"checkpoint", "index", "reserve", "write"} => call'.rec.st \in owe'
  PROVE  MediaInv'
  BY SameAbove DEF MediaInv, Winner

\* The mirror never lets NVS outrank the card.
LEMMA MirrorIs ==
  ASSUME SInv, PTypeOK, begun, nvs.seq <= active.seq, NEW due \in BOOLEAN, NEW force \in BOOLEAN,
         MirrorActiveNvs(due, force)
  PROVE  /\ nvs' \in Record \cup {NoRecord} /\ nvs'.seq <= active.seq /\ pending' \in BOOLEAN
         /\ faults' \in 0 .. MaxFaults
  <1>1. active \in Record
    BY NewestIs DEF SInv, StepInv
  <1>2. nvs' \in {nvs, active, NoRecord}
    BY DEF MirrorActiveNvs
  <1>3. pending' \in BOOLEAN
    BY DEF MirrorActiveNvs
  <1>4. \/ faults' = faults
        \/ faults < MaxFaults /\ faults' = faults + 1
    BY DEF MirrorActiveNvs, Fault, NoFault
  <1>5. nvs' \in Record \cup {NoRecord} /\ nvs'.seq <= active.seq
    BY <1>1, <1>2, RecordFacts DEF PTypeOK
  <1> QED  BY <1>3, <1>4, <1>5, FaultCounted

\* The card is in use and NVS does not outrank it: a boot takes the active record.
LEMMA CardWins ==
  ASSUME SInv, SInv', SameCard, begun, nvs'.seq <= active.seq, nvs'.seq \in Nat,
         active.st \in owe',
         call'.pc \in {"checkpoint", "index", "reserve", "write"} => call'.rec.st \in owe'
  PROVE  MediaInv'
  <1>1. Newest' = active /\ active.seq \in Nat
    BY NewestIs DEF SInv, StepInv, SameCard
  <1> QED  BY <1>1 DEF MediaInv, Winner

LEMMA MetadataIs ==
  ASSUME SInv, begun, UseHistoryMetadata
  PROVE  /\ p' \in Meta /\ p'.usingSd /\ p'.num = active.num /\ p'.gen = active.seq
         /\ active.num \in Num /\ active.seq \in Nat /\ active.st \in Standings
         /\ Newest = active /\ at # NoSlot
  <1>1. active \in Record /\ Newest = active /\ at # NoSlot
    BY NewestIs DEF SInv, StepInv
  <1>2. active.num \in 0 .. MaxNum /\ active.seq \in 0 .. MaxSeq /\ active.from \in 0 .. MaxNum
    BY <1>1, MaxNumAssumption, MaxSeqAssumption DEF Record, Num, Seq
  <1> QED  BY <1>1, <1>2, RecordFacts DEF UseHistoryMetadata, Meta

\* A call that ends with the live ledger in use.
LEMMA BackToIdle ==
  ASSUME SInv', nvs' \in Record \cup {NoRecord}, p' \in Meta, pending' \in BOOLEAN,
         dirty' \in BOOLEAN, host' \in Standings, owe' \in SUBSET Standings,
         faults' \in 0 .. MaxFaults, co' = At("idle"), MediaInv', Ready', p'.num \in Num,
         p'.usingSd => /\ begun' /\ nvs'.seq <= active'.seq /\ p'.num = active'.num
                       /\ ~dirty' => active'.st = host',
         ~p'.usingSd => /\ Leads' /\ Above(p.num)'
                        /\ ~dirty' => nvs'.st = host'
                              /\ (Newest.seq < nvs.seq \/ (Newest = nvs /\ ~begun))'
  PROVE  PInv'
  <1>1. co' \in Task /\ co'.pc = "idle" /\ co'.op = "none"
    BY AtTyped
  <1>2. PTypeOK'
    BY <1>1 DEF PTypeOK
  <1>3. AtIdle'
    BY <1>1 DEF AtIdle
  <1> QED  BY <1>1, <1>2, <1>3 DEF PInv, StageInv

\* Saving starts on the card, or without one in NVS.
LEMMA SaveIs ==
  ASSUME SInv, NEW task \in Task, Save(task)
  PROVE  /\ SInv' /\ SameCard /\ owe' = owe \cup {task.goal}
         /\ p.usingSd =>
              /\ begun /\ Moved(co', task, "saving")
              /\ \/ Ready' /\ call'.pc = "ok" /\ active.st = task.goal
                 \/ Ready' /\ call'.pc = "failed"
                 \/ call'.op = "checkpoint" /\ call'.pc = "write" /\ call'.rec.st = task.goal
         /\ ~p.usingSd => call' = call /\ (Ready' <=> Ready) /\ Moved(co', task, "fallback")
  <1>1. task.goal \in Standings /\ task.force \in BOOLEAN /\ active.from \in 0 .. MaxNum
    BY MaxNumAssumption DEF Task, SInv, TypeOK, Record, NoRecord
  <1>2. owe' = owe \cup {task.goal}
    BY DEF Save
  <1>3. CASE p.usingSd
    <2>1. Checkpoint(task.goal, task.force, active.from) /\ co' = [task EXCEPT !.pc = "saving"]
      BY <1>3 DEF Save
    <2>2. Moved(co', task, "saving")
      BY <2>1, MovedTo
    <2> QED  BY <1>1, <1>2, <1>3, <2>1, <2>2, CheckpointIs
  <1>4. CASE ~p.usingSd
    <2>1. NoHistory /\ co' = [task EXCEPT !.pc = "fallback"]
      BY <1>4 DEF Save
    <2>2. Moved(co', task, "fallback")
      BY <2>1, MovedTo
    <2> QED  BY <1>2, <1>4, <2>1, <2>2, QuietIs
  <1> QED  BY <1>3, <1>4

-----------------------------------------------------------------------------
(* Boot. *)

LEMMA PowerOnOk ==
  ASSUME PInv, NEW card \in BOOLEAN, PowerOn(card)
  PROVE  PInv'
  <1> USE DEF PInv
  <1> DEFINE pc == IF card THEN "begin" ELSE "choose"
  <1>1. /\ co.pc = "off" /\ co' = [At(pc) EXCEPT !.op = "boot"] /\ NoHistory
        /\ UNCHANGED <<nvs, p, pending, dirty, host, owe, faults>>
    BY DEF PowerOn
  <1>2. pc \in {"begin", "choose"}
    OBVIOUS
  <1> HIDE DEF pc
  <1>3. co' \in Task /\ co'.pc = pc /\ co'.op = "boot"
    <2>1. At(pc) \in Task /\ At(pc).pc = pc
      BY <1>2, AtTyped
    <2> QED  BY <1>1, <2>1 DEF Task
  <1>4. SInv' /\ SameCard /\ call' = call /\ (Ready' <=> Ready)
    BY <1>1, QuietIs
  <1>5. PTypeOK'
    BY <1>1, <1>3 DEF PTypeOK
  <1>6. MediaInv'
    BY <1>1, <1>4, MediaKept DEF MediaInv, SameCard
  <1>7. StageInv'
    BY <1>1, <1>2, <1>3, <1>4 DEF StageInv, AtOff, AtChoose, Booting, SameCard
  <1> QED  BY <1>4, <1>5, <1>6, <1>7

LEMMA BootBeginOk ==
  ASSUME PInv, BootBegin
  PROVE  PInv'
  <1> USE DEF PInv
  <1>1. /\ co.pc = "begin" /\ co' = [co EXCEPT !.pc = "choose"]
        /\ owe' = IF call'.op = "begin" THEN owe \cup {Empty} ELSE owe
        /\ UNCHANGED <<nvs, p, pending, dirty, host>>
    BY DEF BootBegin
  <1>2. at = NoSlot /\ ~p.usingSd /\ co.op \in {"none", "boot"}
    BY <1>1 DEF StageInv, AtOff, Booting
  <1>3. /\ SInv' /\ Newest' = Newest /\ archive' = archive
        /\ ~Ready' => call'.op = "begin" /\ call'.rec.st = Empty
        /\ call'.pc \in {"checkpoint", "index", "reserve", "write"} => ~Ready'
        /\ \/ faults' = faults
           \/ faults < MaxFaults /\ faults' = faults + 1
    BY <1>2, BootBeginIs
  <1>4. co' \in Task /\ co'.pc = "choose" /\ co'.op = co.op
    BY <1>1 DEF PTypeOK, Task
  <1>5. owe' \in SUBSET Standings /\ owe \subseteq owe'
    BY <1>1, RecordFacts DEF PTypeOK
  <1>6. PTypeOK'
    BY <1>1, <1>3, <1>4, <1>5, FaultCounted DEF PTypeOK
  <1>7. MediaInv'
    BY <1>1, <1>3, <1>5, MediaKept
  <1>8. StageInv'
    BY <1>1, <1>2, <1>3, <1>4 DEF StageInv, AtChoose, Booting
  <1> QED  BY <1>3, <1>6, <1>7, <1>8

LEMMA BootFromSdOk ==
  ASSUME PInv, BootFromSd
  PROVE  PInv'
  <1> USE DEF PInv
  <1>1. /\ Ready /\ begun /\ active.seq >= nvs.seq /\ UseHistoryMetadata
        /\ MirrorActiveNvs(TRUE, TRUE) /\ NoHistory
        /\ host' = active.st /\ dirty' = FALSE /\ owe' = {active.st} /\ co' = At("idle")
    BY DEF BootFromSd, Choosing, SdWins, Resume
  <1>2. SInv' /\ SameCard /\ call' = call /\ (Ready' <=> Ready)
    BY <1>1, QuietIs
  <1>3. /\ p' \in Meta /\ p'.usingSd /\ p'.num = active.num /\ active.num \in Num
        /\ active.seq \in Nat /\ active.st \in Standings
    BY <1>1, MetadataIs
  <1>4. /\ nvs' \in Record \cup {NoRecord} /\ nvs'.seq <= active.seq /\ pending' \in BOOLEAN
        /\ faults' \in 0 .. MaxFaults
    BY <1>1, <1>3, MirrorIs, PTypes
  <1>5. MediaInv'
    <2>1. nvs'.seq \in Nat
      BY <1>4, RecordFacts
    <2>2. call'.pc \notin {"checkpoint", "index", "reserve", "write"}
      BY <1>1, <1>2 DEF Ready
    <2> QED  BY <1>1, <1>2, <1>4, <2>1, <2>2, CardWins
  <1>6. dirty' \in BOOLEAN
    BY <1>1
  <1>7. owe' \in SUBSET Standings /\ host' \in Standings
    BY <1>1, <1>3
  <1> QED  BY <1>1, <1>2, <1>3, <1>4, <1>5, <1>6, <1>7, BackToIdle DEF SameCard

LEMMA BootFromNvsOk ==
  ASSUME PInv, BootFromNvs
  PROVE  PInv'
  <1> USE DEF PInv
  <1>1. /\ Ready /\ nvs # NoRecord /\ ~begun /\ ~Stale /\ p' = FromNvs /\ NoHistory
        /\ UNCHANGED <<nvs, pending, faults>>
        /\ host' = nvs.st /\ dirty' = FALSE /\ owe' = {nvs.st} /\ co' = At("idle")
    BY DEF BootFromNvs, Choosing, NvsWins, Resume
  <1>2. SInv' /\ SameCard /\ call' = call /\ (Ready' <=> Ready)
    BY <1>1, QuietIs
  <1>3. nvs \in Record
    BY <1>1 DEF PTypeOK
  <1>4. p' \in Meta /\ ~p'.usingSd /\ p'.num = nvs.num /\ p'.gen = nvs.seq /\ nvs.num \in Num
    <2>1. nvs.num \in 0 .. MaxNum /\ nvs.seq \in 0 .. MaxSeq /\ nvs.from \in 0 .. MaxNum
          /\ nvs.num \in Num
      BY <1>3, MaxNumAssumption, MaxSeqAssumption DEF Record, Num, Seq
    <2> QED  BY <1>1, <2>1 DEF FromNvs, Meta
  <1>5. Newest.seq < nvs.seq \/ Newest = nvs
    BY <1>1, <1>3, NewestIs, RecordFacts DEF Stale, SInv
  <1>6. Above(nvs.num)
    BY <1>3, <1>5, NewestIs, RecordFacts DEF SInv, NumInv, MediaInv
  <1>7. Newest.seq <= nvs.seq /\ Newest.seq \in Nat /\ nvs.seq \in Nat
    BY <1>5, <1>3, NewestIs, RecordFacts DEF SInv
  <1>8. MediaInv'
    <2>1. call'.pc \notin {"checkpoint", "index", "reserve", "write"}
      BY <1>1, <1>2 DEF Ready
    <2>2. Newest' = Newest /\ nvs' = nvs /\ Above(nvs.num)'
      BY <1>1, <1>2, <1>6, SameAbove DEF SameCard
    <2> QED  BY <1>1, <1>5, <1>7, <2>1, <2>2 DEF MediaInv, Winner
  <1>9. dirty' \in BOOLEAN /\ pending' \in BOOLEAN /\ faults' \in 0 .. MaxFaults
    BY <1>1 DEF PTypeOK
  <1>10. owe' \in SUBSET Standings /\ host' \in Standings /\ nvs' \in Record \cup {NoRecord}
    BY <1>1, <1>3, RecordFacts
  <1>11. Leads' /\ Above(p.num)' /\ nvs'.st = host'
         /\ (Newest.seq < nvs.seq \/ (Newest = nvs /\ ~begun))'
    <2>1. Newest' = Newest /\ nvs' = nvs /\ begun' = begun /\ archive' = archive
      BY <1>1, <1>2 DEF SameCard
    <2>2. Above(p.num)'
      BY <1>4, <1>6, <2>1, SameAbove
    <2> QED  BY <1>1, <1>5, <1>7, <2>1, <2>2 DEF Leads
  <1> QED  BY <1>1, <1>2, <1>4, <1>8, <1>9, <1>10, <1>11, BackToIdle

LEMMA BootAdoptsOk ==
  ASSUME PInv, BootAdopts
  PROVE  PInv'
  <1> USE DEF PInv
  <1>1. /\ co.pc = "choose" /\ Ready /\ begun /\ nvs # NoRecord /\ ~(active.seq >= nvs.seq)
        /\ call' = [op |-> "start", pc |-> IF Exists(nvs.num) THEN "reserve" ELSE "write",
                    rec |-> nvs, host |-> Empty]
        /\ co' = [co EXCEPT !.pc = "adopting"]
        /\ UNCHANGED <<store, ram, ghost, nvs, p, pending, dirty, host, owe, faults>>
    BY DEF BootAdopts, Choosing, NvsWins, SdWins
  <1>2. nvs \in Record /\ Newest = active /\ at # NoSlot /\ nvs.seq \in Nat /\ active.seq \in Nat
    BY <1>1, NewestIs, RecordFacts DEF PTypeOK, SInv, StepInv
  <1>3. nvs.seq > active.seq /\ Above(nvs.num)
    BY <1>1, <1>2 DEF MediaInv
  <1>4. /\ call'.op = "start" /\ call'.rec = nvs /\ call'.pc \in {"reserve", "write"}
        /\ call'.pc = "write" => ~Exists(nvs.num)
    BY <1>1
  <1>5. call' \in Call
    <2>1. nvs \in Draft
      BY <1>2, MaxNumAssumption, MaxSeqAssumption DEF Record, Draft, Num, Seq
    <2> QED  BY <1>1, <2>1, RecordFacts DEF Call, Op, Pc
  <1>6. StepInv'
    BY <1>1, <1>2, <1>3, <1>4 DEF StepInv, Ready, ram, SInv
  <1>7. SInv' /\ SameCard
    BY <1>1, <1>3, <1>4, <1>5, <1>6, Opens
  <1>8. co' \in Task /\ co'.pc = "adopting" /\ co'.op = co.op
    BY <1>1 DEF PTypeOK, Task
  <1>9. PTypeOK'
    BY <1>1, <1>8 DEF PTypeOK
  <1>10. nvs.st \in owe
    BY <1>2, <1>3, RecordFacts DEF MediaInv, Winner
  <1>11. MediaInv'
    BY <1>1, <1>4, <1>7, <1>10, MediaKept DEF SameCard
  <1>12. AtAdopting'
    <2>1. ~p.usingSd /\ Booting'
      BY <1>1, <1>8 DEF StageInv, AtChoose, Booting
    <2>2. ~Ready' /\ (Exists(nvs.num)' <=> Exists(nvs.num)) /\ nvs' = nvs /\ p' = p
          /\ begun' = begun /\ active' = active
      BY <1>1, <1>4, <1>7, SameAbove DEF Ready, SameCard
    <2> QED  BY <1>1, <1>3, <1>4, <2>1, <2>2 DEF AtAdopting
  <1> QED  BY <1>7, <1>8, <1>9, <1>11, <1>12 DEF StageInv

LEMMA AdoptedOk ==
  ASSUME PInv, Adopted
  PROVE  PInv'
  <1> USE DEF PInv
  <1>1. /\ co.pc = "adopting" /\ call.pc = "ok" /\ UseHistoryMetadata
        /\ MirrorActiveNvs(active.num # nvs.num, TRUE) /\ NoHistory
        /\ host' = nvs.st /\ dirty' = FALSE /\ owe' = {nvs.st} /\ co' = At("idle")
    BY DEF Adopted, Resume
  <1>2. begun /\ Ready /\ active.seq = nvs.seq /\ active.st = nvs.st
    BY <1>1 DEF StageInv, AtAdopting, Ready
  <1>3. SInv' /\ SameCard /\ call' = call /\ Ready'
    BY <1>1, <1>2, QuietIs
  <1>4. /\ p' \in Meta /\ p'.usingSd /\ p'.num = active.num /\ active.num \in Num
        /\ active.seq \in Nat /\ active.st \in Standings
    BY <1>1, <1>2, MetadataIs
  <1>5. /\ nvs' \in Record \cup {NoRecord} /\ nvs'.seq <= active.seq /\ pending' \in BOOLEAN
        /\ faults' \in 0 .. MaxFaults
    <2> DEFINE due == active.num # nvs.num
    <2>1. due \in BOOLEAN /\ MirrorActiveNvs(due, TRUE)
      BY <1>1
    <2>2. nvs.seq <= active.seq
      BY <1>2, <1>4
    <2> HIDE DEF due
    <2> QED  BY <1>2, <2>1, <2>2, MirrorIs
  <1>6. MediaInv'
    <2>1. nvs'.seq \in Nat
      BY <1>5, RecordFacts
    <2>2. call'.pc \notin {"checkpoint", "index", "reserve", "write"}
      BY <1>1, <1>3
    <2> QED  BY <1>1, <1>2, <1>3, <1>5, <2>1, <2>2, CardWins
  <1>7. dirty' \in BOOLEAN
    BY <1>1
  <1>8. owe' \in SUBSET Standings /\ host' \in Standings
    BY <1>1, <1>2, <1>4
  <1> QED  BY <1>1, <1>2, <1>3, <1>4, <1>5, <1>6, <1>7, <1>8, BackToIdle DEF SameCard

LEMMA NotAdoptedOk ==
  ASSUME PInv, NotAdopted
  PROVE  PInv'
  <1> USE DEF PInv
  <1>1. /\ co.pc = "adopting" /\ call.pc = "failed" /\ p' = FromNvs /\ NoHistory
        /\ UNCHANGED <<nvs, pending, faults>>
        /\ host' = nvs.st /\ dirty' = FALSE /\ owe' = {nvs.st} /\ co' = At("idle")
    BY DEF NotAdopted, Resume
  <1>2. begun /\ Ready /\ nvs # NoRecord /\ nvs.seq > active.seq
    BY <1>1 DEF StageInv, AtAdopting, Ready
  <1>3. SInv' /\ SameCard /\ call' = call /\ Ready'
    BY <1>1, <1>2, QuietIs
  <1>4. nvs \in Record /\ Newest = active /\ active.seq \in Nat /\ nvs.seq \in Nat
    BY <1>2, NewestIs, RecordFacts DEF PTypeOK, SInv, StepInv
  <1>5. p' \in Meta /\ ~p'.usingSd /\ p'.num = nvs.num /\ p'.gen = nvs.seq /\ nvs.num \in Num
    <2>1. nvs.num \in 0 .. MaxNum /\ nvs.seq \in 0 .. MaxSeq /\ nvs.from \in 0 .. MaxNum
          /\ nvs.num \in Num
      BY <1>4, MaxNumAssumption, MaxSeqAssumption DEF Record, Num, Seq
    <2> QED  BY <1>1, <2>1 DEF FromNvs, Meta
  <1>6. Newest' = Newest /\ nvs' = nvs /\ archive' = archive /\ Above(nvs.num)'
        /\ p'.num = nvs'.num
    BY <1>1, <1>2, <1>3, <1>4, <1>5, SameAbove DEF SameCard, MediaInv
  <1>7. MediaInv'
    <2>1. call'.pc \notin {"checkpoint", "index", "reserve", "write"}
      BY <1>1, <1>3
    <2> QED  BY <1>1, <1>2, <1>4, <1>6, <2>1 DEF MediaInv, Winner
  <1>8. dirty' \in BOOLEAN /\ pending' \in BOOLEAN /\ faults' \in 0 .. MaxFaults
    BY <1>1 DEF PTypeOK
  <1>9. owe' \in SUBSET Standings /\ host' \in Standings /\ nvs' \in Record \cup {NoRecord}
    BY <1>1, <1>4, RecordFacts
  <1>10. Leads' /\ Above(p.num)' /\ nvs'.st = host' /\ Newest'.seq < nvs'.seq
    BY <1>1, <1>2, <1>4, <1>5, <1>6 DEF Leads
  <1> QED  BY <1>1, <1>3, <1>5, <1>7, <1>8, <1>9, <1>10, BackToIdle

LEMMA BootAfreshOk ==
  ASSUME PInv, BootAfresh
  PROVE  PInv'
  <1> USE DEF PInv
  <1>1. PICK next \in 0 .. MaxNum :
          /\ ReserveNumber(next, 0)
          /\ p' = [Off EXCEPT !.num = next, !.gen = 2]
          /\ co' = IF next = 0 THEN At("halt")
                   ELSE [At("fallback") EXCEPT !.op = "boot", !.force = TRUE]
    BY DEF BootAfresh
  <1>2. /\ Ready /\ ~SdWins /\ ~NvsWins /\ ~Stale /\ host' = Empty /\ dirty' = TRUE
        /\ owe' = owe \cup {Empty}
        /\ UNCHANGED <<slot, archive, index, indexValid, ram, call, ghost, nvs, pending>>
    BY DEF BootAfresh, Choosing
  <1>3. /\ SInv' /\ SameCard /\ call' = call /\ Ready'
        /\ next # 0 => next \in Num
        /\ faults' = faults \/ (faults < MaxFaults /\ faults' = faults + 1)
    BY <1>1, <1>2, ReserveIs, RecordFacts
  <1>4. nvs = NoRecord /\ ~begun /\ Newest = NoRecord
    <2>1. nvs = NoRecord /\ ~begun
      BY <1>2, NewestIs, RecordFacts DEF SdWins, NvsWins, SInv
    <2> QED  BY <1>2, <2>1, NewestIs, RecordFacts DEF Stale, SInv
  <1>5. /\ p' \in Meta /\ ~p'.usingSd /\ p'.num = next /\ p'.gen = 2
    <2>1. p' = [usingSd |-> FALSE, num |-> next, gen |-> 2, from |-> 0]
      BY <1>1 DEF Off
    <2> QED  BY <2>1, RecordFacts DEF Meta
  <1>6. /\ co' \in Task /\ (next = 0 => co'.pc = "halt")
        /\ next # 0 => /\ co'.pc = "fallback" /\ co'.op = "boot" /\ co'.goal = Empty
                       /\ co'.undo = FALSE
    <2>1. At("fallback") \in Task /\ At("fallback").goal = Empty /\ At("fallback").pc = "fallback"
          /\ At("fallback").undo = FALSE
      BY AtTyped DEF At
    <2> QED  BY <1>1, <2>1, AtTyped DEF Task
  <1>7. PTypeOK'
    <2>1. dirty' \in BOOLEAN /\ host' \in Standings /\ owe' \in SUBSET Standings
      BY <1>2, RecordFacts DEF PTypeOK
    <2> QED  BY <1>2, <1>3, <1>5, <1>6, <2>1, FaultCounted DEF PTypeOK
  <1>8. MediaInv'
    BY <1>2, <1>3, MediaKept DEF MediaInv, SameCard
  <1>9. CASE next = 0
    BY <1>3, <1>6, <1>7, <1>8, <1>9 DEF StageInv
  <1>10. CASE next # 0
    <2>1. Newest' = NoRecord /\ nvs' = NoRecord /\ ~begun'
      BY <1>2, <1>3, <1>4 DEF SameCard
    <2>2. Above(p.num)' /\ p'.num \in Num
      <3>1. Above(next)
        BY <1>4, NoneArchived, RecordFacts DEF SInv, NumInv
      <3> QED  BY <1>3, <1>5, <1>10, <3>1, SameAbove DEF SameCard
    <2>3. AtFallback'
      BY <1>2, <1>3, <1>5, <1>6, <1>10, <2>1, <2>2, RecordFacts DEF AtFallback, Leads
    <2> QED  BY <1>3, <1>6, <1>7, <1>8, <1>10, <2>3 DEF StageInv
  <1> QED  BY <1>9, <1>10

LEMMA PowerOffOk ==
  ASSUME PInv, PowerOff
  PROVE  PInv'
  <1> USE DEF PInv
  <1>1. /\ Crash /\ p' = Off /\ pending' = FALSE /\ dirty' = FALSE /\ host' = Empty
        /\ co' = At("off") /\ UNCHANGED <<nvs, owe>>
        /\ \/ faults' = faults
           \/ faults < MaxFaults /\ faults' = faults + 1
    BY DEF PowerOff, Fault, NoFault
  <1>2. SInv' /\ Newest' = Newest /\ archive' = archive /\ Ready' /\ at' = NoSlot
    BY <1>1, CrashIs
  <1>3. PTypeOK'
    <2>1. p' \in Meta /\ pending' \in BOOLEAN /\ dirty' \in BOOLEAN /\ host' \in Standings
      <3>1. Off \in Meta
        BY RecordFacts DEF Off, Meta
      <3>2. pending' \in BOOLEAN /\ dirty' \in BOOLEAN
        BY <1>1
      <3> QED  BY <1>1, <3>1, <3>2, RecordFacts
    <2> QED  BY <1>1, <2>1, AtTyped, FaultCounted DEF PTypeOK
  <1>4. MediaInv'
    BY <1>1, <1>2, MediaKept DEF Ready
  <1>5. StageInv'
    <2>1. co'.pc = "off" /\ co'.op = "none" /\ ~p'.usingSd
      BY <1>1, AtTyped DEF Off
    <2> QED  BY <1>2, <2>1 DEF StageInv, AtOff, Booting
  <1> QED  BY <1>2, <1>3, <1>4, <1>5

-----------------------------------------------------------------------------
(* The ends of a save. *)

\* What the coordinator's three ways to succeed have in common.
LEMMA SucceedsIs ==
  ASSUME PTypeOK, Succeeds
  PROVE  /\ dirty' \in BOOLEAN /\ host' \in Standings /\ owe' = {co.goal} /\ co' = At("idle")
         /\ co.goal \in Standings /\ owe' \in SUBSET Standings
         /\ co.op = "checkpoint" /\ ~dirty' => host' = host /\ host = co.snap
         /\ co.op = "new" /\ ~co.undo => host' = co.goal
         /\ co.op # "new" \/ co.undo => host' = host
  <1>1. co.goal \in Standings
    BY DEF PTypeOK, Task
  <1>2. dirty' \in BOOLEAN /\ (co.op = "checkpoint" /\ ~dirty' => host = co.snap)
    BY DEF Succeeds
  <1>3. host' \in Standings
    BY <1>1 DEF Succeeds, PTypeOK
  <1> QED  BY <1>1, <1>2, <1>3 DEF Succeeds

LEMMA FailsIs ==
  ASSUME PTypeOK, Fails
  PROVE  /\ dirty' = TRUE /\ host' = host /\ owe' = owe
         /\ co.op = "boot" => co' = At("halt")
         /\ co.op = "new" /\ ~co.undo => Moved(co', co, "undoing")
         /\ co.op # "boot" /\ ~(co.op = "new" /\ ~co.undo) => co' = At("idle")
  <1>1. co.op = "new" /\ ~co.undo => co' = [co EXCEPT !.pc = "undoing"]
    BY DEF Fails
  <1>2. Moved([co EXCEPT !.pc = "undoing"], co, "undoing")
    BY MovedTo DEF PTypeOK
  <1> QED  BY <1>1, <1>2 DEF Fails

LEMMA DueTyped == PTypeOK => MirrorDue \in BOOLEAN
  BY DEF PTypeOK, MirrorDue

\* A save that ends on the card: its record is active, and NVS does not outrank it.
LEMMA EndsOnCard ==
  ASSUME PInv, UseHistoryMetadata, NEW force \in BOOLEAN, MirrorActiveNvs(MirrorDue, force),
         NoHistory, Ready, begun, nvs.seq <= active.seq, active.st = co.goal,
         dirty' \in BOOLEAN, host' \in Standings, owe' = {co.goal}, co' = At("idle"),
         ~dirty' => host' = co.goal
  PROVE  PInv'
  <1> USE DEF PInv
  <1>1. SInv' /\ SameCard /\ call' = call /\ Ready'
    BY QuietIs
  <1>2. /\ p' \in Meta /\ p'.usingSd /\ p'.num = active.num /\ active.num \in Num
        /\ active.seq \in Nat /\ active.st \in Standings
    BY MetadataIs
  <1>3. /\ nvs' \in Record \cup {NoRecord} /\ nvs'.seq <= active.seq /\ pending' \in BOOLEAN
        /\ faults' \in 0 .. MaxFaults
    <2>1. MirrorDue \in BOOLEAN
      BY DueTyped
    <2> QED  BY <1>2, <2>1, MirrorIs
  <1>4. MediaInv'
    <2>1. nvs'.seq \in Nat
      BY <1>3, RecordFacts
    <2>2. call'.pc \notin {"checkpoint", "index", "reserve", "write"}
      BY <1>1 DEF Ready
    <2> QED  BY <1>1, <1>3, <2>1, <2>2, CardWins
  <1>5. owe' \in SUBSET Standings
    BY <1>2
  <1> QED  BY <1>1, <1>2, <1>3, <1>4, <1>5, BackToIdle DEF SameCard

LEMMA SavedOnSdOk ==
  ASSUME PInv, SavedOnSd
  PROVE  PInv'
  <1>1. /\ co.pc = "saving" /\ call.pc = "ok" /\ UseHistoryMetadata
        /\ MirrorActiveNvs(MirrorDue, co.force) /\ Succeeds /\ NoHistory /\ Ready
    BY DEF SavedOnSd, Ready
  <1>2. AtSaving
    BY <1>1 DEF PInv, StageInv
  <1>3. /\ dirty' \in BOOLEAN /\ host' \in Standings /\ owe' = {co.goal} /\ co' = At("idle")
        /\ ~dirty' => host' = co.goal
    BY <1>1, <1>2, SucceedsIs DEF PInv, AtSaving
  <1>4. co.force \in BOOLEAN
    BY DEF PInv, PTypeOK, Task
  <1> QED  BY <1>1, <1>2, <1>3, <1>4, EndsOnCard DEF AtSaving

LEMMA RolledBackOk ==
  ASSUME PInv, RolledBack
  PROVE  PInv'
  <1>1. /\ co.pc = "rolling" /\ call.pc = "ok" /\ UseHistoryMetadata
        /\ MirrorActiveNvs(MirrorDue, TRUE) /\ Succeeds /\ NoHistory /\ Ready
    BY DEF RolledBack, Ready
  <1>2. AtRolling
    BY <1>1 DEF PInv, StageInv
  <1>3. /\ dirty' \in BOOLEAN /\ host' \in Standings /\ owe' = {co.goal} /\ co' = At("idle")
        /\ ~dirty' => host' = co.goal
    BY <1>1, <1>2, SucceedsIs DEF PInv, AtRolling
  <1> QED  BY <1>1, <1>2, <1>3, EndsOnCard DEF AtRolling

LEMMA StartedOk ==
  ASSUME PInv, Started
  PROVE  PInv'
  <1>1. /\ co.pc = "starting" /\ call.pc = "ok" /\ UseHistoryMetadata
        /\ MirrorActiveNvs(MirrorDue, TRUE) /\ NoHistory /\ Ready
        /\ host' = co.goal /\ owe' = {co.goal} /\ co' = At("idle")
    BY DEF Started, Ready
  <1>2. dirty' \in BOOLEAN
    BY DEF Started
  <1>3. AtStarting
    BY <1>1 DEF PInv, StageInv
  <1>4. co.goal \in Standings
    BY DEF PInv, PTypeOK, Task
  <1> QED  BY <1>1, <1>2, <1>3, <1>4, EndsOnCard DEF AtStarting

LEMMA NvsRecordIs ==
  ASSUME PInv, p.num \in Num, NextGeneration <= MaxSeq
  PROVE  /\ NvsRecord \in Record /\ NvsRecord.seq = NextGeneration /\ NvsRecord.st = co.goal
         /\ NvsRecord.num = p.num /\ NextGeneration \in 1 .. MaxSeq
         /\ NextGeneration >= p.gen /\ NextGeneration > nvs.seq
         /\ Leads => NextGeneration > Newest.seq
  <1>1. NextGeneration \in 1 .. MaxSeq /\ NextGeneration >= p.gen /\ NextGeneration > nvs.seq
    BY PTypes, RecordFacts DEF PInv, NextGeneration
  <1>2. Leads => NextGeneration > Newest.seq
    BY <1>1, PTypes, NewestIs DEF PInv, SInv, Leads
  <1>3. co.goal \in Standings /\ p.from \in 0 .. MaxNum
    BY DEF PInv, PTypeOK, Task, Meta
  <1> QED  BY <1>1, <1>2, <1>3 DEF NvsRecord, Record, Seq

LEMMA SavedInNvsOk ==
  ASSUME PInv, SavedInNvs
  PROVE  PInv'
  <1> USE DEF PInv
  <1>1. /\ co.pc = "fallback" /\ NextGeneration <= MaxSeq /\ nvs' = NvsRecord
        /\ p' = [p EXCEPT !.gen = NextGeneration] /\ pending' = FALSE /\ Succeeds /\ NoHistory
        /\ faults' = faults
    BY DEF SavedInNvs, NoFault
  <1>2. AtFallback
    BY <1>1 DEF StageInv
  <1>3. /\ NvsRecord \in Record /\ NvsRecord.seq = NextGeneration /\ NvsRecord.st = co.goal
        /\ NvsRecord.num = p.num /\ NextGeneration \in 1 .. MaxSeq
        /\ NextGeneration > Newest.seq
    BY <1>1, <1>2, NvsRecordIs DEF AtFallback
  <1>4. SInv' /\ SameCard /\ call' = call /\ Ready'
    BY <1>1, <1>2, QuietIs DEF AtFallback
  <1>5. /\ dirty' \in BOOLEAN /\ host' \in Standings /\ owe' = {co.goal} /\ co' = At("idle")
        /\ owe' \in SUBSET Standings
        /\ ~dirty' => host' = co.goal
    BY <1>1, <1>2, SucceedsIs, PTypes DEF AtFallback
  <1>6. p' \in Meta /\ ~p'.usingSd /\ p'.num = p.num /\ p'.num \in Num
    BY <1>1, <1>2, <1>3 DEF PTypeOK, Meta, AtFallback
  <1>7. Newest' = Newest /\ nvs' \in Record \cup {NoRecord} /\ Newest'.seq < nvs'.seq
        /\ nvs'.st = co.goal /\ Newest.seq \in Nat /\ nvs'.seq \in Nat
    BY <1>1, <1>3, <1>4, NewestIs DEF SameCard, SInv
  <1>8. Above(p.num)' /\ Above(nvs.num)'
    BY <1>1, <1>2, <1>3, <1>4, <1>6, SameAbove DEF SameCard, AtFallback
  <1>9. MediaInv'
    <2>1. call'.pc \notin {"checkpoint", "index", "reserve", "write"}
      BY <1>4 DEF Ready
    <2> QED  BY <1>5, <1>7, <1>8, <2>1 DEF MediaInv, Winner
  <1>10. Leads'
    BY <1>7 DEF Leads
  <1>11. pending' \in BOOLEAN /\ faults' \in 0 .. MaxFaults
    BY <1>1 DEF PTypeOK
  <1> QED  BY <1>4, <1>5, <1>6, <1>7, <1>8, <1>9, <1>10, <1>11, BackToIdle

LEMMA NvsSaveFailsOk ==
  ASSUME PInv, NvsSaveFails
  PROVE  PInv'
  <1> USE DEF PInv
  <1>1. /\ co.pc = "fallback" /\ Fails /\ NoHistory /\ UNCHANGED <<p, pending>>
        /\ nvs' = nvs \/ (NextGeneration <= MaxSeq /\ nvs' = NvsRecord)
        /\ \/ faults' = faults
           \/ faults < MaxFaults /\ faults' = faults + 1
    BY DEF NvsSaveFails, Fault, NoFault
  <1>2. AtFallback
    BY <1>1 DEF StageInv
  <1>3. NextGeneration <= MaxSeq =>
          /\ NvsRecord \in Record /\ NvsRecord.seq = NextGeneration /\ NvsRecord.st = co.goal
          /\ NvsRecord.num = p.num /\ NextGeneration > Newest.seq /\ NextGeneration \in Nat
    BY <1>2, NvsRecordIs DEF AtFallback
  <1>4. SInv' /\ SameCard /\ call' = call /\ Ready' /\ Newest' = Newest
    BY <1>1, <1>2, QuietIs DEF AtFallback, SameCard
  <1>5. dirty' = TRUE /\ host' = host /\ owe' = owe
    BY <1>1, FailsIs
  <1>6. Above(p.num)' /\ p'.num \in Num /\ p' = p /\ co.goal \in owe
    BY <1>1, <1>2, <1>4, SameAbove DEF SameCard, AtFallback
  <1>7. nvs' \in Record \cup {NoRecord} /\ Newest.seq \in Nat
    BY <1>1, <1>3, NewestIs DEF PTypeOK, SInv
  <1>8. MediaInv'
    <2>1. call'.pc \notin {"checkpoint", "index", "reserve", "write"}
      BY <1>4 DEF Ready
    <2>2. CASE nvs' = nvs
      BY <1>4, <1>5, <2>1, <2>2, MediaKept DEF SameCard
    <2>3. CASE NextGeneration <= MaxSeq /\ nvs' = NvsRecord
      <3>1. nvs'.seq > Newest'.seq /\ nvs'.st \in owe' /\ Above(nvs.num)'
        BY <1>3, <1>4, <1>5, <1>6, <2>3
      <3> QED  BY <1>3, <1>4, <1>7, <2>1, <2>3, <3>1 DEF MediaInv, Winner
    <2> QED  BY <1>1, <2>2, <2>3
  <1>9. Leads'
    BY <1>1, <1>2, <1>3, <1>4, <1>7 DEF Leads, AtFallback
  <1>10. faults' \in 0 .. MaxFaults /\ dirty' \in BOOLEAN /\ pending' \in BOOLEAN
         /\ host' \in Standings /\ owe' \in SUBSET Standings /\ p' \in Meta
    BY <1>1, <1>5, FaultCounted DEF PTypeOK
  <1>11. CASE co' = At("idle")
    BY <1>2, <1>4, <1>5, <1>6, <1>7, <1>8, <1>9, <1>10, <1>11, BackToIdle DEF AtFallback
  <1>12. CASE co.op = "boot"
    <2>1. co' \in Task /\ co'.pc = "halt"
      BY <1>1, <1>12, FailsIs, AtTyped
    <2>2. PTypeOK'
      BY <1>7, <1>10, <2>1 DEF PTypeOK
    <2> QED  BY <1>4, <1>8, <2>1, <2>2 DEF StageInv
  <1>13. CASE co.op = "new" /\ ~co.undo
    <2>1. Moved(co', co, "undoing")
      BY <1>1, <1>13, FailsIs
    <2>2. PTypeOK'
      BY <1>7, <1>10, <2>1 DEF PTypeOK, Moved
    <2>3. co.was.usingSd => begun' /\ nvs'.seq <= active'.seq + 1 /\ p'.gen > active'.seq
      <3>1. active.seq \in Nat
        BY NewestIs DEF SInv
      <3>2. co.was.usingSd => NextGeneration = active.seq + 1
        BY <1>2, <1>13, <3>1, PTypes DEF AtFallback, NextGeneration
      <3> QED  BY <1>1, <1>2, <1>3, <1>4, <1>13, <3>1, <3>2, PTypes DEF AtFallback, SameCard
    <2>4. ~co.was.usingSd => co.was.num \in Num /\ Above(co.was.num)'
      BY <1>2, <1>4, <1>13, <2>1, SameAbove DEF AtFallback, SameCard, Moved
    <2>5. AtUndoing'
      BY <1>2, <1>4, <1>5, <1>6, <1>9, <1>13, <2>1, <2>3, <2>4 DEF AtUndoing, AtFallback, Moved
    <2> QED  BY <1>4, <1>8, <2>1, <2>2, <2>5 DEF StageInv, Moved
  <1> QED  BY <1>1, <1>2, <1>11, <1>12, <1>13, FailsIs

LEMMA NoGenerationLeftOk ==
  ASSUME PInv, NoGenerationLeft
  PROVE  PInv'
  <1> USE DEF PInv
  <1>1. /\ co.pc = "saving" /\ call.pc = "failed" /\ Fails /\ NoHistory
        /\ UNCHANGED <<nvs, p, pending, faults>> /\ Ready
    BY DEF NoGenerationLeft, Ready
  <1>2. AtSaving
    BY <1>1 DEF StageInv
  <1>3. SInv' /\ SameCard /\ call' = call /\ Ready'
    BY <1>1, QuietIs
  <1>4. dirty' = TRUE /\ host' = host /\ owe' = owe
    BY <1>1, FailsIs
  <1>5. MediaInv'
    BY <1>1, <1>3, <1>4, MediaKept DEF SameCard, Ready
  <1>6. active.num \in Num /\ Above(active.num) /\ active.seq \in Nat
    BY <1>2, NewestIs, RecordFacts DEF AtSaving, SInv, StepInv, NumInv
  <1>7. p'.num \in Num /\ Above(p.num)' /\ p'.usingSd /\ p'.num = active'.num
        /\ nvs'.seq <= active'.seq /\ begun' /\ p'.gen + 1 >= active'.seq
    BY <1>1, <1>2, <1>3, <1>6, SameAbove DEF AtSaving, SameCard
  <1>8. /\ nvs' \in Record \cup {NoRecord} /\ p' \in Meta /\ dirty' \in BOOLEAN
        /\ pending' \in BOOLEAN /\ host' \in Standings /\ owe' \in SUBSET Standings
        /\ faults' \in 0 .. MaxFaults
    BY <1>1, <1>4 DEF PTypeOK
  <1>9. CASE co' = At("idle")
    BY <1>3, <1>4, <1>5, <1>7, <1>8, <1>9, BackToIdle
  <1>10. CASE co.op = "new" /\ ~co.undo
    <2>1. Moved(co', co, "undoing")
      BY <1>1, <1>10, FailsIs
    <2>2. PTypeOK'
      BY <1>8, <2>1 DEF PTypeOK, Moved
    <2>3. AtUndoing'
      BY <1>2, <1>3, <1>4, <1>7, <1>10, <2>1 DEF AtUndoing, AtSaving, Moved
    <2> QED  BY <1>3, <1>5, <2>1, <2>2, <2>3 DEF StageInv, Moved
  <1> QED  BY <1>1, <1>2, <1>9, <1>10, FailsIs DEF AtSaving

LEMMA NotProtectedOk ==
  ASSUME PInv, NotProtected
  PROVE  PInv'
  <1> USE DEF PInv
  <1>1. /\ co.pc = "rolling" /\ call.pc = "failed" /\ Fails /\ NoHistory
        /\ p' = [p EXCEPT !.from = IF co.op = "new" THEN co.was.from ELSE @]
        /\ UNCHANGED <<nvs, pending, faults>> /\ Ready
    BY DEF NotProtected, Ready
  <1>2. AtRolling
    BY <1>1 DEF StageInv
  <1>3. SInv' /\ SameCard /\ call' = call /\ Ready'
    BY <1>1, QuietIs
  <1>4. dirty' = TRUE /\ host' = host /\ owe' = owe /\ co' = At("idle")
    BY <1>1, <1>2, FailsIs DEF AtRolling
  <1>5. MediaInv'
    BY <1>1, <1>3, <1>4, MediaKept DEF SameCard, Ready
  <1>6. p' \in Meta /\ p'.usingSd = p.usingSd /\ p'.num = p.num /\ p'.gen = p.gen
    BY <1>1 DEF PTypeOK, Meta, Task
  <1>7. /\ nvs' \in Record \cup {NoRecord} /\ dirty' \in BOOLEAN
        /\ pending' \in BOOLEAN /\ host' \in Standings /\ owe' \in SUBSET Standings
        /\ faults' \in 0 .. MaxFaults
    BY <1>1, <1>4 DEF PTypeOK
  <1>8. p'.num \in Num /\ Above(p.num)'
    BY <1>2, <1>3, <1>6, SameAbove DEF AtRolling, SameCard
  <1>9. p'.usingSd => begun' /\ nvs'.seq <= active'.seq /\ p'.num = active'.num
    BY <1>1, <1>2, <1>3, <1>6 DEF AtRolling, SameCard
  <1>10. ~p'.usingSd => Leads'
    BY <1>1, <1>2, <1>3, <1>6, NewestIs DEF AtRolling, SameCard, Leads, SInv, StepInv
  <1> QED  BY <1>3, <1>4, <1>5, <1>6, <1>7, <1>8, <1>9, <1>10, BackToIdle

\* A save that turns to NVS: the next record there will outrank the card.
LEMMA ToFallback ==
  ASSUME PInv, NoHistory, Ready, UNCHANGED <<nvs, dirty, host, owe, faults>>,
         p' \in Meta, ~p'.usingSd, p'.num = p.num, p.num \in Num, Above(p.num),
         p'.gen > Newest.seq, pending' \in BOOLEAN,
         Moved(co', co, "fallback"), co.goal \in owe,
         co.op \in {"checkpoint", "new", "restore"}, co.op = "restore" => co.undo,
         co.op = "checkpoint" => co.goal = co.snap /\ ~co.undo,
         co.op \in {"new", "restore"} => co.snap = host,
         co.undo => co.goal = co.snap,
         co.op = "new" /\ ~co.undo =>
           Kept(co) /\ co.was.usingSd /\ begun /\ p'.gen = active.seq + 1 /\ nvs.seq <= active.seq
  PROVE  PInv'
  <1> USE DEF PInv
  <1>1. SInv' /\ SameCard /\ call' = call /\ Ready'
    BY QuietIs
  <1>2. MediaInv'
    BY <1>1, MediaKept DEF SameCard, Ready
  <1>3. PTypeOK'
    BY DEF PTypeOK, Moved
  <1>4. Above(p.num)' /\ Leads' /\ p'.num \in Num
    BY <1>1, SameAbove DEF SameCard, Leads
  <1>5. Kept(co) => Kept(co)'
    BY <1>1, SameAbove DEF SameCard, Kept, Moved
  <1>6. AtFallback'
    BY <1>1, <1>4, <1>5 DEF AtFallback, SameCard, Moved
  <1> QED  BY <1>1, <1>2, <1>3, <1>6 DEF StageInv, Moved

LEMMA LeftForNvs ==
  ASSUME PTypeOK, p' = [p EXCEPT !.usingSd = FALSE, !.gen = p.gen + 1], 1 <= MaxSeq - p.gen
  PROVE  p' \in Meta /\ ~p'.usingSd /\ p'.num = p.num /\ p'.gen = p.gen + 1
  <1>1. p.gen + 1 \in 0 .. MaxSeq
    BY PTypes, RecordFacts
  <1>2. p' = [usingSd |-> FALSE, num |-> p.num, gen |-> p.gen + 1, from |-> p.from]
    BY DEF PTypeOK, Meta
  <1> QED  BY <1>1, <1>2, PTypes DEF Meta

LEMMA SdSaveFailsOk ==
  ASSUME PInv, SdSaveFails
  PROVE  PInv'
  <1> USE DEF PInv
  <1>1. /\ co.pc = "saving" /\ call.pc = "failed" /\ Ready /\ NoHistory
        /\ 1 <= MaxSeq - p.gen /\ p' = [p EXCEPT !.usingSd = FALSE, !.gen = p.gen + 1]
        /\ pending' = FALSE /\ co' = [co EXCEPT !.pc = "fallback", !.force = TRUE]
        /\ UNCHANGED <<nvs, dirty, host, owe, faults>>
    BY DEF SdSaveFails, FallBack, Ready
  <1>2. AtSaving
    BY <1>1 DEF StageInv
  <1>3. /\ p' \in Meta /\ ~p'.usingSd /\ p'.num = p.num /\ p'.gen = p.gen + 1
    BY <1>1, LeftForNvs, PTypes
  <1>7. pending' \in BOOLEAN
    BY <1>1
  <1>4. Moved(co', co, "fallback")
    BY <1>1, MovedTo DEF PTypeOK
  <1>5. Newest = active /\ active.num \in Num /\ Above(active.num) /\ active.seq \in Nat
    BY <1>2, NewestIs, RecordFacts DEF AtSaving, SInv, StepInv, NumInv
  <1>6. p'.gen = active.seq + 1 /\ p.num = active.num
    BY <1>1, <1>2, <1>3 DEF AtSaving
  <1> QED  BY <1>1, <1>2, <1>3, <1>4, <1>5, <1>6, <1>7, ToFallback DEF AtSaving

LEMMA RollbackFailsOk ==
  ASSUME PInv, RollbackFails
  PROVE  PInv'
  <1> USE DEF PInv
  <1> DEFINE from == IF co.op = "new" THEN co.was.from ELSE p.from
  <1>1. /\ co.pc = "rolling" /\ call.pc = "failed" /\ Ready /\ NoHistory
        /\ p.usingSd =>
             /\ p.gen + 2 <= MaxSeq /\ pending' = FALSE
             /\ p' = [p EXCEPT !.usingSd = FALSE, !.gen = p.gen + 2, !.from = from]
        /\ ~p.usingSd =>
             /\ p.gen < MaxSeq /\ pending' = pending
             /\ p' = [p EXCEPT !.gen = p.gen + 1, !.from = from]
        /\ co' = [co EXCEPT !.pc = "fallback"]
        /\ UNCHANGED <<nvs, dirty, host, owe, faults>>
    BY DEF RollbackFails, Ready
  <1>2. from \in 0 .. MaxNum
    BY DEF PTypeOK, Task, Meta
  <1> HIDE DEF from
  <1>3. AtRolling
    BY <1>1 DEF StageInv
  <1>4. /\ p' \in Meta /\ ~p'.usingSd /\ p'.num = p.num
        /\ p'.gen = IF p.usingSd THEN p.gen + 2 ELSE p.gen + 1
    <2>1. CASE p.usingSd
      <3>1. p.gen + 2 \in 0 .. MaxSeq
        BY <1>1, <2>1, PTypes, RecordFacts
      <3>2. p' = [usingSd |-> FALSE, num |-> p.num, gen |-> p.gen + 2, from |-> from]
        BY <1>1, <2>1 DEF PTypeOK, Meta
      <3> QED  BY <1>2, <2>1, <3>1, <3>2, PTypes DEF Meta
    <2>2. CASE ~p.usingSd
      <3>1. p.gen + 1 \in 0 .. MaxSeq
        BY <1>1, <2>2, PTypes, RecordFacts
      <3>2. p' = [usingSd |-> FALSE, num |-> p.num, gen |-> p.gen + 1, from |-> from]
        BY <1>1, <2>2 DEF PTypeOK, Meta
      <3> QED  BY <1>2, <2>2, <3>1, <3>2, PTypes DEF Meta
    <2> QED  BY <2>1, <2>2
  <1>5. pending' \in BOOLEAN
    BY <1>1 DEF PTypeOK
  <1>6. Moved(co', co, "fallback")
    BY <1>1, MovedTo DEF PTypeOK
  <1>7. Newest = active /\ active.seq \in Nat
    BY <1>3, NewestIs DEF AtRolling, SInv, StepInv
  <1>8. p'.gen > Newest.seq
    BY <1>1, <1>3, <1>4, <1>7, PTypes DEF AtRolling
  <1> QED  BY <1>1, <1>3, <1>4, <1>5, <1>6, <1>7, <1>8, ToFallback DEF AtRolling

\* A rollback on the card: the unchanged snapshot is written above the last generation.
LEMMA RollBackOk ==
  ASSUME PInv, RollBack, Ready, co.op \in {"new", "restore"}, co.snap = host,
         p.num \in Num, Above(p.num),
         p.usingSd => nvs.seq <= active.seq /\ p.gen + 1 >= active.seq /\ p.num = active.num,
         ~p.usingSd => nvs.seq <= active.seq + 1 /\ p.gen > active.seq
  PROVE  PInv'
  <1> USE DEF PInv
  <1>1. /\ Checkpoint(co.snap, TRUE, co.was.from)
        /\ co' = [co EXCEPT !.pc = "rolling", !.goal = co.snap, !.undo = TRUE]
        /\ owe' = owe \cup {co.snap}
        /\ UNCHANGED <<nvs, p, pending, dirty, host, faults>>
    BY DEF RollBack
  <1>2. co.snap \in Standings /\ co.was.from \in 0 .. MaxNum
    BY DEF PTypeOK, Task, Meta
  <1>3. /\ SInv' /\ SameCard /\ begun
        /\ \/ Ready' /\ call'.pc = "failed"
           \/ call'.op = "checkpoint" /\ call'.pc = "write" /\ call'.rec.st = co.snap
    <2>1. TRUE \in BOOLEAN
      OBVIOUS
    <2> QED  BY <1>1, <1>2, <2>1, CheckpointIs
  <1>4. /\ co' \in Task /\ co'.pc = "rolling" /\ co'.op = co.op /\ co'.snap = host
        /\ co'.goal = host /\ co'.undo
    BY <1>1, <1>2 DEF PTypeOK, Task
  <1>5. owe' \in SUBSET Standings /\ owe \subseteq owe' /\ host \in owe'
    BY <1>1, <1>2 DEF PTypeOK
  <1>6. PTypeOK'
    BY <1>1, <1>4, <1>5 DEF PTypeOK
  <1>7. MediaInv'
    BY <1>1, <1>3, <1>5, MediaKept DEF SameCard, Ready
  <1>8. AtRolling'
    <2>1. Above(p.num)' /\ active' = active /\ begun'
      BY <1>1, <1>3, SameAbove DEF SameCard
    <2>2. call'.pc # "ok" /\ (~Ready' => call'.op = "checkpoint" /\ call'.rec.st = host)
      BY <1>3
    <2> QED  BY <1>1, <1>4, <1>5, <2>1, <2>2 DEF AtRolling
  <1> QED  BY <1>3, <1>4, <1>6, <1>7, <1>8 DEF StageInv

LEMMA StartFailsOk ==
  ASSUME PInv, StartFails
  PROVE  PInv'
  <1> USE DEF PInv
  <1>1. co.pc = "starting" /\ call.pc = "failed" /\ RollBack /\ Ready
    BY DEF StartFails, Ready
  <1>2. AtStarting
    BY <1>1 DEF StageInv
  <1>3. active.num \in Num /\ Above(active.num)
    BY <1>2, NewestIs, RecordFacts DEF AtStarting, SInv, StepInv, NumInv
  <1> QED  BY <1>1, <1>2, <1>3, RollBackOk DEF AtStarting

LEMMA UndoOk ==
  ASSUME PInv, Undo
  PROVE  PInv'
  <1> USE DEF PInv
  <1>1. co.pc = "undoing" /\ AtUndoing
    BY DEF Undo, StageInv
  <1>2. CASE co.was.usingSd
    BY <1>1, <1>2, RollBackOk DEF Undo, AtUndoing
  <1>3. CASE ~co.was.usingSd
    <2>1. /\ p' = [p EXCEPT !.num = co.was.num, !.from = co.was.from]
          /\ co' = [co EXCEPT !.pc = "fallback", !.goal = co.snap, !.undo = TRUE]
          /\ owe' = owe \cup {co.snap}
          /\ NoHistory /\ UNCHANGED <<nvs, pending, dirty, host, faults>>
      BY <1>3 DEF Undo
    <2>2. SInv' /\ SameCard /\ call' = call /\ Ready'
      BY <1>1, <2>1, QuietIs DEF AtUndoing
    <2>3. co.snap \in Standings /\ co.was.from \in 0 .. MaxNum /\ co.was.num \in 0 .. MaxNum
      BY DEF PTypeOK, Task, Meta
    <2>4. /\ co' \in Task /\ co'.pc = "fallback" /\ co'.op = "new" /\ co'.snap = host
          /\ co'.goal = host /\ co'.undo
      BY <1>1, <2>1, <2>3 DEF PTypeOK, Task, AtUndoing
    <2>5. p' \in Meta /\ p'.usingSd = p.usingSd /\ p'.num = co.was.num /\ p'.gen = p.gen
      BY <2>1, <2>3 DEF PTypeOK, Meta
    <2>6. owe' \in SUBSET Standings /\ owe \subseteq owe' /\ host \in owe'
      BY <1>1, <2>1, <2>3 DEF PTypeOK, AtUndoing
    <2>7. PTypeOK'
      BY <2>1, <2>4, <2>5, <2>6 DEF PTypeOK
    <2>8. MediaInv'
      BY <2>1, <2>2, <2>6, MediaKept DEF SameCard, Ready
    <2>9. AtFallback'
      <3>1. Above(p.num)' /\ Leads'
        BY <1>1, <1>3, <2>1, <2>2, <2>5, SameAbove DEF AtUndoing, SameCard, Leads
      <3> QED  BY <1>1, <1>3, <2>1, <2>2, <2>4, <2>5, <2>6, <3>1 DEF AtUndoing, AtFallback
    <2> QED  BY <2>2, <2>4, <2>7, <2>8, <2>9 DEF StageInv
  <1> QED  BY <1>2, <1>3

-----------------------------------------------------------------------------
(* The calls the host makes, and the loop's tick. *)

\* A save on the card has begun.
LEMMA Saving ==
  ASSUME PInv, SInv', SameCard, begun, Ready, nvs' = nvs, nvs.seq <= active.seq,
         p' \in Meta, p'.usingSd, p'.num = active.num, p'.gen = active.seq,
         pending' \in BOOLEAN, UNCHANGED <<dirty, host, faults>>,
         NEW task \in Task, Moved(co', task, "saving"), owe' = owe \cup {task.goal},
         task.op \in {"checkpoint", "new"}, ~task.undo, task.snap = host,
         task.op = "checkpoint" => task.goal = task.snap,
         task.op = "new" => task.was.usingSd /\ Kept(task),
         \/ Ready' /\ call'.pc = "ok" /\ active.st = task.goal
         \/ Ready' /\ call'.pc = "failed"
         \/ call'.op = "checkpoint" /\ call'.pc = "write" /\ call'.rec.st = task.goal
  PROVE  PInv'
  <1> USE DEF PInv
  <1>1. owe' \in SUBSET Standings /\ owe \subseteq owe' /\ task.goal \in owe'
    BY DEF PTypeOK, Task
  <1>2. PTypeOK'
    BY <1>1 DEF PTypeOK, Moved
  <1>3. MediaInv'
    BY <1>1, MediaKept DEF SameCard, Ready
  <1>4. Kept(task) => Kept(co)'
    BY SameAbove DEF SameCard, Kept, Moved
  <1>5. AtSaving'
    BY <1>1, <1>4 DEF AtSaving, SameCard, Moved
  <1> QED  BY <1>2, <1>3, <1>5 DEF StageInv, Moved

\* A new active session has begun to be written.
LEMMA Starting ==
  ASSUME PInv, SInv', SameCard, begun, Ready, nvs' = nvs, nvs.seq <= active.seq,
         p' \in Meta, p'.usingSd, p'.num = active.num, p'.gen + 1 >= active.seq,
         pending' \in BOOLEAN, UNCHANGED <<dirty, host, faults>>,
         NEW task \in Task, Moved(co', task, "starting"), owe' = owe \cup {task.goal},
         task.op \in {"new", "restore"}, ~task.undo, task.snap = host, task.was.usingSd,
         Kept(task),
         \/ Ready' /\ call'.pc = "failed"
         \/ call'.op = "start" /\ call'.pc = "reserve" /\ call'.rec.st = task.goal
  PROVE  PInv'
  <1> USE DEF PInv
  <1>1. owe' \in SUBSET Standings /\ owe \subseteq owe' /\ task.goal \in owe'
    BY DEF PTypeOK, Task
  <1>2. PTypeOK'
    BY <1>1 DEF PTypeOK, Moved
  <1>3. MediaInv'
    BY <1>1, MediaKept DEF SameCard, Ready
  <1>4. Kept(co)'
    BY SameAbove DEF SameCard, Kept, Moved
  <1>5. AtStarting'
    BY <1>1, <1>4 DEF AtStarting, SameCard, Moved
  <1> QED  BY <1>2, <1>3, <1>5 DEF StageInv, Moved

LEMMA ArchiveDoneOk ==
  ASSUME PInv, ArchiveDone
  PROVE  PInv'
  <1> USE DEF PInv
  <1>1. /\ co.pc = "archiving" /\ call.pc = "ok" /\ Ready /\ UseHistoryMetadata
        /\ pending' = MirrorDue /\ UNCHANGED <<nvs, dirty, host, faults>>
    BY DEF ArchiveDone, Ready
  <1>2. AtArchiving
    BY <1>1 DEF StageInv
  <1>3. begun /\ p.usingSd /\ ~co.undo /\ co.snap = host /\ co.was.usingSd /\ Kept(co)
        /\ nvs.seq <= active.seq
    BY <1>1, <1>2 DEF AtArchiving, Kept
  <1>4. /\ p' \in Meta /\ p'.usingSd /\ p'.num = active.num /\ p'.gen = active.seq
        /\ active.seq \in Nat
    BY <1>1, <1>3, MetadataIs
  <1>5. pending' \in BOOLEAN
    BY <1>1, DueTyped
  <1>6. co \in Task /\ co.goal \in Standings /\ co.source \in 0 .. MaxNum
    BY DEF PTypeOK, Task
  <1>7. CASE co.op = "new" /\ Save(co)
    BY <1>1, <1>3, <1>4, <1>5, <1>6, <1>7, SaveIs, Saving
  <1>8. CASE /\ co.op = "restore" /\ StartActive(co.goal, co.source)
             /\ co' = [co EXCEPT !.pc = "starting"] /\ owe' = owe \cup {co.goal}
    <2>1. /\ SInv' /\ SameCard
          /\ \/ Ready' /\ call'.pc = "failed"
             \/ call'.op = "start" /\ call'.pc = "reserve" /\ call'.rec.st = co.goal
      BY <1>6, <1>8, StartIs
    <2>2. Moved(co', co, "starting")
      BY <1>6, <1>8, MovedTo
    <2>3. p'.gen + 1 >= active.seq
      BY <1>4
    <2> QED  BY <1>1, <1>3, <1>4, <1>5, <1>6, <1>8, <2>1, <2>2, <2>3, Starting
  <1> QED  BY <1>7, <1>8 DEF ArchiveDone

LEMMA ArchiveFailsOk ==
  ASSUME PInv, ArchiveFails
  PROVE  PInv'
  <1> USE DEF PInv
  <1>1. /\ co.pc = "archiving" /\ call.pc = "failed" /\ Ready
        /\ UNCHANGED <<nvs, p, pending, host, faults>>
    BY DEF ArchiveFails, Ready
  <1>2. AtArchiving
    BY <1>1 DEF StageInv
  <1>3. active.num \in Num /\ begun
    BY <1>2, NewestIs, RecordFacts DEF AtArchiving, SInv, StepInv
  <1>4. p \in Meta /\ pending \in BOOLEAN /\ co \in Task /\ co.goal \in Standings
    BY DEF PTypeOK, Task
  <1>5. CASE co.discard
    <2>1. /\ StartActive(co.goal, 0) /\ co' = [co EXCEPT !.pc = "starting"]
          /\ owe' = owe \cup {co.goal} /\ dirty' = dirty
      BY <1>5 DEF ArchiveFails
    <2>2. /\ SInv' /\ SameCard
          /\ \/ Ready' /\ call'.pc = "failed"
             \/ call'.op = "start" /\ call'.pc = "reserve" /\ call'.rec.st = co.goal
      BY <1>4, <2>1, RecordFacts, StartIs
    <2>3. Moved(co', co, "starting")
      BY <1>4, <2>1, MovedTo
    <2>4. Kept(co)
      BY <1>5 DEF Kept
    <2> QED  BY <1>1, <1>2, <1>3, <1>4, <2>1, <2>2, <2>3, <2>4, Starting DEF AtArchiving
  <1>6. CASE ~co.discard
    <2>1. /\ NoHistory /\ co' = At("idle") /\ dirty' = (dirty \/ co.op = "new") /\ owe' = owe
      BY <1>6 DEF ArchiveFails
    <2>2. SInv' /\ SameCard /\ call' = call /\ Ready'
      BY <1>1, <2>1, QuietIs
    <2>3. MediaInv'
      BY <1>1, <2>1, <2>2, MediaKept DEF SameCard, Ready
    <2>4. dirty' \in BOOLEAN /\ (~dirty' => ~dirty)
      BY <2>1
    <2>5. p'.usingSd /\ begun' /\ nvs'.seq <= active'.seq /\ p'.num = active'.num /\ p'.num \in Num
          /\ (~dirty' => active'.st = host')
      BY <1>1, <1>2, <1>3, <2>2, <2>4 DEF AtArchiving, SameCard
    <2>6. /\ nvs' \in Record \cup {NoRecord} /\ p' \in Meta /\ pending' \in BOOLEAN
          /\ host' \in Standings /\ owe' \in SUBSET Standings /\ faults' \in 0 .. MaxFaults
      BY <1>1, <2>1 DEF PTypeOK
    <2> QED  BY <2>1, <2>2, <2>3, <2>4, <2>5, <2>6, BackToIdle
  <1> QED  BY <1>5, <1>6

LEMMA HostChangesOk ==
  ASSUME PInv, NEW h \in Standings, HostChanges(h)
  PROVE  PInv'
  <1> USE DEF PInv
  <1>1. /\ Idle \/ co.op = "checkpoint"
        /\ host' = h /\ dirty' = TRUE /\ NoHistory
        /\ UNCHANGED <<nvs, p, pending, co, owe, faults>>
    BY DEF HostChanges
  <1>2. SInv' /\ SameCard /\ call' = call /\ (Ready' <=> Ready)
    BY <1>1, QuietIs
  <1>3. PTypeOK'
    <2>1. dirty' \in BOOLEAN
      BY <1>1
    <2> QED  BY <1>1, <2>1 DEF PTypeOK
  <1>4. MediaInv'
    BY <1>1, <1>2, MediaKept DEF SameCard, MediaInv
  <1>5. Leads' <=> Leads
    BY <1>1, <1>2 DEF SameCard, Leads
  <1>6. CASE co.pc = "idle"
    <2>1. AtIdle'
      BY <1>1, <1>2, <1>5, <1>6, SameAbove DEF StageInv, AtIdle, SameCard
    <2> QED  BY <1>1, <1>2, <1>3, <1>4, <1>6, <2>1 DEF StageInv
  <1>7. CASE co.pc = "saving" /\ co.op = "checkpoint"
    <2>1. AtSaving'
      BY <1>1, <1>2, <1>7 DEF StageInv, AtSaving, SameCard
    <2> QED  BY <1>1, <1>2, <1>3, <1>4, <1>7, <2>1 DEF StageInv
  <1>8. CASE co.pc = "fallback" /\ co.op = "checkpoint"
    <2>1. AtFallback'
      BY <1>1, <1>2, <1>5, <1>8, SameAbove DEF StageInv, AtFallback, SameCard
    <2> QED  BY <1>1, <1>2, <1>3, <1>4, <1>8, <2>1 DEF StageInv
  <1>9. CASE co.op = "checkpoint" /\ co.pc \notin {"saving", "fallback"}
    <2>1. co.pc = "halt"
      BY <1>9, PTypes DEF StageInv, AtIdle, AtArchiving, AtStarting, AtUndoing, AtRolling,
                          AtOff, AtChoose, AtAdopting, Booting
    <2> QED  BY <1>1, <1>2, <1>3, <1>4, <2>1 DEF StageInv
  <1> QED  BY <1>1, <1>6, <1>7, <1>8, <1>9 DEF Idle

\* The task of a checkpoint, forced or not.
LEMMA CheckpointTask ==
  ASSUME PTypeOK, NEW force \in BOOLEAN
  PROVE  LET task == [At("idle") EXCEPT !.op = "checkpoint", !.snap = host, !.goal = host,
                                        !.force = force]
         IN  /\ task \in Task /\ task.op = "checkpoint" /\ task.snap = host /\ task.goal = host
             /\ task.undo = FALSE
  <1>1. At("idle") \in Task /\ At("idle").undo = FALSE /\ host \in Standings
    BY AtTyped DEF PTypeOK
  <1> QED  BY <1>1 DEF Task

\* A checkpoint that starts while the ledger is in use, on either medium.
LEMMA CheckpointBegins ==
  ASSUME PInv, Idle, NEW task \in Task, Save(task), task.op = "checkpoint",
         task.snap = host, task.goal = host, task.undo = FALSE,
         UNCHANGED <<nvs, dirty, host, faults>>, pending' \in BOOLEAN,
         p.usingSd => p' \in Meta /\ p'.usingSd /\ p'.num = active.num /\ p'.gen = active.seq,
         ~p.usingSd => p' = p
  PROVE  PInv'
  <1> USE DEF PInv
  <1>1. AtIdle
    BY DEF StageInv, Idle
  <1>2. CASE p.usingSd
    <2>1. /\ SInv' /\ SameCard /\ owe' = owe \cup {task.goal} /\ begun /\ Moved(co', task, "saving")
          /\ \/ Ready' /\ call'.pc = "ok" /\ active.st = task.goal
             \/ Ready' /\ call'.pc = "failed"
             \/ call'.op = "checkpoint" /\ call'.pc = "write" /\ call'.rec.st = task.goal
      BY <1>2, SaveIs
    <2>2. Ready /\ nvs.seq <= active.seq
      BY <1>1, <1>2 DEF AtIdle
    <2>3. p' \in Meta /\ p'.usingSd /\ p'.num = active.num /\ p'.gen = active.seq
      BY <1>2
    <2> HIDE DEF PInv
    <2> QED  BY <2>1, <2>2, <2>3, Saving
  <1>3. CASE ~p.usingSd
    <2>1. /\ SInv' /\ SameCard /\ owe' = owe \cup {host} /\ call' = call /\ Ready'
          /\ Moved(co', task, "fallback")
      BY <1>1, <1>3, SaveIs DEF AtIdle
    <2>2. owe' \in SUBSET Standings /\ owe \subseteq owe' /\ host \in owe'
      BY <2>1 DEF PTypeOK
    <2>3. PTypeOK'
      BY <1>3, <2>1, <2>2 DEF PTypeOK, Moved
    <2>4. MediaInv'
      BY <2>1, <2>2, MediaKept DEF SameCard, Ready
    <2>5. Above(p.num)' /\ Leads'
      BY <1>1, <1>3, <2>1, SameAbove DEF AtIdle, SameCard, Leads
    <2>6. AtFallback'
      BY <1>1, <1>3, <2>1, <2>2, <2>5 DEF AtIdle, AtFallback, Moved
    <2> QED  BY <2>1, <2>3, <2>4, <2>6 DEF StageInv, Moved
  <1> QED  BY <1>2, <1>3

LEMMA ForcedCheckpointOk ==
  ASSUME PInv, TickFirst, ForcedCheckpoint
  PROVE  PInv'
  <1> DEFINE task == [At("idle") EXCEPT !.op = "checkpoint", !.snap = host, !.goal = host,
                                        !.force = TRUE]
  <1>1. /\ Idle /\ (p.usingSd => p.gen = active.seq) /\ Save(task)
        /\ UNCHANGED <<nvs, p, pending, dirty, host, faults>>
    BY DEF ForcedCheckpoint, HostMayAct
  <1>2. TRUE \in BOOLEAN
    OBVIOUS
  <1>3. task \in Task /\ task.op = "checkpoint" /\ task.snap = host /\ task.goal = host
        /\ task.undo = FALSE
    BY <1>2, CheckpointTask DEF PInv
  <1> HIDE DEF task
  <1>4. p.usingSd => p.num = active.num
    BY <1>1 DEF PInv, StageInv, AtIdle, Idle
  <1>5. p \in Meta /\ pending \in BOOLEAN
    BY DEF PInv, PTypeOK
  <1> QED  BY <1>1, <1>3, <1>4, <1>5, CheckpointBegins

LEMMA TickSavesOk ==
  ASSUME PInv, TickSaves
  PROVE  PInv'
  <1> DEFINE task == [At("idle") EXCEPT !.op = "checkpoint", !.snap = host, !.goal = host]
  <1>1. /\ Idle /\ Save(task) /\ UNCHANGED <<nvs, dirty, host, faults>>
        /\ p.usingSd => UseHistoryMetadata /\ pending' = MirrorDue
        /\ ~p.usingSd => UNCHANGED <<p, pending>>
    BY DEF TickSaves
  <1>2. task \in Task /\ task.op = "checkpoint" /\ task.snap = host /\ task.goal = host
        /\ task.undo = FALSE
    <2>1. At("idle") \in Task /\ At("idle").undo = FALSE /\ host \in Standings
      BY AtTyped DEF PInv, PTypeOK
    <2> QED  BY <2>1 DEF Task
  <1> HIDE DEF task
  <1>3. p.usingSd => p' \in Meta /\ p'.usingSd /\ p'.num = active.num /\ p'.gen = active.seq
    BY <1>1, MetadataIs DEF PInv, StageInv, AtIdle, Idle
  <1>4. pending' \in BOOLEAN
    BY <1>1, DueTyped DEF PInv, PTypeOK
  <1> QED  BY <1>1, <1>2, <1>3, <1>4, CheckpointBegins

LEMMA TickMirrorsOk ==
  ASSUME PInv, TickMirrors
  PROVE  PInv'
  <1> USE DEF PInv
  <1>1. /\ co.pc = "idle" /\ p.usingSd /\ UseHistoryMetadata /\ MirrorActiveNvs(MirrorDue, FALSE)
        /\ NoHistory /\ UNCHANGED <<dirty, host, co, owe>>
    BY DEF TickMirrors, Idle
  <1>2. AtIdle
    BY <1>1 DEF StageInv
  <1>3. SInv' /\ SameCard /\ call' = call /\ Ready'
    BY <1>1, <1>2, QuietIs DEF AtIdle
  <1>4. /\ p' \in Meta /\ p'.usingSd /\ p'.num = active.num /\ active.num \in Num
        /\ active.seq \in Nat /\ active.st \in Standings /\ Newest = active
    BY <1>1, <1>2, MetadataIs DEF AtIdle
  <1>5. /\ nvs' \in Record \cup {NoRecord} /\ nvs'.seq <= active.seq /\ pending' \in BOOLEAN
        /\ faults' \in 0 .. MaxFaults
    <2>1. MirrorDue \in BOOLEAN /\ FALSE \in BOOLEAN
      BY DueTyped
    <2> QED  BY <1>1, <1>2, <2>1, MirrorIs DEF AtIdle
  <1>6. active.st \in owe
    BY <1>1, <1>2, <1>4, PTypes, NewestIs, RecordFacts
    DEF AtIdle, MediaInv, Winner, SInv, StepInv
  <1>7. MediaInv'
    <2>1. nvs'.seq \in Nat
      BY <1>5, RecordFacts
    <2> QED  BY <1>1, <1>2, <1>3, <1>5, <1>6, <2>1, CardWins DEF AtIdle, Ready
  <1>8. PTypeOK'
    BY <1>1, <1>4, <1>5 DEF PTypeOK
  <1>9. AtIdle'
    BY <1>1, <1>2, <1>3, <1>4, <1>5 DEF AtIdle, SameCard
  <1> QED  BY <1>1, <1>3, <1>7, <1>8, <1>9 DEF StageInv

LEMMA NewTaskIs ==
  ASSUME PTypeOK, NEW discard \in BOOLEAN
  PROVE  /\ NewTask(discard) \in Task /\ NewTask(discard).op = "new"
         /\ NewTask(discard).snap = host /\ NewTask(discard).goal = Zeroed(host)
         /\ NewTask(discard).was = p /\ NewTask(discard).discard = discard
         /\ NewTask(discard).undo = FALSE /\ Zeroed(host) \in Standings
  <1>1. At("idle") \in Task /\ At("idle").undo = FALSE /\ host \in Standings /\ p \in Meta
    BY AtTyped DEF PTypeOK
  <1>2. Zeroed(host) \in Standings
    BY ZeroAssumption, EmptyAssumption DEF Zeroed
  <1> HIDE DEF Zeroed
  <1> QED  BY <1>1, <1>2 DEF Task, NewTask

LEMMA RestoreTaskIs ==
  ASSUME PTypeOK, TypeOK, NEW n \in Archived
  PROVE  /\ RestoreTask(n) \in Task /\ RestoreTask(n).op = "restore"
         /\ RestoreTask(n).snap = host /\ RestoreTask(n).goal = archive[n].st
         /\ RestoreTask(n).was = p /\ RestoreTask(n).discard = FALSE
         /\ RestoreTask(n).undo = FALSE /\ RestoreTask(n).source = n
         /\ archive[n].st \in Standings /\ n \in 0 .. MaxNum
  <1>1. /\ At("idle") \in Task /\ At("idle").undo = FALSE /\ At("idle").discard = FALSE
        /\ host \in Standings /\ p \in Meta
    BY AtTyped DEF PTypeOK
  <1>2. n \in 0 .. MaxNum
    BY RecordFacts DEF Archived, Num
  <1>3. archive[n].st \in Standings
    BY RecordFacts DEF TypeOK, Archived
  <1> DEFINE st == archive[n].st
  <1>4. RestoreTask(n) = [At("idle") EXCEPT !.op = "restore", !.snap = host, !.goal = st,
                                            !.source = n, !.was = p, !.force = TRUE]
    BY DEF RestoreTask
  <1>5. st \in Standings
    BY <1>3
  <1> HIDE DEF st
  <1>6. /\ RestoreTask(n) \in Task /\ RestoreTask(n).op = "restore"
        /\ RestoreTask(n).snap = host /\ RestoreTask(n).goal = st
        /\ RestoreTask(n).was = p /\ RestoreTask(n).discard = FALSE
        /\ RestoreTask(n).undo = FALSE /\ RestoreTask(n).source = n
    BY <1>1, <1>2, <1>4, <1>5 DEF Task
  <1> QED  BY <1>2, <1>3, <1>6 DEF st

LEMMA ArchiveFirstOk ==
  ASSUME PInv, Idle, p.usingSd, p.gen = active.seq, NEW task \in Task, ArchiveFirst(task),
         task.op \in {"new", "restore"}, task.snap = host, task.was = p, task.undo = FALSE
  PROVE  PInv'
  <1> USE DEF PInv
  <1>1. /\ Archive(host) \/ ArchiveRetry(host)
        /\ co' = [task EXCEPT !.pc = "archiving"]
        /\ owe' = owe \cup {host, Empty}
        /\ UNCHANGED <<nvs, p, pending, dirty, host, faults>>
    BY DEF ArchiveFirst
  <1>2. AtIdle /\ host \in Standings
    BY DEF StageInv, Idle, PTypeOK
  <1>3. /\ SInv' /\ SameCard /\ begun
        /\ \/ Ready' /\ call'.pc = "failed"
           \/ /\ call'.op = "archive" /\ call'.host = host
              /\ \/ /\ call'.pc = "checkpoint" /\ call'.rec.st = host
                    /\ call'.rec.num = active.num /\ call'.rec.seq = active.seq + 1
                 \/ /\ call'.pc = "index" /\ call'.rec.st = Empty
                    /\ active.num \in Archived /\ archive[active.num].st = host
    BY <1>1, <1>2, ArchiveIs
  <1>4. Moved(co', task, "archiving")
    BY <1>1, MovedTo
  <1>5. owe' \in SUBSET Standings /\ owe \subseteq owe' /\ host \in owe' /\ Empty \in owe'
    BY <1>1, <1>2, RecordFacts DEF PTypeOK
  <1>6. PTypeOK'
    BY <1>1, <1>4, <1>5 DEF PTypeOK, Moved
  <1>7. MediaInv'
    BY <1>1, <1>3, <1>5, MediaKept DEF SameCard, Ready
  <1>8. AtArchiving'
    <2>1. /\ begun' /\ active' = active /\ archive' = archive /\ Archived' = Archived
          /\ active.seq \in Nat
      BY <1>3, SameAbove, NewestIs DEF SameCard, SInv
    <2>2. nvs'.seq <= active'.seq /\ p'.num = active'.num /\ p'.gen = active'.seq
          /\ (~dirty' => active'.st = host') /\ p'.usingSd
      BY <1>1, <1>2, <2>1 DEF AtIdle
    <2>3. ~co'.undo /\ co'.op \in {"new", "restore"} /\ co'.snap = host' /\ co'.was.usingSd
      BY <1>1, <1>4 DEF Moved
    <2>4. ~Ready' => call'.op = "archive" /\ call'.host = host'
      BY <1>1, <1>3
    <2>5. call'.pc \in {"index", "reserve", "write", "ok"} =>
            \E n \in Archived' : archive'[n].st = host'
      BY <1>1, <1>3, <2>1
    <2>6. call'.pc = "checkpoint" =>
            /\ call'.rec.st = host' /\ call'.rec.num = active'.num
            /\ call'.rec.seq = active'.seq + 1
      BY <1>1, <1>3, <2>1
    <2> QED  BY <1>1, <1>5, <2>1, <2>2, <2>3, <2>4, <2>5, <2>6 DEF AtArchiving
  <1> QED  BY <1>3, <1>4, <1>6, <1>7, <1>8 DEF StageInv, Moved

LEMMA NewSessionOk ==
  ASSUME PInv, TickFirst, NEW discard \in BOOLEAN, NewSession(discard)
  PROVE  PInv'
  <1> USE DEF PInv
  <1> DEFINE task == NewTask(discard)
  <1>1. Idle /\ (p.usingSd => p.gen = active.seq)
    BY DEF NewSession, HostMayAct
  <1>2. /\ task \in Task /\ task.op = "new" /\ task.snap = host /\ task.was = p
        /\ task.undo = FALSE
    BY NewTaskIs
  <1> HIDE DEF task
  <1>3. AtIdle /\ p \in Meta /\ pending \in BOOLEAN
    BY <1>1 DEF StageInv, Idle, PTypeOK
  <1>4. CASE ArchiveFirst(task)
    BY <1>1, <1>2, <1>4, ArchiveFirstOk DEF ArchiveFirst
  <1>5. CASE /\ p.usingSd /\ host = Empty /\ Save(task)
             /\ UNCHANGED <<nvs, p, pending, dirty, host, faults>>
    <2>1. Kept(task)
      BY <1>5 DEF Kept
    <2> QED  BY <1>1, <1>2, <1>3, <1>5, <2>1, SaveIs, Saving DEF AtIdle
  <1> QED  BY <1>4, <1>5 DEF NewSession, task

LEMMA RestoreOk ==
  ASSUME PInv, TickFirst, NEW n \in Archived, p.usingSd, Restore(n)
  PROVE  PInv'
  <1> USE DEF PInv
  <1> DEFINE task == RestoreTask(n)
  <1>1. Idle /\ p.gen = active.seq
    BY DEF Restore, HostMayAct
  <1>2. /\ task \in Task /\ task.op = "restore" /\ task.snap = host /\ task.was = p
        /\ task.undo = FALSE /\ task.goal = archive[n].st
        /\ archive[n].st \in Standings /\ n \in 0 .. MaxNum
    BY RestoreTaskIs DEF SInv
  <1> HIDE DEF task
  <1>3. AtIdle /\ p \in Meta /\ pending \in BOOLEAN
    BY <1>1 DEF StageInv, Idle, PTypeOK
  <1>4. CASE ArchiveFirst(task)
    BY <1>1, <1>2, <1>4, ArchiveFirstOk
  <1>5. CASE /\ p.usingSd /\ host = Empty
             /\ StartActive(archive[n].st, n)
             /\ co' = [task EXCEPT !.pc = "starting"]
             /\ owe' = owe \cup {archive[n].st}
             /\ UNCHANGED <<nvs, p, pending, dirty, host, faults>>
    <2>1. Kept(task)
      BY <1>5 DEF Kept
    <2>2. Moved(co', task, "starting")
      BY <1>2, <1>5, MovedTo
    <2>3. /\ SInv' /\ SameCard /\ begun
          /\ \/ Ready' /\ call'.pc = "failed"
             \/ call'.op = "start" /\ call'.pc = "reserve" /\ call'.rec.st = task.goal
      BY <1>2, <1>5, StartIs
    <2>4. p'.gen + 1 >= active.seq /\ p'.num = active.num /\ nvs.seq <= active.seq /\ Ready
      BY <1>1, <1>3, <1>5, NewestIs DEF SInv, AtIdle
    <2> QED  BY <1>2, <1>3, <1>5, <2>1, <2>2, <2>3, <2>4, Starting
  <1> QED  BY <1>4, <1>5 DEF Restore, task

LEMMA NewSessionNoSdOk ==
  ASSUME PInv, NEW discard \in BOOLEAN, NewSessionNoSd(discard)
  PROVE  PInv'
  <1> USE DEF PInv
  <1> DEFINE task == NewTask(discard)
  <1>1. /\ Idle /\ ~p.usingSd /\ (host = Empty \/ discard)
        /\ UNCHANGED <<slot, archive, index, indexValid, ram, call, ghost>>
        /\ UNCHANGED <<nvs, pending, dirty, host>>
    BY DEF NewSessionNoSd, HostMayAct
  <1>2. PICK next \in 0 .. MaxNum :
          /\ ReserveNumber(next, p.num)
          /\ next = 0 => UNCHANGED <<p, co, owe>>
          /\ next # 0 => /\ p' = [p EXCEPT !.num = next, !.from = 0]
                         /\ co' = [task EXCEPT !.pc = "fallback"]
                         /\ owe' = owe \cup {Zeroed(host)}
    BY DEF NewSessionNoSd
  <1>3. /\ task \in Task /\ task.op = "new" /\ task.snap = host /\ task.was = p
        /\ task.undo = FALSE /\ task.goal = Zeroed(host) /\ Zeroed(host) \in Standings
        /\ task.discard = discard
    BY NewTaskIs
  <1> HIDE DEF task
  <1>4. AtIdle
    BY <1>1 DEF StageInv, Idle
  <1>5. /\ SInv' /\ SameCard /\ call' = call /\ Ready'
        /\ next # 0 => next \in Num /\ next > p.num
        /\ faults' = faults \/ (faults < MaxFaults /\ faults' = faults + 1)
    BY <1>1, <1>2, <1>4, PTypes, ReserveIs DEF AtIdle
  <1>6. /\ faults' \in 0 .. MaxFaults /\ (Leads' <=> (p'.gen > Newest.seq \/ nvs.seq >= Newest.seq))
        /\ Newest' = Newest /\ begun' = begun
    BY <1>1, <1>5, FaultCounted DEF SameCard, Leads
  <1>7. CASE next = 0
    <2>1. p' = p /\ co' = co /\ owe' = owe
      BY <1>2, <1>7
    <2>2. PTypeOK'
      BY <1>1, <1>6, <2>1 DEF PTypeOK
    <2>3. MediaInv'
      BY <1>1, <1>5, <2>1, MediaKept DEF SameCard, Ready
    <2>4. AtIdle'
      BY <1>1, <1>4, <1>5, <1>6, <2>1, SameAbove DEF AtIdle, SameCard, Leads
    <2> QED  BY <1>1, <1>5, <2>1, <2>2, <2>3, <2>4 DEF StageInv, Idle
  <1>8. CASE next # 0
    <2>1. Moved(co', task, "fallback")
      BY <1>2, <1>3, <1>8, MovedTo
    <2>2. p' \in Meta /\ p'.usingSd = p.usingSd /\ p'.num = next /\ p'.gen = p.gen
      <3>1. p' = [usingSd |-> p.usingSd, num |-> next, gen |-> p.gen, from |-> 0]
        BY <1>2, <1>8 DEF PTypeOK, Meta
      <3> QED  BY <3>1, PTypes, RecordFacts DEF Meta
    <2>3. owe' \in SUBSET Standings /\ owe \subseteq owe' /\ task.goal \in owe'
      BY <1>2, <1>3, <1>8 DEF PTypeOK
    <2>4. PTypeOK'
      BY <1>1, <1>6, <2>1, <2>2, <2>3 DEF PTypeOK, Moved
    <2>5. MediaInv'
      BY <1>1, <1>5, <2>3, MediaKept DEF SameCard, Ready
    <2>6. Above(next)' /\ Above(p.num) /\ (Above(p.num) => \A m \in Archived' : m <= p.num)
      <3>1. Above(p.num) /\ p.num \in Nat /\ next \in Nat /\ next > p.num
        BY <1>1, <1>4, <1>5, <1>8, PTypes, RecordFacts DEF AtIdle
      <3>2. Above(next)
        BY <3>1, RecordFacts DEF Above, Archived
      <3> QED  BY <1>5, <3>1, <3>2, SameAbove DEF SameCard, Above
    <2>7. Kept(co)'
      BY <1>1, <1>3, <2>1 DEF Kept, Moved
    <2>8. AtFallback'
      <3>1. Above(p.num)' /\ Above(co.was.num)' /\ p'.num \in Num /\ co'.was = p /\ p.num \in Num
        BY <1>3, <1>4, <1>5, <1>8, <2>1, <2>2, <2>6 DEF Above, Moved, AtIdle
      <3>2. Leads'
        BY <1>1, <1>4, <1>6, <2>2 DEF AtIdle, Leads
      <3> QED  BY <1>1, <1>3, <1>5, <2>1, <2>2, <2>3, <2>7, <3>1, <3>2 DEF AtFallback, Moved
    <2> QED  BY <1>5, <2>1, <2>4, <2>5, <2>8 DEF StageInv, Moved
  <1> QED  BY <1>7, <1>8

-----------------------------------------------------------------------------
(* The invariant, and what follows from it. *)

LEMMA CoordinatorStutters ==
  ASSUME PInv, UNCHANGED pvars
  PROVE  PInv'
  <1> USE DEF PInv
  <1>1. NoHistory /\ UNCHANGED <<nvs, p, pending, dirty, host, co, owe, faults>>
    BY DEF pvars, own, NoHistory
  <1>2. SInv' /\ SameCard /\ call' = call /\ (Ready' <=> Ready)
    BY <1>1, QuietIs
  <1>3. PTypeOK'
    BY <1>1, OwnTypes
  <1>4. MediaInv'
    BY <1>1, <1>2, MediaKept DEF SameCard, MediaInv
  <1>5. (Leads' <=> Leads) /\ (Kept(co)' <=> Kept(co))
    BY <1>1, <1>2, SameAbove DEF SameCard, Leads, Kept
  <1>6. /\ Newest' = Newest /\ archive' = archive /\ active' = active /\ at' = at /\ begun' = begun
        /\ Archived' = Archived /\ (\A n : Above(n)' <=> Above(n)) /\ (\A n : Exists(n)' <=> Exists(n))
    BY <1>2, SameAbove DEF SameCard
  <1>7. (AtOff => AtOff') /\ (AtChoose => AtChoose') /\ (AtAdopting => AtAdopting')
    BY <1>1, <1>2, <1>6 DEF AtOff, AtChoose, AtAdopting, Booting
  <1>8. (AtIdle => AtIdle') /\ (AtArchiving => AtArchiving')
    BY <1>1, <1>2, <1>5, <1>6 DEF AtIdle, AtArchiving
  <1>9. (AtStarting => AtStarting') /\ (AtSaving => AtSaving')
    BY <1>1, <1>2, <1>5, <1>6 DEF AtStarting, AtSaving
  <1>10. (AtFallback => AtFallback')
    <2>1. Above(p.num)' <=> Above(p.num)
      BY <1>1, <1>6, SameAbove
    <2>2. Above(co.was.num)' <=> Above(co.was.num)
      BY <1>1, <1>6, SameAbove
    <2> QED  BY <1>1, <1>2, <1>5, <1>6, <2>1, <2>2 DEF AtFallback
  <1>11. (AtUndoing => AtUndoing') /\ (AtRolling => AtRolling')
    <2>1. Above(p.num)' <=> Above(p.num)
      BY <1>1, <1>6, SameAbove
    <2>2. Above(co.was.num)' <=> Above(co.was.num)
      BY <1>1, <1>6, SameAbove
    <2> QED  BY <1>1, <1>2, <1>5, <1>6, <2>1, <2>2 DEF AtUndoing, AtRolling
  <1> QED  BY <1>1, <1>2, <1>3, <1>4, <1>7, <1>8, <1>9, <1>10, <1>11 DEF StageInv

LEMMA CoordinatorStepOk ==
  ASSUME PInv, ~Readable, TickFirst, [PNext]_pvars
  PROVE  PInv'
  <1>1. CASE BootSteps
    BY <1>1, PowerOnOk, BootBeginOk, BootFromSdOk, BootFromNvsOk, BootAdoptsOk, AdoptedOk,
       NotAdoptedOk, BootAfreshOk DEF BootSteps
  <1>2. CASE CallSteps
    BY <1>2, SavedOnSdOk, SdSaveFailsOk, NoGenerationLeftOk, SavedInNvsOk, NvsSaveFailsOk,
       ArchiveDoneOk, ArchiveFailsOk, StartedOk, StartFailsOk, UndoOk, RolledBackOk,
       RollbackFailsOk, NotProtectedOk DEF CallSteps
  <1>3. CASE HostSteps
    BY <1>3, HostChangesOk, ForcedCheckpointOk, NewSessionOk, NewSessionNoSdOk, RestoreOk
    DEF HostSteps
  <1>4. CASE TickMirrors \/ TickSaves \/ HistoryStep \/ PowerOff
    BY <1>4, TickMirrorsOk, TickSavesOk, HistoryOk, PowerOffOk
  <1> QED  BY <1>1, <1>2, <1>3, <1>4, CoordinatorStutters DEF PNext

\* The two halves hold of every reachable state: the card keeps its record and what a call
\* is about to write outranks it, and each step of the coordinator knows how the
\* generations in RAM, in NVS and on the card compare.
THEOREM PersistenceInvariant == ASSUME ~Readable, TickFirst PROVE PSpec => []PInv
  <1>1. PInit => PInv
    BY InitHolds
  <1>2. PInv /\ [PNext]_pvars => PInv'
    BY CoordinatorStepOk
  <1> QED  BY <1>1, <1>2, PTL DEF PSpec

\* Unless an archive finishes the card's record, the higher generation decides.
LEMMA BootTakesWinner ==
  ASSUME SInv, PTypeOK, ~Overruled
  PROVE  BootTakes = Winner
  <1>1. Newest.seq \in Nat /\ nvs.seq \in Nat
    BY NewestIs, PTypes DEF SInv
  <1> QED  BY <1>1 DEF BootTakes, BootSeq, Winner, Overruled

\* Whatever fails and whenever power goes, a boot finds the standings last acknowledged
\* or an attempt made since.
THEOREM AckedForGood == ASSUME ~Readable, TickFirst PROVE PSpec => []AckedSurvives
  <1>1. PInv => AckedSurvives
    BY BootTakesWinner DEF PInv, AckedSurvives, MediaInv
  <1> QED  BY <1>1, PersistenceInvariant, PTL

\* While the ledger is not dirty, a boot resumes exactly the live standings, and so does a
\* boot that finds no card while none is in use.
THEOREM CleanIsSaved == ASSUME ~Readable, TickFirst PROVE PSpec => []CleanMeansSaved
  <1>1. PInv => CleanMeansSaved
    <2> SUFFICES ASSUME PInv, Idle, ~dirty, ~Overruled
                 PROVE  BootTakes.st = host /\ (~p.usingSd => nvs.st = host)
      BY DEF CleanMeansSaved
    <2>1. AtIdle /\ BootTakes = Winner
      BY BootTakesWinner DEF PInv, StageInv, Idle
    <2>2. Newest.seq \in Nat /\ nvs.seq \in Nat /\ (at # NoSlot => Newest = active)
      BY NewestIs, PTypes DEF PInv, SInv
    <2>3. CASE p.usingSd
      BY <2>1, <2>2, <2>3 DEF AtIdle, Winner, PInv, SInv, StepInv
    <2>4. CASE ~p.usingSd
      BY <2>1, <2>2, <2>4 DEF AtIdle, Winner
    <2> QED  BY <2>3, <2>4
  <1> QED  BY <1>1, PersistenceInvariant, PTL

\* Between calls the medium in use is the one a boot would choose, and what the fallback
\* has saved outranks the last verified record of a card that is still there.
THEOREM MediaAgreement == ASSUME ~Readable, TickFirst PROVE PSpec => []MediaAgree
  <1>1. PInv => MediaAgree
    <2> SUFFICES ASSUME PInv PROVE UsedMediumWins /\ FallbackOutranksSlot
      BY DEF PInv, MediaAgree
    <2>1. Newest.seq \in Nat /\ nvs.seq \in Nat /\ (at # NoSlot => Newest = active)
      BY NewestIs, PTypes DEF PInv, SInv
    <2>2. Idle => AtIdle
      BY DEF PInv, StageInv, Idle
    <2>3. UsedMediumWins
      BY <2>1, <2>2 DEF UsedMediumWins, AtIdle, BootTakes, BootSeq, PInv, SInv, StepInv
    <2>4. FallbackOutranksSlot
      BY <2>1, <2>2 DEF FallbackOutranksSlot, AtIdle, PInv, SInv, StepInv
    <2> QED  BY <2>3, <2>4
  <1> QED  BY <1>1, PersistenceInvariant, PTL

\* What a step keeps of the players: the action of ArchivesKeepSessions.
KeepsSessions ==
    /\ co.pc = "adopting" /\ p'.usingSd => ~Exists(active.num)
    /\ host # Empty /\ Idle' /\ ~co.discard /\ co.op \in {"new", "restore"} /\ host' # host
         => \E n \in Archived : archive[n].st = host

LEMMA StepKeepsSessions ==
  ASSUME PInv, PNext
  PROVE  KeepsSessions
  <1> USE DEF PInv
  <1>1. CASE BootSteps
    <2>1. co.pc \in {"off", "begin", "choose", "adopting"}
      BY <1>1 DEF BootSteps, PowerOn, BootBegin, BootFromSd, BootFromNvs, BootAdopts, Adopted,
                  NotAdopted, BootAfresh, Choosing
    <2>2. Booting
      BY <2>1 DEF StageInv, AtOff, AtChoose, AtAdopting
    <2>3. co.pc = "adopting" => Adopted \/ NotAdopted
      BY <1>1 DEF BootSteps, PowerOn, BootBegin, BootFromSd, BootFromNvs, BootAdopts, BootAfresh,
                  Choosing
    <2>4. NotAdopted => ~p'.usingSd
      BY DEF NotAdopted, FromNvs
    <2>5. co.pc = "adopting" /\ Adopted => ~Exists(active.num)
      BY DEF Adopted, StageInv, AtAdopting
    <2> QED  BY <2>2, <2>3, <2>4, <2>5 DEF KeepsSessions, Booting
  <1>2. CASE CallSteps
    <2>1. co.pc \in {"saving", "fallback", "archiving", "starting", "undoing", "rolling"}
      BY <1>2 DEF CallSteps, SavedOnSd, SdSaveFails, NoGenerationLeft, SavedInNvs, NvsSaveFails,
                  ArchiveDone, ArchiveFails, Started, StartFails, Undo, RolledBack,
                  RollbackFails, NotProtected
    <2>2. host' # host => SavedOnSd \/ SavedInNvs \/ Started \/ RolledBack
      BY <1>2 DEF CallSteps, SdSaveFails, NoGenerationLeft, NvsSaveFails, ArchiveDone,
                  ArchiveFails, StartFails, RollBack, Undo, RollbackFails, NotProtected, Fails
    <2>3. ASSUME SavedOnSd, host' # host PROVE Kept(co)
      <3>1. AtSaving /\ Succeeds
        BY <2>3 DEF SavedOnSd, StageInv
      <3> QED  BY <2>3, <3>1 DEF AtSaving, Succeeds
    <2>4. ASSUME SavedInNvs, host' # host PROVE Kept(co)
      <3>1. AtFallback /\ Succeeds
        BY <2>4 DEF SavedInNvs, StageInv
      <3> QED  BY <2>4, <3>1 DEF AtFallback, Succeeds
    <2>5. Started => Kept(co)
      BY DEF Started, StageInv, AtStarting
    <2>6. RolledBack => host' = host
      BY DEF RolledBack, StageInv, AtRolling, Succeeds
    <2> QED  BY <2>1, <2>2, <2>3, <2>4, <2>5, <2>6 DEF KeepsSessions, Kept
  <1>3. CASE HostSteps
    <2>1. host' # host => \E h \in Standings : HostChanges(h)
      BY <1>3 DEF HostSteps, ForcedCheckpoint, NewSession, NewSessionNoSd, Restore, ArchiveFirst
    <2>2. p'.usingSd => p.usingSd \/ co.pc = "idle"
      BY <1>3 DEF HostSteps, HostChanges, ForcedCheckpoint, NewSession, NewSessionNoSd, Restore,
                  ArchiveFirst, HostMayAct, Idle
    <2>3. co.pc = "adopting" => ~p.usingSd
      BY DEF StageInv, AtAdopting
    <2>4. (\E h \in Standings : HostChanges(h)) => co.op \in {"none", "checkpoint"}
      BY DEF HostChanges, StageInv, AtIdle, Idle
    <2> QED  BY <2>1, <2>2, <2>3, <2>4 DEF KeepsSessions
  <1>4. CASE TickMirrors \/ TickSaves
    <2>1. co.pc = "idle" /\ host' = host
      BY <1>4 DEF TickMirrors, TickSaves, Idle
    <2> QED  BY <2>1 DEF KeepsSessions
  <1>5. CASE HistoryStep
    <2>1. host' = host /\ p' = p
      BY <1>5 DEF HistoryStep
    <2> QED  BY <2>1 DEF KeepsSessions, StageInv, AtAdopting
  <1>6. CASE PowerOff
    <2>1. co'.pc = "off" /\ ~p'.usingSd
      BY <1>6, AtTyped DEF PowerOff, Off
    <2> QED  BY <2>1 DEF KeepsSessions, Idle
  <1> QED  BY <1>1, <1>2, <1>3, <1>4, <1>5, <1>6 DEF PNext

\* A session taken over from NVS has a number it can be archived under, and unless the host
\* confirmed the discard, players leave the live ledger only once an archive holds them.
THEOREM SessionsKept == ASSUME ~Readable, TickFirst PROVE PSpec => ArchivesKeepSessions
  <1>1. PInv /\ [PNext]_pvars => [KeepsSessions]_pvars
    BY StepKeepsSessions
  <1> QED  BY <1>1, PersistenceInvariant, PTL DEF PSpec, ArchivesKeepSessions, KeepsSessions

=============================================================================
