---------------------------- MODULE SettingsProofs ----------------------------
(***************************************************************************)
(* Proofs about ConfigStore and the renames of SsidChange that use it, for *)
(* any settings, names and bounds, where a write that fails leaves no      *)
(* readable record.                                                        *)
(*                                                                         *)
(* The inductive invariant IInv of the store says that the record in force *)
(* outranks or equals every record on the media and is held by a mirror    *)
(* that is not marked dirty; a commit writes the next generation into a    *)
(* slot that is not the one in force, so a failed commit takes nothing     *)
(* away.  A rename uses the store by its own calls, so IInv holds          *)
(* throughout; NInv adds what each step of the transaction knows of the    *)
(* name in RAM, the settings in force and the air.                         *)
(***************************************************************************)
EXTENDS SsidChange, TLAPS

LEMMA NoRecordNotRecord == NoRecord \notin Record
  BY BoundAssumption DEF NoRecord, Record

\* The record that dominates the media is the one a boot with the card selects.
LEMMA TopSelected ==
  ASSUME TypeOK, NEW t \in Record, t \in Media, Dominates(t)
  PROVE  Recorded(TRUE) /\ Selected(TRUE) = t
  <1>1. t # NoRecord /\ t.gen \in Nat
    BY NoRecordNotRecord DEF Record
  <1>2. \A r \in Media : r \in Record \cup {NoRecord} /\ r.gen \in Nat
    BY DEF TypeOK, Media, Slot, Record, NoRecord
  <1>3. slot[0] \in Media /\ slot[1] \in Media /\ nvs \in Media
    BY DEF Media
  <1>4. OnCard \in {slot[0], slot[1]}
    BY DEF OnCard, NewestSlot
  <1>5. slot[0] = t \/ slot[1] = t => OnCard = t
    BY <1>1, <1>2, <1>3 DEF OnCard, NewestSlot, Dominates
  <1>6. OnCard = NoRecord => slot[0] = NoRecord /\ slot[1] = NoRecord
    BY DEF OnCard, NewestSlot
  <1>7. CASE OnCard = t
    BY <1>1, <1>2, <1>3, <1>7 DEF Recorded, Selected, SelectsSd, Dominates
  <1>8. CASE OnCard # t
    <2>1. nvs = t
      BY <1>5, <1>8 DEF Media
    <2>2. OnCard = NoRecord \/ OnCard.gen < t.gen
      BY <1>3, <1>4, <1>8 DEF Dominates
    <2>3. OnCard.gen \in Nat
      BY <1>2, <1>3, <1>4
    <2> QED  BY <1>1, <2>1, <2>2, <2>3 DEF Recorded, Selected, SelectsSd
  <1> QED  BY <1>7, <1>8

LEMMA BlankUnrecorded == Blank => ~Recorded(TRUE)
  BY DEF Blank, Media, Recorded, OnCard, NewestSlot

\* Every return and every start of a repair leaves a job of the right shape.
LEMMA AtType ==
  ASSUME NEW op \in {"boot", "save", "repair"},
         NEW pc \in {"off", "halt", "ok", "failed", "repairNvs", "repairSd", "rename"}
  PROVE  /\ At(op, pc) \in Job /\ At(op, pc).pc = pc /\ At(op, pc).op = op
         /\ At(op, pc).sdWritten = FALSE
  BY DEF At, Job

LEMMA InitOk == Init => IInv
  <1> SUFFICES ASSUME Init PROVE IInv
    OBVIOUS
  <1>1. job \in Job /\ job.pc = "off"
    BY AtType DEF Init
  <1>2. Blank
    BY DEF Init, Blank, Media, Slot
  <1>3. slot \in [Slot -> Record \cup {NoRecord}] /\ value \in [gen : 0 .. MaxGen, val : Value]
    BY ValueAssumption, BoundAssumption DEF Init, NoRecord
  <1>4. faults \in 0 .. MaxFaults /\ owe \in SUBSET Value /\ sdSlot \in {0, 1, NoSlot}
    BY BoundAssumption DEF Init
  <1>5. TypeOK
    BY <1>1, <1>3, <1>4 DEF Init, TypeOK
  <1> QED  BY <1>1, <1>2, <1>5 DEF IInv, OffInv, RunInv, CommitInv, NewOnCard

-----------------------------------------------------------------------------
(* Boot. *)

\* What a boot that may do without the card selects dominates all media.
LEMMA SelectedDominates ==
  ASSUME TypeOK, NEW card \in BOOLEAN, card \/ MayLeave, Recorded(card),
         NEW t \in Record, t \in Media, Dominates(t)
  PROVE  Selected(card) = t
  <1>1. Selected(TRUE) = t
    BY TopSelected
  <1>2. nvs \in Record \cup {NoRecord} /\ OnCard \in Record \cup {NoRecord}
    BY DEF TypeOK, OnCard, NewestSlot, Slot
  <1>3. nvs.gen \in Nat /\ OnCard.gen \in Nat
    BY <1>2 DEF Record, NoRecord
  <1>4. CASE card
    BY <1>1, <1>4
  <1>5. CASE ~card
    BY <1>1, <1>3, <1>5 DEF MayLeave, Recorded, Selected, SelectsSd
  <1> QED  BY <1>4, <1>5

LEMMA BootSelectsOk ==
  ASSUME IInv, NEW card \in BOOLEAN, BootSelects(card)
  PROVE  IInv'
  <1>1. TypeOK /\ job.pc = "off" /\ Recorded(card) /\ (card \/ MayLeave)
    BY DEF IInv, BootSelects
  <1>2. OnCard = slot[NewestSlot] /\ NewestSlot \in {0, 1}
    BY DEF OnCard, NewestSlot
  <1>3. ~Blank
    BY <1>1, <1>2 DEF Blank, Media, Recorded
  <1>4. PICK t \in Record : t \in Media /\ Dominates(t) /\ t.val \in owe
    BY <1>1, <1>3 DEF IInv, OffInv
  <1>5. Selected(card) = t
    BY <1>1, <1>4, SelectedDominates
  <1>6. job' = At("boot", "repairNvs")
    BY DEF BootSelects
  <1>7. job' \in Job /\ job'.pc = "repairNvs"
    BY <1>6, AtType
  <1>8. value' = t /\ owe' = {t.val} /\ UNCHANGED media /\ faults' = faults
    BY <1>5 DEF BootSelects
  <1>9. sdDirty' \in BOOLEAN /\ nvsDirty' \in BOOLEAN /\ renamePending' \in BOOLEAN /\ sdOk' \in BOOLEAN
    BY DEF BootSelects
  <1>10. sdSlot' \in {0, 1, NoSlot}
    BY <1>2 DEF BootSelects
  <1>11. TypeOK'
    <2>1. t.val \in Value /\ t \in [gen : 0 .. MaxGen, val : Value]
      BY <1>4, BoundAssumption DEF Record
    <2> QED  BY <1>1, <1>7, <1>8, <1>9, <1>10, <2>1 DEF TypeOK, media
  <1>12. InForce'
    <2>1. Dominates(t)'
      BY <1>4, <1>8 DEF Dominates, Media, media
    <2>2. nvsDirty' \/ nvs' = value'
      <3>1. SelectsSd(card) => nvsDirty' \/ nvs = t
        BY <1>5 DEF BootSelects
      <3>2. ~SelectsSd(card) => nvs = t
        BY <1>5 DEF Selected
      <3> QED  BY <1>8, <3>1, <3>2 DEF media
    <2>3. sdDirty' \/ (card /\ OnCard # NoRecord /\ OnCard = t)
      BY <1>5 DEF BootSelects, Selected
    <2>4. sdDirty' \/ (sdSlot' # NoSlot /\ slot'[sdSlot'] = value')
      <3>1. CASE card /\ OnCard # NoRecord /\ OnCard = t
        <4>1. sdSlot' = NewestSlot
          BY <3>1, Zenon DEF BootSelects
        <4>2. slot' = slot /\ slot[NewestSlot] = t
          BY <1>2, <1>8, <3>1 DEF media
        <4> QED  BY <1>2, <1>8, <4>1, <4>2 DEF NoSlot
      <3> QED  BY <2>3, <3>1
    <2>5. ~nvsDirty' \/ ~sdDirty'
      <3>1. CASE SelectsSd(card)
        BY <3>1 DEF BootSelects, SelectsSd
      <3>2. CASE ~SelectsSd(card)
        BY <1>4, <1>5, <3>2, NoRecordNotRecord DEF BootSelects, Selected
      <3> QED  BY <3>1, <3>2
    <2> QED  BY <1>4, <1>8, <2>1, <2>2, <2>4, <2>5 DEF InForce
  <1> QED  BY <1>7, <1>11, <1>12 DEF IInv, OffInv, RunInv, CommitInv, NewOnCard

LEMMA BootFreshOk ==
  ASSUME IInv, NEW card \in BOOLEAN, BootFresh(card)
  PROVE  IInv'
  <1> DEFINE v == IF card /\ legacy # NoValue THEN legacy ELSE Default
  <1>1. TypeOK /\ job.pc = "off" /\ ~Recorded(card) /\ (card \/ MayLeave)
    BY DEF IInv, BootFresh
  <1>2. Blank
    <2>1. Recorded(TRUE) => nvs # NoRecord \/ OnCard # NoRecord
      BY DEF Recorded
    <2>2. CASE \E t \in Record : t \in Media /\ Dominates(t)
      <3>1. PICK t \in Record : t \in Media /\ Dominates(t)
        BY <2>2
      <3>2. Recorded(TRUE) /\ Selected(TRUE) = t
        BY <1>1, <3>1, TopSelected
      <3>3. nvs = NoRecord
        BY <1>1 DEF Recorded
      <3>4. CASE card
        BY <1>1, <3>2, <3>4
      <3>5. CASE ~card
        <4>1. OnCard = t
          BY <3>1, <3>2, <3>3, NoRecordNotRecord DEF Selected
        <4>2. t.gen \in Nat /\ t.gen > 0
          BY <3>1, BoundAssumption DEF Record
        <4> QED  BY <1>1, <3>1, <3>3, <3>5, <4>1, <4>2, NoRecordNotRecord DEF MayLeave, NoRecord
      <3> QED  BY <3>4, <3>5
    <2> QED  BY <1>1, <2>2 DEF IInv, OffInv
  <1>3. v \in Value
    BY <1>1, ValueAssumption DEF TypeOK
  <1>4. /\ value' = [gen |-> 0, val |-> v] /\ sdSlot' = NoSlot /\ sdOk' = card
        /\ sdDirty' = FALSE /\ nvsDirty' = FALSE
        /\ owe' = owe \cup {v} /\ UNCHANGED media /\ faults' = faults
    BY Zenon DEF BootFresh
  <1>5. CommitBegins("boot", v, 0)
    BY Zenon DEF BootFresh
  <1> DEFINE r == [gen |-> 1, val |-> v]
  <1>6. r \in Record
    BY <1>3, BoundAssumption DEF Record
  <1>7. /\ job' \in Job /\ job'.pc = "sd" /\ job'.op = "boot" /\ job'.rec = r
        /\ job'.sdWritten = FALSE
    <2>1. 0 # MaxGen /\ 0 + 1 = 1
      BY BoundAssumption
    <2>2. job' = [At("boot", "sd") EXCEPT !.rec = [gen |-> 0 + 1, val |-> v]]
      BY <1>5, <2>1 DEF CommitBegins
    <2>3. job' = [pc |-> "sd", op |-> "boot", rec |-> r, sdWritten |-> FALSE]
      BY <2>1, <2>2 DEF At
    <2> HIDE DEF r, v
    <2> QED  BY <1>6, <2>3 DEF Job
  <1>8. renamePending' \in BOOLEAN
    BY DEF BootFresh
  <1>9. TypeOK'
    <2>1. value' \in [gen : 0 .. MaxGen, val : Value]
      BY <1>3, <1>4, BoundAssumption
    <2>2. owe' \in SUBSET Value
      BY <1>1, <1>3, <1>4 DEF TypeOK
    <2> HIDE DEF v, r
    <2> QED  BY <1>1, <1>4, <1>7, <1>8, <2>1, <2>2 DEF TypeOK, media
  <1>10. Fresh' /\ Blank'
    BY <1>2, <1>4 DEF Fresh, Blank, Media, media
  <1>11. r.gen = value'.gen + 1 /\ r.val \in owe'
    BY <1>4
  <1> HIDE DEF v, r
  <1> QED
    BY <1>6, <1>7, <1>9, <1>10, <1>11 DEF IInv, OffInv, RunInv, CommitInv, NewOnCard

-----------------------------------------------------------------------------
(* The calls. *)

\* Outside of boot and commit nothing but the record in force matters.
LEMMA ReadyInForce == IInv /\ Ready => InForce
  BY DEF IInv, RunInv, Ready, NewOnCard

\* What is kept when neither the media nor the record in force change.
LEMMA QuietInForce ==
  ASSUME InForce, UNCHANGED <<slot, nvs, value, sdSlot, sdDirty, nvsDirty>>, value.val \in owe'
  PROVE  InForce'
  BY DEF InForce, Dominates, Media

LEMMA CardGivenUpOk == IInv /\ CardGivenUp => IInv'
  <1> SUFFICES ASSUME IInv, CardGivenUp PROVE IInv'
    OBVIOUS
  <1>1. Ready /\ sdOk' = FALSE /\ UNCHANGED <<media, rt, job, owe, faults>>
    BY DEF CardGivenUp
  <1>2. TypeOK'
    BY <1>1 DEF IInv, TypeOK, media, rt
  <1>3. InForce'
    BY <1>1, ReadyInForce, QuietInForce DEF media, rt, InForce
  <1> QED  BY <1>1, <1>2, <1>3 DEF IInv, OffInv, RunInv, CommitInv, NewOnCard, Ready

LEMMA SaveOk ==
  ASSUME IInv, NEW v \in Value, Save(v)
  PROVE  IInv'
  <1>1. Ready /\ UNCHANGED <<media, sdOk, rt, faults>> /\ CommitBegins("save", v, value.gen)
    BY DEF Save
  <1>2. InForce /\ value \in Record /\ value.gen \in 1 .. MaxGen
    BY <1>1, ReadyInForce DEF InForce, Record
  <1>3. owe' = owe \/ owe' = owe \cup {v}
    BY DEF Save
  <1>4. InForce'
    BY <1>1, <1>2, <1>3, QuietInForce DEF InForce, media, rt
  <1>5. ~Fresh'
    BY <1>1, <1>2, BoundAssumption DEF Fresh, rt
  <1>6. CASE value.gen = MaxGen
    <2>1. job' \in Job /\ job'.pc = "failed" /\ job'.sdWritten = FALSE
      BY <1>1, <1>6, AtType DEF CommitBegins
    <2>2. TypeOK'
      BY <1>1, <1>3, <2>1 DEF IInv, TypeOK, media, rt
    <2> QED  BY <1>4, <2>1, <2>2 DEF IInv, OffInv, RunInv, CommitInv, NewOnCard
  <1>7. CASE value.gen # MaxGen
    <2> DEFINE r == [gen |-> value.gen + 1, val |-> v]
    <2>1. r \in Record
      BY <1>2, <1>7, BoundAssumption DEF Record
    <2>2. /\ job' \in Job /\ job'.pc = "sd" /\ job'.op = "save" /\ job'.rec = r
          /\ job'.sdWritten = FALSE
      BY <1>1, <1>7, <2>1 DEF CommitBegins, At, Job
    <2>3. owe' = owe \cup {v}
      BY <1>7 DEF Save
    <2>4. TypeOK'
      <3> HIDE DEF r
      <3> QED  BY <1>1, <2>2, <2>3 DEF IInv, TypeOK, media, rt
    <2>5. r.gen = value'.gen + 1 /\ r.val \in owe'
      BY <1>1, <2>3 DEF rt
    <2> HIDE DEF r
    <2> QED  BY <1>4, <1>5, <2>1, <2>2, <2>4, <2>5
             DEF IInv, OffInv, RunInv, CommitInv, NewOnCard
  <1> QED  BY <1>6, <1>7

\* The media after a write that failed hold no record they did not hold before.
LEMMA Fewer ==
  ASSUME NEW t, Dominates(t), nvs' = nvs, NEW k \in Slot, slot \in [Slot -> Record \cup {NoRecord}],
         NEW left \in {slot[k], NoRecord}, slot' = [slot EXCEPT ![k] = left]
  PROVE  Dominates(t)' /\ (Blank => Blank')
  <1>1. \A s \in Slot : slot'[s] \in {slot[s], NoRecord}
    OBVIOUS
  <1>2. \A m \in Media' : m = NoRecord \/ m \in Media
    BY <1>1 DEF Media, Slot
  <1> QED  BY <1>2 DEF Dominates, Blank

\* A record above all others dominates once it is written.
LEMMA Added ==
  ASSUME NEW t, \A m \in Media : m = NoRecord \/ m.gen < t.gen \/ m = t,
         \A m \in Media' : m \in Media \/ m = t
  PROVE  Dominates(t)'
  BY DEF Dominates

LEMMA TargetFree == Target \in Slot /\ (TypeOK /\ sdSlot # NoSlot => Target # sdSlot /\ sdSlot \in Slot)
  BY DEF Target, Slot, TypeOK, NoSlot

LEMMA CommitSdOk ==
  ASSUME ~Readable, IInv, CommitSd
  PROVE  IInv'
  <1>1. /\ job.pc = "sd" /\ ~job.sdWritten /\ TypeOK
        /\ UNCHANGED <<nvs, legacy, imported, sdOk, value, sdDirty, nvsDirty, renamePending, owe>>
    BY DEF CommitSd, IInv, CommitInv
  <1>2. /\ job.rec \in Record /\ job.rec.gen = value.gen + 1 /\ job.rec.val \in owe
        /\ job.op = "boot" <=> Fresh
    BY <1>1 DEF IInv, CommitInv
  <1>3. (Fresh /\ Blank) \/ InForce
    BY <1>1 DEF IInv, RunInv, NewOnCard
  <1>4. value.gen \in Nat /\ job.rec.gen \in Nat
    BY <1>1, <1>2, BoundAssumption DEF TypeOK, Record
  <1>5. \A m \in Media : m = NoRecord \/ (m.gen \in Nat /\ m.gen <= value.gen)
    <2>1. \A m \in Media : m \in Record \cup {NoRecord}
      BY <1>1 DEF TypeOK, Media, Slot
    <2>2. \A m \in Media : m = NoRecord \/ m.gen \in Nat
      BY <2>1 DEF Record
    <2> QED  BY <1>3, <1>4, <2>2 DEF Blank, InForce, Dominates
  <1>6. CASE ~sdOk /\ job' = [job EXCEPT !.pc = "nvs"] /\ UNCHANGED <<slot, sdSlot, faults>>
    <2>1. /\ job' \in Job /\ job'.pc = "nvs" /\ job'.sdWritten = FALSE
          /\ job'.rec = job.rec /\ job'.op = job.op
      BY <1>1, <1>6 DEF TypeOK, Job
    <2>2. TypeOK'
      BY <1>1, <1>6, <2>1 DEF TypeOK
    <2>3. (Fresh /\ Blank)' \/ InForce'
      BY <1>1, <1>3, <1>6, QuietInForce DEF Fresh, Blank, Media, InForce
    <2> QED  BY <1>1, <1>2, <2>1, <2>2, <2>3
             DEF IInv, OffInv, RunInv, CommitInv, NewOnCard, Fresh
  <1>7. CASE /\ slot' = [slot EXCEPT ![Target] = job.rec] /\ sdSlot' = Target
             /\ job' = [job EXCEPT !.pc = "nvs", !.sdWritten = TRUE] /\ NoFault
    <2>1. /\ job' \in Job /\ job'.pc = "nvs" /\ job'.sdWritten = TRUE
          /\ job'.rec = job.rec /\ job'.op = job.op
      BY <1>1, <1>7 DEF TypeOK, Job
    <2>2. slot' \in [Slot -> Record \cup {NoRecord}] /\ slot'[Target] = job.rec
      BY <1>1, <1>2, <1>7, TargetFree DEF TypeOK
    <2>3. sdSlot' \in {0, 1} /\ sdSlot' # NoSlot
      BY <1>7 DEF Target, NoSlot
    <2>4. TypeOK'
      BY <1>1, <1>7, <2>1, <2>2, <2>3 DEF TypeOK, NoFault
    <2>5. \A m \in Media' : m \in Media \/ m = job.rec
      BY <1>1, <1>7 DEF Media, TypeOK, Slot
    <2>6. Dominates(job.rec)'
      BY <1>2, <1>4, <1>5, <2>1, <2>5, Added
    <2> QED  BY <1>1, <1>2, <1>7, <2>1, <2>2, <2>3, <2>4, <2>6
             DEF IInv, OffInv, RunInv, CommitInv, NewOnCard, Fresh
  <1>8. CASE /\ \E left \in SdLeft(job.rec) : slot' = [slot EXCEPT ![Target] = left]
             /\ sdSlot' = sdSlot
             /\ job' = [job EXCEPT !.pc = "nvs"] /\ Fault
    <2>1. /\ job' \in Job /\ job'.pc = "nvs" /\ job'.sdWritten = FALSE
          /\ job'.rec = job.rec /\ job'.op = job.op
      BY <1>1, <1>8 DEF TypeOK, Job
    <2>2. PICK left \in {slot[Target], NoRecord} : slot' = [slot EXCEPT ![Target] = left]
      BY <1>8 DEF SdLeft
    <2>3. slot' \in [Slot -> Record \cup {NoRecord}]
      BY <1>1, <2>2, TargetFree DEF TypeOK
    <2>4. faults' \in 0 .. MaxFaults
      BY <1>1, <1>8, BoundAssumption DEF Fault, TypeOK
    <2>5. TypeOK'
      BY <1>1, <1>8, <2>1, <2>3, <2>4 DEF TypeOK
    <2>6. CASE Fresh /\ Blank
      <3>1. Blank'
        BY <1>1, <2>2, <2>6 DEF Blank, Media, TypeOK, Slot
      <3> QED  BY <1>1, <1>2, <2>1, <2>5, <2>6, <3>1
               DEF IInv, OffInv, RunInv, CommitInv, NewOnCard, Fresh
    <2>7. CASE InForce
      <3>1. Dominates(value)'
        BY <1>1, <2>2, <2>7, Fewer, TargetFree DEF TypeOK, InForce, Dominates
      <3>2. sdDirty \/ (sdSlot # NoSlot /\ slot'[sdSlot] = value)
        BY <1>1, <2>2, <2>7, TargetFree DEF InForce, TypeOK
      <3>3. InForce'
        BY <1>1, <1>8, <2>7, <3>1, <3>2 DEF InForce
      <3> QED  BY <1>1, <1>2, <2>1, <2>5, <3>3
               DEF IInv, OffInv, RunInv, CommitInv, NewOnCard, Fresh
    <2> QED  BY <1>3, <2>6, <2>7
  <1> QED  BY <1>6, <1>7, <1>8 DEF CommitSd

\* The record of a commit in progress dominates once either medium has it.
LEMMA Committed ==
  ASSUME IInv, job.pc = "nvs"
  PROVE  /\ job.rec \in Record /\ job.rec.val \in Value
         /\ \A m \in Media : m = NoRecord \/ m.gen < job.rec.gen \/ m = job.rec
  <1>1. job.rec \in Record /\ job.rec.gen = value.gen + 1
    BY DEF IInv, CommitInv
  <1>2. value.gen \in Nat /\ job.rec.gen \in Nat /\ job.rec.val \in Value
    BY <1>1, BoundAssumption DEF IInv, TypeOK, Record
  <1>3. \A m \in Media : m \in Record \cup {NoRecord}
    BY DEF IInv, TypeOK, Media, Slot
  <1>4. \A m \in Media : m = NoRecord \/ m.gen \in Nat
    BY <1>3 DEF Record
  <1>5. CASE job.sdWritten
    BY <1>1, <1>2, <1>5 DEF IInv, CommitInv, NewOnCard, Dominates
  <1>6. CASE ~job.sdWritten
    <2>1. (Fresh /\ Blank) \/ InForce
      BY <1>6 DEF IInv, RunInv, NewOnCard
    <2> QED  BY <1>1, <1>2, <1>4, <2>1 DEF Blank, InForce, Dominates
  <1> QED  BY <1>5, <1>6

LEMMA CommitsOk ==
  ASSUME IInv, job.pc = "nvs", NEW written \in BOOLEAN, Commits(written),
         written \/ job.sdWritten,
         nvs' = IF written THEN job.rec ELSE nvs,
         faults' \in 0 .. MaxFaults,
         UNCHANGED <<slot, legacy, imported, sdOk, sdSlot, renamePending>>
  PROVE  IInv'
  <1>1. /\ job.rec \in Record /\ job.rec.val \in Value /\ TypeOK
        /\ \A m \in Media : m = NoRecord \/ m.gen < job.rec.gen \/ m = job.rec
    BY Committed DEF IInv
  <1>2. /\ value' = job.rec /\ sdDirty' = ~job.sdWritten /\ nvsDirty' = ~written
        /\ job' = At(job.op, IF job.op = "boot" THEN "repairNvs" ELSE "ok")
        /\ owe' = {job.rec.val}
    BY DEF Commits
  <1>3. job' \in Job /\ job'.pc \in {"repairNvs", "ok"}
    <2>1. job.op \in {"boot", "save", "repair"}
      BY <1>1 DEF TypeOK, Job
    <2> QED  BY <1>2, <2>1, AtType
  <1>4. TypeOK'
    <2>1. job.rec \in [gen : 0 .. MaxGen, val : Value] /\ nvs' \in Record \cup {NoRecord}
      BY <1>1, BoundAssumption DEF Record, TypeOK
    <2>2. sdDirty' \in BOOLEAN /\ nvsDirty' \in BOOLEAN
      BY <1>2
    <2> QED  BY <1>1, <1>2, <1>3, <2>1, <2>2 DEF TypeOK
  <1> PICK r : r = job.rec
    OBVIOUS
  <1>5. Dominates(r)'
    <2>1. \A m \in Media' : m \in Media \/ m = r
      BY DEF Media
    <2> QED  BY <1>1, <2>1, Added
  <1>6. nvsDirty' \/ nvs' = value'
    BY <1>2
  <1>7. sdDirty' \/ (sdSlot' # NoSlot /\ slot'[sdSlot'] = value')
    BY <1>2 DEF IInv, CommitInv, NewOnCard
  <1>8. InForce'
    <2>1. ~nvsDirty' \/ ~sdDirty'
      BY <1>2
    <2>2. Dominates(value)'
      BY <1>2, <1>5 DEF Dominates
    <2> QED  BY <1>1, <1>2, <1>6, <1>7, <2>1, <2>2 DEF InForce
  <1> QED  BY <1>3, <1>4, <1>8 DEF IInv, OffInv, RunInv, CommitInv, NewOnCard

LEMMA CommitNvsOk ==
  ASSUME ~Readable, IInv, CommitNvs
  PROVE  IInv'
  <1>1. /\ job.pc = "nvs" /\ TypeOK
        /\ UNCHANGED <<slot, legacy, imported, sdOk, sdSlot, renamePending>>
    BY DEF CommitNvs, IInv
  <1>2. CASE nvs' = job.rec /\ NoFault /\ Commits(TRUE)
    <2>1. faults' \in 0 .. MaxFaults
      BY <1>1, <1>2 DEF NoFault, TypeOK
    <2> QED  BY <1>1, <1>2, <2>1, CommitsOk
  <1>3. CASE nvs' \in NvsLeft(job.rec) /\ Fault /\ job.sdWritten /\ Commits(FALSE)
    <2>1. nvs' = nvs
      BY <1>3 DEF NvsLeft
    <2>2. faults' \in 0 .. MaxFaults
      BY <1>1, <1>3, BoundAssumption DEF Fault, TypeOK
    <2> QED  BY <1>1, <1>3, <2>1, <2>2, CommitsOk
  <1>4. CASE nvs' \in NvsLeft(job.rec) /\ Fault /\ ~job.sdWritten /\ Rejects
    <2>1. nvs' = nvs /\ UNCHANGED <<value, sdDirty, nvsDirty>>
      BY <1>4 DEF NvsLeft, Rejects
    <2>2. faults' \in 0 .. MaxFaults
      BY <1>1, <1>4, BoundAssumption DEF Fault, TypeOK
    <2>3. /\ job' \in Job /\ job'.pc = (IF job.op = "boot" THEN "halt" ELSE "failed")
      <3>1. job.op \in {"boot", "save", "repair"}
        BY <1>1 DEF TypeOK, Job
      <3> QED  BY <1>4, <3>1, AtType DEF Rejects
    <2>4. owe' = IF job.op = "boot" THEN owe ELSE {value.val}
      BY <1>4 DEF Rejects
    <2>5. TypeOK'
      <3>1. owe' \in SUBSET Value
        BY <1>1, <2>4 DEF TypeOK
      <3> QED  BY <1>1, <2>1, <2>2, <2>3, <3>1 DEF TypeOK
    <2>6. (Fresh /\ Blank) \/ InForce
      BY <1>1, <1>4 DEF IInv, RunInv, NewOnCard
    <2>7. job.op = "boot" <=> Fresh
      BY <1>1 DEF IInv, CommitInv
    <2>8. InForce => ~Fresh
      BY BoundAssumption DEF InForce, Fresh, Record
    <2>9. CASE Fresh /\ Blank
      <3>1. (Fresh /\ Blank)'
        BY <1>1, <2>1, <2>9 DEF Fresh, Blank, Media
      <3> QED  BY <2>3, <2>5, <2>7, <2>9, <3>1 DEF IInv, OffInv, RunInv, CommitInv, NewOnCard
    <2>10. CASE InForce
      <3>1. job'.pc = "failed" /\ owe' = {value.val}
        BY <2>3, <2>4, <2>7, <2>8, <2>10
      <3>2. InForce'
        BY <1>1, <2>1, <2>10, <3>1, QuietInForce
      <3> QED  BY <2>3, <2>5, <3>1, <3>2 DEF IInv, OffInv, RunInv, CommitInv, NewOnCard
    <2> QED  BY <2>6, <2>9, <2>10
  <1> QED  BY <1>2, <1>3, <1>4 DEF CommitNvs

LEMMA RepairInForce ==
  IInv /\ (Ready \/ job.pc \in {"repairNvs", "repairSd", "rename"}) => InForce
  BY DEF IInv, RunInv, Ready, NewOnCard

LEMMA RepairOk == IInv /\ Repair => IInv'
  <1> SUFFICES ASSUME IInv, Repair PROVE IInv'
    OBVIOUS
  <1>1. Ready /\ UNCHANGED <<media, sdOk, rt, owe, faults>> /\ job' = At("repair", "repairNvs")
    BY DEF Repair
  <1>2. job' \in Job /\ job'.pc = "repairNvs"
    BY <1>1, AtType
  <1>3. TypeOK'
    BY <1>1, <1>2 DEF IInv, TypeOK, media, rt
  <1>4. InForce'
    BY <1>1, RepairInForce, QuietInForce DEF InForce, media, rt
  <1> QED  BY <1>2, <1>3, <1>4 DEF IInv, OffInv, RunInv, CommitInv, NewOnCard

LEMMA RepairNvsOk ==
  ASSUME ~Readable, IInv, RepairNvs
  PROVE  IInv'
  <1>1. /\ job.pc = "repairNvs" /\ TypeOK /\ InForce /\ job' = [job EXCEPT !.pc = "repairSd"]
        /\ UNCHANGED <<slot, legacy, imported, sdOk, value, sdSlot, sdDirty, renamePending, owe>>
    BY RepairInForce DEF RepairNvs, IInv
  <1>2. job' \in Job /\ job'.pc = "repairSd" /\ job'.sdWritten = job.sdWritten
    BY <1>1 DEF TypeOK, Job
  <1>3. \/ nvs' = nvs /\ nvsDirty' = nvsDirty
        \/ nvs' = value /\ nvsDirty' = FALSE
    BY DEF RepairNvs, NvsLeft
  <1>4. faults' \in 0 .. MaxFaults
    BY <1>1, BoundAssumption DEF RepairNvs, Fault, NoFault, TypeOK
  <1>5. TypeOK'
    <2>1. nvs' \in Record \cup {NoRecord} /\ nvsDirty' \in BOOLEAN
      BY <1>1, <1>3 DEF TypeOK, InForce
    <2> QED  BY <1>1, <1>2, <1>4, <2>1 DEF TypeOK
  <1>6. InForce'
    BY <1>1, <1>3 DEF InForce, Dominates, Media
  <1> QED  BY <1>2, <1>5, <1>6 DEF IInv, OffInv, RunInv, CommitInv, NewOnCard

LEMMA RepairSdOk ==
  ASSUME ~Readable, IInv, RepairSd
  PROVE  IInv'
  <1>1. /\ job.pc = "repairSd" /\ TypeOK /\ InForce /\ job' = [job EXCEPT !.pc = "rename"]
        /\ UNCHANGED <<nvs, legacy, imported, sdOk, value, nvsDirty, renamePending, owe>>
    BY RepairInForce DEF RepairSd, IInv
  <1>2. job' \in Job /\ job'.pc = "rename"
    BY <1>1 DEF TypeOK, Job
  <1>3. faults' \in 0 .. MaxFaults
    BY <1>1, BoundAssumption DEF RepairSd, Fault, NoFault, TypeOK
  <1>4. CASE UNCHANGED <<slot, sdSlot, sdDirty>>
    <2>1. TypeOK'
      BY <1>1, <1>2, <1>3, <1>4 DEF TypeOK
    <2>2. InForce'
      BY <1>1, <1>4, QuietInForce DEF InForce
    <2> QED  BY <1>2, <2>1, <2>2 DEF IInv, OffInv, RunInv, CommitInv, NewOnCard
  <1>5. CASE slot' = [slot EXCEPT ![Target] = value] /\ sdSlot' = Target /\ sdDirty' = FALSE
    <2>1. /\ slot' \in [Slot -> Record \cup {NoRecord}] /\ slot'[Target] = value
          /\ sdSlot' \in {0, 1} /\ sdSlot' # NoSlot
      BY <1>1, <1>5, TargetFree DEF TypeOK, InForce, Target, NoSlot
    <2>2. TypeOK'
      BY <1>1, <1>2, <1>3, <1>5, <2>1 DEF TypeOK
    <2>3. \A m \in Media' : m \in Media \/ m = value
      BY <1>1, <1>5 DEF Media, TypeOK, Slot
    <2>4. InForce'
      BY <1>1, <1>5, <2>1, <2>3 DEF InForce, Dominates
    <2> QED  BY <1>2, <2>2, <2>4 DEF IInv, OffInv, RunInv, CommitInv, NewOnCard
  <1>6. CASE /\ sdDirty
             /\ \E left \in SdLeft(value) : slot' = [slot EXCEPT ![Target] = left]
             /\ UNCHANGED <<sdSlot, sdDirty>>
    <2>1. PICK left \in {slot[Target], NoRecord} : slot' = [slot EXCEPT ![Target] = left]
      BY <1>6 DEF SdLeft
    <2>2. slot' \in [Slot -> Record \cup {NoRecord}]
      BY <1>1, <2>1, TargetFree DEF TypeOK
    <2>3. TypeOK'
      BY <1>1, <1>2, <1>3, <1>6, <2>2 DEF TypeOK
    <2>4. Dominates(value)'
      BY <1>1, <2>1, Fewer, TargetFree DEF TypeOK, InForce, Dominates
    <2>5. InForce'
      BY <1>1, <1>6, <2>4 DEF InForce
    <2> QED  BY <1>2, <2>3, <2>5 DEF IInv, OffInv, RunInv, CommitInv, NewOnCard
  <1> QED  BY <1>4, <1>5, <1>6 DEF RepairSd

LEMMA RepairRenameOk == IInv /\ RepairRename => IInv'
  <1> SUFFICES ASSUME IInv, RepairRename PROVE IInv'
    OBVIOUS
  <1>1. /\ job.pc = "rename" /\ TypeOK /\ InForce /\ job' = At(job.op, "ok")
        /\ UNCHANGED <<slot, nvs, sdOk, value, sdSlot, sdDirty, nvsDirty, owe>>
    BY RepairInForce DEF RepairRename, IInv
  <1>2. job' \in Job /\ job'.pc = "ok"
    <2>1. job.op \in {"boot", "save", "repair"}
      BY <1>1 DEF TypeOK, Job
    <2> QED  BY <1>1, <2>1, AtType
  <1>3. /\ legacy' \in Value \cup {NoValue} /\ imported' \in Value \cup {NoValue}
        /\ renamePending' \in BOOLEAN
    <2>1. \A left \in AsideLeft : left[1] \in {legacy, NoValue} /\ left[2] \in {imported, legacy}
      BY DEF AsideLeft
    <2>2. SetAside => /\ legacy' \in {legacy, NoValue} /\ imported' \in {imported, legacy}
                      /\ renamePending' \in {renamePending, TRUE, FALSE}
      BY <2>1 DEF SetAside
    <2>3. legacy' \in {legacy, NoValue} /\ imported' \in {imported, legacy}
      BY <2>2 DEF RepairRename
    <2>4. renamePending' \in {renamePending, TRUE, FALSE}
      BY <2>2 DEF RepairRename
    <2> QED  BY <1>1, <2>3, <2>4 DEF TypeOK
  <1>4. faults' \in 0 .. MaxFaults
    BY <1>1, BoundAssumption DEF RepairRename, SetAside, Fault, NoFault, TypeOK
  <1>5. TypeOK'
    BY <1>1, <1>2, <1>3, <1>4 DEF TypeOK
  <1>6. InForce'
    BY <1>1, QuietInForce DEF InForce
  <1> QED  BY <1>2, <1>5, <1>6 DEF IInv, OffInv, RunInv, CommitInv, NewOnCard

-----------------------------------------------------------------------------
(* Power, and the theorems. *)

LEMMA PowerOffOk == IInv /\ PowerOff => IInv'
  <1> SUFFICES ASSUME IInv, PowerOff PROVE IInv'
    OBVIOUS
  <1>1. /\ job.pc # "off" /\ TypeOK /\ job' = At("boot", "off")
        /\ UNCHANGED <<media, owe>>
    BY DEF PowerOff, IInv
  <1>2. job' \in Job /\ job'.pc = "off"
    BY <1>1, AtType
  <1>3. faults' \in 0 .. MaxFaults
    BY <1>1, BoundAssumption DEF PowerOff, Fault, NoFault, TypeOK
  <1>4. NoRecord \in [gen : 0 .. MaxGen, val : Value]
    BY ValueAssumption, BoundAssumption DEF NoRecord
  <1>5. TypeOK'
    BY <1>1, <1>2, <1>3, <1>4 DEF PowerOff, TypeOK, media
  <1>6. Blank \/ \E t \in Record : t \in Media /\ Dominates(t) /\ t.val \in owe
    <2>1. CASE NewOnCard
      <3>1. job.rec \in Record /\ job.rec.val \in owe /\ Dominates(job.rec)
        BY <2>1 DEF IInv, CommitInv, NewOnCard
      <3>2. job.rec \in Media
        BY <1>1, <2>1 DEF IInv, CommitInv, TypeOK, NoSlot, Media
      <3> QED  BY <3>1, <3>2
    <2>2. CASE ~NewOnCard /\ InForce
      <3>1. value \in Media
        BY <1>1, <2>2 DEF InForce, TypeOK, NoSlot, Media
      <3> QED  BY <2>2, <3>1 DEF InForce
    <2> QED  BY <1>1, <2>1, <2>2 DEF IInv, RunInv
  <1>7. OffInv'
    BY <1>1, <1>6 DEF OffInv, Blank, Dominates, Media, media
  <1> QED  BY <1>2, <1>5, <1>7 DEF IInv, RunInv, CommitInv, NewOnCard

LEMMA Version1Ok ==
  ASSUME IInv, NEW v \in Value, Version1Runs(v)
  PROVE  IInv'
  <1>1. /\ job.pc = "off" /\ TypeOK /\ legacy' = v
        /\ UNCHANGED <<slot, nvs, imported, sdOk, rt, job, owe>>
    BY DEF Version1Runs, IInv
  <1>2. faults' \in 0 .. MaxFaults
    BY <1>1, BoundAssumption DEF Version1Runs, Fault, TypeOK
  <1>3. TypeOK'
    BY <1>1, <1>2 DEF TypeOK, rt
  <1>4. OffInv'
    BY <1>1 DEF IInv, OffInv, Blank, Dominates, Media
  <1> QED  BY <1>1, <1>3, <1>4 DEF IInv, RunInv, CommitInv, NewOnCard

LEMMA StutterOk == IInv /\ UNCHANGED cfgVars => IInv'
  BY DEF IInv, TypeOK, OffInv, RunInv, CommitInv, InForce, Fresh, Blank, Dominates, Media,
         NewOnCard, cfgVars, media, rt

LEMMA StepOk ==
  ASSUME ~Readable
  PROVE  IInv /\ [Next]_cfgVars => IInv'
  <1> SUFFICES ASSUME IInv, [Next]_cfgVars PROVE IInv'
    OBVIOUS
  <1>1. CASE Boot
    BY <1>1, BootSelectsOk, BootFreshOk DEF Boot
  <1>2. CASE \E v \in Value : Save(v)
    BY <1>2, SaveOk
  <1>3. CASE Calls
    BY <1>3, CommitSdOk, CommitNvsOk, RepairNvsOk, RepairSdOk, RepairRenameOk DEF Calls
  <1>4. CASE CardGivenUp \/ Repair \/ PowerOff
    BY <1>4, CardGivenUpOk, RepairOk, PowerOffOk
  <1>5. CASE \E v \in Value : Version1Runs(v)
    BY <1>5, Version1Ok
  <1>6. CASE UNCHANGED cfgVars
    BY <1>6, StutterOk
  <1> QED  BY <1>1, <1>2, <1>3, <1>4, <1>5, <1>6 DEF Next

\* The write discipline of the settings is an invariant of the store.
THEOREM ConfigInvariant == ASSUME ~Readable PROVE Spec => []IInv
  BY InitOk, StepOk, PTL DEF Spec

\* Whatever fails and whenever power goes, a boot with the card finds the settings
\* haConfigCommit last accepted or, after a reset, the ones being saved.
THEOREM SettingsSurvive == ASSUME ~Readable PROVE Spec => []AcceptedSurvive
  <1>1. IInv => AcceptedSurvive
    <2> SUFFICES ASSUME IInv, Recorded(TRUE) PROVE Selected(TRUE).val \in owe
      BY DEF AcceptedSurvive
    <2>1. ~Blank
      BY BlankUnrecorded
    <2>2. PICK t \in Record : t \in Media /\ Dominates(t) /\ t.val \in owe
      <3>1. CASE job.pc = "off"
        BY <2>1, <3>1 DEF IInv, OffInv
      <3>2. CASE NewOnCard
        <4>1. job.rec \in Record /\ job.rec.val \in owe /\ Dominates(job.rec)
          BY <3>2 DEF IInv, CommitInv, NewOnCard
        <4>2. job.rec \in Media
          BY <3>2 DEF IInv, CommitInv, TypeOK, NoSlot, Media
        <4> QED  BY <4>1, <4>2
      <3>3. CASE job.pc # "off" /\ ~NewOnCard
        <4>1. InForce
          BY <2>1, <3>3 DEF IInv, RunInv
        <4>2. value \in Media
          BY <4>1 DEF IInv, InForce, TypeOK, NoSlot, Media
        <4> QED  BY <4>1, <4>2 DEF InForce
      <3> QED  BY <3>1, <3>2, <3>3
    <2>3. TypeOK
      BY DEF IInv
    <2> QED  BY <2>2, <2>3, TopSelected
  <1> QED  BY <1>1, ConfigInvariant, PTL

\* A mirror that is not marked dirty holds the settings in force, and is what a boot with
\* that medium alone would select.
THEOREM MirrorsExact == ASSUME ~Readable PROVE Spec => []CleanMirrors
  <1>1. IInv => CleanMirrors
    <2> SUFFICES ASSUME IInv, Ready
                 PROVE  /\ ~nvsDirty => nvs = value
                        /\ ~sdDirty /\ sdOk =>
                               sdSlot # NoSlot /\ slot[sdSlot] = value /\ OnCard = value
      BY DEF CleanMirrors
    <2>1. InForce /\ TypeOK
      BY ReadyInForce DEF IInv
    <2>2. ASSUME ~sdDirty PROVE OnCard = value
      <3>1. sdSlot \in {0, 1} /\ slot[sdSlot] = value
        BY <2>1, <2>2 DEF InForce, TypeOK, NoSlot
      <3>2. \A m \in Media : m = NoRecord \/ (m.gen \in Nat /\ (m.gen < value.gen \/ m = value))
        <4>1. \A m \in Media : m \in Record \cup {NoRecord}
          BY <2>1 DEF TypeOK, Media, Slot
        <4>2. \A m \in Media : m = NoRecord \/ m.gen \in Nat
          BY <4>1 DEF Record
        <4> QED  BY <2>1, <4>2 DEF InForce, Dominates
      <3>3. value # NoRecord /\ value.gen \in Nat
        BY <2>1, NoRecordNotRecord DEF InForce, Record
      <3>4. slot[0] \in Media /\ slot[1] \in Media
        BY DEF Media
      <3> QED  BY <3>1, <3>2, <3>3, <3>4 DEF OnCard, NewestSlot
    <2> QED  BY <2>1, <2>2 DEF InForce
  <1> QED  BY <1>1, ConfigInvariant, PTL

-----------------------------------------------------------------------------
(* Version 1's file. *)

\* The record in force is on a medium.
LEMMA InForceRecorded == TypeOK /\ InForce => ~Blank
  BY NoRecordNotRecord DEF TypeOK, InForce, NoSlot, Blank, Media

LEMMA RecordedUnlessBlank == ~Blank => Recorded(TRUE)
  BY DEF Blank, Media, Recorded, OnCard, NewestSlot

\* Once there is a record, no step of any call takes the last one away.
LEMMA StaysRecorded ==
  ASSUME ~Readable, IInv, IInv', ~Blank, [Next]_cfgVars
  PROVE  ~Blank'
  <1>1. CASE UNCHANGED <<slot, nvs>>
    BY <1>1 DEF Blank, Media
  <1>2. CASE CommitSd
    <2>1. /\ job.pc = "sd" /\ ~job.sdWritten /\ InForce /\ value' = value
      BY <1>2 DEF CommitSd, IInv, CommitInv, RunInv, NewOnCard
    <2>2. ~Fresh'
      BY <2>1, BoundAssumption DEF InForce, Record, Fresh
    <2>3. CASE job' = [job EXCEPT !.pc = "nvs"]
      <3>1. job'.pc = "nvs" /\ ~job'.sdWritten
        BY <2>1, <2>3 DEF IInv, TypeOK, Job
      <3>2. InForce'
        BY <2>2, <3>1 DEF IInv, RunInv, NewOnCard
      <3> QED  BY <3>2, InForceRecorded, PTL DEF IInv
    <2>4. CASE slot' = [slot EXCEPT ![Target] = job.rec]
      <3>1. job.rec \in Record /\ slot \in [Slot -> Record \cup {NoRecord}] /\ Target \in Slot
        BY <2>1, TargetFree DEF IInv, CommitInv, TypeOK
      <3>2. slot'[Target] = job.rec /\ job.rec # NoRecord
        BY <2>4, <3>1, NoRecordNotRecord
      <3> QED  BY <3>1, <3>2 DEF Blank, Media, Slot
    <2> QED  BY <1>2, <2>3, <2>4 DEF CommitSd
  <1>3. CASE CommitNvs
    <2>1. slot' = slot /\ (nvs' = nvs \/ nvs' = job.rec) /\ job.rec \in Record
      BY <1>3 DEF CommitNvs, NvsLeft, IInv, CommitInv
    <2> QED  BY <2>1, NoRecordNotRecord DEF Blank, Media
  <1>4. CASE RepairNvs \/ RepairSd
    <2>1. job'.pc \in {"repairSd", "rename"}
      BY <1>4 DEF RepairNvs, RepairSd, IInv, TypeOK, Job
    <2>2. InForce'
      BY <2>1 DEF IInv, RunInv, NewOnCard
    <2> QED  BY <2>2, InForceRecorded, PTL DEF IInv
  <1> QED
    BY <1>1, <1>2, <1>3, <1>4
    DEF Next, Boot, BootSelects, BootFresh, CardGivenUp, Save, Calls, RepairRename, Repair,
        PowerOff, Version1Runs, cfgVars, media

\* What one attempt to set an original aside may do to the two names.
LEMMA AsideKeeps ==
  ASSUME SetAside
  PROVE  /\ Originals \subseteq Originals'
         /\ imported # NoValue => imported' = imported
  BY DEF SetAside, AsideLeft, TwoOriginals, Originals

\* haConfigRepairMirrors: version 1's originals are never lost nor overwritten, by this
\* firmware, and are set aside only when a medium holds settings.
THEOREM OriginalPreserved == ASSUME ~Readable PROVE Spec => LegacyPreserved
  <1> DEFINE Hidden == imported # NoValue => ~Blank
             Keeps == /\ Originals \subseteq Originals' \/ \E v \in Value : Version1Runs(v)
                      /\ imported # NoValue => imported' = imported
  <1>1. Init => Hidden
    BY DEF Init
  <1>2. [Next]_cfgVars => [Keeps]_cfgVars
    <2> SUFFICES ASSUME Next PROVE Keeps
      OBVIOUS
    <2>1. CASE RepairRename
      BY <2>1, AsideKeeps DEF RepairRename, Originals
    <2>2. CASE \E v \in Value : Version1Runs(v)
      BY <2>2 DEF Version1Runs
    <2>3. CASE ~RepairRename /\ ~\E v \in Value : Version1Runs(v)
      <3>1. UNCHANGED <<legacy, imported>>
        BY <2>3 DEF Next, Boot, BootSelects, BootFresh, CardGivenUp, Save, Calls, CommitSd,
           CommitNvs, RepairNvs, RepairSd, Repair, PowerOff, media
      <3> QED  BY <3>1 DEF Originals
    <2> QED  BY <2>1, <2>2, <2>3
  <1>3. IInv /\ Hidden /\ IInv' /\ [Next]_cfgVars => Hidden'
    <2> SUFFICES ASSUME IInv, Hidden, IInv', [Next]_cfgVars, imported' # NoValue PROVE ~Blank'
      OBVIOUS
    <2>1. CASE imported = imported'
      BY <2>1, StaysRecorded
    <2>2. CASE imported # imported'
      <3>1. RepairRename
        BY <2>2 DEF Next, Boot, BootSelects, BootFresh, CardGivenUp, Save, Calls, CommitSd,
           CommitNvs, RepairNvs, RepairSd, Repair, PowerOff, Version1Runs, cfgVars, media
      <3>2. InForce
        BY <3>1, RepairInForce DEF RepairRename
      <3> QED  BY <3>2, InForceRecorded, StaysRecorded DEF IInv
    <2> QED  BY <2>1, <2>2
  <1>4. Hidden => (imported # NoValue => Recorded(TRUE))
    BY RecordedUnlessBlank
  <1> QED  BY <1>1, <1>2, <1>3, <1>4, ConfigInvariant, PTL DEF Spec, LegacyPreserved

-----------------------------------------------------------------------------
(* The renames. *)

\* What is left to show of a step, the invariant of the store being kept by its own steps.
Kept == [Next]_cfgVars /\ NamingType' /\ StepInv' /\ StateInv'

LEMMA InitNaming == NInit => IInv /\ NInv
  <1> SUFFICES ASSUME NInit PROVE IInv /\ NInv
    OBVIOUS
  <1>1. IInv
    BY InitOk DEF NInit
  <1>2. NamingType
    BY ValueAssumption DEF NInit, NamingType, Boots, Idle, Steps, NotPaused
  <1>3. StepInv /\ StateInv
    BY DEF NInit, StepInv, StateInv, Boots, Idle
  <1> QED  BY <1>1, <1>2, <1>3 DEF IInv, NInv, NTypeOK

\* The parts of the invariants that nearly every step needs.
LEMMA Known ==
  ASSUME NInv
  PROVE  /\ TypeOK /\ NamingType /\ StepInv /\ StateInv
         /\ apName \in Value /\ NoName \notin Value
  BY NoNameAssumption DEF NInv, NTypeOK, NamingType

\* A save that begins: its record carries the name, or the generations are used up.
LEMMA SaveBegins ==
  ASSUME NInv, NEW n \in Value, Save(n), apName' = apName, apName = value.val
  PROVE  /\ [Next]_cfgVars
         /\ job'.op = "save" /\ job'.pc \in {"sd", "failed"}
         /\ job'.pc = "sd" => job'.rec.val = n
         /\ value' = value
         /\ Saving(n)'
  <1>1. [Next]_cfgVars
    BY DEF Next
  <1>2. CommitBegins("save", n, value.gen) /\ value' = value
    BY DEF Save, rt
  <1>3. /\ job'.op = "save" /\ job'.pc \in {"sd", "failed"}
        /\ job'.pc = "sd" => job'.rec.val = n
    BY <1>2 DEF CommitBegins, At
  <1> QED  BY <1>1, <1>2, <1>3 DEF Saving

LEMMA StartedKept ==
  ASSUME NInv, IInv, Started
  PROVE  Kept
  <1>1. value \in Record
    BY ReadyInForce DEF Started, InForce
  <1>2. NamingType'
    BY <1>1, Known DEF Started, NamingType, Idle, Steps, Record
  <1>3. Settled'
    BY DEF Started, Settled, Ready, cfgVars, rt
  <1> QED  BY <1>1, <1>2, <1>3, Known DEF Started, Kept, StepInv, StateInv, Idle, Record

LEMMA PowerOffKept ==
  ASSUME NInv, NPowerOff
  PROVE  Kept
  <1>1. NamingType'
    BY ValueAssumption, Known DEF NPowerOff, NamingType, Boots, Idle, Steps, NotPaused
  <1> QED  BY <1>1 DEF NPowerOff, Next, Kept, StepInv, StateInv, Boots, Idle

LEMMA Version1Kept ==
  ASSUME NInv, Version1Left
  PROVE  Kept
  <1>1. [Next]_cfgVars /\ UNCHANGED <<apName, air, state, told, step, value, job>>
    BY DEF Version1Left, Next, Version1Runs, naming, rt
  <1>2. NamingType' /\ StateInv'
    BY <1>1, Known DEF NamingType, StateInv
  <1>3. /\ Settled => Settled'
        /\ Ready => Ready'
        /\ \A n : Saving(n) => Saving(n)'
    BY <1>1 DEF Settled, Ready, Saving
  <1>4. StepInv'
    BY <1>1, <1>3, Known DEF StepInv
  <1> QED  BY <1>1, <1>2, <1>4 DEF Kept

-----------------------------------------------------------------------------
(* The steps of the settings store. *)

\* A call of the store, while a name is being saved.
LEMMA SavingKept ==
  ASSUME NInv, NEW n, Saving(n), Boot \/ Calls, apName' = apName
  PROVE  Saving(n)'
  <1>1. job.pc \in {"sd", "nvs"} /\ job.rec.val = n /\ value.val = apName /\ TypeOK
    BY Known DEF Saving, Boot, BootSelects, BootFresh, Calls, CommitSd, CommitNvs, RepairNvs,
       RepairSd, RepairRename
  <1>2. CASE CommitSd
    <2>1. /\ job'.op = "save" /\ job'.pc = "nvs" /\ job'.rec = job.rec /\ value' = value
      BY <1>1, <1>2 DEF CommitSd, TypeOK, Job, Saving
    <2> QED  BY <1>1, <2>1 DEF Saving
  <1>3. CASE CommitNvs
    <2>1. CASE Commits(TRUE) \/ Commits(FALSE)
      <3>1. job' = At("save", "ok") /\ value' = job.rec
        BY <2>1 DEF Commits, Saving
      <3> QED  BY <1>1, <3>1 DEF Saving, At
    <2>2. CASE Rejects
      <3>1. job' = At("save", "failed") /\ value' = value
        BY <2>2 DEF Rejects, Saving
      <3> QED  BY <1>1, <3>1 DEF Saving, At
    <2> QED  BY <1>3, <2>1, <2>2 DEF CommitNvs
  <1> QED
    BY <1>1, <1>2, <1>3
    DEF Boot, BootSelects, BootFresh, Calls, RepairNvs, RepairSd, RepairRename

\* A repair, while no name is being saved.
LEMMA SettledKept ==
  ASSUME NInv, Settled, Boot \/ Calls \/ Repair, apName' = apName
  PROVE  Settled' /\ (~Ready \/ Repair)
  <1>1. job.pc \in {"ok", "failed", "repairNvs", "repairSd", "rename"} /\ TypeOK
    BY Known DEF Settled, TypeOK, Job
  <1>2. value' = value
    BY <1>1 DEF Boot, BootSelects, BootFresh, Calls, CommitSd, CommitNvs, RepairNvs, RepairSd,
       RepairRename, Repair, rt
  <1>3. job'.pc \in {"ok", "repairNvs", "repairSd", "rename"}
    <2>1. CASE Repair \/ RepairRename
      BY <2>1 DEF Repair, RepairRename, At
    <2>2. CASE RepairNvs \/ RepairSd
      BY <1>1, <2>2 DEF RepairNvs, RepairSd, TypeOK, Job
    <2> QED  BY <1>1, <2>1, <2>2 DEF Boot, BootSelects, BootFresh, Calls, CommitSd, CommitNvs
  <1>4. ~Ready \/ Repair
    BY DEF Ready, Boot, BootSelects, BootFresh, Calls, CommitSd, CommitNvs, RepairNvs, RepairSd,
       RepairRename
  <1> QED  BY <1>2, <1>3, <1>4 DEF Settled

LEMMA StoreKept ==
  ASSUME NInv, StoreStep
  PROVE  Kept
  <1>1. UNCHANGED naming /\ [Next]_cfgVars
    BY DEF StoreStep, Next
  <1>2. UNCHANGED <<apName, air, state, told, step>>
    BY <1>1 DEF naming
  <1>3. NamingType' /\ StateInv'
    BY <1>2, Known DEF NamingType, StateInv
  <1>4. CASE step = Boots
    BY <1>1, <1>2, <1>3, <1>4, Known DEF StepInv, Kept, Boots, Idle, Ready
  <1>5. CASE step.at # "boot" /\ (Boot \/ Calls)
    <2>1. CASE Settled /\ Ready
      BY <1>2, <1>5, <2>1, SettledKept DEF Ready, Settled, Boot, BootSelects, BootFresh, Calls,
         CommitSd, CommitNvs, RepairNvs, RepairSd, RepairRename
    <2>2. CASE step = Idle /\ Settled
      BY <1>1, <1>2, <1>3, <1>5, <2>2, SettledKept DEF Kept, StepInv
    <2>3. ASSUME NEW n, Saving(n) PROVE Saving(n)'
      BY <1>2, <1>5, <2>3, SavingKept
    <2>4. CASE step.at = "settings" /\ Saving(apName) /\ step.wasUp = FALSE
      <3>1. Saving(apName)'
        BY <1>2, <2>3, <2>4 DEF Saving
      <3> QED  BY <1>1, <1>2, <1>3, <2>4, <3>1 DEF Kept, StepInv
    <2>5. CASE step.at = "save" /\ Saving(step.to) /\ air = NoName
      <3>1. Saving(step.to)'
        BY <1>2, <2>3, <2>5 DEF Saving
      <3> QED  BY <1>1, <1>2, <1>3, <2>5, <3>1 DEF Kept, StepInv
    <2>6. CASE step.at = "undo" /\ Saving(step.from) /\ air = NoName
      <3>1. Saving(step.from)'
        BY <1>2, <2>3, <2>6 DEF Saving
      <3> QED  BY <1>1, <1>2, <1>3, <2>6, <3>1 DEF Kept, StepInv
    <2>7. StepInv /\ step # Boots
      BY <1>5, Known DEF Boots
    <2> QED  BY <2>1, <2>2, <2>4, <2>5, <2>6, <2>7 DEF StepInv
  <1>6. CASE step = Idle /\ Repair
    <2>1. Settled
      BY <1>6, Known DEF StepInv, Boots, Idle
    <2> QED  BY <1>1, <1>2, <1>3, <1>6, <2>1, SettledKept DEF Kept, StepInv
  <1>7. step = Boots \/ step.at # "boot"
    <2>1. Idle.at # "boot"
      BY DEF Idle
    <2> QED  BY <2>1, Known DEF StepInv
  <1> QED  BY <1>4, <1>5, <1>6, <1>7 DEF StoreStep

-----------------------------------------------------------------------------
(* The key actions. *)

\* When a key is served, the name in RAM is the one in force.
LEMMA AtRest ==
  ASSUME NInv, KeyServed
  PROVE  /\ step = Idle /\ Settled /\ Ready
         /\ state = "ManualOff" <=> air = NoName
         /\ state = "Running" <=> told = NotPaused
         /\ state # "Booting"
  BY Known DEF KeyServed, StepInv, StateInv, Boots, Idle

\* A step that leaves the settings store alone.
LEMMA Alone == UNCHANGED cfgVars => [Next]_cfgVars /\ value' = value /\ job' = job
  BY DEF cfgVars, rt

LEMMA SaveSettingsKept ==
  ASSUME NInv, SaveSettings
  PROVE  Kept
  <1>1. step = Idle /\ Settled /\ apName' = apName /\ UNCHANGED <<air, state, told>>
    BY AtRest DEF SaveSettings
  <1>2. [Next]_cfgVars /\ Saving(apName)'
    <2>1. Save(apName) /\ apName' = apName /\ apName = value.val
      BY <1>1 DEF SaveSettings, Settled
    <2>2. job'.op = "save" /\ job'.pc \in {"sd", "failed"} /\ (job'.pc = "sd" => job'.rec.val = apName)
          /\ value' = value /\ [Next]_cfgVars
      BY <2>1, Known, SaveBegins
    <2> QED  BY <1>1, <2>1, <2>2 DEF Saving
  <1>3. step' = [Idle EXCEPT !.at = "settings"]
    BY <1>1 DEF SaveSettings, Does
  <1>4. NamingType'
    BY <1>1, <1>3, Known DEF NamingType, Idle, Steps
  <1>5. StateInv'
    BY <1>1, <1>3, AtRest, Known DEF SaveSettings, StateInv, Idle
  <1> QED  BY <1>1, <1>2, <1>3, <1>4, <1>5 DEF Kept, StepInv, Idle

LEMMA SettingsSavedKept ==
  ASSUME NInv, SettingsSaved
  PROVE  Kept
  <1>1. step.at = "settings" /\ Ready /\ step' = Idle /\ UNCHANGED <<apName, air, state, told>>
        /\ UNCHANGED cfgVars
    BY DEF SettingsSaved
  <1>2. Saving(apName)
    <2>1. StepInv /\ step # Boots /\ step # Idle
      BY <1>1, Known DEF Boots, Idle
    <2> QED  BY <1>1, <2>1 DEF StepInv
  <1>3. Settled'
    BY <1>1, <1>2, Alone DEF Settled, Saving, Ready
  <1>4. NamingType' /\ StateInv'
    BY <1>1, Known DEF NamingType, StateInv, Idle, Steps
  <1> QED  BY <1>1, <1>3, <1>4, Alone DEF Kept, StepInv

LEMMA PausesKept ==
  ASSUME NInv, NEW reason, NEW n \in Value \cup {NoName}, Pauses(reason, n),
         reason = IF n = NoName THEN SwitchedOff ELSE Renaming(n)
  PROVE  Kept
  <1>1. KeyServed /\ told' = reason /\ UNCHANGED <<apName, air, state>> /\ UNCHANGED cfgVars
        /\ step' = [at |-> "checkpoint", from |-> apName, to |-> n, wasUp |-> TRUE]
    BY DEF Pauses
  <1>2. reason \in {SwitchedOff} \cup {Renaming(m) : m \in Value}
    BY Zenon
  <1>3. NamingType'
    BY <1>1, <1>2, Known DEF NamingType, Steps
  <1>4. reason # NotPaused /\ (n # NoName => reason.reason = "ssid")
    BY DEF SwitchedOff, Renaming, NotPaused
  <1>5. Settled' /\ Ready'
    BY <1>1, AtRest, Alone DEF Settled, Ready
  <1>6. StateInv'
    <2>1. state # "ReconnectWait" /\ air # NoName
      BY DEF Pauses
    <2> QED  BY <1>1, <1>4, <2>1, AtRest, Known DEF StateInv
  <1> QED  BY <1>1, <1>3, <1>5, <1>6, Alone DEF Kept, StepInv, Pauses

LEMMA CheckpointFailsKept ==
  ASSUME NInv, CheckpointFails
  PROVE  Kept
  <1>1. step.at = "checkpoint" /\ told' = NotPaused /\ state' = "Running" /\ step' = Idle
        /\ UNCHANGED <<apName, air>> /\ UNCHANGED cfgVars
    BY DEF CheckpointFails
  <1>2. Settled /\ Ready /\ air # NoName
    BY <1>1, Known DEF StepInv, Boots, Idle
  <1>3. NamingType'
    BY <1>1, Known DEF NamingType, Idle, Steps
  <1>4. Settled'
    BY <1>1, <1>2, Alone DEF Settled
  <1>5. StateInv'
    BY <1>1, <1>2, Known DEF StateInv, Idle
  <1> QED  BY <1>1, <1>3, <1>4, <1>5, Alone DEF Kept, StepInv

LEMMA StoppedKept ==
  ASSUME NInv, Stopped
  PROVE  Kept
  <1>1. step.at = "checkpoint" /\ air' = NoName /\ UNCHANGED <<apName, told>>
    BY DEF Stopped
  <1>2. Settled /\ Ready /\ state # "Booting" /\ told # NotPaused /\ step.from \in Value
        /\ (step.to # NoName => told.reason = "ssid")
    <2>1. StepInv /\ step # Boots /\ step # Idle
      BY <1>1, Known DEF Boots, Idle
    <2> QED  BY <1>1, <2>1, Known DEF StepInv, StateInv
  <1>3. CASE step.to = NoName
    <2>1. state' = "ManualOff" /\ step' = Idle /\ UNCHANGED cfgVars
      BY <1>3 DEF Stopped
    <2>2. NamingType'
      BY <1>1, <2>1, Known DEF NamingType, Idle, Steps
    <2>3. Settled'
      BY <1>1, <1>2, <2>1, Alone DEF Settled
    <2>4. StateInv'
      BY <1>1, <1>2, <2>1, Known DEF StateInv, Idle
    <2> QED  BY <1>1, <2>1, <2>2, <2>3, <2>4, Alone DEF Kept, StepInv
  <1>4. CASE step.to # NoName
    <2>1. Save(step.to) /\ step' = [step EXCEPT !.at = "save"] /\ state' = state
      BY <1>4 DEF Stopped, Does
    <2>2. step.to \in Value
      BY <1>4, Known DEF NamingType
    <2>3. [Next]_cfgVars /\ Saving(step.to)'
      <3>1. apName' = apName /\ apName = value.val
        BY <1>1, <1>2 DEF Settled
      <3>2. /\ [Next]_cfgVars /\ job'.op = "save" /\ job'.pc \in {"sd", "failed"}
            /\ job'.pc = "sd" => job'.rec.val = step.to
            /\ value' = value
        BY <2>1, <2>2, <3>1, SaveBegins
      <3>3. step'.to = step.to
        BY <2>1, Known DEF NamingType
      <3> QED  BY <3>1, <3>2, <3>3 DEF Saving
    <2>4. step'.at = "save" /\ step'.to = step.to /\ step'.from = step.from /\ NamingType'
          /\ step'.wasUp = step.wasUp
      BY <1>1, <2>1, Known DEF NamingType, Steps
    <2>5. StateInv'
      <3>1. step.wasUp = TRUE
        BY <1>1, <1>2, Known DEF StateInv
      <3>2. told.reason = "ssid" /\ state # "ReconnectWait"
        BY <1>1, <1>2, <1>4, Known DEF StateInv
      <3> QED  BY <1>1, <1>2, <2>1, <2>2, <2>4, <3>1, <3>2 DEF StateInv
    <2> QED  BY <1>1, <2>3, <2>4, <2>5 DEF Kept, StepInv
  <1> QED  BY <1>3, <1>4

LEMMA RenamedOffKept ==
  ASSUME NInv, NEW n \in Value, RenamedOff(n)
  PROVE  Kept
  <1>1. /\ KeyServed /\ air = NoName /\ Save(n) /\ UNCHANGED <<apName, air, state, told>>
        /\ step' = [at |-> "save", from |-> apName, to |-> n, wasUp |-> FALSE]
    BY DEF RenamedOff
  <1>2. [Next]_cfgVars /\ Saving(step.to)'
    <2>1. apName' = apName /\ apName = value.val
      BY <1>1, AtRest DEF Settled
    <2>2. /\ [Next]_cfgVars /\ job'.op = "save" /\ job'.pc \in {"sd", "failed"}
          /\ job'.pc = "sd" => job'.rec.val = n
          /\ value' = value
      BY <1>1, <2>1, SaveBegins
    <2> QED  BY <1>1, <2>1, <2>2 DEF Saving
  <1>3. NamingType'
    BY <1>1, Known DEF NamingType, Steps
  <1>4. StateInv'
    BY <1>1, AtRest, Known DEF StateInv
  <1> QED  BY <1>1, <1>2, <1>3, <1>4 DEF Kept, StepInv

\* Which disjunct of StepInv a step of the transaction is in.
LEMMA InTransaction ==
  ASSUME NInv, step.at \in {"save", "start", "undo", "restart"}
  PROVE  /\ air = NoName /\ step.to \in Value /\ step.from \in Value /\ state # "Booting"
         /\ step.at = "save" => Saving(step.to)
         /\ step.at = "undo" => Saving(step.from)
         /\ step.at \in {"start", "restart"} => Settled /\ Ready
         /\ (step.at = "save" /\ step.wasUp) \/ step.at # "save" => told.reason = "ssid"
         /\ state # "ReconnectWait"
         /\ step.at = "save" /\ ~step.wasUp =>
                state = "ManualOff" /\ (state = "Running" <=> told = NotPaused)
  <1>1. StepInv /\ step # Boots /\ step # Idle
    BY Known DEF Boots, Idle
  <1> QED  BY <1>1, Known DEF StepInv, StateInv

LEMMA SavedKept ==
  ASSUME NInv, IInv, Saved
  PROVE  Kept
  <1>1. step.at = "save" /\ Ready /\ UNCHANGED cfgVars /\ UNCHANGED <<air, state, told>>
    BY DEF Saved
  <1>2. Saving(step.to) /\ air = NoName
    BY <1>1, InTransaction
  <1>3. apName' \in Value /\ apName' = value.val
    <2>1. job.pc = "ok" => apName' = step.to /\ value.val = step.to
      BY <1>2 DEF Saved, Saving
    <2>2. job.pc # "ok" => apName' = apName /\ value.val = apName
      BY <1>2 DEF Saved, Saving
    <2> QED  BY <1>1, <2>1, <2>2, InTransaction, Known
  <1>4. Settled' /\ Ready'
    BY <1>1, <1>3, Alone DEF Settled, Ready
  <1>5. CASE step.wasUp
    <2>1. PICK s \in {"start", "restart"} : step' = [step EXCEPT !.at = s]
      BY <1>5 DEF Saved, Does
    <2>2. step'.at = s /\ step'.to = step.to /\ step'.from = step.from
      BY <2>1, Known DEF NamingType
    <2>3. NamingType'
      BY <1>1, <1>3, <2>1, Known DEF NamingType, Steps
    <2>4. StateInv'
      BY <1>1, <1>2, <1>5, <2>2, InTransaction DEF StateInv
    <2> QED  BY <1>1, <1>2, <1>4, <2>2, <2>3, <2>4, Alone DEF Kept, StepInv
  <1>6. CASE ~step.wasUp
    <2>1. step' = Idle
      BY <1>6 DEF Saved
    <2>2. NamingType'
      BY <1>1, <1>3, <2>1, Known DEF NamingType, Idle, Steps
    <2>3. StateInv'
      BY <1>1, <1>2, <1>6, <2>1, InTransaction DEF StateInv, Idle
    <2> QED  BY <1>1, <1>4, <2>1, <2>2, <2>3, Alone DEF Kept, StepInv
  <1> QED  BY <1>5, <1>6

LEMMA RetargetsOk ==
  ASSUME told.reason = "ssid", NEW n \in Value, Retargets(n)
  PROVE  /\ told' \in {Renaming(m) : m \in Value} /\ told'.reason = "ssid" /\ told' # NotPaused
  BY DEF Retargets, Renaming, NotPaused

\* A start that succeeds, of either name.
LEMMA OnAirKept ==
  ASSUME NInv, step.at \in {"start", "restart"}, NEW n \in Value, Retargets(n), OnAir(n)
  PROVE  Kept
  <1>1. /\ air' = apName /\ apName' = apName /\ state' = "ReconnectWait" /\ step' = Idle
        /\ UNCHANGED cfgVars
    BY DEF OnAir
  <1>2. told' \in {Renaming(m) : m \in Value} /\ told' # NotPaused
    BY RetargetsOk, InTransaction
  <1>3. NamingType'
    BY <1>1, <1>2, Known DEF NamingType, Idle, Steps
  <1>4. Settled'
    BY <1>1, InTransaction, Alone DEF Settled
  <1>5. StateInv'
    BY <1>1, <1>2, Known DEF StateInv, Idle
  <1> QED  BY <1>1, <1>3, <1>4, <1>5, Alone DEF Kept, StepInv

LEMMA StartNewKept ==
  ASSUME NInv, StartNew
  PROVE  Kept
  <1>1. step.at = "start" /\ Retargets(step.to) /\ step.to \in Value /\ step.from \in Value
    BY InTransaction DEF StartNew
  <1>2. CASE OnAir(step.to)
    BY <1>1, <1>2, OnAirKept
  <1>3. CASE Save(step.from) /\ Does("undo") /\ UNCHANGED <<apName, air, state>>
    <2>1. step' = [step EXCEPT !.at = "undo"]
      BY <1>3 DEF Does
    <2>2. step'.at = "undo" /\ step'.to = step.to /\ step'.from = step.from
      BY <2>1, Known DEF NamingType
    <2>3. [Next]_cfgVars /\ Saving(step.from)'
      <3>1. apName' = apName /\ apName = value.val
        BY <1>1, <1>3, InTransaction DEF Settled
      <3>2. /\ [Next]_cfgVars /\ job'.op = "save" /\ job'.pc \in {"sd", "failed"}
            /\ job'.pc = "sd" => job'.rec.val = step.from
            /\ value' = value
        BY <1>1, <1>3, <3>1, SaveBegins
      <3> QED  BY <2>2, <3>1, <3>2 DEF Saving
    <2>4. told' \in {Renaming(m) : m \in Value} /\ told'.reason = "ssid"
      BY <1>1, InTransaction, RetargetsOk
    <2>5. NamingType'
      BY <1>3, <2>1, <2>4, Known DEF NamingType, Steps
    <2>6. StateInv'
      BY <1>1, <1>3, <2>2, <2>4, InTransaction DEF StateInv
    <2> QED  BY <1>1, <1>3, <2>2, <2>3, <2>5, <2>6, InTransaction DEF Kept, StepInv
  <1> QED  BY <1>2, <1>3 DEF StartNew

LEMMA UndoneKept ==
  ASSUME NInv, Undone
  PROVE  Kept
  <1>1. step.at = "undo" /\ Ready /\ UNCHANGED cfgVars /\ UNCHANGED <<air, told>>
    BY DEF Undone
  <1>2. Saving(step.from) /\ air = NoName /\ step.from \in Value /\ step.to \in Value
        /\ told.reason = "ssid" /\ state \notin {"Booting", "ReconnectWait"}
    BY <1>1, InTransaction
  <1>3. CASE job.pc = "ok"
    <2>1. apName' = step.from /\ step' = [step EXCEPT !.at = "restart"] /\ state' = state
      BY <1>3 DEF Undone, Does
    <2>2. step'.at = "restart" /\ step'.to = step.to /\ step'.from = step.from
      BY <2>1, Known DEF NamingType
    <2>3. Settled' /\ Ready'
      BY <1>1, <1>2, <1>3, <2>1, Alone DEF Settled, Ready, Saving
    <2>4. NamingType'
      BY <1>1, <1>2, <2>1, Known DEF NamingType, Steps
    <2>5. StateInv'
      BY <1>1, <1>2, <2>1, <2>2 DEF StateInv
    <2> QED  BY <1>1, <1>2, <2>2, <2>3, <2>4, <2>5, Alone DEF Kept, StepInv
  <1>4. CASE job.pc # "ok"
    <2>1. apName' = apName /\ state' = "ManualOff" /\ step' = Idle
      BY <1>4 DEF Undone
    <2>2. Settled'
      BY <1>1, <1>2, <1>4, <2>1, Alone DEF Settled, Ready, Saving
    <2>3. NamingType'
      BY <1>1, <2>1, Known DEF NamingType, Idle, Steps
    <2>4. StateInv'
      BY <1>1, <1>2, <2>1 DEF StateInv, Idle, NotPaused
    <2> QED  BY <1>1, <2>1, <2>2, <2>3, <2>4, Alone DEF Kept, StepInv
  <1> QED  BY <1>3, <1>4

LEMMA StartFormerKept ==
  ASSUME NInv, StartFormer
  PROVE  Kept
  <1>1. step.at = "restart" /\ Retargets(step.from) /\ step.from \in Value /\ air = NoName
    BY InTransaction DEF StartFormer
  <1>2. CASE OnAir(step.from)
    BY <1>1, <1>2, OnAirKept
  <1>3. CASE state' = "ManualOff" /\ step' = Idle /\ UNCHANGED cfgVars
             /\ UNCHANGED <<apName, air>>
    <2>1. told' \in {Renaming(m) : m \in Value} /\ told' # NotPaused
      BY <1>1, InTransaction, RetargetsOk
    <2>2. Settled'
      BY <1>1, <1>3, InTransaction, Alone DEF Settled
    <2>3. NamingType'
      BY <1>3, <2>1, Known DEF NamingType, Idle, Steps
    <2>4. StateInv'
      BY <1>1, <1>3, <2>1, Known DEF StateInv, Idle
    <2> QED  BY <1>3, <2>2, <2>3, <2>4, Alone DEF Kept, StepInv
  <1> QED  BY <1>2, <1>3 DEF StartFormer

\* What the steps at rest leave in place, whatever they do to the air and the session.
LEMMA RestKept ==
  ASSUME NInv, step = Idle, Settled, UNCHANGED cfgVars, apName' = apName, step' = step,
         air' \in {NoName, apName}, told' \in {NotPaused, SwitchedOff} \cup {Renaming(n) : n \in Value},
         state' \in {"Running", "ManualOff", "ReconnectWait"},
         state' = "ManualOff" <=> air' = NoName,
         state' = "Running" <=> told' = NotPaused
  PROVE  Kept
  <1>1. NamingType'
    BY Known DEF NamingType
  <1>2. Settled'
    BY Alone DEF Settled
  <1>3. StateInv'
    BY Known DEF StateInv, Idle
  <1> QED  BY <1>1, <1>2, <1>3, Alone DEF Kept, StepInv

LEMMA SwitchOnKept ==
  ASSUME NInv, SwitchOn
  PROVE  Kept
  <1>1. step = Idle /\ Settled /\ state = "ManualOff" /\ told # NotPaused
    BY AtRest DEF SwitchOn
  <1>2. UNCHANGED cfgVars /\ apName' = apName /\ told' = told /\ step' = step
    BY DEF SwitchOn
  <1>3. (air' = apName /\ state' = "ReconnectWait") \/ (air' = NoName /\ state' = "ManualOff")
    BY DEF SwitchOn
  <1>4. air' \in {NoName, apName} /\ (state' = "ManualOff" <=> air' = NoName)
    BY <1>3, Known
  <1>5. told' \in {NotPaused, SwitchedOff} \cup {Renaming(n) : n \in Value}
    BY <1>2, Known DEF NamingType
  <1> QED  BY <1>1, <1>2, <1>3, <1>4, <1>5, RestKept

LEMMA ResumedKept ==
  ASSUME NInv, Resumed
  PROVE  Kept
  <1>1. state = "ReconnectWait" /\ told' = NotPaused /\ state' = "Running"
        /\ UNCHANGED <<apName, air, step>> /\ UNCHANGED cfgVars
    BY DEF Resumed
  <1>2. step.at \in {"idle", "settings"} /\ air # NoName /\ air = apName
    BY <1>1, Known DEF StateInv
  <1>3. NamingType'
    BY <1>1, Known DEF NamingType
  <1>4. StepInv'
    BY <1>1, Alone, Known DEF StepInv, Settled, Saving, Ready
  <1>5. StateInv'
    BY <1>1, <1>2, Known DEF StateInv
  <1> QED  BY <1>1, <1>3, <1>4, <1>5, Alone DEF Kept

LEMMA SessionRestoredKept ==
  ASSUME NInv, SessionRestored
  PROVE  Kept
  <1>1. step = Idle /\ Settled
    BY AtRest DEF SessionRestored
  <1>2. UNCHANGED cfgVars /\ UNCHANGED <<apName, air, step>>
    BY DEF SessionRestored
  <1>3. air \in {NoName, apName}
    BY Known DEF StateInv
  <1>4. CASE air = NoName
    <2>1. told' = SwitchedOff /\ state' = "ManualOff" /\ SwitchedOff # NotPaused
      BY <1>4 DEF SessionRestored, SwitchedOff, NotPaused
    <2> QED  BY <1>1, <1>2, <1>3, <1>4, <2>1, RestKept
  <1>5. CASE air # NoName
    <2>1. told' = NotPaused /\ state' = "Running"
      BY <1>5 DEF SessionRestored
    <2> QED  BY <1>1, <1>2, <1>3, <1>5, <2>1, RestKept
  <1> QED  BY <1>4, <1>5

-----------------------------------------------------------------------------
(* The invariant, and what follows from it. *)

LEMMA NamingStutter == NInv /\ UNCHANGED vars => Kept
  BY DEF NInv, NTypeOK, NamingType, StepInv, StateInv, Settled, Saving, Ready, Kept, vars,
         naming, cfgVars, rt

LEMMA NamingKept ==
  ASSUME IInv, NInv, NNext
  PROVE  Kept
  <1>1. CASE \E name \in Value : RenameBegins(name) \/ RenamedOff(name)
    <2>1. PICK name \in Value : RenameBegins(name) \/ RenamedOff(name)
      BY <1>1
    <2>2. name # NoName
      BY Known
    <2> QED  BY <2>1, <2>2, PausesKept, RenamedOffKept DEF RenameBegins
  <1>2. CASE SwitchOff
    BY <1>2, PausesKept DEF SwitchOff
  <1>3. CASE StoreStep \/ Started \/ NPowerOff \/ Version1Left \/ SaveSettings \/ SettingsSaved
    BY <1>3, StoreKept, StartedKept, PowerOffKept, Version1Kept, SaveSettingsKept, SettingsSavedKept
  <1>4. CASE CheckpointFails \/ Stopped \/ Saved \/ StartNew \/ Undone \/ StartFormer
    BY <1>4, CheckpointFailsKept, StoppedKept, SavedKept, StartNewKept, UndoneKept, StartFormerKept
  <1>5. CASE SwitchOn \/ Resumed \/ SessionRestored
    BY <1>5, SwitchOnKept, ResumedKept, SessionRestoredKept
  <1> QED  BY <1>1, <1>2, <1>3, <1>4, <1>5 DEF NNext

LEMMA NamingStep ==
  ASSUME ~Readable
  PROVE  IInv /\ NInv /\ [NNext]_vars => IInv' /\ NInv'
  <1> SUFFICES ASSUME IInv, NInv, [NNext]_vars PROVE IInv' /\ NInv'
    OBVIOUS
  <1>1. Kept
    BY NamingKept, NamingStutter
  <1>2. IInv'
    BY <1>1, StepOk DEF Kept
  <1> QED  BY <1>1, <1>2 DEF Kept, NInv, NTypeOK, IInv

\* Renames, switches and restores keep the invariant of the settings store and, between
\* them, one name: the transaction of haHostApplySsid, every start and every failure of it.
THEOREM NamingInvariant == ASSUME ~Readable PROVE NSpec => [](IInv /\ NInv)
  BY InitNaming, NamingStep, PTL DEF NSpec

\* Every step of the transaction uses the settings store as haConfigSave, haConfigBegin
\* and haConfigRepairMirrors let it: the store's own theorems hold of it here.
THEOREM UsesTheStore == ASSUME ~Readable PROVE NSpec => Spec
  <1>1. NInit => Init
    BY DEF NInit
  <1>2. IInv /\ NInv /\ [NNext]_vars => [Next]_cfgVars
    BY NamingKept, NamingStutter DEF Kept
  <1> QED  BY <1>1, <1>2, NamingInvariant, PTL DEF NSpec, Spec

\* ha_ssid_transaction.h: when a key is served, the name in RAM, the settings in force and
\* the name on the air are one, and the state tells which of them there are.
THEOREM OneName == ASSUME ~Readable PROVE NSpec => []NamesAgree
  <1>1. NInv => NamesAgree
    <2> SUFFICES ASSUME NInv, KeyServed
                 PROVE  /\ apName = value.val /\ air \in {NoName, apName}
                        /\ state = "ManualOff" <=> air = NoName
                        /\ state = "Running" <=> told = NotPaused
      BY DEF NamesAgree, NInv
    <2> QED  BY AtRest, Known DEF Settled, StateInv
  <1> QED  BY <1>1, NamingInvariant, PTL

\* haHostApplySsid: whatever is on the air is what a boot with the card would select.
THEOREM BootFollowsTheAir == ASSUME ~Readable PROVE NSpec => []BootSelectsWhatRuns
  <1>1. IInv /\ NInv => BootSelectsWhatRuns
    <2> SUFFICES ASSUME IInv, NInv, air # NoName
                 PROVE  Recorded(TRUE) /\ Selected(TRUE).val = air
      BY DEF BootSelectsWhatRuns
    <2>1. air = apName
      BY Known DEF StateInv
    <2>2. (step = Idle /\ Settled) \/ (step.at = "checkpoint" /\ Settled /\ Ready)
          \/ (step.at = "settings" /\ Saving(apName))
      BY Known DEF StepInv
    <2>3. CASE NewOnCard
      <3>1. job.rec \in Record /\ job.rec \in Media /\ Dominates(job.rec)
        BY <2>3, Known DEF IInv, CommitInv, NewOnCard, Media, Slot, TypeOK, NoSlot
      <3>2. job.rec.val = apName
        BY <2>2, <2>3 DEF NewOnCard, Settled, Saving
      <3> QED  BY <2>1, <3>1, <3>2, Known, TopSelected
    <2>4. CASE ~NewOnCard
      <3>1. value.val = apName
        BY <2>2 DEF Settled, Saving
      <3>2. job.pc \notin {"off", "halt"}
        BY <2>2 DEF Settled, Saving
      <3>3. InForce
        <4>1. job.pc \in {"sd", "nvs"} => ~Fresh
          BY <2>2 DEF Settled, Saving, IInv, CommitInv
        <4> QED  BY <2>4, <3>2, <4>1 DEF IInv, RunInv
      <3>4. value \in Record /\ value \in Media /\ Dominates(value)
        BY <3>3, Known DEF InForce, Media, Slot, TypeOK, NoSlot
      <3> QED  BY <2>1, <3>1, <3>4, Known, TopSelected
    <2> QED  BY <2>3, <2>4
  <1> QED  BY <1>1, NamingInvariant, PTL

\* The two together: RAM, settings, air and the next boot have one name.
THEOREM NamesFollow == ASSUME ~Readable PROVE NSpec => []OneNameEverywhere
  BY OneName, BootFollowsTheAir, PTL DEF OneNameEverywhere
=============================================================================
