---------------------------- MODULE ConfigStore ----------------------------
(***************************************************************************)
(* The settings store (hotspot-arcade-cardputer/ha_config.h): two slots on *)
(* the card and an NVS mirror of the newest generation, written by one     *)
(* commit, repaired later by the loop, and read at boot with or without    *)
(* the card.  Version 1's settings file is imported once and then set      *)
(* aside under another name; version 1 may run again from the same card    *)
(* and leave another one.                                                  *)
(***************************************************************************)
EXTENDS Naturals, FiniteSets

CONSTANTS Value,        \* valid settings: SSID, audio level and language
          Default,      \* the compiled defaults
          NoValue,      \* no settings file
          MaxGen,       \* UINT32_MAX of generation
          Readable,     \* whether a write that fails may leave its record readable
          MaxFaults     \* bound: failed writes, resets and runs of version 1

ASSUME ValueAssumption   == Default \in Value /\ NoValue \notin Value
ASSUME BoundAssumption   == MaxGen \in Nat \ {0} /\ MaxFaults \in Nat
ASSUME BooleanAssumption == Readable \in BOOLEAN

Slot     == {0, 1}
NoSlot   == 2                                    \* sdSlot = -1
NoRecord == [gen |-> 0, val |-> Default]         \* an absent or unreadable record
Record   == [gen : 1 .. MaxGen, val : Value]

VARIABLES
    slot, nvs,              \* config.a and config.b; the NVS record
    legacy, imported,       \* config.txt and config.txt.v1.imported
    sdOk,                   \* a card was mounted at this boot
    value, sdSlot,          \* haConfigRt: the record in force and its slot
    sdDirty, nvsDirty,      \* haConfigRt: mirrors that have to be written again
    renamePending,          \* haConfigRt.legacyRenamePending
    job,                    \* the call in progress, or how the last one returned
    owe,                    \* history: the settings a boot may come up with
    faults

media  == <<slot, nvs, legacy, imported>>
rt     == <<value, sdSlot, sdDirty, nvsDirty, renamePending>>
cfgVars == <<media, sdOk, rt, job, owe, faults>>

Job == [pc : {"off", "halt", "ok", "failed", "sd", "nvs", "repairNvs", "repairSd", "rename"},
        op : {"boot", "save", "repair"}, rec : Record \cup {NoRecord}, sdWritten : BOOLEAN]

At(op, pc) == [pc |-> pc, op |-> op, rec |-> NoRecord, sdWritten |-> FALSE]
Ready      == job.pc \in {"ok", "failed"}
Fault      == faults < MaxFaults /\ faults' = faults + 1
NoFault    == faults' = faults

Init ==
    /\ slot = [s \in Slot |-> NoRecord] /\ nvs = NoRecord
    /\ legacy \in Value \cup {NoValue} /\ imported = NoValue
    /\ sdOk = FALSE
    /\ value = NoRecord /\ sdSlot = NoSlot
    /\ sdDirty = FALSE /\ nvsDirty = FALSE /\ renamePending = FALSE
    /\ job = At("boot", "off")
    /\ owe = Value
    /\ faults = 0

-----------------------------------------------------------------------------
(* haConfigBegin *)

\* The slot a boot takes: A, unless only B is readable or B is newer.
NewestSlot == IF slot[0] # NoRecord /\ (slot[1] = NoRecord \/ slot[0].gen >= slot[1].gen)
              THEN 0 ELSE 1
OnCard     == slot[NewestSlot]

\* The record a boot selects: the higher generation, the card's when they are equal.
SelectsSd(card)  == card /\ OnCard # NoRecord /\ (nvs = NoRecord \/ OnCard.gen >= nvs.gen)
Selected(card)   == IF SelectsSd(card) THEN OnCard ELSE nvs
Recorded(card)   == nvs # NoRecord \/ (card /\ OnCard # NoRecord)

\* Assumption: the card is not taken out while it alone holds the settings in force.
MayLeave == OnCard = NoRecord \/ OnCard.gen < nvs.gen \/ OnCard = nvs

\* Fault: the record of the other medium is not compared.
BootSelects_NoRepair(card) ==
    /\ job.pc = "off"
    /\ card \/ MayLeave
    /\ Recorded(card)
    /\ sdOk' = card
    /\ value' = Selected(card)
    /\ sdSlot' = IF card /\ OnCard # NoRecord THEN NewestSlot ELSE NoSlot
    /\ sdDirty' = ~(card /\ OnCard # NoRecord)
    /\ nvsDirty' = (nvs = NoRecord)
    /\ renamePending' = (card /\ legacy # NoValue)
    /\ job' = At("boot", "repairNvs")
    /\ owe' = {Selected(card).val}
    /\ UNCHANGED <<media, faults>>

\* Some medium holds a record; the others are repaired before the boot goes on.
BootSelects(card) ==
    /\ job.pc = "off"
    /\ card \/ MayLeave
    /\ Recorded(card)
    /\ sdOk' = card
    /\ value' = Selected(card)
    /\ sdSlot' = IF card /\ OnCard # NoRecord THEN NewestSlot ELSE NoSlot
    /\ sdDirty' = (~(card /\ OnCard # NoRecord)
                   \/ (~SelectsSd(card) /\ OnCard # Selected(card)))
    /\ nvsDirty' = (nvs = NoRecord \/ (SelectsSd(card) /\ nvs # Selected(card)))
    /\ renamePending' = (card /\ legacy # NoValue)
    /\ job' = At("boot", "repairNvs")
    /\ owe' = {Selected(card).val}
    /\ UNCHANGED <<media, faults>>

\* A saturated generation is refused.
CommitBegins(op, v, from) ==
    job' = IF from = MaxGen THEN At(op, "failed")
           ELSE [At(op, "sd") EXCEPT !.rec = [gen |-> from + 1, val |-> v]]

\* No medium holds one: version 1's settings, or the defaults, are committed.
BootFresh(card) ==
    LET v == IF card /\ legacy # NoValue THEN legacy ELSE Default IN
    /\ job.pc = "off"
    /\ card \/ MayLeave
    /\ ~Recorded(card)
    /\ sdOk' = card
    /\ value' = [gen |-> 0, val |-> v] /\ sdSlot' = NoSlot
    /\ sdDirty' = FALSE /\ nvsDirty' = FALSE
    /\ renamePending' = (card /\ legacy # NoValue)
    /\ CommitBegins("boot", v, 0)
    /\ owe' = owe \cup {v}
    /\ UNCHANGED <<media, faults>>

\* haHistBegin failed: the card is not used until the next boot.
CardGivenUp ==
    /\ Ready /\ sdOk
    /\ sdOk' = FALSE
    /\ UNCHANGED <<media, rt, job, owe, faults>>

-----------------------------------------------------------------------------
(* haConfigCommit *)

\* haConfigSave
Save(v) ==
    /\ Ready
    /\ CommitBegins("save", v, value.gen)
    /\ owe' = IF value.gen = MaxGen THEN owe ELSE owe \cup {v}
    /\ UNCHANGED <<media, sdOk, rt, faults>>

Target == IF sdSlot = 0 THEN 1 ELSE 0

\* haConfigWriteSd returning false: the file is as it was, gone, torn, or complete.
SdLeft(r) == {slot[Target], NoRecord} \cup (IF Readable THEN {r} ELSE {})

\* Fault: the slot of the record in force is rewritten.
CommitSd_InPlace ==
    /\ job.pc = "sd"
    /\ LET t == IF sdSlot = NoSlot THEN 0 ELSE sdSlot IN
       \/ ~sdOk /\ job' = [job EXCEPT !.pc = "nvs"] /\ UNCHANGED <<slot, sdSlot, faults>>
       \/ /\ sdOk
          /\ slot' = [slot EXCEPT ![t] = job.rec] /\ sdSlot' = t
          /\ job' = [job EXCEPT !.pc = "nvs", !.sdWritten = TRUE] /\ NoFault
       \/ /\ sdOk
          /\ slot' = [slot EXCEPT ![t] = NoRecord] /\ sdSlot' = sdSlot
          /\ job' = [job EXCEPT !.pc = "nvs"] /\ Fault
    /\ UNCHANGED <<nvs, legacy, imported, sdOk, value, sdDirty, nvsDirty, renamePending, owe>>

\* The card first, into the slot that is not in force.
CommitSd ==
    /\ job.pc = "sd"
    /\ \/ ~sdOk /\ job' = [job EXCEPT !.pc = "nvs"] /\ UNCHANGED <<slot, sdSlot, faults>>
       \/ /\ sdOk
          /\ slot' = [slot EXCEPT ![Target] = job.rec] /\ sdSlot' = Target
          /\ job' = [job EXCEPT !.pc = "nvs", !.sdWritten = TRUE] /\ NoFault
       \/ /\ sdOk
          /\ \E r \in SdLeft(job.rec) : slot' = [slot EXCEPT ![Target] = r]
          /\ sdSlot' = sdSlot
          /\ job' = [job EXCEPT !.pc = "nvs"] /\ Fault
    /\ UNCHANGED <<nvs, legacy, imported, sdOk, value, sdDirty, nvsDirty, renamePending, owe>>

NvsLeft(r) == {nvs} \cup (IF Readable THEN {r} ELSE {})

\* One medium is enough: the record is in force, the other is written again later.
Commits(nvsWritten) ==
    /\ value' = job.rec
    /\ sdDirty' = ~job.sdWritten /\ nvsDirty' = ~nvsWritten
    /\ job' = At(job.op, IF job.op = "boot" THEN "repairNvs" ELSE "ok")
    /\ owe' = {job.rec.val}

\* Neither could be written: the settings stay, a first boot stops.
Rejects ==
    /\ job' = At(job.op, IF job.op = "boot" THEN "halt" ELSE "failed")
    /\ owe' = IF job.op = "boot" THEN owe ELSE {value.val}
    /\ UNCHANGED <<value, sdDirty, nvsDirty>>

CommitNvs ==
    /\ job.pc = "nvs"
    /\ \/ nvs' = job.rec /\ NoFault /\ Commits(TRUE)
       \/ /\ nvs' \in NvsLeft(job.rec) /\ Fault
          /\ IF job.sdWritten THEN Commits(FALSE) ELSE Rejects
    /\ UNCHANGED <<slot, legacy, imported, sdOk, sdSlot, renamePending>>

-----------------------------------------------------------------------------
(* haConfigRepairMirrors *)

\* Fault: only a card is repaired.
Repair_CardOnly ==
    /\ Ready
    /\ sdOk /\ (sdDirty \/ renamePending)
    /\ job' = At("repair", "repairNvs")
    /\ UNCHANGED <<media, sdOk, rt, owe, faults>>

\* From haPersistenceTick, every five seconds.
Repair ==
    /\ Ready
    /\ nvsDirty \/ (sdDirty /\ sdOk) \/ (renamePending /\ sdOk)
    /\ job' = At("repair", "repairNvs")
    /\ UNCHANGED <<media, sdOk, rt, owe, faults>>

RepairNvs ==
    /\ job.pc = "repairNvs"
    /\ \/ ~nvsDirty /\ UNCHANGED <<nvs, nvsDirty, faults>>
       \/ nvsDirty /\ nvs' = value /\ nvsDirty' = FALSE /\ NoFault
       \/ nvsDirty /\ nvs' \in NvsLeft(value) /\ nvsDirty' = TRUE /\ Fault
    /\ job' = [job EXCEPT !.pc = "repairSd"]
    /\ UNCHANGED <<slot, legacy, imported, sdOk, value, sdSlot, sdDirty, renamePending, owe>>

RepairSd ==
    /\ job.pc = "repairSd"
    /\ \/ ~(sdDirty /\ sdOk) /\ UNCHANGED <<slot, sdSlot, sdDirty, faults>>
       \/ /\ sdDirty /\ sdOk
          /\ slot' = [slot EXCEPT ![Target] = value]
          /\ sdSlot' = Target /\ sdDirty' = FALSE /\ NoFault
       \/ /\ sdDirty /\ sdOk
          /\ \E r \in SdLeft(value) : slot' = [slot EXCEPT ![Target] = r]
          /\ UNCHANGED <<sdSlot, sdDirty>> /\ Fault
    /\ job' = [job EXCEPT !.pc = "rename"]
    /\ UNCHANGED <<nvs, legacy, imported, sdOk, value, nvsDirty, renamePending, owe>>

\* Fault: the original is removed without a look at the preserved copy.
SetAside_Removed ==
    \/ /\ legacy = NoValue
       /\ UNCHANGED <<legacy, imported>> /\ renamePending' = (imported = NoValue) /\ NoFault
    \/ /\ legacy # NoValue
       /\ imported' = IF imported = NoValue THEN legacy ELSE imported
       /\ legacy' = NoValue /\ renamePending' = FALSE /\ NoFault
    \/ /\ legacy # NoValue
       /\ UNCHANGED <<legacy, imported>> /\ renamePending' = TRUE /\ Fault

\* Two originals that differ: neither is touched, and the repair stays pending.
TwoOriginals == legacy # NoValue /\ imported \notin {NoValue, legacy}

\* SD.rename or SD.remove returning false, or cut off: the new name is entered before
\* the former one goes, so both, or only the new one, may be there.
AsideLeft == {<<legacy, imported>>, <<legacy, legacy>>, <<NoValue, legacy>>}

\* The original gets its other name; an equal preserved copy makes it superfluous.
SetAside ==
    \/ /\ legacy = NoValue
       /\ UNCHANGED <<legacy, imported>> /\ renamePending' = (imported = NoValue) /\ NoFault
    \/ TwoOriginals /\ UNCHANGED <<legacy, imported, renamePending, faults>>
    \/ /\ legacy # NoValue /\ imported = legacy            \* SD.remove
       /\ legacy' = NoValue /\ imported' = imported /\ renamePending' = FALSE /\ NoFault
    \/ /\ legacy # NoValue /\ imported = NoValue           \* SD.rename
       /\ legacy' = NoValue /\ imported' = legacy /\ renamePending' = FALSE /\ NoFault
    \/ /\ legacy # NoValue /\ ~TwoOriginals
       /\ \E left \in AsideLeft : legacy' = left[1] /\ imported' = left[2]
       /\ renamePending' = TRUE /\ Fault

RepairRename ==
    /\ job.pc = "rename"
    /\ IF renamePending /\ sdOk THEN SetAside
       ELSE UNCHANGED <<legacy, imported, renamePending, faults>>
    /\ job' = At(job.op, "ok")
    /\ UNCHANGED <<slot, nvs, sdOk, value, sdSlot, sdDirty, nvsDirty, owe>>

-----------------------------------------------------------------------------

\* Power goes; a first boot that halted is switched off.
PowerOff ==
    /\ job.pc # "off"
    /\ job' = At("boot", "off")
    /\ sdOk' = FALSE
    /\ value' = NoRecord /\ sdSlot' = NoSlot
    /\ sdDirty' = FALSE /\ nvsDirty' = FALSE /\ renamePending' = FALSE
    /\ IF job.pc = "halt" THEN NoFault ELSE Fault
    /\ UNCHANGED <<media, owe>>

\* Switched off: version 1, run again from this card, leaves its settings there.
Version1Runs(v) ==
    /\ job.pc = "off"
    /\ legacy' = v
    /\ Fault
    /\ UNCHANGED <<slot, nvs, imported, sdOk, rt, job, owe>>

Boot   == \E card \in BOOLEAN : BootSelects(card) \/ BootFresh(card)
Calls  == CommitSd \/ CommitNvs \/ RepairNvs \/ RepairSd \/ RepairRename

Next ==
    \/ Boot
    \/ CardGivenUp
    \/ \E v \in Value : Save(v)
    \/ Calls
    \/ Repair
    \/ PowerOff
    \/ \E v \in Value : Version1Runs(v)

Spec == Init /\ [][Next]_cfgVars

\* The loop task keeps running, and its tick repairs the mirrors.
FairSpec ==
    Spec /\ WF_cfgVars(Boot) /\ WF_cfgVars(Calls) /\ WF_cfgVars(Repair)

-----------------------------------------------------------------------------
(* Properties. *)

TypeOK ==
    /\ slot \in [Slot -> Record \cup {NoRecord}] /\ nvs \in Record \cup {NoRecord}
    /\ legacy \in Value \cup {NoValue} /\ imported \in Value \cup {NoValue}
    /\ sdOk \in BOOLEAN
    /\ value \in [gen : 0 .. MaxGen, val : Value] /\ sdSlot \in {0, 1, NoSlot}
    /\ sdDirty \in BOOLEAN /\ nvsDirty \in BOOLEAN /\ renamePending \in BOOLEAN
    /\ job \in Job
    /\ owe \in SUBSET Value
    /\ faults \in 0 .. MaxFaults

\* haConfigCommit: whatever fails and whenever power goes, a boot with the card finds
\* the last settings that were accepted or, after a reset, the ones being saved.
AcceptedSurvive == Recorded(TRUE) => Selected(TRUE).val \in owe

\* haConfigRt.sdDirty, nvsDirty: a mirror that is not marked holds the record in force,
\* so that later SD removal or insertion cannot resurrect stale settings.
CleanMirrors ==
    Ready =>
        /\ ~nvsDirty => nvs = value
        /\ ~sdDirty /\ sdOk => sdSlot # NoSlot /\ slot[sdSlot] = value /\ OnCard = value

Originals == {legacy, imported} \ {NoValue}

\* haConfigRepairMirrors: "Never overwrite an earlier preserved original".  Whatever fails
\* and whenever power goes, each original that version 1 left stays on the card under one
\* of the two names, until version 1 writes its own again; a preserved one stays as it is;
\* and none is set aside before a medium holds settings, so that no boot would pass over
\* an original that it hides and come up with the defaults.
LegacyPreserved ==
    /\ [][ /\ Originals \subseteq Originals' \/ \E v \in Value : Version1Runs(v)
           /\ imported # NoValue => imported' = imported ]_cfgVars
    /\ [](imported # NoValue => Recorded(TRUE))

\* haConfigRepairMirrors: the settings in force end up on every medium there is, and
\* version 1's file is set aside unless another original is.
MirrorsEndClean ==
    (<>[][~\E v \in Value : Save(v)]_cfgVars)
        => []<>(job.pc = "halt" \/
                (Ready /\ ~nvsDirty /\ (sdOk => ~sdDirty /\ (renamePending => TwoOriginals))))

\* Comment at ha_config.h:368-370: once a medium took the settings, "later SD
\* removal/insertion cannot resurrect stale settings".
NoStaleSettings ==
    job.pc = "ok" /\ job.op = "save" => Selected(TRUE).val = value.val

-----------------------------------------------------------------------------
(* The inductive invariant, where a failed write leaves no readable record. *)

Media        == {slot[0], slot[1], nvs}
Blank        == \A r \in Media : r = NoRecord
Dominates(t) == \A r \in Media : r = NoRecord \/ r.gen < t.gen \/ r = t

\* Switched off, some record outranks or equals every other, and it may be resumed.
OffInv ==
    job.pc = "off" =>
        Blank \/ \E t \in Record : t \in Media /\ Dominates(t) /\ t.val \in owe

\* Nothing is in force yet: the first commit of a new device.
Fresh == value.gen = 0

\* The commit in progress has replaced the record in force on the card.
NewOnCard == job.pc = "nvs" /\ job.sdWritten

\* The record in force outranks or equals every other, and a mirror that is not marked
\* holds it; one of the two is not marked.
InForce ==
    /\ value \in Record /\ Dominates(value) /\ value.val \in owe
    /\ nvsDirty \/ nvs = value
    /\ sdDirty \/ (sdSlot # NoSlot /\ slot[sdSlot] = value)
    /\ ~nvsDirty \/ ~sdDirty

RunInv ==
    job.pc # "off" /\ ~NewOnCard =>
        \/ Fresh /\ Blank /\ job.pc \in {"sd", "nvs", "halt"}
        \/ InForce /\ job.pc # "halt"

\* The record being committed is the next generation.
CommitInv ==
    /\ job.pc \in {"sd", "nvs"} =>
           /\ job.rec \in Record /\ job.rec.gen = value.gen + 1 /\ job.rec.val \in owe
           /\ job.op = "boot" <=> Fresh
    /\ job.pc = "sd" => ~job.sdWritten
    /\ NewOnCard => sdSlot # NoSlot /\ slot[sdSlot] = job.rec /\ Dominates(job.rec)

IInv == TypeOK /\ OffInv /\ RunInv /\ CommitInv
=============================================================================
