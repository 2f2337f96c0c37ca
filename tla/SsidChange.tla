----------------------------- MODULE SsidChange -----------------------------
(***************************************************************************)
(* The name of the access point (hotspot-arcade-cardputer.ino,             *)
(* ha_ssid_transaction.h): a rename pauses the session, stops the access   *)
(* point, saves the new name through the settings store, starts again and  *)
(* goes back to the former name when that fails.  The settings store is    *)
(* the module ConfigStore, a setting being the name it holds; every write  *)
(* of it may fail and power may go before and after each.                  *)
(***************************************************************************)
EXTENDS ConfigStore

CONSTANT NoName         \* the access point is not on the air

ASSUME NoNameAssumption == NoName \notin Value

VARIABLES
    apName,     \* apName
    air,        \* the name on the air, NoName while portalRunning is false
    state,      \* haApState
    told,       \* the engine's transport pause: its reason, the name phones are told
    step        \* the key action of the loop task: how far it is, the names it is about

naming == <<apName, air, state, told, step>>
vars   == <<cfgVars, naming>>

NotPaused == [reason |-> "none", ssid |-> NoName]
SwitchedOff == [reason |-> "off", ssid |-> NoName]
Renaming(name) == [reason |-> "ssid", ssid |-> name]

Steps == {"boot", "idle", "checkpoint", "save", "start", "undo", "restart", "settings"}
Idle  == [at |-> "idle", from |-> NoName, to |-> NoName, wasUp |-> FALSE]
Boots == [at |-> "boot", from |-> NoName, to |-> NoName, wasUp |-> FALSE]
Does(s)  == step' = [step EXCEPT !.at = s]

NInit ==
    /\ Init
    /\ apName = Default /\ air = NoName /\ state = "Booting" /\ told = NotPaused /\ step = Boots

\* A key is served when nothing else is going on in the loop task.
KeyServed == step = Idle /\ Ready

-----------------------------------------------------------------------------
(* The steps of the settings store. *)

StoreStep ==
    /\ \/ Boot \/ Calls
       \/ step = Boots /\ CardGivenUp
       \/ step = Idle /\ Repair
    /\ UNCHANGED naming

Version1Left ==
    /\ \E v \in Value : Version1Runs(v)
    /\ UNCHANGED naming

\* setup(): the saved name is taken and the access point started; a failure is fatal.
Started ==
    /\ step = Boots /\ Ready
    /\ apName' = value.val /\ air' = value.val
    /\ state' = "Running" /\ told' = NotPaused /\ step' = Idle
    /\ UNCHANGED cfgVars

NPowerOff ==
    /\ PowerOff
    /\ apName' = Default /\ air' = NoName /\ state' = "Booting" /\ told' = NotPaused
    /\ step' = Boots

\* haCfgSave: other settings are saved together with the name in use.
SaveSettings ==
    /\ KeyServed
    /\ Save(apName)
    /\ Does("settings")
    /\ UNCHANGED <<apName, air, state, told>>

SettingsSaved ==
    /\ step.at = "settings" /\ Ready
    /\ step' = Idle
    /\ UNCHANGED <<cfgVars, apName, air, state, told>>

-----------------------------------------------------------------------------
(* haPortalPauseAndStop *)

Pauses(reason, name) ==
    /\ KeyServed /\ air # NoName /\ state # "ReconnectWait" /\ told = NotPaused
    /\ told' = reason
    /\ step' = [at |-> "checkpoint", from |-> apName, to |-> name, wasUp |-> TRUE]
    /\ UNCHANGED <<cfgVars, apName, air, state>>

\* haHostApplySsid, on the air
RenameBegins(name) == name # apName /\ Pauses(Renaming(name), name)

\* haHostTogglePortal, on the air
SwitchOff == Pauses(SwitchedOff, NoName)

\* The forced checkpoint fails: the live transport goes on.
CheckpointFails ==
    /\ step.at = "checkpoint"
    /\ told' = NotPaused /\ state' = "Running" /\ step' = Idle
    /\ UNCHANGED <<cfgVars, apName, air>>

\* Otherwise it is stopped; a rename goes on to save the new name.
Stopped ==
    /\ step.at = "checkpoint"
    /\ air' = NoName
    /\ IF step.to = NoName
       THEN state' = "ManualOff" /\ step' = Idle /\ UNCHANGED cfgVars
       ELSE Save(step.to) /\ Does("save") /\ UNCHANGED state
    /\ UNCHANGED <<apName, told>>

-----------------------------------------------------------------------------
(* haSsidApplyTransaction *)

\* Fault: the new name is taken before it is saved.
RenamedOff_Early(name) ==
    /\ KeyServed /\ air = NoName /\ name # apName
    /\ Save(name)
    /\ apName' = name
    /\ step' = [at |-> "save", from |-> apName, to |-> name, wasUp |-> FALSE]
    /\ UNCHANGED <<air, state, told>>

\* haHostApplySsid, off the air: nothing but the name changes.
RenamedOff(name) ==
    /\ KeyServed /\ air = NoName /\ name # apName
    /\ Save(name)
    /\ step' = [at |-> "save", from |-> apName, to |-> name, wasUp |-> FALSE]
    /\ UNCHANGED <<apName, air, state, told>>

Saved ==
    /\ step.at = "save" /\ Ready
    /\ IF job.pc = "ok" THEN apName' = step.to ELSE apName' = apName
    /\ IF step.wasUp THEN Does(IF job.pc = "ok" THEN "start" ELSE "restart") ELSE step' = Idle
    /\ UNCHANGED <<cfgVars, air, state, told>>

\* replacePausedTransportSsid
Retargets(name) ==
    told' = IF told.reason = "ssid" THEN Renaming(name) ELSE told

\* haStartSsidTransport; it refuses when the pause is not a rename's.
OnAir(name) ==
    /\ told.reason = "ssid"
    /\ air' = apName /\ state' = "ReconnectWait" /\ step' = Idle
    /\ UNCHANGED <<cfgVars, apName>>

\* The new name is started or, when that fails, the former one saved again.
StartNew ==
    /\ step.at = "start"
    /\ Retargets(step.to)
    /\ \/ OnAir(step.to)
       \/ Save(step.from) /\ Does("undo") /\ UNCHANGED <<apName, air, state>>

\* Fault: the former name is taken although it could not be saved.
Undone_InRamOnly ==
    /\ step.at = "undo" /\ Ready
    /\ apName' = step.from /\ Does("restart")
    /\ UNCHANGED <<cfgVars, air, state, told>>

\* Without the former name being durable nothing is started.
Undone ==
    /\ step.at = "undo" /\ Ready
    /\ IF job.pc = "ok"
       THEN apName' = step.from /\ Does("restart") /\ UNCHANGED state
       ELSE apName' = apName /\ state' = "ManualOff" /\ step' = Idle
    /\ UNCHANGED <<cfgVars, air, told>>

StartFormer ==
    /\ step.at = "restart"
    /\ Retargets(step.from)
    /\ \/ OnAir(step.from)
       \/ /\ state' = "ManualOff" /\ step' = Idle
          /\ UNCHANGED <<cfgVars, apName, air>>

-----------------------------------------------------------------------------

\* haHostTogglePortal, off the air: haPortalStartReconnect.
SwitchOn ==
    /\ KeyServed /\ air = NoName
    /\ \/ air' = apName /\ state' = "ReconnectWait"
       \/ air' = air /\ state' = "ManualOff"
    /\ UNCHANGED <<cfgVars, apName, told, step>>

\* The wait ends, on either task (see ApLifecycle).
Resumed ==
    /\ state = "ReconnectWait"
    /\ told' = NotPaused /\ state' = "Running"
    /\ UNCHANGED <<cfgVars, apName, air, step>>

\* haPersistenceRestoreHistory: a fresh engine, paused when the portal is off.
SessionRestored ==
    /\ KeyServed
    /\ IF air = NoName THEN told' = SwitchedOff /\ state' = "ManualOff"
       ELSE told' = NotPaused /\ state' = "Running"
    /\ UNCHANGED <<cfgVars, apName, air, step>>

NNext ==
    \/ StoreStep \/ Started \/ NPowerOff \/ Version1Left
    \/ SaveSettings \/ SettingsSaved
    \/ \E name \in Value : RenameBegins(name) \/ RenamedOff(name)
    \/ SwitchOff \/ CheckpointFails \/ Stopped
    \/ Saved \/ StartNew \/ Undone \/ StartFormer
    \/ SwitchOn \/ Resumed \/ SessionRestored

NSpec == NInit /\ [][NNext]_vars

\* The step of a key action that the loop task is in the middle of.
Goes ==
    \/ StoreStep \/ Started \/ SettingsSaved
    \/ CheckpointFails \/ Stopped \/ Saved \/ StartNew \/ Undone \/ StartFormer

\* The loop task keeps running.  Its tick repairs the mirrors again and again, however
\* often a key action is begun before it.
FairNSpec ==
    /\ NSpec
    /\ WF_vars(Goes /\ step # Idle)
    /\ WF_vars((Boot \/ Calls) /\ UNCHANGED naming)
    /\ SF_vars(Repair /\ UNCHANGED naming /\ step = Idle)

-----------------------------------------------------------------------------
(* Properties. *)

\* "Never run the old AP while reboot selects the new" (haHostApplySsid), nor the
\* other way round: at every step, whatever is on the air is what a boot would select.
BootSelectsWhatRuns == air # NoName => Recorded(TRUE) /\ Selected(TRUE).val = air

NamingType ==
    /\ apName \in Value /\ air \in Value \cup {NoName}
    /\ state \in {"Booting", "Running", "ManualOff", "ReconnectWait"}
    /\ told \in {NotPaused, SwitchedOff} \cup {Renaming(n) : n \in Value}
    /\ step \in [at : Steps, from : Value \cup {NoName}, to : Value \cup {NoName},
               wasUp : BOOLEAN]

NTypeOK == TypeOK /\ NamingType

\* ha_ssid_transaction.h: "Persistence always precedes runtime mutation": between two
\* key actions the name in RAM, the settings in force and the name on the air are one,
\* and the state tells whether there is one on the air and whether the session runs.
NamesAgree ==
    /\ NTypeOK
    /\ KeyServed =>
        /\ apName = value.val /\ air \in {NoName, apName}
        /\ state = "ManualOff" <=> air = NoName
        /\ state = "Running" <=> told = NotPaused

\* The name in RAM, in force, on the air and at the next boot, whatever fails and whenever
\* power goes.
OneNameEverywhere == NamesAgree /\ BootSelectsWhatRuns

\* The inductive invariant, beside that of the settings store.

\* A save of the name that is under way, or how it returned.
Saving(name) ==
    /\ job.op = "save" /\ job.pc \in {"sd", "nvs", "ok", "failed"}
    /\ job.pc \in {"sd", "nvs"} => job.rec.val = name
    /\ IF job.pc = "ok" THEN value.val = name ELSE value.val = apName

\* Between saves the name in RAM is the one in force.
Settled == apName = value.val /\ job.pc \notin {"off", "halt", "sd", "nvs"}

StepInv ==
    \/ step = Boots /\ air = NoName
    \/ step = Idle /\ Settled
    \/ step.at = "checkpoint" /\ Settled /\ Ready /\ air # NoName
    \/ step.at \in {"start", "restart"} /\ Settled /\ Ready /\ air = NoName
    \/ step.at = "settings" /\ step.wasUp = FALSE /\ Saving(apName)
    \/ step.at = "save" /\ Saving(step.to) /\ air = NoName
    \/ step.at = "undo" /\ Saving(step.from) /\ air = NoName

StateInv ==
    /\ air # NoName => air = apName
    /\ step.at # "boot" => state # "Booting"
    /\ step.at \in {"idle", "settings"} \/ (step.at = "save" /\ ~step.wasUp) =>
           /\ state = "ManualOff" <=> air = NoName
           /\ state = "Running" <=> told = NotPaused
    /\ step.at \in {"start", "undo", "restart"} \/ (step.at = "save" /\ step.wasUp) =>
           told.reason = "ssid"
    /\ step.at = "checkpoint" => (step.to # NoName => told.reason = "ssid") /\ told # NotPaused
    /\ step.at \in {"save", "start", "undo", "restart"} => step.to \in Value /\ step.from \in Value
    /\ step.at = "checkpoint" => step.from \in Value /\ step.wasUp = TRUE
    /\ state = "ReconnectWait" => step.at \in {"idle", "settings"}

NInv == NTypeOK /\ StepInv /\ StateInv

\* ha_games.h:1311-1313: "Keep the still-paused browser metadata truthful".
ToldWhatRuns ==
    state = "ReconnectWait" /\ told.reason = "ssid" => told.ssid = air

=============================================================================
