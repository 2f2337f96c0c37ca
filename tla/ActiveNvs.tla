----------------------------- MODULE ActiveNvs -----------------------------
(***************************************************************************)
(* The active-session fallback in NVS (hotspot-arcade-cardputer/           *)
(* ha_active_nvs.h): two slots, each an envelope cut into Chunks blobs     *)
(* under keys of their own, rewritten blob by blob.  Power may fail, and   *)
(* any putBytes may fail, between two blobs.                               *)
(*                                                                         *)
(* An envelope is abstracted to its generation and its session data; the   *)
(* CRC that covers all its bytes makes a slot valid exactly when all its   *)
(* blobs were cut from one envelope.  Only the loop task calls this code,  *)
(* so its reads are atomic and its writes are the steps below.             *)
(***************************************************************************)
EXTENDS Naturals

CONSTANTS Chunks,         \* HA_ACTIVE_NVS_CHUNK_COUNT
          Data,           \* the session contents the caller may snapshot
          NoData,         \* contents of an absent key
          MaxGeneration   \* UINT32_MAX

ASSUME ChunksAssumption        == Chunks \in Nat /\ Chunks > 1
ASSUME NoDataAssumption        == NoData \notin Data
ASSUME MaxGenerationAssumption == MaxGeneration \in Nat /\ MaxGeneration > 0

NvsSlot    == {0, 1}
Chunk      == 0 .. Chunks - 1
Generation == 0 .. MaxGeneration
Envelope   == [gen : Generation, data : Data \cup {NoData}]
NvsBlank   == [gen |-> 0, data |-> NoData]
NvsRecord  == {e \in Envelope : e.gen # 0 /\ e.data # NoData}

VARIABLES
    nvs,       \* the namespace "ha_active2": slot -> chunk -> envelope it was cut from
    job,       \* the call in progress, [op, env, target, next]
    due,       \* haActiveNvsCheckpointDue(now, false)
    acked,     \* history: the last record a call reported Written
    sdSafe     \* history: highest generation the caller verified on SD

nvsVars == <<nvs, job, due, acked, sdSafe>>

NvsOp   == {"idle", "erase", "put", "verify"}
Idle == [op |-> "idle", env |-> NvsBlank, target |-> 0, next |-> 0]

NvsInit ==
    /\ nvs = [s \in NvsSlot |-> [c \in Chunk |-> NvsBlank]]
    /\ job = Idle
    /\ due = TRUE
    /\ acked = NvsBlank
    /\ sdSafe = 0

-----------------------------------------------------------------------------
(* Reading. *)

\* haActiveNvsReadSlot: every blob present and one CRC over all of them.
SlotValid(s) == nvs[s][0] \in NvsRecord /\ \A c \in Chunk : nvs[s][c] = nvs[s][0]

SlotGeneration(s) == IF SlotValid(s) THEN nvs[s][0].gen ELSE 0

\* haActiveNvsNewestSlot: B only when strictly newer; no slot (-1) is NvsBlank's.
NvsNewestIsB == SlotGeneration(1) > SlotGeneration(0)

\* haActiveNvsRead
NvsNewest == IF NvsNewestIsB THEN nvs[1][0]
             ELSE IF SlotValid(0) THEN nvs[0][0] ELSE NvsBlank

\* haActiveNvsLatestGeneration, 0 when there is none
Latest == NvsNewest.gen

-----------------------------------------------------------------------------
(* Writing. *)

\* Fault: rewrites the slot that holds the newest record.
PutJob_IntoNewest(e) == [op |-> "put", env |-> e,
                         target |-> IF NvsNewestIsB THEN 1 ELSE 0,
                         next |-> Chunks - 1]

\* haActiveNvsWriteGeneration as far as its first putBytes
PutJob(e) == [op |-> "put", env |-> e,
              target |-> IF Latest # 0 /\ ~NvsNewestIsB THEN 1 ELSE 0,
              next |-> Chunks - 1]

\* Fault: an equal generation is taken for a newer one.
CheckpointNoSd_EqualGeneration(d, g, force) ==
    /\ job.op = "idle"
    /\ force \/ due
    /\ Latest # MaxGeneration
    /\ job' = PutJob([gen |-> IF g >= Latest THEN g ELSE Latest + 1, data |-> d])
    /\ UNCHANGED <<nvs, due, acked, sdSafe>>

\* haActiveNvsCheckpointNoSd: the record must outrank what is stored.
CheckpointNoSd(d, g, force) ==
    /\ job.op = "idle"
    /\ force \/ due
    /\ Latest # MaxGeneration
    /\ job' = PutJob([gen |-> IF g > Latest THEN g ELSE Latest + 1, data |-> d])
    /\ UNCHANGED <<nvs, due, acked, sdSafe>>

\* haActiveNvsCheckpointSdMirror: copy of a record the caller verified on SD; a
\* record of the same generation is erased first.
CheckpointSdMirror(d, g, force) ==
    /\ job.op = "idle"
    /\ g # 0
    /\ force \/ due
    /\ Latest <= g
    /\ sdSafe' = IF g > sdSafe THEN g ELSE sdSafe
    /\ job' = IF Latest = g
              THEN [op |-> "erase", env |-> [gen |-> g, data |-> d],
                    target |-> 0, next |-> 0]
              ELSE PutJob([gen |-> g, data |-> d])
    /\ UNCHANGED <<nvs, due, acked>>

\* haActiveNvsErase: Preferences.clear() drops the keys in an order of its own.
EraseKey(s, c) ==
    /\ job.op = "erase"
    /\ nvs[s][c] # NvsBlank
    /\ nvs' = [nvs EXCEPT ![s][c] = NvsBlank]
    /\ UNCHANGED <<job, due, acked, sdSafe>>

EraseDone ==
    /\ job.op = "erase"
    /\ \A s \in NvsSlot, c \in Chunk : nvs[s][c] = NvsBlank
    /\ job' = PutJob(job.env)
    /\ due' = TRUE
    /\ UNCHANGED <<nvs, acked, sdSafe>>

\* One putBytes; the tails go first and chunk 0, with the generation, last.
PutChunk ==
    /\ job.op = "put"
    /\ nvs' = [nvs EXCEPT ![job.target][job.next] = job.env]
    /\ job' = IF job.next = 0 THEN [job EXCEPT !.op = "verify"]
              ELSE [job EXCEPT !.next = job.next - 1]
    /\ UNCHANGED <<due, acked, sdSafe>>

\* The read-back finds the generation it wrote: Written.
VerifyOk ==
    /\ job.op = "verify"
    /\ SlotValid(job.target) /\ nvs[job.target][0].gen = job.env.gen
    /\ acked' = job.env
    /\ due' = FALSE
    /\ job' = Idle
    /\ UNCHANGED <<nvs, sdSafe>>

\* begin, clear, putBytes or the read-back fails: the call reports Failed.  A key
\* keeps its old blob or takes the new one (PutChunk, then this step).
CallFails ==
    /\ job.op # "idle"
    /\ job' = Idle
    /\ UNCHANGED <<nvs, due, acked, sdSafe>>

\* Reset at any point; haActiveNvsRt is RAM.
NvsCrash ==
    /\ job' = Idle
    /\ due' = TRUE
    /\ UNCHANGED <<nvs, acked, sdSafe>>

\* HA_ACTIVE_NVS_MIN_CHECKPOINT_MS passes, or the caller resets the rate limit.
CheckpointBecomesDue ==
    /\ ~due
    /\ due' = TRUE
    /\ UNCHANGED <<nvs, job, acked, sdSafe>>

\* haActiveNvsSetCheckpointBaseline, by a boot that found NVS current.
SetCheckpointBaseline ==
    /\ job.op = "idle"
    /\ Latest # 0
    /\ due' = FALSE
    /\ UNCHANGED <<nvs, job, acked, sdSafe>>

NvsNext ==
    \/ \E d \in Data, g \in Generation, force \in BOOLEAN :
          \/ CheckpointNoSd(d, g, force)
          \/ CheckpointSdMirror(d, g, force)
    \/ \E s \in NvsSlot, c \in Chunk : EraseKey(s, c)
    \/ EraseDone
    \/ PutChunk
    \/ VerifyOk
    \/ CallFails
    \/ NvsCrash
    \/ CheckpointBecomesDue
    \/ SetCheckpointBaseline

NvsSpec == NvsInit /\ [][NvsNext]_nvsVars

-----------------------------------------------------------------------------
(* Properties. *)

\* The type invariant: every key holds a blob of an envelope or nothing, and the
\* call in progress is one haActiveNvsWriteGeneration can be in.
NvsTypeOK ==
    /\ nvs \in [NvsSlot -> [Chunk -> Envelope]]
    /\ job \in [op : NvsOp, env : Envelope, target : NvsSlot, next : Chunk]
    /\ due \in BOOLEAN
    /\ acked \in NvsRecord \cup {NvsBlank}
    /\ sdSafe \in Generation

\* A record a checkpoint reported Written is what the next boot reads, or an even
\* newer one is, wherever a later call of haActiveNvsWriteGeneration was cut short;
\* the one exception is a generation the caller also holds on SD, which
\* haActiveNvsCheckpointSdMirror may erase before it rewrites it.
AckedSurvives == acked.gen > sdSafe => NvsNewest = acked \/ Latest > acked.gen

\* The two slots never hold two valid records of one generation, between which
\* haActiveNvsNewestSlot would silently prefer slot A.
NoTwins == SlotValid(0) /\ SlotValid(1) => SlotGeneration(0) # SlotGeneration(1)

\* No step lowers the generation a boot reads, except that a mirror may erase one
\* that SD holds too (haActiveNvsErase in haActiveNvsCheckpointSdMirror).
GenerationNeverRegresses == [][Latest' >= Latest \/ sdSafe >= Latest]_nvsVars

\* The inductive strengthening.  A call past its checks leaves the other slot alone;
\* its own slot is either older than the other one or already all of its envelope.
JobOk ==
    /\ job.op # "idle" => job.env \in NvsRecord
    /\ job.op = "idle" => job = Idle
    /\ job.op = "erase" => sdSafe >= job.env.gen /\ Latest <= job.env.gen
    /\ job.op \in {"put", "verify"} =>
          /\ SlotGeneration(1 - job.target) < job.env.gen
          /\ SlotValid(job.target) =>
                \/ nvs[job.target][0] = job.env
                \/ SlotGeneration(job.target) < SlotGeneration(1 - job.target)
    /\ job.op = "put" => \A c \in Chunk : c > job.next => nvs[job.target][c] = job.env
    /\ job.op = "verify" => \A c \in Chunk : nvs[job.target][c] = job.env

NvsIInv == NvsTypeOK /\ JobOk /\ NoTwins /\ AckedSurvives

\* Blob-wise writing implements one durable record that changes whole or not at all
\* (the commit-marker protocol of haActiveNvsWriteGeneration).
Mode == IF job.op = "idle" THEN "idle"
        ELSE IF job.op = "erase" THEN "replace" ELSE "put"

Stable == INSTANCE StableRecord WITH
              Record <- NvsRecord, Blank <- NvsBlank,
              record <- NvsNewest, goal <- job.env, mode <- Mode

ImplementsStableRecord == Stable!Spec
=============================================================================
