-------------------------- MODULE ActiveNvsProofs --------------------------
(***************************************************************************)
(* ActiveNvs for any number of blobs, any session contents and any         *)
(* generation width.                                                       *)
(***************************************************************************)
EXTENDS ActiveNvs, TLAPS

\* What a slot can be taken for: its generation is 0 exactly when it is not valid,
\* and a valid one is a whole record.
LEMMA SlotFacts ==
    ASSUME NvsTypeOK
    PROVE  \A s \in NvsSlot : /\ SlotGeneration(s) \in Nat
                              /\ SlotGeneration(s) # 0 <=> SlotValid(s)
                              /\ SlotValid(s) => /\ nvs[s][0] \in NvsRecord
                                              /\ SlotGeneration(s) = nvs[s][0].gen
BY ChunksAssumption, MaxGenerationAssumption
   DEF NvsTypeOK, SlotGeneration, SlotValid, NvsRecord, Envelope, Generation, Chunk

\* What a boot reads is a whole record or nothing, and no valid slot outranks it.
LEMMA NewestFacts ==
    ASSUME NvsTypeOK
    PROVE  /\ NvsNewest \in NvsRecord \cup {NvsBlank}
           /\ Latest \in Nat
           /\ \A s \in NvsSlot : SlotGeneration(s) <= Latest
           /\ Latest # 0 => \E s \in NvsSlot : SlotValid(s) /\ NvsNewest = nvs[s][0]
           /\ Latest = 0 => NvsNewest = NvsBlank
           /\ NvsNewestIsB  => SlotValid(1) /\ NvsNewest = nvs[1][0]
           /\ ~NvsNewestIsB => Latest = SlotGeneration(0)
<1> NvsBlank.gen = 0 BY DEF NvsBlank
<1> \A r \in NvsRecord : r.gen # 0 BY DEF NvsRecord
<1> 0 \in NvsSlot /\ 1 \in NvsSlot /\ \A s \in NvsSlot : s = 0 \/ s = 1 BY DEF NvsSlot
<1>1. CASE NvsNewestIsB
  <2>1. SlotGeneration(1) # 0 BY <1>1, SlotFacts DEF NvsNewestIsB
  <2>2. SlotValid(1) BY <2>1, SlotFacts
  <2>3. NvsNewest = nvs[1][0] BY <1>1 DEF NvsNewest
  <2> QED BY <1>1, <2>2, <2>3, SlotFacts DEF Latest, NvsNewestIsB
<1>2. CASE ~NvsNewestIsB /\ SlotValid(0)
  <2>1. NvsNewest = nvs[0][0] BY <1>2 DEF NvsNewest
  <2> QED BY <1>2, <2>1, SlotFacts DEF Latest, NvsNewestIsB
<1>3. CASE ~NvsNewestIsB /\ ~SlotValid(0)
  <2>1. NvsNewest = NvsBlank BY <1>3 DEF NvsNewest
  <2> QED BY <1>3, <2>1, SlotFacts DEF Latest, NvsNewestIsB
<1> QED BY <1>1, <1>2, <1>3

\* The same in a form that can be read of the next state too.
LatestFromSlots ==
    NvsTypeOK => /\ Latest \in Nat
                 /\ Latest # 0 => \E x \in NvsSlot : SlotValid(x) /\ SlotGeneration(x) = Latest

LEMMA LatestIsASlots == LatestFromSlots
<1> SUFFICES ASSUME NvsTypeOK
             PROVE  /\ Latest \in Nat
                    /\ Latest # 0 => \E x \in NvsSlot : SlotValid(x) /\ SlotGeneration(x) = Latest
  BY DEF LatestFromSlots
<1> QED BY NewestFacts DEF Latest, SlotGeneration

LEMMA LatestIsASlotsNext == LatestFromSlots'
BY LatestIsASlots, PTL

\* The converse reading: a valid slot the other one does not outrank is the one a
\* boot reads.
LEMMA NewestIs ==
    ASSUME NvsTypeOK, NEW s \in NvsSlot, SlotValid(s),
           SlotGeneration(1 - s) < SlotGeneration(s)
    PROVE  NvsNewest = nvs[s][0]
<1> s = 0 \/ s = 1 BY DEF NvsSlot
<1> 0 \in NvsSlot /\ 1 \in NvsSlot BY DEF NvsSlot
<1>1. CASE s = 0 BY <1>1, SlotFacts DEF NvsNewest, NvsNewestIsB
<1>2. CASE s = 1 BY <1>2, SlotFacts DEF NvsNewest, NvsNewestIsB
<1> QED BY <1>1, <1>2

\* A call that passed the generation check gets a slot that may be lost.
LEMMA PutJobOk ==
    ASSUME NvsTypeOK, NoTwins, NEW e \in NvsRecord, e.gen > Latest
    PROVE  LET j == PutJob(e) IN
           /\ j \in [op : NvsOp, env : Envelope, target : NvsSlot, next : Chunk]
           /\ SlotGeneration(1 - j.target) < e.gen
           /\ SlotValid(j.target) =>
                 SlotGeneration(j.target) < SlotGeneration(1 - j.target)
           /\ \A c \in Chunk : ~(c > j.next)
<1> DEFINE j == PutJob(e)
<1> 0 \in NvsSlot /\ 1 \in NvsSlot BY DEF NvsSlot
<1>0. e \in Envelope /\ e.gen \in Nat BY DEF NvsRecord, Envelope, Generation
<1>1. j \in [op : NvsOp, env : Envelope, target : NvsSlot, next : Chunk]
  BY <1>0, ChunksAssumption DEF PutJob, NvsOp, NvsSlot, Chunk
<1>2. j.next = Chunks - 1 BY DEF PutJob
<1>3. \A c \in Chunk : ~(c > j.next) BY <1>2, ChunksAssumption DEF Chunk
<1>4. SlotGeneration(1 - j.target) < e.gen
  <2>1. 1 - j.target \in NvsSlot BY <1>1 DEF NvsSlot
  <2> QED BY <1>0, <2>1, NewestFacts, SlotFacts
<1>5. ASSUME SlotValid(j.target)
      PROVE  SlotGeneration(j.target) < SlotGeneration(1 - j.target)
  <2>1. CASE Latest # 0 /\ ~NvsNewestIsB
    <3>1. j.target = 1 BY <2>1 DEF PutJob
    <3>2. SlotGeneration(0) # 0 BY <2>1, NewestFacts
    <3>3. SlotGeneration(1) # SlotGeneration(0)
      BY <1>5, <3>1, <3>2, SlotFacts DEF NoTwins
    <3> QED BY <2>1, <3>1, <3>3, SlotFacts DEF NvsNewestIsB
  <2>2. CASE ~(Latest # 0 /\ ~NvsNewestIsB)
    <3>1. j.target = 0 BY <2>2 DEF PutJob
    <3>2. SlotGeneration(0) # 0 BY <1>5, <3>1, SlotFacts
    <3>3. Latest # 0 BY <3>2, NewestFacts, SlotFacts
    <3> QED BY <2>2, <3>1, <3>3 DEF NvsNewestIsB
  <2> QED BY <2>1, <2>2
<1> QED BY <1>1, <1>3, <1>4, <1>5

\* Steps that leave the blobs alone leave every reading of them alone.
LEMMA NvsUnchanged ==
    ASSUME nvs' = nvs
    PROVE  /\ \A s \in NvsSlot : /\ SlotValid(s)' <=> SlotValid(s)
                                 /\ SlotGeneration(s)' = SlotGeneration(s)
           /\ NvsNewest' = NvsNewest
           /\ Latest' = Latest
           /\ NoTwins' <=> NoTwins
<1>1. /\ \A s : SlotValid(s)' <=> SlotValid(s)
      /\ \A s : SlotGeneration(s)' = SlotGeneration(s)
  BY DEF SlotValid, SlotGeneration
<1>2. NvsNewest' = NvsNewest BY <1>1 DEF NvsNewest, NvsNewestIsB
<1> QED BY <1>1, <1>2 DEF Latest, NoTwins

-----------------------------------------------------------------------------
(* The blob writes. *)

\* One putBytes touches its own slot only, and never makes that slot valid as
\* anything but the whole envelope of the call.
LEMMA PutChunkFacts ==
    ASSUME NvsTypeOK, JobOk, PutChunk, NEW t, t = job.target
    PROVE  /\ NvsTypeOK'
           /\ job'.target = t /\ job'.env = job.env
           /\ SlotValid(1 - t)' <=> SlotValid(1 - t)
           /\ nvs'[1 - t] = nvs[1 - t]
           /\ SlotGeneration(1 - t)' = SlotGeneration(1 - t)
           /\ nvs'[t][job.next] = job.env
           /\ \A c \in Chunk : c # job.next => nvs'[t][c] = nvs[t][c]
           /\ SlotValid(t)' => nvs'[t][0] = job.env /\ SlotGeneration(t)' = job.env.gen
<1> t \in NvsSlot /\ 1 - t \in NvsSlot /\ t # 1 - t BY DEF NvsTypeOK, NvsSlot
<1> job.next \in Chunk /\ job.env \in Envelope BY DEF NvsTypeOK
<1> 0 \in Chunk BY ChunksAssumption DEF Chunk
<1>1. nvs' = [nvs EXCEPT ![t][job.next] = job.env] BY DEF PutChunk
<1>2. NvsTypeOK'
  <2>1. nvs' \in [NvsSlot -> [Chunk -> Envelope]] BY <1>1 DEF NvsTypeOK
  <2>2. job' \in [op : NvsOp, env : Envelope, target : NvsSlot, next : Chunk]
    <3>1. CASE job.next = 0
      <4>1. job' = [job EXCEPT !.op = "verify"] BY <3>1 DEF PutChunk
      <4> QED BY <4>1 DEF NvsTypeOK, NvsOp
    <3>2. CASE job.next # 0
      <4>1. job' = [job EXCEPT !.next = job.next - 1] BY <3>2 DEF PutChunk
      <4>2. job.next - 1 \in Chunk BY <3>2, ChunksAssumption DEF Chunk
      <4> QED BY <4>1, <4>2 DEF NvsTypeOK
    <3> QED BY <3>1, <3>2
  <2> QED BY <2>1, <2>2 DEF NvsTypeOK, PutChunk
<1>3. nvs'[1 - t] = nvs[1 - t] BY <1>1 DEF NvsTypeOK
<1>4. /\ nvs'[t][job.next] = job.env
      /\ \A c \in Chunk : c # job.next => nvs'[t][c] = nvs[t][c]
  BY <1>1 DEF NvsTypeOK
<1>5. /\ SlotValid(1 - t)' <=> SlotValid(1 - t)
      /\ SlotGeneration(1 - t)' = SlotGeneration(1 - t)
  BY <1>3 DEF SlotValid, SlotGeneration
<1>6. SlotValid(t)' => nvs'[t][0] = job.env /\ SlotGeneration(t)' = job.env.gen
  BY <1>4 DEF SlotValid, SlotGeneration
<1>7. job'.target = t /\ job'.env = job.env BY DEF PutChunk, NvsTypeOK
<1> QED BY <1>2, <1>3, <1>4, <1>5, <1>6, <1>7

\* Hence what a boot reads either stays or becomes that envelope, which outranks it.
LEMMA PutChunkNewest ==
    ASSUME NvsTypeOK, JobOk, PutChunk, NEW t, t = job.target
    PROVE  \/ NvsNewest' = NvsNewest
           \/ NvsNewest' = job.env /\ Latest' = job.env.gen /\ job.env.gen > Latest
<1> t \in NvsSlot /\ 1 - t \in NvsSlot /\ (t = 0 \/ t = 1) BY DEF NvsTypeOK, NvsSlot
<1>0. /\ job.op = "put"
      /\ SlotGeneration(1 - t) < job.env.gen
      /\ job.env \in NvsRecord /\ job.env.gen \in Nat
  BY DEF PutChunk, JobOk, NvsRecord, Envelope, Generation
<1>1. CASE SlotValid(t)'
  <2>1. SlotGeneration(t)' = job.env.gen BY <1>1, PutChunkFacts
  <2>2. NvsNewest' = job.env
    BY <1>0, <1>1, <2>1, PutChunkFacts, SlotFacts DEF NvsNewest, NvsNewestIsB
  <2>3. Latest' = job.env.gen BY <2>2 DEF Latest
  <2>4. CASE SlotValid(t) /\ nvs[t][0] = job.env
    <3>1. SlotGeneration(t) = job.env.gen BY <2>4 DEF SlotGeneration
    <3>2. NvsNewest = job.env
      BY <1>0, <2>4, <3>1, SlotFacts DEF NvsNewest, NvsNewestIsB
    <3> QED BY <2>2, <3>2
  <2>5. CASE ~(SlotValid(t) /\ nvs[t][0] = job.env)
    <3>1. SlotGeneration(t) <= SlotGeneration(1 - t)
      BY <1>0, <2>5, SlotFacts DEF JobOk
    <3>2. Latest <= SlotGeneration(1 - t)
      <4>1. SlotGeneration(0) \in Nat /\ SlotGeneration(1) \in Nat
        BY SlotFacts DEF NvsSlot
      <4>2. Latest \in Nat /\ (Latest = 0 \/ Latest = SlotGeneration(0) \/ Latest = SlotGeneration(1))
        BY LatestIsASlots DEF LatestFromSlots, NvsSlot
      <4> QED BY <3>1, <4>1, <4>2
    <3>3. job.env.gen > Latest BY <1>0, <3>2, NewestFacts, SlotFacts
    <3> QED BY <2>2, <2>3, <3>3
  <2> QED BY <2>4, <2>5
<1>2. CASE ~SlotValid(t)'
  <2>1. ~(SlotValid(t) /\ nvs[t][0] = job.env)
    <3>1. SUFFICES ASSUME SlotValid(t), nvs[t][0] = job.env PROVE FALSE OBVIOUS
    <3>2. \A c \in Chunk : nvs[t][c] = job.env BY <3>1 DEF SlotValid
    <3>3. \A c \in Chunk : nvs'[t][c] = job.env BY <3>2, PutChunkFacts
    <3>4. 0 \in Chunk BY ChunksAssumption DEF Chunk
    <3>5. SlotValid(t)' BY <1>0, <3>3, <3>4 DEF SlotValid
    <3> QED BY <1>2, <3>5
  <2>2. SlotValid(t) => SlotGeneration(t) < SlotGeneration(1 - t)
    BY <1>0, <2>1 DEF JobOk
  <2>3. SlotGeneration(t)' = 0 BY <1>2 DEF SlotGeneration
  <2>4. CASE SlotValid(1 - t)
    <3>1. SlotGeneration(t) < SlotGeneration(1 - t)
      BY <2>2, <2>4, SlotFacts
    <3>2. NvsNewest = nvs[1 - t][0]
      BY <2>4, <3>1, SlotFacts DEF NvsNewest, NvsNewestIsB
    <3>3. NvsNewest' = nvs'[1 - t][0]
      BY <1>2, <2>3, <2>4, PutChunkFacts, SlotFacts DEF NvsNewest, NvsNewestIsB
    <3> QED BY <3>2, <3>3, PutChunkFacts
  <2>5. CASE ~SlotValid(1 - t)
    <3>1. ~SlotValid(t) BY <2>2, <2>5, SlotFacts
    <3>2. NvsNewest = NvsBlank BY <2>5, <3>1, SlotFacts DEF NvsNewest, NvsNewestIsB
    <3>3. NvsNewest' = NvsBlank
      BY <1>2, <2>3, <2>5, PutChunkFacts, SlotFacts DEF NvsNewest, NvsNewestIsB
    <3> QED BY <3>2, <3>3
  <2> QED BY <2>4, <2>5
<1> QED BY <1>1, <1>2

\* Erasing a key can only make slots invalid.
LEMMA EraseFacts ==
    ASSUME NvsTypeOK, NEW s \in NvsSlot, NEW c \in Chunk, EraseKey(s, c)
    PROVE  /\ NvsTypeOK'
           /\ \A x \in NvsSlot : SlotValid(x)' =>
                 SlotValid(x) /\ SlotGeneration(x)' = SlotGeneration(x)
           /\ Latest' <= Latest
<1>0. 0 \in Chunk BY ChunksAssumption DEF Chunk
<1>1. nvs' = [nvs EXCEPT ![s][c] = NvsBlank] BY DEF EraseKey
<1>2. NvsBlank \in Envelope /\ NvsBlank \notin NvsRecord
  BY MaxGenerationAssumption DEF NvsBlank, Envelope, NvsRecord, Generation
<1>3. NvsTypeOK' BY <1>1, <1>2 DEF NvsTypeOK, EraseKey
<1>4. ~SlotValid(s)' 
  <2>1. nvs'[s][c] = NvsBlank BY <1>1 DEF NvsTypeOK
  <2> QED BY <1>2, <2>1 DEF SlotValid
<1>5. \A x \in NvsSlot : x # s => nvs'[x] = nvs[x] BY <1>1 DEF NvsTypeOK
<1>6. \A x \in NvsSlot : SlotValid(x)' =>
         SlotValid(x) /\ SlotGeneration(x)' = SlotGeneration(x)
  BY <1>4, <1>5 DEF SlotValid, SlotGeneration
<1>7. Latest' <= Latest
  <2>1. /\ Latest' \in Nat
        /\ Latest' # 0 => \E x \in NvsSlot : SlotValid(x)' /\ SlotGeneration(x)' = Latest'
    BY <1>3, LatestIsASlotsNext DEF LatestFromSlots
  <2>2. CASE Latest' = 0 BY <2>2, NewestFacts
  <2>3. CASE Latest' # 0
    <3>1. PICK x \in NvsSlot : SlotValid(x)' /\ SlotGeneration(x)' = Latest' BY <2>1, <2>3
    <3> QED BY <1>6, <3>1, NewestFacts
  <2> QED BY <2>2, <2>3
<1> QED BY <1>3, <1>6, <1>7

-----------------------------------------------------------------------------
(* The inductive invariant. *)

LEMMA InitOk == NvsInit => NvsIInv
<1> SUFFICES ASSUME NvsInit PROVE NvsIInv OBVIOUS
<1>1. NvsBlank \in Envelope /\ NvsBlank \notin NvsRecord
  BY MaxGenerationAssumption DEF NvsBlank, Envelope, NvsRecord, Generation
<1>2. NvsTypeOK
  BY <1>1, MaxGenerationAssumption, ChunksAssumption
  DEF NvsInit, NvsTypeOK, Idle, NvsOp, NvsSlot, Chunk, Generation
<1>3. \A s \in NvsSlot : ~SlotValid(s)
  BY <1>1, ChunksAssumption DEF NvsInit, SlotValid, Chunk
<1>4. NoTwins BY <1>3 DEF NoTwins, NvsSlot
<1>5. JobOk BY DEF NvsInit, JobOk, Idle
<1>6. AckedSurvives BY DEF NvsInit, AckedSurvives, NvsBlank
<1> QED BY <1>2, <1>4, <1>5, <1>6 DEF NvsIInv

\* A step that leaves the blobs alone preserves what NvsIInv says of them and of the
\* acknowledged record.
LEMMA QuietStep ==
    ASSUME NvsIInv, nvs' = nvs, acked' = acked, sdSafe' \in Nat, sdSafe' >= sdSafe
    PROVE  NoTwins' /\ AckedSurvives'
<1> sdSafe \in Nat /\ acked.gen \in Nat
  BY MaxGenerationAssumption
  DEF NvsIInv, NvsTypeOK, Generation, NvsRecord, Envelope, NvsBlank
<1>1. NoTwins' BY NvsUnchanged DEF NvsIInv
<1>2. AckedSurvives' BY NvsUnchanged DEF NvsIInv, AckedSurvives
<1> QED BY <1>1, <1>2

\* Starting a put after its checks establishes what JobOk says of it.
LEMMA PutJobStarts ==
    ASSUME NvsTypeOK, NoTwins, NEW e \in NvsRecord, e.gen > Latest, nvs' = nvs,
           job' = PutJob(e)
    PROVE  JobOk' /\ job' \in [op : NvsOp, env : Envelope, target : NvsSlot, next : Chunk]
<1> DEFINE t == job'.target
<1>1. /\ job' \in [op : NvsOp, env : Envelope, target : NvsSlot, next : Chunk]
      /\ SlotGeneration(1 - t) < e.gen
      /\ SlotValid(t) => SlotGeneration(t) < SlotGeneration(1 - t)
      /\ \A c \in Chunk : ~(c > job'.next)
  BY PutJobOk
<1>2. job'.op = "put" /\ job'.env = e BY DEF PutJob
<1>3. /\ \A s : SlotValid(s)' <=> SlotValid(s)
      /\ \A s : SlotGeneration(s)' = SlotGeneration(s)
  BY DEF SlotValid, SlotGeneration
<1>4. /\ SlotGeneration(1 - job.target)' < e.gen
      /\ SlotValid(job.target)' =>
            SlotGeneration(job.target)' < SlotGeneration(1 - job.target)'
  BY <1>1 DEF SlotValid, SlotGeneration
<1> QED BY <1>1, <1>2, <1>4 DEF JobOk

LEMMA StepOk == NvsIInv /\ [NvsNext]_nvsVars => NvsIInv'
<1> SUFFICES ASSUME NvsIInv, [NvsNext]_nvsVars PROVE NvsIInv' OBVIOUS
<1> USE DEF NvsIInv
<1>0. /\ acked.gen \in Nat /\ sdSafe \in Nat /\ job.env.gen \in Nat
      /\ Idle \in [op : NvsOp, env : Envelope, target : NvsSlot, next : Chunk]
      /\ Latest \in Nat
  BY MaxGenerationAssumption, ChunksAssumption, NewestFacts
  DEF NvsTypeOK, Generation, NvsRecord, Envelope, NvsBlank, Idle, NvsOp, NvsSlot, Chunk
<1>1. ASSUME NEW d \in Data, NEW g \in Generation, NEW force \in BOOLEAN,
             CheckpointNoSd(d, g, force)
      PROVE  NvsIInv'
  <2> DEFINE e == [gen |-> IF g > Latest THEN g ELSE Latest + 1, data |-> d]
  <2>0. Latest <= MaxGeneration
    <3>1. NvsNewest \in NvsRecord \cup {NvsBlank} BY NewestFacts
    <3> QED BY <3>1, MaxGenerationAssumption
            DEF Latest, NvsRecord, Envelope, Generation, NvsBlank
  <2>1. e \in NvsRecord /\ e.gen > Latest
    BY <1>0, <1>1, <2>0, NoDataAssumption, MaxGenerationAssumption
    DEF CheckpointNoSd, NvsRecord, Envelope, Generation
  <2>2. /\ job' = PutJob(e)
        /\ nvs' = nvs /\ due' = due /\ acked' = acked /\ sdSafe' = sdSafe
    BY <1>1 DEF CheckpointNoSd
  <2> HIDE DEF e
  <2>3. JobOk' /\ job' \in [op : NvsOp, env : Envelope, target : NvsSlot, next : Chunk]
    BY <2>1, <2>2, PutJobStarts
  <2>4. NoTwins' /\ AckedSurvives' BY <1>0, <2>2, QuietStep
  <2> QED BY <2>2, <2>3, <2>4 DEF NvsTypeOK
<1>2. ASSUME NEW d \in Data, NEW g \in Generation, NEW force \in BOOLEAN,
             CheckpointSdMirror(d, g, force)
      PROVE  NvsIInv'
  <2> DEFINE e == [gen |-> g, data |-> d]
  <2>1. e \in NvsRecord /\ g \in Nat
    BY <1>2, NoDataAssumption, MaxGenerationAssumption
    DEF CheckpointSdMirror, NvsRecord, Envelope, Generation
  <2>2. /\ nvs' = nvs /\ due' = due /\ acked' = acked
        /\ sdSafe' \in Generation /\ sdSafe' >= sdSafe /\ sdSafe' >= g
    BY <1>0, <1>2, <2>1 DEF CheckpointSdMirror, NvsTypeOK
  <2>3. NoTwins' /\ AckedSurvives'
    BY <2>2, QuietStep, MaxGenerationAssumption DEF Generation
  <2>4. JobOk' /\ job' \in [op : NvsOp, env : Envelope, target : NvsSlot, next : Chunk]
    <3>1. CASE Latest = g
      <4>1. job' = [op |-> "erase", env |-> e, target |-> 0, next |-> 0]
        BY <1>2, <3>1 DEF CheckpointSdMirror
      <4>2. job' \in [op : NvsOp, env : Envelope, target : NvsSlot, next : Chunk]
        BY <4>1, <2>1, ChunksAssumption DEF NvsOp, NvsSlot, Chunk, NvsRecord
      <4>3. Latest' = Latest BY <2>2, NvsUnchanged
      <4>4. JobOk' BY <1>0, <2>1, <2>2, <3>1, <4>1, <4>3 DEF JobOk
      <4> QED BY <4>2, <4>4
    <3>2. CASE Latest # g
      <4>1. job' = PutJob(e) BY <1>2, <3>2 DEF CheckpointSdMirror
      <4>2. e.gen > Latest BY <1>0, <1>2, <2>1, <3>2 DEF CheckpointSdMirror
      <4> QED BY <2>1, <2>2, <4>1, <4>2, PutJobStarts
    <3> QED BY <3>1, <3>2
  <2> QED BY <2>2, <2>3, <2>4 DEF NvsTypeOK
<1>3. ASSUME NEW s \in NvsSlot, NEW c \in Chunk, EraseKey(s, c)
      PROVE  NvsIInv'
  <2>1. /\ NvsTypeOK'
        /\ \A x \in NvsSlot : SlotValid(x)' =>
              SlotValid(x) /\ SlotGeneration(x)' = SlotGeneration(x)
        /\ Latest' <= Latest
    BY <1>3, EraseFacts
  <2>2. job.op = "erase" /\ job' = job /\ acked' = acked /\ sdSafe' = sdSafe
    BY <1>3 DEF EraseKey
  <2>3. NoTwins' BY <2>1 DEF NoTwins, NvsSlot
  <2>4. Latest' \in Nat BY <2>1, LatestIsASlotsNext DEF LatestFromSlots
  <2>5. JobOk' BY <1>0, <2>1, <2>2, <2>4 DEF JobOk
  <2>6. AckedSurvives'
    <3>1. sdSafe >= Latest BY <1>0, <2>2 DEF JobOk
    <3>2. ~(acked.gen > sdSafe)
      BY <1>0, <2>2 DEF JobOk, AckedSurvives, Latest
    <3> QED BY <2>2, <3>2 DEF AckedSurvives
  <2> QED BY <2>1, <2>3, <2>5, <2>6
<1>4. CASE EraseDone
  <2>1. \A s \in NvsSlot : ~SlotValid(s)
    <3>1. 0 \in Chunk BY ChunksAssumption DEF Chunk
    <3> QED BY <1>4, <3>1 DEF EraseDone, SlotValid, NvsBlank, NvsRecord
  <2>2. Latest = 0 BY <2>1, NewestFacts, <1>0
  <2>3. job.env \in NvsRecord /\ job.env.gen > Latest
    BY <1>0, <1>4, <2>2 DEF EraseDone, JobOk, NvsRecord
  <2>4. /\ nvs' = nvs /\ acked' = acked /\ sdSafe' = sdSafe /\ due' = TRUE
        /\ job' = PutJob(job.env)
    BY <1>4 DEF EraseDone
  <2>5. JobOk' /\ job' \in [op : NvsOp, env : Envelope, target : NvsSlot, next : Chunk]
    BY <2>3, <2>4, PutJobStarts
  <2>6. NoTwins' /\ AckedSurvives' BY <1>0, <2>4, QuietStep
  <2> QED BY <2>4, <2>5, <2>6 DEF NvsTypeOK
<1>5. CASE PutChunk
  <2>t. PICK t : t = job.target OBVIOUS
  <2> t \in NvsSlot /\ 1 - t \in NvsSlot BY <2>t DEF NvsTypeOK, NvsSlot
  <2>0. /\ job.op = "put" /\ job.env \in NvsRecord /\ job.next \in Chunk
        /\ SlotGeneration(1 - t) < job.env.gen
        /\ \A c \in Chunk : c > job.next => nvs[t][c] = job.env
        /\ acked' = acked /\ sdSafe' = sdSafe
    BY <1>5, <2>t DEF PutChunk, JobOk, NvsTypeOK
  <2>1. /\ NvsTypeOK'
        /\ job'.target = t /\ job'.env = job.env
        /\ SlotValid(1 - t)' <=> SlotValid(1 - t)
        /\ SlotGeneration(1 - t)' = SlotGeneration(1 - t)
        /\ nvs'[t][job.next] = job.env
        /\ \A c \in Chunk : c # job.next => nvs'[t][c] = nvs[t][c]
        /\ SlotValid(t)' => nvs'[t][0] = job.env /\ SlotGeneration(t)' = job.env.gen
    BY <1>5, <2>t, PutChunkFacts
  <2>2. JobOk'
    <3>1. CASE job.next = 0
      <4>1. job'.op = "verify" BY <1>5, <3>1 DEF PutChunk, NvsTypeOK
      <4>2. \A c \in Chunk : nvs'[t][c] = job.env
        BY <2>0, <2>1, <3>1, ChunksAssumption DEF Chunk
      <4> QED BY <2>0, <2>1, <4>1, <4>2 DEF JobOk
    <3>2. CASE job.next # 0
      <4>1. job'.op = "put" /\ job'.next = job.next - 1
        BY <1>5, <2>0, <3>2 DEF PutChunk, NvsTypeOK
      <4>2. \A c \in Chunk : c > job'.next => nvs'[t][c] = job.env
        BY <2>0, <2>1, <4>1, ChunksAssumption DEF Chunk
      <4> QED BY <2>0, <2>1, <4>1, <4>2 DEF JobOk
    <3> QED BY <3>1, <3>2
  <2>3. NoTwins'
    <3>1. SlotValid(t)' => SlotGeneration(1 - t)' < SlotGeneration(t)'
      BY <2>0, <2>1
    <3> QED BY <1>0, <2>0, <2>1, <3>1, SlotFacts DEF NoTwins, NvsSlot
  <2>4. AckedSurvives'
    BY <1>0, <1>5, <2>0, PutChunkNewest DEF AckedSurvives, Latest
  <2> QED BY <2>1, <2>2, <2>3, <2>4
<1>6. CASE VerifyOk
  <2> DEFINE t == job.target
  <2> t \in NvsSlot /\ 1 - t \in NvsSlot BY DEF NvsTypeOK, NvsSlot
  <2>1. /\ nvs' = nvs /\ sdSafe' = sdSafe /\ job' = Idle /\ acked' = job.env
        /\ due' = FALSE /\ SlotValid(t) /\ job.env \in NvsRecord
        /\ SlotGeneration(1 - t) < job.env.gen
        /\ \A c \in Chunk : nvs[t][c] = job.env
    BY <1>6 DEF VerifyOk, JobOk
  <2>2. nvs[t][0] = job.env BY <2>1, ChunksAssumption DEF Chunk
  <2>3. SlotGeneration(t) = job.env.gen BY <2>1, <2>2 DEF SlotGeneration
  <2>4. NvsNewest = job.env
    BY <2>1, <2>2, <2>3, NewestIs
  <2>5. NoTwins' /\ NvsNewest' = NvsNewest BY <2>1, NvsUnchanged
  <2>6. AckedSurvives' BY <2>1, <2>4, <2>5 DEF AckedSurvives
  <2>7. JobOk' BY <2>1 DEF JobOk, Idle
  <2> QED BY <1>0, <2>1, <2>5, <2>6, <2>7 DEF NvsTypeOK
<1>7. ASSUME job' = Idle, nvs' = nvs, acked' = acked, sdSafe' = sdSafe,
             due' \in BOOLEAN
      PROVE  NvsIInv'
  <2>1. NoTwins' /\ AckedSurvives' BY <1>0, <1>7, QuietStep
  <2>2. JobOk' BY <1>7 DEF JobOk, Idle
  <2> QED BY <1>0, <1>7, <2>1, <2>2 DEF NvsTypeOK
<1>8. ASSUME job' = job, nvs' = nvs, acked' = acked, sdSafe' = sdSafe,
             due' \in BOOLEAN
      PROVE  NvsIInv'
  <2>1. NoTwins' /\ AckedSurvives' BY <1>0, <1>8, QuietStep
  <2>2. JobOk' BY <1>8, NvsUnchanged DEF JobOk, SlotValid, SlotGeneration
  <2> QED BY <1>8, <2>1, <2>2 DEF NvsTypeOK
<1>9. CASE CallFails BY <1>7, <1>9 DEF CallFails, NvsTypeOK
<1>10. CASE NvsCrash BY <1>7, <1>10 DEF NvsCrash
<1>11. CASE CheckpointBecomesDue BY <1>8, <1>11 DEF CheckpointBecomesDue
<1>12. CASE SetCheckpointBaseline BY <1>8, <1>12 DEF SetCheckpointBaseline
<1>13. CASE UNCHANGED nvsVars BY <1>8, <1>13 DEF nvsVars, NvsTypeOK
<1> QED
  BY <1>1, <1>2, <1>3, <1>4, <1>5, <1>6, <1>9, <1>10, <1>11, <1>12, <1>13 DEF NvsNext

\* Every reachable state satisfies the inductive invariant.
THEOREM Invariant == NvsSpec => []NvsIInv
BY InitOk, StepOk, PTL DEF NvsSpec

\* The store's variables keep their types: no generation passes UINT32_MAX.
THEOREM TypeCorrect == NvsSpec => []NvsTypeOK
<1>1. NvsIInv => NvsTypeOK BY DEF NvsIInv
<1> QED BY <1>1, Invariant, PTL

\* A record reported Written is not lost to any reset or failed write that follows.
THEOREM Durability == NvsSpec => []AckedSurvives
<1>1. NvsIInv => AckedSurvives BY DEF NvsIInv
<1> QED BY <1>1, Invariant, PTL

\* The newest slot is never ambiguous.
THEOREM Unambiguous == NvsSpec => []NoTwins
<1>1. NvsIInv => NoTwins BY DEF NvsIInv
<1> QED BY <1>1, Invariant, PTL

-----------------------------------------------------------------------------
(* The store implements StableRecord. *)

\* Erasing shows an older record through or leaves what a boot reads as it was.
LEMMA EraseNewest ==
    ASSUME NvsIInv, NEW s \in NvsSlot, NEW c \in Chunk, EraseKey(s, c)
    PROVE  \/ NvsNewest' = NvsNewest
           \/ NvsNewest' \in NvsRecord \cup {NvsBlank} /\ Latest' < Latest
<1> USE DEF NvsIInv
<1>0. 0 \in NvsSlot /\ 1 \in NvsSlot /\ (s = 0 \/ s = 1) /\ \A x \in NvsSlot : x = 0 \/ x = 1
  BY DEF NvsSlot
<1>1. nvs' = [nvs EXCEPT ![s][c] = NvsBlank] BY DEF EraseKey
<1>2. NvsBlank \notin NvsRecord BY DEF NvsBlank, NvsRecord
<1>3. ~SlotValid(s)'
  <2>1. nvs'[s][c] = NvsBlank BY <1>1 DEF NvsTypeOK
  <2> QED BY <1>2, <2>1 DEF SlotValid
<1>4. PICK o \in NvsSlot : o = 1 - s BY DEF NvsSlot
<1>5. nvs'[o] = nvs[o] BY <1>0, <1>1, <1>4 DEF NvsTypeOK
<1>6. (SlotValid(o)' <=> SlotValid(o)) /\ SlotGeneration(o)' = SlotGeneration(o)
  BY <1>5 DEF SlotValid, SlotGeneration
<1>7. SlotGeneration(s)' = 0 BY <1>3 DEF SlotGeneration
<1>8. CASE SlotValid(o)
  <2>1. SlotGeneration(o) > 0 /\ nvs[o][0] \in NvsRecord BY <1>8, SlotFacts
  <2>2. NvsNewest' = nvs[o][0]
    <3>1. CASE s = 0
      <4>1. o = 1 BY <1>4, <3>1
      <4> QED BY <1>5, <1>6, <1>7, <1>8, <2>1, <3>1, <4>1 DEF NvsNewest, NvsNewestIsB
    <3>2. CASE s = 1
      <4>1. o = 0 BY <1>4, <3>2
      <4>2. SlotGeneration(0) \in Nat BY SlotFacts, <1>0
      <4> QED BY <1>5, <1>6, <1>7, <1>8, <3>2, <4>1, <4>2 DEF NvsNewest, NvsNewestIsB
    <3> QED BY <1>0, <3>1, <3>2
  <2>3. CASE SlotGeneration(s) < SlotGeneration(o)
    <3>1. NvsNewest = nvs[o][0]
      BY <1>0, <1>4, <1>8, <2>3, SlotFacts DEF NvsNewest, NvsNewestIsB
    <3> QED BY <2>2, <3>1
  <2>4. CASE ~(SlotGeneration(s) < SlotGeneration(o))
    <3>1. SlotValid(s) /\ SlotGeneration(s) > SlotGeneration(o)
      BY <1>0, <1>4, <1>8, <2>1, <2>4, SlotFacts DEF NoTwins
    <3>2. Latest >= SlotGeneration(s) BY NewestFacts
    <3>3. Latest' = SlotGeneration(o) BY <1>8, <2>2 DEF Latest, SlotGeneration
    <3> QED BY <2>1, <2>2, <3>1, <3>2, <3>3, SlotFacts, NewestFacts
  <2> QED BY <2>3, <2>4
<1>9. CASE ~SlotValid(o)
  <2>1. NvsNewest' = NvsBlank
    BY <1>0, <1>3, <1>4, <1>6, <1>7, <1>9, SlotFacts DEF NvsNewest, NvsNewestIsB
  <2>2. Latest' = 0 BY <2>1 DEF Latest, NvsBlank
  <2>3. CASE Latest = 0 BY <2>1, <2>3, NewestFacts
  <2>4. CASE Latest # 0 BY <2>1, <2>2, <2>4, NewestFacts
  <2> QED BY <2>3, <2>4
<1> QED BY <1>8, <1>9

LEMMA StepRefines == NvsIInv /\ [NvsNext]_nvsVars => [Stable!Next]_(Stable!vars)
<1> SUFFICES ASSUME NvsIInv, [NvsNext]_nvsVars
             PROVE  Stable!Next \/ UNCHANGED <<NvsNewest, job.env, Mode>>
  BY DEF Stable!vars
<1> USE DEF NvsIInv
<1>0. /\ Latest \in Nat /\ Latest <= MaxGeneration
      /\ NvsNewest \in NvsRecord \cup {NvsBlank}
  <2>1. Latest \in Nat /\ NvsNewest \in NvsRecord \cup {NvsBlank} BY NewestFacts
  <2> QED BY <2>1, MaxGenerationAssumption
          DEF Latest, NvsRecord, Envelope, Generation, NvsBlank
<1>1. ASSUME NEW e \in NvsRecord, e.gen > Latest, job.op = "idle", nvs' = nvs,
             job' = PutJob(e)
      PROVE  Stable!Next
  <2>1. NvsNewest' = NvsNewest BY <1>1, NvsUnchanged
  <2>2. Mode = "idle" /\ Mode' = "put" /\ job'.env = e BY <1>1 DEF Mode, PutJob
  <2>3. Stable!BeginPut(e) BY <1>1, <2>1, <2>2 DEF Stable!BeginPut, Latest
  <2> QED BY <2>3 DEF Stable!Next
<1>2. ASSUME NEW d \in Data, NEW g \in Generation, NEW force \in BOOLEAN,
             CheckpointNoSd(d, g, force)
      PROVE  Stable!Next
  <2> DEFINE e == [gen |-> IF g > Latest THEN g ELSE Latest + 1, data |-> d]
  <2>1. e \in NvsRecord /\ e.gen > Latest
    BY <1>0, <1>2, NoDataAssumption, MaxGenerationAssumption
    DEF CheckpointNoSd, NvsRecord, Envelope, Generation
  <2>2. job' = PutJob(e) /\ nvs' = nvs /\ job.op = "idle" BY <1>2 DEF CheckpointNoSd
  <2> HIDE DEF e
  <2> QED BY <1>1, <2>1, <2>2
<1>3. ASSUME NEW d \in Data, NEW g \in Generation, NEW force \in BOOLEAN,
             CheckpointSdMirror(d, g, force)
      PROVE  Stable!Next
  <2> DEFINE e == [gen |-> g, data |-> d]
  <2>1. e \in NvsRecord /\ g \in Nat /\ nvs' = nvs /\ job.op = "idle"
    BY <1>3, NoDataAssumption, MaxGenerationAssumption
    DEF CheckpointSdMirror, NvsRecord, Envelope, Generation
  <2>2. CASE Latest = g
    <3>1. job' = [op |-> "erase", env |-> e, target |-> 0, next |-> 0]
      BY <1>3, <2>2 DEF CheckpointSdMirror
    <3>2. NvsNewest' = NvsNewest BY <2>1, NvsUnchanged
    <3>3. Mode = "idle" /\ Mode' = "replace" /\ job'.env = e
      BY <2>1, <3>1 DEF Mode
    <3>4. Stable!BeginReplace(e)
      BY <2>1, <2>2, <3>2, <3>3 DEF Stable!BeginReplace, Latest
    <3> QED BY <2>1, <3>4 DEF Stable!Next
  <2>3. CASE Latest # g
    <3>1. job' = PutJob(e) /\ e.gen > Latest
      BY <1>0, <1>3, <2>1, <2>3 DEF CheckpointSdMirror
    <3> HIDE DEF e
    <3> QED BY <1>1, <2>1, <3>1
  <2> QED BY <2>2, <2>3
<1>4. ASSUME NEW s \in NvsSlot, NEW c \in Chunk, EraseKey(s, c)
      PROVE  Stable!Next \/ UNCHANGED <<NvsNewest, job.env, Mode>>
  <2>1. job.op = "erase" /\ job' = job BY <1>4 DEF EraseKey
  <2>2. Mode = "replace" /\ UNCHANGED <<job.env, Mode>> BY <2>1 DEF Mode
  <2>3. CASE NvsNewest' = NvsNewest BY <2>2, <2>3
  <2>4. CASE NvsNewest' \in NvsRecord \cup {NvsBlank} /\ Latest' < Latest
    <3>1. Stable!Withdraw BY <2>2, <2>4 DEF Stable!Withdraw, Latest
    <3> QED BY <3>1 DEF Stable!Next
  <2> QED BY <1>4, <2>3, <2>4, EraseNewest
<1>5. CASE EraseDone
  <2>1. \A s \in NvsSlot : ~SlotValid(s)
    <3>1. 0 \in Chunk BY ChunksAssumption DEF Chunk
    <3> QED BY <1>5, <3>1 DEF EraseDone, SlotValid, NvsBlank, NvsRecord
  <2>2. NvsNewest = NvsBlank BY <2>1, NewestFacts, <1>0
  <2>3. NvsNewest' = NvsNewest BY <1>5, NvsUnchanged DEF EraseDone
  <2>4. Mode = "replace" /\ Mode' = "put" /\ job'.env = job.env
    BY <1>5 DEF EraseDone, Mode, PutJob
  <2>5. Stable!Withdrawn BY <2>2, <2>3, <2>4 DEF Stable!Withdrawn
  <2> QED BY <2>5 DEF Stable!Next
<1>6. CASE PutChunk
  <2>1. PICK t : t = job.target OBVIOUS
  <2>2. job'.env = job.env BY <1>6, <2>1, PutChunkFacts
  <2>3. job.op = "put" /\ job'.op \in {"put", "verify"}
    BY <1>6 DEF PutChunk, NvsTypeOK
  <2>4. Mode = "put" /\ Mode' = Mode BY <2>3 DEF Mode
  <2>5. CASE NvsNewest' = NvsNewest BY <2>2, <2>4, <2>5
  <2>6. CASE NvsNewest' = job.env /\ job.env.gen > Latest
    <3>1. Stable!TakeEffect BY <2>2, <2>4, <2>6 DEF Stable!TakeEffect, Latest
    <3> QED BY <3>1 DEF Stable!Next
  <2> QED BY <1>6, <2>1, <2>5, <2>6, PutChunkNewest
<1>7. ASSUME job' = Idle, nvs' = nvs
      PROVE  Stable!Next \/ UNCHANGED <<NvsNewest, job.env, Mode>>
  <2>1. NvsNewest' = NvsNewest BY <1>7, NvsUnchanged
  <2>2. job'.env = NvsBlank /\ Mode' = "idle" BY <1>7 DEF Idle, Mode
  <2>3. CASE job.op = "idle"
    <3>1. job = Idle BY <2>3 DEF JobOk
    <3> QED BY <1>7, <2>1, <3>1 DEF Mode
  <2>4. CASE job.op # "idle"
    <3>1. Mode # "idle" BY <2>4 DEF Mode
    <3>2. Stable!End BY <2>1, <2>2, <3>1 DEF Stable!End
    <3> QED BY <3>2 DEF Stable!Next
  <2> QED BY <2>3, <2>4
<1>8. ASSUME job' = job, nvs' = nvs
      PROVE  UNCHANGED <<NvsNewest, job.env, Mode>>
  BY <1>8, NvsUnchanged DEF Mode
<1>9. CASE VerifyOk BY <1>7, <1>9 DEF VerifyOk
<1>10. CASE CallFails BY <1>7, <1>10 DEF CallFails
<1>11. CASE NvsCrash BY <1>7, <1>11 DEF NvsCrash
<1>12. CASE CheckpointBecomesDue BY <1>8, <1>12 DEF CheckpointBecomesDue
<1>13. CASE SetCheckpointBaseline BY <1>8, <1>13 DEF SetCheckpointBaseline
<1>14. CASE UNCHANGED nvsVars BY <1>8, <1>14 DEF nvsVars
<1> QED
  BY <1>2, <1>3, <1>4, <1>5, <1>6, <1>9, <1>10, <1>11, <1>12, <1>13, <1>14 DEF NvsNext

\* The two slots implement one durable record: a put takes effect whole or not at all.
THEOREM Implementation == NvsSpec => ImplementsStableRecord
<1>1. NvsInit => Stable!Init
  <2> SUFFICES ASSUME NvsInit PROVE Stable!Init OBVIOUS
  <2>1. \A s \in NvsSlot : ~SlotValid(s)
    BY ChunksAssumption DEF NvsInit, SlotValid, Chunk, NvsBlank, NvsRecord
  <2>2. NvsNewest = NvsBlank
    BY <2>1 DEF NvsNewest, NvsNewestIsB, SlotGeneration, NvsSlot
  <2> QED BY <2>2 DEF NvsInit, Stable!Init, Idle, Mode
<1> QED BY <1>1, StepRefines, Invariant, PTL DEF NvsSpec, Stable!Spec, ImplementsStableRecord

\* No step lowers the generation a boot reads, mirrored erasure apart.
THEOREM NoRegress == NvsSpec => GenerationNeverRegresses
<1>1. NvsIInv /\ [NvsNext]_nvsVars => Latest' >= Latest \/ sdSafe >= Latest \/ UNCHANGED nvsVars
  <2> SUFFICES ASSUME NvsIInv, NvsNext PROVE Latest' >= Latest \/ sdSafe >= Latest
    BY DEF nvsVars
  <2>0. Latest \in Nat BY NewestFacts DEF NvsIInv
  <2>1. CASE nvs' = nvs BY <2>0, <2>1, NvsUnchanged
  <2>2. CASE job.op = "erase"
    BY <2>0, <2>2, MaxGenerationAssumption
    DEF NvsIInv, JobOk, NvsTypeOK, Generation, Envelope
  <2>3. CASE PutChunk
    <3>1. PICK t : t = job.target OBVIOUS
    <3>2. job.env.gen \in Nat BY DEF NvsIInv, NvsTypeOK, Envelope, Generation
    <3>3. NvsNewest' = NvsNewest \/ (Latest' = job.env.gen /\ job.env.gen > Latest)
      BY <2>3, <3>1, PutChunkNewest DEF NvsIInv
    <3> QED BY <2>0, <3>2, <3>3 DEF Latest
  <2> QED BY <2>1, <2>2, <2>3
          DEF NvsNext, CheckpointNoSd, CheckpointSdMirror, EraseKey, EraseDone, VerifyOk,
              CallFails, NvsCrash, CheckpointBecomesDue, SetCheckpointBaseline
<1> QED BY <1>1, Invariant, PTL DEF NvsSpec, GenerationNeverRegresses
=============================================================================
