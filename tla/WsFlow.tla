------------------------------- MODULE WsFlow -------------------------------
(***************************************************************************)
(* Outbound flow control of one WebSocket client (hotspot-arcade-          *)
(* cardputer/ha_ws_flow_policy.h and .ino 236-345, 427-465).               *)
(*                                                                         *)
(* The engine's messages go through haWsSendWs under ENGINE_LOCK; the      *)
(* AsyncTCP task takes acknowledged messages off the library's queue       *)
(* without that lock, so the queue may shrink between the depth a call     *)
(* reads and the message it then enqueues.  A message is abstracted to its *)
(* class and, for a snapshot, its version.                                 *)
(***************************************************************************)
EXTENDS Naturals, Sequences, FiniteSets

CONSTANTS CoalesceDepth,       \* HA_WS_COALESCE_DEPTH
          StreamDropDepth,     \* HA_WS_STREAM_DROP_DEPTH
          ControlCloseDepth,   \* HA_WS_CONTROL_CLOSE_DEPTH
          TrackerCapacity,     \* HA_WS_TRACKED_QUEUE_CAPACITY
          MaxVersion           \* bound: snapshots of each kind the engine issues

ASSUME DepthAssumption ==
    /\ {CoalesceDepth, StreamDropDepth, ControlCloseDepth, TrackerCapacity} \subseteq Nat \ {0}
    /\ CoalesceDepth <= StreamDropDepth
    /\ StreamDropDepth + ControlCloseDepth < TrackerCapacity
ASSUME MaxVersionAssumption == MaxVersion \in Nat

Kind  == {"lobby", "state"}
Class == {"control", "lobby", "state", "stream", "stateStream"}

\* haWsOutputIsReplaceable, haWsOutputIsStream, haWsDirtyChoiceForOutput
Replaceable == {"lobby", "state", "stateStream"}
Stream      == {"stream", "stateStream"}
KindOf(c)   == IF c = "lobby" THEN "lobby" ELSE "state"

\* A snapshot has a version; the content of the other messages does not matter.
Message == [class : Replaceable, version : 1 .. MaxVersion]
             \cup [class : Class \ Replaceable, version : {0}]

VARIABLES
    queue,      \* the library's queue of this client
    tracker,    \* HaWsQueueTracker: which of the queued messages are controls
    cache,      \* flow.lobby and flow.state with their dirty bits, 0 when clean
    open,       \* FALSE once the client was closed
    job,        \* the call in progress
    issued,     \* history: the last version of each kind the engine issued
    taken       \* history: the last version of each kind taken off the queue

flowVars == <<queue, tracker, cache, open, job, issued, taken>>

None == [op |-> "none", class |-> "control", attempt |-> 0]
Job  == [op : {"none", "send", "recheck", "enqueue", "flush", "retry"},
         class : Class, attempt : 0 .. 2]

FlowInit ==
    /\ queue = <<>> /\ tracker = <<>>
    /\ cache = [k \in Kind |-> 0]
    /\ open = TRUE
    /\ job = None
    /\ issued = [k \in Kind |-> 0] /\ taken = [k \in Kind |-> 0]

-----------------------------------------------------------------------------
(* The policy. *)

Controls(s) == Cardinality({i \in DOMAIN s : s[i] = "control"})
Tracked(c)  == IF c = "control" THEN "control" ELSE "other"

\* haWsQueueObserve: the oldest entries went first; growth unseen is no control.
Observed(depth) ==
    [i \in 1 .. depth |->
        LET j == i + Len(tracker) - depth IN
        IF depth <= Len(tracker) THEN tracker[j]
        ELSE IF i <= Len(tracker) THEN tracker[i] ELSE "other"]

\* haWsChooseOutputAction
Drops(c, depth)        == c \in Stream /\ depth >= StreamDropDepth
Coalesces(c, depth)    == c \in Replaceable /\ depth >= CoalesceDepth
Overloads(c, controls) == c = "control" /\ controls >= ControlCloseDepth

\* haWsChooseDirtyRetry
Retry(depth) ==
    IF depth >= CoalesceDepth THEN {}
    ELSE IF cache["lobby"] # 0 THEN {"lobby"}
    ELSE IF cache["state"] # 0 THEN {"state"} ELSE {}

Done == job' = None

\* haWsCacheState; the version cached is the one just issued.
Cached(c) == cache' = [cache EXCEPT ![KindOf(c)] = issued'[KindOf(c)]]

-----------------------------------------------------------------------------
(* haWsSendWs *)

\* The engine sends a message: the depth is read, and the policy chooses.
Send(c) ==
    /\ open /\ job = None
    /\ c \in Replaceable => issued[KindOf(c)] < MaxVersion
    /\ issued' = IF c \in Replaceable THEN [issued EXCEPT ![KindOf(c)] = @ + 1] ELSE issued
    /\ tracker' = Observed(Len(queue))
    /\ IF Drops(c, Len(queue)) \/ Coalesces(c, Len(queue))
       THEN Done /\ IF c \in Replaceable THEN Cached(c) ELSE UNCHANGED cache
       ELSE /\ job' = [None EXCEPT !.class = c,
                           !.op = IF Overloads(c, Controls(tracker')) THEN "recheck" ELSE "enqueue"]
            /\ UNCHANGED cache
    /\ UNCHANGED <<queue, open, taken>>

\* Fault: the count is not read again.
Recheck_Stale ==
    /\ job.op = "recheck"
    /\ open' = FALSE /\ Done
    /\ UNCHANGED <<queue, tracker, cache, issued, taken>>

\* Before it closes the client the call reads the depth again.
Recheck ==
    /\ job.op = "recheck"
    /\ tracker' = Observed(Len(queue))
    /\ IF Overloads(job.class, Controls(tracker'))
       THEN open' = FALSE /\ Done
       ELSE open' = open /\ job' = [job EXCEPT !.op = "enqueue"]
    /\ UNCHANGED <<queue, cache, issued, taken>>

\* Fault: an older snapshot stays in the cache and is flushed later.
Recorded_KeepCache(m) ==
    /\ queue' = Append(queue, m)
    /\ tracker' = IF Len(tracker) < TrackerCapacity THEN Append(tracker, Tracked(m.class)) ELSE tracker
    /\ open' = (Len(tracker) < TrackerCapacity)
    /\ cache' = cache

\* Fault: every message counts as a control.
Recorded_AllControls(m) ==
    /\ queue' = Append(queue, m)
    /\ tracker' = IF Len(tracker) < TrackerCapacity THEN Append(tracker, "control") ELSE tracker
    /\ open' = (Len(tracker) < TrackerCapacity)
    /\ cache' = IF m.class \in Replaceable THEN [cache EXCEPT ![KindOf(m.class)] = 0] ELSE cache

\* client->text succeeded: haWsQueueRecord, then haWsRetireSupersededCache; a tracker
\* that has no room closes the client.
Recorded(m) ==
    /\ queue' = Append(queue, m)
    /\ IF Len(tracker) < TrackerCapacity
       THEN /\ tracker' = Append(tracker, Tracked(m.class))
            /\ cache' = IF m.class \in Replaceable
                        THEN [cache EXCEPT ![KindOf(m.class)] = 0] ELSE cache
            /\ open' = open
       ELSE open' = FALSE /\ UNCHANGED <<tracker, cache>>

SendEnqueued ==
    /\ job.op = "enqueue"
    /\ Len(queue) < TrackerCapacity
    /\ Recorded([class |-> job.class,
                 version |-> IF job.class \in Replaceable THEN issued[KindOf(job.class)] ELSE 0])
    /\ Done
    /\ UNCHANGED <<issued, taken>>

\* Fault: a failed snapshot is dropped like a stream message.
SendFails_Dropped ==
    /\ job.op = "enqueue"
    /\ open' = (job.class # "control")
    /\ Done
    /\ UNCHANGED <<queue, tracker, cache, issued, taken>>

\* haWsChooseSendFailureAction: the library may refuse any message.
SendFails ==
    /\ job.op = "enqueue"
    /\ open' = (job.class # "control")
    /\ IF job.class \in Replaceable
       THEN cache' = [cache EXCEPT ![KindOf(job.class)] = issued[KindOf(job.class)]]
       ELSE cache' = cache
    /\ Done
    /\ UNCHANGED <<queue, tracker, issued, taken>>

-----------------------------------------------------------------------------
(* haWsFlushDirty *)

\* One attempt: the depth is read; below the coalescing depth a cached snapshot is sent.
FlushLooks(attempt) ==
    /\ tracker' = Observed(Len(queue))
    /\ IF attempt = 2 \/ Retry(Len(queue)) = {} THEN Done
       ELSE \E k \in Retry(Len(queue)) :
                job' = [op |-> "retry", class |-> k, attempt |-> attempt + 1]
    /\ UNCHANGED <<queue, cache, open, issued, taken>>

\* Fault: a cached game state is not looked for.
FlushBegins_LobbyOnly ==
    /\ open /\ job = None
    /\ cache["lobby"] # 0
    /\ FlushLooks(0)

\* Called by every pass of the loop task; without a dirty snapshot it does nothing.
FlushBegins ==
    /\ open /\ job = None
    /\ \E k \in Kind : cache[k] # 0
    /\ FlushLooks(0)

FlushGoesOn == job.op = "flush" /\ FlushLooks(job.attempt)

FlushEnqueued ==
    /\ job.op = "retry"
    /\ Len(queue) < TrackerCapacity
    /\ Recorded([class |-> job.class, version |-> cache[job.class]])
    /\ IF open' THEN job' = [job EXCEPT !.op = "flush"] ELSE Done
    /\ UNCHANGED <<issued, taken>>

\* The snapshot stays cached for a later pass.
FlushFails ==
    /\ job.op = "retry"
    /\ Done
    /\ UNCHANGED <<queue, tracker, cache, open, issued, taken>>

-----------------------------------------------------------------------------
(* The other tasks. *)

\* The AsyncTCP task: the oldest message was acknowledged and leaves the queue.
Ack ==
    /\ open /\ queue # <<>>
    /\ queue' = Tail(queue)
    /\ LET m == Head(queue) IN
       taken' = IF m.class \in Replaceable THEN [taken EXCEPT ![KindOf(m.class)] = m.version]
                ELSE taken
    /\ UNCHANGED <<tracker, cache, open, job, issued>>

\* The client is gone and another takes its place: haWsFlowEnd, haWsFlowBegin.
Reconnect ==
    /\ ~open
    /\ queue' = <<>> /\ tracker' = <<>>
    /\ cache' = [k \in Kind |-> 0]
    /\ open' = TRUE
    /\ issued' = [k \in Kind |-> 0] /\ taken' = [k \in Kind |-> 0]
    /\ UNCHANGED job

Sends  == \E c \in Class : Send(c)
Calls  == Recheck \/ SendEnqueued \/ SendFails
Flush  == FlushBegins \/ FlushGoesOn \/ FlushEnqueued \/ FlushFails

FlowNext == Sends \/ Calls \/ Flush \/ Ack \/ Reconnect

FlowSpec == FlowInit /\ [][FlowNext]_flowVars

\* A call ends, the loop task flushes in every pass, a connected client acknowledges
\* or is dropped, and memory for a refused message is found some time.
Fairness ==
    /\ WF_flowVars(Calls) /\ WF_flowVars(FlushBegins \/ FlushGoesOn) /\ WF_flowVars(FlushEnqueued \/ FlushFails)
    /\ SF_flowVars(FlushEnqueued)
    /\ WF_flowVars(Ack)

FairFlowSpec == FlowSpec /\ Fairness

-----------------------------------------------------------------------------
(* Properties. *)

TypeOK ==
    /\ queue \in Seq(Message) /\ Len(queue) <= TrackerCapacity
    /\ tracker \in Seq({"control", "other"}) /\ Len(tracker) <= TrackerCapacity
    /\ cache \in [Kind -> 0 .. MaxVersion]
    /\ open \in BOOLEAN
    /\ job \in Job
    /\ issued \in [Kind -> 0 .. MaxVersion] /\ taken \in [Kind -> 0 .. MaxVersion]

\* HaWsQueueTracker: however the queue drained since it was last read, the newest
\* entries of the tracker are the messages still queued.
TrackerAligned ==
    open => /\ Len(queue) <= Len(tracker)
            /\ \A i \in DOMAIN queue :
                   tracker[i + Len(tracker) - Len(queue)] = Tracked(queue[i].class)

\* haWsSendWs: the policy keeps the queue short enough that neither the library nor the
\* tracker is ever full, so "outbound tracking failure" cannot happen.
NeverFull ==
    open => /\ Len(queue) < TrackerCapacity
            /\ job.op \in {"enqueue", "retry"} => Len(tracker) < TrackerCapacity

\* The tracker and the library's queue, together.
QueuesAgree == TypeOK /\ TrackerAligned /\ NeverFull

Snapshot(m, k) == m.class \in Replaceable /\ KindOf(m.class) = k

\* The snapshots of one kind are taken in the order the engine issued them ...
Ordered ==
    open => \A k \in Kind : \A i \in DOMAIN queue : Snapshot(queue[i], k) =>
        /\ taken[k] < queue[i].version
        /\ \A j \in DOMAIN queue :
               i < j /\ Snapshot(queue[j], k) => queue[i].version < queue[j].version
        /\ cache[k] # 0 => queue[i].version < cache[k]

\* ... and the newest one is taken, queued, cached or being enqueued.
NewestNotLost ==
    open => \A k \in Kind :
        \/ issued[k] \in {taken[k], cache[k]}
        \/ \E i \in DOMAIN queue : Snapshot(queue[i], k) /\ queue[i].version = issued[k]
        \/ job.op = "enqueue" /\ job.class \in Replaceable /\ KindOf(job.class) = k

\* haWsSendWs, haWsDirtyRetireSuperseded: however snapshots are coalesced, refused and
\* flushed, a client sees those of one kind in their order and the newest is never lost.
SnapshotsKept == Ordered /\ NewestNotLost

\* HA_WS_CONTROL_CLOSE_DEPTH: an overload close happens only while that many controls
\* are unacknowledged at that moment.
ClosedOnlyWhenOverloaded ==
    [][ job.op = "recheck" /\ ~open' =>
            Cardinality({i \in DOMAIN queue : queue[i].class = "control"}) >= ControlCloseDepth ]_flowVars

\* haWsFlushDirty: once the engine is quiet, a client that stays connected has the
\* newest snapshot of each kind.
NewestDelivered ==
    (<>[][~Sends]_flowVars) => <>[](~open \/ taken = issued)
=============================================================================
