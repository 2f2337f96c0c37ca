----------------------------- MODULE AsyncQueue -----------------------------
(***************************************************************************)
(* HaAsyncQueue (hotspot-arcade-cardputer/ha_async_queue.h): the ring in   *)
(* which callbacks of the AsyncTCP task and the loop itself leave sounds   *)
(* for the loop to play.  Each call is one critical section.               *)
(***************************************************************************)
EXTENDS Naturals, Sequences

CONSTANTS Request,      \* HaSoundRequest
          Unset,        \* what an item is before it is first used
          Capacity,     \* 8
          MaxDropped    \* UINT32_MAX

ASSUME QueueAssumption == Capacity \in Nat \ {0} /\ MaxDropped \in Nat

VARIABLES
    items,              \* _items
    head, tail, count,  \* _head, _tail, _count
    dropped             \* _dropped

queueVars == <<items, head, tail, count, dropped>>

QueueInit ==
    /\ items = [i \in 0 .. Capacity - 1 |-> Unset]
    /\ head = 0 /\ tail = 0 /\ count = 0 /\ dropped = 0

\* Fault: the oldest request makes room for the newest.
Push_Overwrites(v) ==
    /\ items' = [items EXCEPT ![tail] = v]
    /\ tail' = (tail + 1) % Capacity
    /\ count' = IF count = Capacity THEN count ELSE count + 1
    /\ UNCHANGED <<head, dropped>>

\* push
Push(v) ==
    IF count = Capacity
    THEN /\ dropped' = IF dropped # MaxDropped THEN dropped + 1 ELSE dropped
         /\ UNCHANGED <<items, head, tail, count>>
    ELSE /\ items' = [items EXCEPT ![tail] = v]
         /\ tail' = (tail + 1) % Capacity
         /\ count' = count + 1
         /\ UNCHANGED <<head, dropped>>

\* pop, once in a pass of the loop
Pop ==
    /\ count # 0
    /\ head' = (head + 1) % Capacity
    /\ count' = count - 1
    /\ UNCHANGED <<items, tail, dropped>>

QueueNext == (\E v \in Request : Push(v)) \/ Pop
QueueSpec == QueueInit /\ [][QueueNext]_queueVars

-----------------------------------------------------------------------------
(* Properties. *)

\* The inductive invariant: where the ring ends is where it begins and how much it holds.
RingOK ==
    /\ items \in [0 .. Capacity - 1 -> Request \cup {Unset}]
    /\ head \in 0 .. Capacity - 1 /\ tail \in 0 .. Capacity - 1 /\ count \in 0 .. Capacity
    /\ dropped \in 0 .. MaxDropped
    /\ tail = (head + count) % Capacity

\* What is queued, oldest first.
Queued == [i \in 1 .. count |-> items[(head + i - 1) % Capacity]]

Fifo == INSTANCE BoundedFifo WITH
            fifo <- Queued, refused <- dropped,
            Item <- Request, Bound <- Capacity, MaxRefused <- MaxDropped

\* ha_async_queue.h, "Small bounded multi-producer queue": what the loop plays is what the
\* callbacks left, in their order, and what was refused, because Capacity requests were
\* waiting, is counted.
ImplementsFifo == Fifo!FifoSpec
=============================================================================
