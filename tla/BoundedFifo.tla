---------------------------- MODULE BoundedFifo -----------------------------
(***************************************************************************)
(* What the queue between the callbacks and the loop task promises: what   *)
(* is taken is what was put, in that order; something is refused only when *)
(* the queue is full, and every refusal is counted.                        *)
(***************************************************************************)
EXTENDS Naturals, Sequences

CONSTANTS Item, Bound, MaxRefused

VARIABLES fifo, refused

FifoInit == fifo = <<>> /\ refused = 0

Put(v) == Len(fifo) < Bound /\ fifo' = Append(fifo, v) /\ UNCHANGED refused

Refuse ==
    /\ Len(fifo) = Bound
    /\ refused' = IF refused < MaxRefused THEN refused + 1 ELSE refused
    /\ UNCHANGED fifo

Take == fifo # <<>> /\ fifo' = Tail(fifo) /\ UNCHANGED refused

FifoNext == (\E v \in Item : Put(v)) \/ Refuse \/ Take
FifoSpec == FifoInit /\ [][FifoNext]_<<fifo, refused>>
=============================================================================
