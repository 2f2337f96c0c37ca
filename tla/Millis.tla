------------------------------- MODULE Millis -------------------------------
(***************************************************************************)
(* millis(): an unsigned clock that wraps, and the two ways the firmware   *)
(* measures with it - the unsigned time since an instant, and the signed   *)
(* time that is left to a deadline.                                        *)
(***************************************************************************)
EXTENDS Integers

CONSTANT Word           \* 2^32

ASSUME WordAssumption == Word \in Nat \ {0}

VARIABLE clock

Time == 0 .. Word - 1

\* uint32_t subtraction.
Since(now, then) == (now - then) % Word

\* haAuthRemaining: the difference as an int32_t, nothing when it is negative.
Remaining(now, deadline) ==
    LET ahead == (deadline - now) % Word IN IF 2 * ahead < Word THEN ahead ELSE 0

Ticks == clock' = (clock + 1) % Word
=============================================================================
