--------------------------- MODULE StableRecord ----------------------------
(***************************************************************************)
(* What a two-slot store promises its caller, whatever is cut short: one   *)
(* durable record.  A put of a higher generation takes effect whole or not *)
(* at all; only a replacement, whose caller holds the same generation on   *)
(* another medium, may lose the record it replaces.                        *)
(***************************************************************************)
EXTENDS Naturals

CONSTANT Record,   \* every record with a non-zero generation
         Blank     \* no record; its generation is 0

VARIABLES
    record,        \* what a boot would read
    goal,          \* the record being stored
    mode           \* "idle", "put" or "replace"

vars == <<record, goal, mode>>

Init ==
    /\ record = Blank
    /\ goal = Blank
    /\ mode = "idle"

BeginPut(e) ==
    /\ mode = "idle"
    /\ e.gen > record.gen
    /\ goal' = e
    /\ mode' = "put"
    /\ UNCHANGED record

BeginReplace(e) ==
    /\ mode = "idle"
    /\ e.gen = record.gen
    /\ goal' = e
    /\ mode' = "replace"
    /\ UNCHANGED record

\* An older record of the same store may show through, never a newer one.
Withdraw ==
    /\ mode = "replace"
    /\ record' \in Record \cup {Blank}
    /\ record'.gen < record.gen
    /\ UNCHANGED <<goal, mode>>

Withdrawn ==
    /\ mode = "replace"
    /\ record = Blank
    /\ mode' = "put"
    /\ UNCHANGED <<record, goal>>

TakeEffect ==
    /\ mode = "put"
    /\ goal.gen > record.gen
    /\ record' = goal
    /\ UNCHANGED <<goal, mode>>

\* The call returns, or a reset ends it.
End ==
    /\ mode # "idle"
    /\ goal' = Blank
    /\ mode' = "idle"
    /\ UNCHANGED record

Next ==
    \/ \E e \in Record : BeginPut(e) \/ BeginReplace(e)
    \/ Withdraw
    \/ Withdrawn
    \/ TakeEffect
    \/ End

Spec == Init /\ [][Next]_vars
=============================================================================
