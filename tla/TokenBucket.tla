---------------------------- MODULE TokenBucket -----------------------------
(***************************************************************************)
(* The inbound rate limit of one class of messages on one socket           *)
(* (hotspot-arcade-cardputer/ha_network_policy.h, haInboundAllow): tokens  *)
(* are counted in fractions of a message, and what a division leaves over  *)
(* is carried to the next one.                                             *)
(***************************************************************************)
EXTENDS Millis

CONSTANTS Burst,        \* messages the bucket holds
          Num, Den,     \* Num messages in Den milliseconds
          Unit,         \* 65536, the fractions of a message
          MaxAge        \* bound: milliseconds the bucket is observed

ASSUME RateAssumption ==
    /\ Burst \in Nat \ {0} /\ Num \in Nat \ {0} /\ Den \in Nat \ {0}
    /\ Unit \in Nat \ {0} /\ Den <= Unit /\ MaxAge \in Nat

VARIABLES
    bucket,     \* HaTokenBucket
    total,      \* history, since a moment one likes: ms passed, messages let through
    sinceFull   \* history, since the bucket was last full: ms it saw pass, messages let through

bucketVars == <<bucket, total, sinceFull>>

Cap    == Burst * Unit
Bucket == [tokens : 0 .. Cap, rem : 0 .. Den - 1, last : Time]

\* haInboundLimiterReset, at any time of the clock.
BucketInit ==
    /\ clock \in Time
    /\ bucket = [tokens |-> Cap, rem |-> 0, last |-> clock]
    /\ total = [ms |-> 0, heard |-> 0]
    /\ sinceFull = [ms |-> 0, heard |-> 0]

\* The tokens of the time since the last message; a full bucket keeps the remainder.
Earned(b, elapsed)  == elapsed * Unit * Num + b.rem
Uncapped(b, elapsed) == b.tokens + Earned(b, elapsed) \div Den

\* Fault: what the division leaves over is lost.
Refilled_Truncated(b, now) ==
    LET elapsed == Since(now, b.last) IN
    [tokens |-> IF Uncapped(b, elapsed) > Cap THEN Cap ELSE Uncapped(b, elapsed),
     rem |-> 0, last |-> now]

\* Fault: what the bucket cannot hold is kept.
Refilled_Uncapped(b, now) ==
    LET elapsed == Since(now, b.last) IN
    [tokens |-> Uncapped(b, elapsed), rem |-> Earned(b, elapsed) % Den, last |-> now]

Refilled(b, now) ==
    LET elapsed == Since(now, b.last) IN
    [tokens |-> IF Uncapped(b, elapsed) > Cap THEN Cap ELSE Uncapped(b, elapsed),
     rem |-> Earned(b, elapsed) % Den,
     last |-> now]

Allows(b, now) == Refilled(b, now).tokens >= Unit

\* A message of the class arrives: haInboundAllow.
InboundAllow ==
    LET now      == clock
        filled   == Refilled(bucket, now)
        spilled  == Uncapped(bucket, Since(now, bucket.last)) > Cap
        heard    == IF Allows(bucket, now) THEN 1 ELSE 0
    IN
    /\ bucket' = [filled EXCEPT !.tokens = IF Allows(bucket, now) THEN @ - Unit ELSE @]
    /\ total' = [total EXCEPT !.heard = @ + heard]
    /\ sinceFull' = IF spilled THEN [ms |-> 0, heard |-> heard]
                    ELSE [ms |-> sinceFull.ms + Since(now, bucket.last),
                          heard |-> sinceFull.heard + heard]
    /\ UNCHANGED clock

BucketElapse ==
    /\ total.ms < MaxAge /\ sinceFull.ms < MaxAge
    /\ Ticks
    /\ total' = [total EXCEPT !.ms = @ + 1]
    /\ UNCHANGED <<bucket, sinceFull>>

\* The count may begin at any moment.
Watch ==
    /\ total' = [ms |-> 0, heard |-> 0]
    /\ UNCHANGED <<clock, bucket, sinceFull>>

BucketNext == InboundAllow \/ BucketElapse \/ Watch
BucketSpec == BucketInit /\ [][BucketNext]_<<clock, bucketVars>>

-----------------------------------------------------------------------------
(* Properties. *)

\* docs/ARCHITECTURE.md, "Inbound token buckets": from any moment on, a socket gets no more
\* messages through than the burst and the rate allow, however the clock wraps.
RateKept == total.heard * Den <= Burst * Den + Num * total.ms

\* The same, of the socket that keeps to the rate: a message is refused only when the
\* messages since the bucket was full, with this one, exceed the burst and the rate.
PaceHeard ==
    [][ InboundAllow /\ total' = total =>
            (sinceFull'.heard + 1) * Den > Burst * Den + Num * sinceFull'.ms ]_<<clock, bucketVars>>
=============================================================================
